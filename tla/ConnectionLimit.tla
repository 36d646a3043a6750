--------------------------- MODULE ConnectionLimit ---------------------------
(***************************************************************************)
(* The main process of mini_ftpd: the accept loop of main(), the three     *)
(* tables of connection_limit.cpp, the SIGCHLD handler that interrupts the *)
(* loop between any two instructions, and the child processes it forks.    *)
(*                                                                         *)
(* The increments of increase_connection() are compiled (CMakeLists.txt    *)
(* asks for no optimisation) into a load, an addition and a store, so each *)
(* is two steps here, and the reference ip2conncount[ip] is looked up in a *)
(* step before them.  The handler runs to completion before the loop goes  *)
(* on, so one iteration of its waitpid() loop is one step.  An absent key  *)
(* of ip2conncount and a key with value 0 behave alike: both are 0 here.   *)
(***************************************************************************)
EXTENDS Integers, FiniteSets

CONSTANTS
  Pids,            \* process ids the kernel hands out; reused once reaped
  Ips,             \* client addresses
  MaximumClients,  \* config.maximum_clients, 0: no limit
  MaxConnsPerIp,   \* config.max_conns_per_ip, 0: no limit
  CountBound       \* exploration bound: no accept() while a counter is there

ASSUME ConstantsAssumption ==
  /\ IsFiniteSet(Pids)
  /\ Ips # {}
  /\ MaximumClients \in Nat
  /\ MaxConnsPerIp \in Nat
  /\ CountBound \in Nat

VARIABLES
  pc,            \* next step of main()'s loop, or "dead"
  conn_ip,       \* client_addr.sin_addr.s_addr of the current iteration
  reg,           \* the register between the load and the store of a ++
  new_pid,       \* what fork() returned to main(), a set of at most one pid
  dangling,      \* the entry main() holds a reference to has been erased
  client_count,  \* connections, as main() counts them
  ip2conncount,  \* ip -> connections from that ip, as main() counts them
  pid2ip,        \* pid of a child -> ip it serves
  sigchld,       \* SIGCHLD is pending for the main process
  in_handler,    \* sigchld_handler() is running, main()'s loop is suspended
  proc,          \* the kernel's table of forked, not yet reaped children
  torn           \* history: the counters that lost an update to a race

local == <<conn_ip, reg, new_pid, dangling>>
tables == <<client_count, ip2conncount, pid2ip>>
sigs == <<sigchld, in_handler>>
vars == <<pc, local, tables, sigs, proc, torn>>

Points == {"accept", "load_count", "store_count", "lookup_ip", "load_ip",
           "store_ip", "fork", "record", "dead"}

\* A child: its ip, its state, and its copy of the two counters it will test.
Child == [state : {"checking", "serving", "zombie"}, ip : Ips,
          clients : Nat, conns : Nat]

In(s) == {p \in DOMAIN proc : proc[p].state = s}
Serving == In("serving")
Live == In("checking") \cup In("serving")
Zombies == In("zombie")
OfIp(S, ip) == {p \in S : proc[p].ip = ip}

Assign(f, k, v) == [x \in DOMAIN f \cup {k} |-> IF x = k THEN v ELSE f[x]]
Erase(f, k) == [x \in DOMAIN f \ {k} |-> f[x]]

Init ==
  /\ pc = "accept"
  /\ conn_ip \in Ips
  /\ reg = 0
  /\ new_pid = {}
  /\ dangling = FALSE
  /\ client_count = 0
  /\ ip2conncount = [ip \in Ips |-> 0]
  /\ pid2ip = [p \in {} |-> conn_ip]
  /\ sigchld = FALSE
  /\ in_handler = FALSE
  /\ proc = [p \in {} |-> 0]
  /\ torn = {}
-----------------------------------------------------------------------------
(***************************************************************************)
(* The accept loop.                                                        *)
(***************************************************************************)
At(point) == pc = point /\ ~in_handler

Accept(ip) ==
  /\ At("accept")
  /\ client_count < CountBound /\ ip2conncount[ip] < CountBound
  /\ conn_ip' = ip
  /\ pc' = "load_count"
  /\ UNCHANGED <<reg, new_pid, dangling, tables, sigs, proc, torn>>

\* accept() and fork() report an error: main() exits, its children live on.
AcceptFails ==
  /\ At("accept")
  /\ pc' = "dead"
  /\ UNCHANGED <<local, tables, sigs, proc, torn>>

ForkFails ==
  /\ At("fork")
  /\ pc' = "dead"
  /\ UNCHANGED <<local, tables, sigs, proc, torn>>

\* ++client_count
LoadCount ==
  /\ At("load_count")
  /\ reg' = client_count
  /\ pc' = "store_count"
  /\ UNCHANGED <<conn_ip, new_pid, dangling, tables, sigs, proc, torn>>

BugStoreCount ==  \* mutant: the register is stored back without the addition
  /\ At("store_count")
  /\ client_count' = reg
  /\ reg' = 0
  /\ pc' = "lookup_ip"
  /\ UNCHANGED <<conn_ip, new_pid, dangling, ip2conncount, pid2ip, sigs, proc, torn>>

StoreCount ==
  /\ At("store_count")
  /\ client_count' = reg + 1
  /\ reg' = 0
  /\ pc' = "lookup_ip"
  /\ UNCHANGED <<conn_ip, new_pid, dangling, ip2conncount, pid2ip, sigs, proc, torn>>

\* ++ip2conncount[ip]: operator[] yields a reference, then load and store.
LookupIp ==
  /\ At("lookup_ip")
  /\ dangling' = FALSE
  /\ pc' = "load_ip"
  /\ UNCHANGED <<conn_ip, reg, new_pid, tables, sigs, proc, torn>>

LoadIp ==
  /\ At("load_ip")
  /\ reg' = ip2conncount[conn_ip]
  /\ pc' = "store_ip"
  /\ UNCHANGED <<conn_ip, new_pid, dangling, tables, sigs, proc, torn>>

\* A store through a dangling reference goes to freed memory: it is lost.
StoreIp ==
  /\ At("store_ip")
  /\ ip2conncount' = IF dangling THEN ip2conncount
                                 ELSE [ip2conncount EXCEPT ![conn_ip] = reg + 1]
  /\ reg' = 0
  /\ dangling' = FALSE
  /\ pc' = "fork"
  /\ UNCHANGED <<conn_ip, new_pid, client_count, pid2ip, sigs, proc, torn>>

\* mutant: fork() before increase_connection()
BugCopyAtFork == [state |-> "checking", ip |-> conn_ip,
                  clients |-> client_count - 1, conns |-> ip2conncount[conn_ip] - 1]

\* The memory image the child gets: both counters already count the child.
CopyAtFork == [state |-> "checking", ip |-> conn_ip,
               clients |-> client_count, conns |-> ip2conncount[conn_ip]]

Fork(p) ==
  /\ At("fork")
  /\ p \notin DOMAIN proc
  /\ proc' = Assign(proc, p, CopyAtFork)
  /\ new_pid' = {p}
  /\ pc' = "record"
  /\ UNCHANGED <<conn_ip, reg, dangling, tables, sigs, torn>>

\* pid2ip[pid] = ip
Record(p) ==
  /\ At("record")
  /\ p \in new_pid
  /\ pid2ip' = Assign(pid2ip, p, conn_ip)
  /\ new_pid' = {}
  /\ pc' = "accept"
  /\ UNCHANGED <<conn_ip, reg, dangling, client_count, ip2conncount, sigs, proc, torn>>
-----------------------------------------------------------------------------
(***************************************************************************)
(* sigchld_handler().  SIGCHLD is blocked while it runs; several exits     *)
(* before it starts are merged into one pending signal.                    *)
(***************************************************************************)
HandlerEnter ==
  /\ pc # "dead"
  /\ sigchld /\ ~in_handler
  /\ sigchld' = FALSE
  /\ in_handler' = TRUE
  /\ UNCHANGED <<pc, local, tables, proc, torn>>

\* The reference of ++ip2conncount[ip] is live between look-up and store.
HoldsReference(ip) == pc \in {"load_ip", "store_ip"} /\ conn_ip = ip

\* mutant: the branch for a count of one does not erase the entry
BugDecreaseCounters(ip) ==
  /\ client_count' = client_count - 1
  /\ ip2conncount' = IF ip2conncount[ip] <= 1 THEN ip2conncount
                     ELSE [ip2conncount EXCEPT ![ip] = @ - 1]
  /\ dangling' = dangling

\* --client_count and the four branches on the entry of ip2conncount.
DecreaseCounters(ip) ==
  /\ client_count' = client_count - 1
  /\ ip2conncount' = IF ip2conncount[ip] <= 0 THEN ip2conncount
                     ELSE [ip2conncount EXCEPT ![ip] = @ - 1]
  /\ dangling' = (dangling \/ (HoldsReference(ip) /\ ip2conncount[ip] = 1))

\* The counters whose update this decrement destroys, or is destroyed by.
TornBy(ip) ==
  (IF pc = "store_count" THEN {"client_count"} ELSE {})
    \cup (IF HoldsReference(ip) /\ (pc = "store_ip" \/ ip2conncount[ip] = 1)
          THEN {ip} ELSE {})

BugReap(p) ==  \* mutant: the entry of pid2ip is not erased
  /\ in_handler
  /\ p \in Zombies \cap DOMAIN pid2ip
  /\ DecreaseCounters(pid2ip[p])
  /\ torn' = torn \cup TornBy(pid2ip[p])
  /\ proc' = Erase(proc, p)
  /\ UNCHANGED <<pc, conn_ip, reg, new_pid, pid2ip, sigs>>

\* waitpid() returned p, and decrease_connection(p) knows it.
Reap(p) ==
  /\ in_handler
  /\ p \in Zombies \cap DOMAIN pid2ip
  /\ DecreaseCounters(pid2ip[p])
  /\ torn' = torn \cup TornBy(pid2ip[p])
  /\ pid2ip' = Erase(pid2ip, p)
  /\ proc' = Erase(proc, p)
  /\ UNCHANGED <<pc, conn_ip, reg, new_pid, sigs>>

\* waitpid() returned p, which is no key of pid2ip: decrease_connection()
\* reports it and goes on to read end()->second, a null node pointer.
ReapUnknown(p) ==
  /\ in_handler
  /\ p \in Zombies \ DOMAIN pid2ip
  /\ proc' = Erase(proc, p)
  /\ in_handler' = FALSE
  /\ pc' = "dead"
  /\ UNCHANGED <<local, tables, sigchld, torn>>

BugHandlerReturn ==  \* mutant: one waitpid() for each signal, no loop
  /\ in_handler
  /\ in_handler' = FALSE
  /\ UNCHANGED <<pc, local, tables, sigchld, proc, torn>>

HandlerReturn ==
  /\ in_handler
  /\ Zombies = {}
  /\ in_handler' = FALSE
  /\ UNCHANGED <<pc, local, tables, sigchld, proc, torn>>
-----------------------------------------------------------------------------
(***************************************************************************)
(* The children.  One that passes check_connection_limit() serves its      *)
(* client as the nobody process of start_ftp_service(), until it exits.    *)
(***************************************************************************)
\* mutants: one client too many; the test of the address left out
BugTotalTest(c) ==
  \/ MaximumClients > 0 /\ c.clients > MaximumClients + 1
  \/ MaxConnsPerIp > 0 /\ c.conns > MaxConnsPerIp
BugNoIpTest(c) == MaximumClients > 0 /\ c.clients > MaximumClients

OverLimit(c) ==
  \/ MaximumClients > 0 /\ c.clients > MaximumClients
  \/ MaxConnsPerIp > 0 /\ c.conns > MaxConnsPerIp

Exit(p) ==
  /\ proc' = [proc EXCEPT ![p].state = "zombie"]
  /\ sigchld' = (sigchld \/ pc # "dead")
  /\ UNCHANGED <<pc, local, tables, in_handler, torn>>

Refuse(p) ==
  /\ p \in In("checking")
  /\ OverLimit(proc[p])
  /\ Exit(p)

Serve(p) ==
  /\ p \in In("checking")
  /\ ~OverLimit(proc[p])
  /\ proc' = [proc EXCEPT ![p].state = "serving"]
  /\ UNCHANGED <<pc, local, tables, sigs, torn>>

Finish(p) ==
  /\ p \in Serving
  /\ Exit(p)
-----------------------------------------------------------------------------
Main ==
  \/ \E ip \in Ips : Accept(ip)
  \/ AcceptFails \/ ForkFails
  \/ LoadCount \/ StoreCount \/ LookupIp \/ LoadIp \/ StoreIp
  \/ \E p \in Pids : Fork(p) \/ Record(p)

Handler ==
  \/ HandlerEnter \/ HandlerReturn
  \/ \E p \in Pids : Reap(p) \/ ReapUnknown(p)

Children == \E p \in Pids : Refuse(p) \/ Serve(p) \/ Finish(p)

Next == Main \/ Handler \/ Children

Spec == Init /\ [][Next]_vars

-----------------------------------------------------------------------------
TypeOK ==
  /\ pc \in Points
  /\ conn_ip \in Ips
  /\ reg \in Nat
  /\ new_pid \in SUBSET Pids
  /\ dangling \in BOOLEAN
  /\ client_count \in Nat
  /\ ip2conncount \in [Ips -> Nat]
  /\ DOMAIN pid2ip \subseteq Pids
  /\ pid2ip \in [DOMAIN pid2ip -> Ips]
  /\ sigchld \in BOOLEAN
  /\ in_handler \in BOOLEAN
  /\ DOMAIN proc \subseteq Pids
  /\ proc \in [DOMAIN proc -> Child]
  /\ torn \subseteq {"client_count"} \cup Ips

\* However the handler, the loop and the children interleave, the clients
\* being served never exceed maximum_clients: check_connection_limit() tests
\* a copy made at fork(), and lost updates only ever count too many.
TotalLimit ==
  MaximumClients > 0 => Cardinality(Serving) <= MaximumClients

\* The limit per address holds as long as no decrement of that address has
\* hit the increment of increase_connection(): that race is the only way past
\* check_connection_limit().
PerIpLimitUnlessTorn ==
  MaxConnsPerIp > 0 =>
    \A ip \in Ips \ torn : Cardinality(OfIp(Serving, ip)) <= MaxConnsPerIp

\* A counter that lost no update is exact at every instant: the unreaped
\* children, plus the connection main() has counted and not yet forked for.
CountersExactUnlessTorn ==
  pc # "dead" =>
    /\ "client_count" \notin torn =>
         client_count = Cardinality(DOMAIN proc)
           + (IF pc \in {"lookup_ip", "load_ip", "store_ip", "fork"} THEN 1 ELSE 0)
    /\ \A ip \in Ips \ torn :
         ip2conncount[ip] = Cardinality(OfIp(DOMAIN proc, ip))
           + (IF pc = "fork" /\ conn_ip = ip THEN 1 ELSE 0)

\* pid2ip names exactly the unreaped children, each with its own address,
\* except the child main() has just forked: no stale entry survives to be
\* found again when its pid is reused.
Tracked ==
  pc # "dead" =>
    /\ DOMAIN pid2ip = DOMAIN proc \ new_pid
    /\ \A p \in DOMAIN pid2ip : pid2ip[p] = proc[p].ip

\* Exits merged into one signal are not forgotten: while a child is a
\* zombie, SIGCHLD is pending or the handler's waitpid() loop is running.
NoLostZombie ==
  (pc # "dead" /\ Zombies # {}) => sigchld \/ in_handler

\* Every child that exits is reaped, unless the main process is gone.
EventuallyReaped ==
  \A p \in Pids : p \in Zombies ~> (p \notin Zombies \/ pc = "dead")

\* client_count never counts too few, and neither does what main() is about
\* to store into it: lost updates are always lost decrements.
NeverUndercounts ==
  pc # "dead" =>
    /\ client_count >= Cardinality(DOMAIN proc)
         + (IF pc \in {"lookup_ip", "load_ip", "store_ip", "fork"} THEN 1 ELSE 0)
    /\ pc = "store_count" => reg >= Cardinality(DOMAIN proc)

\* In every group of living children, the one forked last holds a copy of
\* client_count that counts the whole group: the tests of the group cannot
\* all pass when it is larger than the limit.
CopiesCoverGroups ==
  \A S \in SUBSET Live :
    S # {} => \E p \in S : proc[p].clients >= Cardinality(S)

\* A child that serves has passed the test of check_connection_limit().
ServingPassedTest ==
  MaximumClients > 0 => \A p \in Serving : proc[p].clients <= MaximumClients

\* The handler runs only inside a living main process.
HandlerNeedsMain == in_handler => pc # "dead"

\* The inductive invariant behind TotalLimit.
IInv == /\ TypeOK
        /\ HandlerNeedsMain
        /\ NeverUndercounts
        /\ CopiesCoverGroups
        /\ ServingPassedTest

\* The server implements the abstract admission control for its total limit.
Abstract == INSTANCE Admission
              WITH Clients <- Pids, Limit <- MaximumClients, admitted <- Serving
AbstractSpec == Abstract!Spec
-----------------------------------------------------------------------------
(***************************************************************************)
(* What the documentation says and the code does not do.                   *)
(***************************************************************************)
\* readme.md: the handler deletes pid2ip[pid] and decrements the counters.
\* For that, the pid that waitpid() returns has to be in pid2ip.
HandlerKnowsPid == in_handler => Zombies \subseteq DOMAIN pid2ip

\* readme.md: a client over the limit of its address is turned away.
PerIpLimit ==
  MaxConnsPerIp > 0 =>
    \A ip \in Ips : Cardinality(OfIp(Serving, ip)) <= MaxConnsPerIp
=============================================================================
