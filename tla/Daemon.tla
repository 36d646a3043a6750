-------------------------------- MODULE Daemon --------------------------------
(***************************************************************************)
(* The main process together with the two processes of every session.      *)
(* What ConnectionLimit calls serving is only the nobody process, the      *)
(* child that main() knows: start_ftp_service() forks a second one, the    *)
(* FTP process, which is the one that talks to the client.  A slot is free *)
(* again when the FTP process is gone, the nobody process has noticed that *)
(* at its end of the socketpair, and main() has reaped it.                 *)
(***************************************************************************)
EXTENDS ConnectionLimit

CONSTANT MaxOrphans  \* exploration bound: FTP processes without a helper

ASSUME MaxOrphansAssumption == MaxOrphans \in Nat

VARIABLES
  paired,  \* nobody processes whose FTP process lives
  alone,   \* nobody processes whose FTP process is gone
  stuck,   \* those of them get_char() has given a byte that is no way out
  orphans  \* FTP processes whose nobody process is gone: only their number

sessions == <<paired, alone, stuck, orphans>>
allVars == <<vars, sessions>>

DaemonInit ==
  /\ Init
  /\ paired = {} /\ alone = {} /\ stuck = {}
  /\ orphans = 0
-----------------------------------------------------------------------------
Starting == Serving \ (paired \cup alone)

\* Everything that happens outside start_ftp_service().
Outside ==
  /\ Main \/ Handler \/ \E p \in Pids : Refuse(p) \/ Serve(p)
  /\ UNCHANGED sessions

ForkFtp(p) ==
  /\ p \in Starting
  /\ paired' = paired \cup {p}
  /\ UNCHANGED <<vars, alone, stuck, orphans>>

\* socketpair() or fork() fails: the child exits and serves nobody.
ForkFtpFails(p) ==
  /\ p \in Starting
  /\ Finish(p)
  /\ UNCHANGED sessions

\* QUIT, a lost client, a timeout, a fault.
FtpExits(p) ==
  /\ p \in paired
  /\ paired' = paired \ {p}
  /\ alone' = alone \cup {p}
  /\ UNCHANGED <<vars, stuck, orphans>>

\* get_char() at end of file gave 0, and the helper exits, or a command, whose
\* answer SIGPIPE ends it on.
HelperFollows(p) ==
  /\ p \in alone
  /\ Finish(p)
  /\ alone' = alone \ {p}
  /\ stuck' = stuck \ {p}
  /\ UNCHANGED <<paired, orphans>>

\* The byte get_char() never wrote is neither: it is reported as unknown, and
\* the loop reads end of file again.
HelperSpins(p) ==
  /\ p \in alone
  /\ stuck' = stuck \cup {p}
  /\ UNCHANGED <<vars, paired, alone, orphans>>

\* The nobody process ends while its FTP process lives: create_nobody_process()
\* or create_server_or_exit() fails, it reads an address as the command 0.
HelperLost(p) ==
  /\ p \in paired
  /\ orphans < MaxOrphans
  /\ Finish(p)
  /\ paired' = paired \ {p}
  /\ orphans' = orphans + 1
  /\ UNCHANGED <<alone, stuck>>

OrphanExits ==
  /\ orphans > 0
  /\ orphans' = orphans - 1
  /\ UNCHANGED <<vars, paired, alone, stuck>>
-----------------------------------------------------------------------------
HelperReads(p) == p \notin stuck /\ (HelperFollows(p) \/ HelperSpins(p))

DaemonNext ==
  \/ Outside \/ OrphanExits
  \/ \E p \in Pids : ForkFtp(p) \/ ForkFtpFails(p) \/ FtpExits(p) \/ HelperLost(p)
  \/ \E p \in Pids : HelperFollows(p) \/ HelperSpins(p)

DaemonSpec == DaemonInit /\ [][DaemonNext]_allVars

\* Signals are delivered, and a read at end of file returns; what the byte
\* is, and whether it ever changes, nobody promises.
DaemonFairSpec ==
  /\ DaemonSpec
  /\ WF_allVars(Handler /\ UNCHANGED sessions)
  /\ \A p \in Pids : WF_allVars(HelperReads(p))
-----------------------------------------------------------------------------
\* The nobody processes are children that main() has counted and not reaped.
DaemonTypeOK ==
  /\ paired \subseteq Serving /\ alone \subseteq Serving
  /\ paired \cap alone = {}
  /\ stuck \subseteq alone
  /\ orphans \in 0 .. MaxOrphans

\* However the processes of the sessions come and go, maximum_clients bounds the
\* nobody processes, those included whose FTP process has gone: an FTP process
\* without one is all that can pass the limit.
HelpersWithinLimit ==
  MaximumClients > 0 => Cardinality(paired \cup alone) <= MaximumClients

\* When a session is over its slot is freed: the nobody process follows the
\* FTP process, its exit reaches the main process and its pid leaves the
\* tables, unless get_char()'s uninitialised byte keeps it or main() is gone.
FreedUnlessStuck ==
  \A p \in Pids :
    p \in alone ~> (p \notin DOMAIN pid2ip \/ p \in stuck \/ pc = "dead")
-----------------------------------------------------------------------------
(***************************************************************************)
(* What the documentation says and the code does not do.                   *)
(***************************************************************************)
\* readme.md: no more than maximum_clients FTP processes serve a client.
SessionsWithinLimit ==
  MaximumClients > 0 => Cardinality(paired) + orphans <= MaximumClients
=============================================================================
