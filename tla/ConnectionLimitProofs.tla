------------------------ MODULE ConnectionLimitProofs ------------------------
(***************************************************************************)
(* Theorems about the main process, for any pids, addresses and limits.    *)
(***************************************************************************)
EXTENDS ConnectionLimit, FiniteSetTheorems, TLAPS

\* The table of children is finite, and so is every set of pids in it.
LEMMA ChildrenFinite ==
  ASSUME TypeOK
  PROVE  /\ IsFiniteSet(DOMAIN proc) /\ Cardinality(DOMAIN proc) \in Nat
         /\ \A S \in SUBSET DOMAIN proc :
              /\ IsFiniteSet(S) /\ Cardinality(S) \in Nat
              /\ Cardinality(S) <= Cardinality(DOMAIN proc)
<1>1. IsFiniteSet(DOMAIN proc)
  BY ConstantsAssumption, FS_Subset DEF TypeOK
<1> QED
  BY <1>1, FS_Subset, FS_CardinalityType

\* Reaping a child leaves one child less.
LEMMA EraseChild ==
  ASSUME TypeOK, NEW p \in DOMAIN proc, proc' = Erase(proc, p)
  PROVE  /\ DOMAIN proc' = DOMAIN proc \ {p}
         /\ Cardinality(DOMAIN proc') = Cardinality(DOMAIN proc) - 1
         /\ \A q \in DOMAIN proc' : proc'[q] = proc[q]
<1>1. DOMAIN proc' = DOMAIN proc \ {p} /\ \A q \in DOMAIN proc' : proc'[q] = proc[q]
  BY DEF Erase
<1> QED
  BY <1>1, ChildrenFinite, FS_RemoveElement

\* While a child is unreaped client_count is positive, at every step of main().
LEMMA CountAboveZero ==
  ASSUME TypeOK, NeverUndercounts, pc # "dead", DOMAIN proc # {}
  PROVE  client_count > 0
<1>1. Cardinality(DOMAIN proc) \in Nat /\ Cardinality(DOMAIN proc) # 0
  BY ChildrenFinite, FS_EmptySet
<1> QED
  BY <1>1 DEF NeverUndercounts, TypeOK

\* The variables keep their types: in particular client_count, decremented
\* by the handler at any instant, never wraps below zero.
LEMMA TypeStep ==
  ASSUME TypeOK, HandlerNeedsMain, NeverUndercounts, [Next]_vars
  PROVE  TypeOK'
<1> USE ConstantsAssumption DEF TypeOK
<1>1. ASSUME NEW ip \in Ips, Accept(ip) PROVE TypeOK'
  BY <1>1 DEF Accept, At, Points, tables, sigs
<1>2. ASSUME AcceptFails PROVE TypeOK'
  BY <1>2 DEF AcceptFails, At, Points, local, tables, sigs
<1>3. ASSUME ForkFails PROVE TypeOK'
  BY <1>3 DEF ForkFails, At, Points, local, tables, sigs
<1>4. ASSUME LoadCount PROVE TypeOK'
  BY <1>4 DEF LoadCount, At, Points, tables, sigs
<1>5. ASSUME StoreCount PROVE TypeOK'
  BY <1>5 DEF StoreCount, At, Points, sigs
<1>6. ASSUME LookupIp PROVE TypeOK'
  BY <1>6 DEF LookupIp, At, Points, tables, sigs
<1>7. ASSUME LoadIp PROVE TypeOK'
  BY <1>7 DEF LoadIp, At, Points, tables, sigs
<1>8. ASSUME StoreIp PROVE TypeOK'
  <2>1. ip2conncount' \in [Ips -> Nat]
    BY <1>8 DEF StoreIp
  <2> QED
    BY <2>1, <1>8 DEF StoreIp, At, Points, sigs
<1>9. ASSUME NEW p \in Pids, Fork(p) PROVE TypeOK'
  BY <1>9 DEF Fork, At, Points, tables, sigs, Assign, CopyAtFork, Child
<1>10. ASSUME NEW p \in Pids, Record(p) PROVE TypeOK'
  BY <1>10 DEF Record, At, Points, tables, sigs, Assign
<1>11. ASSUME HandlerEnter PROVE TypeOK'
  BY <1>11 DEF HandlerEnter, local, tables
<1>12. ASSUME HandlerReturn PROVE TypeOK'
  BY <1>12 DEF HandlerReturn, local, tables
<1>13. ASSUME NEW p \in Pids, Reap(p) PROVE TypeOK'
  <2> DEFINE ip == pid2ip[p]
  <2>1. p \in DOMAIN pid2ip /\ p \in DOMAIN proc /\ ip \in Ips /\ in_handler
    BY <1>13 DEF Reap, Zombies, In
  <2>2. client_count' \in Nat
    BY <1>13, <2>1, CountAboveZero DEF Reap, DecreaseCounters, HandlerNeedsMain
  <2>3. ip2conncount' \in [Ips -> Nat]
    BY <1>13, <2>1 DEF Reap, DecreaseCounters
  <2>4. dangling' \in BOOLEAN
    BY <1>13, <2>1 DEF Reap, DecreaseCounters, HoldsReference
  <2>5. torn' \subseteq {"client_count"} \cup Ips
    BY <1>13, <2>1 DEF Reap, TornBy, HoldsReference
  <2>6. /\ DOMAIN pid2ip' \subseteq Pids /\ pid2ip' \in [DOMAIN pid2ip' -> Ips]
        /\ DOMAIN proc' \subseteq Pids /\ proc' \in [DOMAIN proc' -> Child]
    BY <1>13 DEF Reap, Erase
  <2> QED
    BY <1>13, <2>2, <2>3, <2>4, <2>5, <2>6 DEF Reap, sigs
<1>14. ASSUME NEW p \in Pids, ReapUnknown(p) PROVE TypeOK'
  BY <1>14 DEF ReapUnknown, Points, local, tables, Erase
<1>15. ASSUME NEW p \in Pids, Refuse(p) PROVE TypeOK'
  BY <1>15 DEF Refuse, Exit, In, Child, local, tables
<1>16. ASSUME NEW p \in Pids, Serve(p) PROVE TypeOK'
  BY <1>16 DEF Serve, In, Child, local, tables, sigs
<1>17. ASSUME NEW p \in Pids, Finish(p) PROVE TypeOK'
  BY <1>17 DEF Finish, Exit, Serving, In, Child, local, tables
<1>18. CASE UNCHANGED vars
  BY <1>18 DEF vars, local, tables, sigs
<1> QED
  BY <1>1, <1>2, <1>3, <1>4, <1>5, <1>6, <1>7, <1>8, <1>9, <1>10, <1>11,
     <1>12, <1>13, <1>14, <1>15, <1>16, <1>17, <1>18
  DEF Next, Main, Handler, Children

\* What a step other than fork() leaves of the living children.
KeepsCopies ==
  /\ Live' \subseteq Live
  /\ \A q \in Live' : /\ proc'[q].clients = proc[q].clients
                      /\ proc'[q].conns = proc[q].conns
                      /\ proc'[q].ip = proc[q].ip

\* A step that forks no child leaves the copies of the living ones as they are.
LEMMA NoForkKeepsCopies ==
  ASSUME TypeOK, [Next]_vars, ~ \E p \in Pids : Fork(p)
  PROVE  KeepsCopies
<1> USE DEF TypeOK, Live, In, KeepsCopies
<1>1. ASSUME proc' = proc PROVE KeepsCopies
  BY <1>1
<1>2. ASSUME NEW p \in DOMAIN proc, proc' = Erase(proc, p) PROVE KeepsCopies
  BY <1>2, EraseChild
<1>3. ASSUME NEW p \in Live, NEW s \in {"serving", "zombie"},
             proc' = [proc EXCEPT ![p].state = s]
      PROVE  KeepsCopies
  BY <1>3 DEF Child
<1>4. ASSUME Main PROVE proc' = proc
  BY <1>4 DEF Main, Accept, AcceptFails, ForkFails, LoadCount, StoreCount,
              LookupIp, LoadIp, StoreIp, Record
<1>5. ASSUME Handler PROVE proc' = proc \/ \E p \in DOMAIN proc : proc' = Erase(proc, p)
  BY <1>5 DEF Handler, HandlerEnter, HandlerReturn, Reap, ReapUnknown, Zombies
<1>6. ASSUME Children
      PROVE  \E p \in Live, s \in {"serving", "zombie"} :
               proc' = [proc EXCEPT ![p].state = s]
  BY <1>6 DEF Children, Refuse, Serve, Finish, Exit, Serving
<1>7. CASE UNCHANGED vars
  BY <1>7, <1>1 DEF vars
<1> QED
  BY <1>1, <1>2, <1>3, <1>4, <1>5, <1>6, <1>7 DEF Next

\* No step makes client_count fall below the number of unreaped children.
LEMMA CountStep ==
  ASSUME TypeOK, TypeOK', HandlerNeedsMain, NeverUndercounts, [Next]_vars
  PROVE  NeverUndercounts'
<1> USE DEF TypeOK, NeverUndercounts
<1> DEFINE n == Cardinality(DOMAIN proc)
<1>n. n \in Nat
  BY ChildrenFinite
<1>1. ASSUME NEW ip \in Ips, Accept(ip) PROVE NeverUndercounts'
  BY <1>1, <1>n DEF Accept, At, tables
<1>2. CASE AcceptFails \/ ForkFails
  BY <1>2 DEF AcceptFails, ForkFails
<1>3. CASE LoadCount
  BY <1>3, <1>n DEF LoadCount, At, tables
<1>4. CASE StoreCount
  BY <1>4, <1>n DEF StoreCount, At
<1>5. CASE LookupIp
  BY <1>5, <1>n DEF LookupIp, At, tables
<1>6. CASE LoadIp
  BY <1>6, <1>n DEF LoadIp, At, tables
<1>7. CASE StoreIp
  BY <1>7, <1>n DEF StoreIp, At
<1>8. ASSUME NEW p \in Pids, Fork(p) PROVE NeverUndercounts'
  <2>1. DOMAIN proc' = DOMAIN proc \cup {p} /\ p \notin DOMAIN proc
    BY <1>8 DEF Fork, Assign
  <2>2. Cardinality(DOMAIN proc') = n + 1
    BY <2>1, ChildrenFinite, FS_AddElement
  <2> QED
    BY <1>8, <2>2, <1>n DEF Fork, At, tables
<1>9. ASSUME NEW p \in Pids, Record(p) PROVE NeverUndercounts'
  BY <1>9, <1>n DEF Record, At
<1>10. CASE HandlerEnter \/ HandlerReturn
  BY <1>10, <1>n DEF HandlerEnter, HandlerReturn, local, tables
<1>11. ASSUME NEW p \in Pids, Reap(p) PROVE NeverUndercounts'
  <2>1. p \in DOMAIN proc /\ proc' = Erase(proc, p) /\ client_count' = client_count - 1
        /\ pc' = pc /\ reg' = reg /\ pc # "dead"
    BY <1>11 DEF Reap, Zombies, In, DecreaseCounters, HandlerNeedsMain
  <2>2. Cardinality(DOMAIN proc') = n - 1
    BY <2>1, EraseChild
  <2> QED
    BY <2>1, <2>2, <1>n
<1>12. ASSUME NEW p \in Pids, ReapUnknown(p) PROVE NeverUndercounts'
  BY <1>12 DEF ReapUnknown
<1>13. ASSUME NEW p \in Pids, Refuse(p) \/ Serve(p) \/ Finish(p) PROVE NeverUndercounts'
  <2>1. DOMAIN proc' = DOMAIN proc /\ UNCHANGED <<pc, reg, client_count>>
    BY <1>13 DEF Refuse, Serve, Finish, Exit, local, tables
  <2> QED
    BY <2>1, <1>n
<1>14. CASE UNCHANGED vars
  BY <1>14, <1>n DEF vars, local, tables
<1> QED
  BY <1>1, <1>2, <1>3, <1>4, <1>5, <1>6, <1>7, <1>8, <1>9, <1>10, <1>11,
     <1>12, <1>13, <1>14
  DEF Next, Main, Handler, Children

\* Every group of living children keeps a member whose copy counts it all:
\* a forked child's copy counts every unreaped child and itself.
LEMMA GroupStep ==
  ASSUME TypeOK, TypeOK', NeverUndercounts, CopiesCoverGroups, [Next]_vars
  PROVE  CopiesCoverGroups'
<1>1. ASSUME NEW p \in Pids, Fork(p) PROVE CopiesCoverGroups'
  <2>1. /\ DOMAIN proc' = DOMAIN proc \cup {p} /\ p \notin DOMAIN proc
        /\ proc'[p].clients = client_count /\ proc'[p].state = "checking"
        /\ \A q \in DOMAIN proc : proc'[q] = proc[q]
    BY <1>1 DEF Fork, Assign, CopyAtFork
  <2>2. Live' = Live \cup {p}
    BY <2>1 DEF Live, In
  <2>3. Cardinality(DOMAIN proc') = Cardinality(DOMAIN proc) + 1
    BY <2>1, ChildrenFinite, FS_AddElement
  <2>4. client_count >= Cardinality(DOMAIN proc')
    BY <1>1, <2>3 DEF NeverUndercounts, Fork, At
  <2> SUFFICES ASSUME NEW S \in SUBSET Live', S # {}
               PROVE  \E q \in S : proc'[q].clients >= Cardinality(S)
    BY DEF CopiesCoverGroups
  <2>5. CASE p \in S
    <3>1. IsFiniteSet(DOMAIN proc')
      BY <2>1, ChildrenFinite, FS_AddElement
    <3>2. S \in SUBSET DOMAIN proc'
      BY <2>1, <2>2 DEF Live, In
    <3>3. Cardinality(S) <= Cardinality(DOMAIN proc') /\ Cardinality(S) \in Nat
          /\ Cardinality(DOMAIN proc') \in Nat
      BY <3>1, <3>2, FS_Subset, FS_CardinalityType
    <3> QED
      BY <2>1, <2>4, <2>5, <3>3 DEF TypeOK
  <2>6. CASE p \notin S
    <3>1. S \in SUBSET Live
      BY <2>2, <2>6
    <3>2. PICK q \in S : proc[q].clients >= Cardinality(S)
      BY <3>1 DEF CopiesCoverGroups
    <3> QED
      BY <2>1, <3>1, <3>2 DEF Live, In
  <2> QED
    BY <2>5, <2>6
<1>2. CASE ~ \E p \in Pids : Fork(p)
  BY <1>2, NoForkKeepsCopies DEF CopiesCoverGroups, KeepsCopies
<1> QED
  BY <1>1, <1>2

\* Only Serve makes a child serve, and it has just passed the test.
LEMMA TestStep ==
  ASSUME TypeOK, TypeOK', ServingPassedTest, [Next]_vars
  PROVE  ServingPassedTest'
<1> SUFFICES ASSUME MaximumClients > 0, NEW q \in Serving'
             PROVE  proc'[q].clients <= MaximumClients
  BY DEF ServingPassedTest
<1> USE DEF Serving, In, ServingPassedTest
<1>1. CASE proc' = proc
  BY <1>1
<1>2. ASSUME NEW p \in Pids, Fork(p) PROVE proc'[q].clients <= MaximumClients
  BY <1>2 DEF Fork, Assign, CopyAtFork
<1>3. ASSUME NEW p \in Pids, Reap(p) \/ ReapUnknown(p)
      PROVE  proc'[q].clients <= MaximumClients
  BY <1>3 DEF Reap, ReapUnknown, Erase
<1>4. ASSUME NEW p \in Pids, Serve(p) PROVE proc'[q].clients <= MaximumClients
  <2>1. CASE q = p
    BY <1>4, <2>1, ConstantsAssumption DEF Serve, OverLimit, TypeOK, Child
  <2>2. CASE q # p
    BY <1>4, <2>2 DEF Serve, TypeOK, Child
  <2> QED
    BY <2>1, <2>2
<1>5. ASSUME NEW p \in Pids, Refuse(p) \/ Finish(p)
      PROVE  proc'[q].clients <= MaximumClients
  BY <1>5 DEF Refuse, Finish, Exit, TypeOK, Child
<1>6. CASE Main
  BY <1>1, <1>2, <1>6 DEF Main, Accept, AcceptFails, ForkFails, LoadCount,
     StoreCount, LookupIp, LoadIp, StoreIp, Record
<1>7. CASE Handler
  BY <1>1, <1>3, <1>7 DEF Handler, HandlerEnter, HandlerReturn
<1>8. CASE Children
  BY <1>4, <1>5, <1>8 DEF Children
<1> QED
  BY <1>1, <1>6, <1>7, <1>8 DEF Next, vars

\* A handler never runs in a main process that is gone.
LEMMA HandlerStep ==
  ASSUME HandlerNeedsMain, [Next]_vars PROVE HandlerNeedsMain'
<1> USE DEF HandlerNeedsMain
<1>1. CASE Main
  BY <1>1 DEF Main, Accept, AcceptFails, ForkFails, LoadCount, StoreCount,
     LookupIp, LoadIp, StoreIp, Fork, Record, At, sigs
<1>2. CASE Handler
  BY <1>2 DEF Handler, HandlerEnter, HandlerReturn, Reap, ReapUnknown, sigs
<1>3. CASE Children
  BY <1>3 DEF Children, Refuse, Serve, Finish, Exit, sigs
<1>4. CASE UNCHANGED vars
  BY <1>4 DEF vars, sigs
<1> QED
  BY <1>1, <1>2, <1>3, <1>4 DEF Next

\* The server starts with no child and both counters at zero.
LEMMA Initially == Init => IInv
<1> SUFFICES ASSUME Init PROVE IInv
  OBVIOUS
<1>1. DOMAIN proc = {} /\ DOMAIN pid2ip = {}
  BY DEF Init
<1>2. TypeOK
  BY <1>1 DEF Init, TypeOK, Points
<1>3. NeverUndercounts
  BY <1>1, FS_EmptySet DEF Init, NeverUndercounts
<1>4. CopiesCoverGroups /\ ServingPassedTest
  BY <1>1 DEF CopiesCoverGroups, ServingPassedTest, Live, Serving, In
<1> QED
  BY <1>2, <1>3, <1>4 DEF Init, IInv, HandlerNeedsMain

\* IInv is an invariant of the accept loop, its handler and its children.
THEOREM Invariance == Spec => []IInv
<1>1. IInv /\ [Next]_vars => IInv'
  BY TypeStep, CountStep, GroupStep, TestStep, HandlerStep DEF IInv
<1> QED
  BY Initially, <1>1, PTL DEF Spec

\* Types hold for every number of clients: no counter wraps below zero.
THEOREM TypeCorrect == Spec => []TypeOK
<1>1. IInv => TypeOK
  BY DEF IInv
<1> QED
  BY Invariance, <1>1, PTL

\* Never more than maximum_clients clients are served at once, whatever the
\* order of forks, tests, exits and signals (check_connection_limit).
THEOREM TotalLimitHolds == Spec => []TotalLimit
<1>1. ASSUME IInv PROVE TotalLimit
  <2> SUFFICES ASSUME MaximumClients > 0
               PROVE  Cardinality(Serving) <= MaximumClients
    BY DEF TotalLimit
  <2> USE <1>1 DEF IInv
  <2>1. Serving \in SUBSET Live /\ Serving \in SUBSET DOMAIN proc
    BY DEF Serving, Live, In
  <2>2. Cardinality(Serving) \in Nat
    BY <2>1, ChildrenFinite
  <2>3. CASE Serving = {}
    BY <2>3, FS_EmptySet, ConstantsAssumption
  <2>4. CASE Serving # {}
    <3>1. PICK p \in Serving : proc[p].clients >= Cardinality(Serving)
      BY <2>1, <2>4 DEF CopiesCoverGroups
    <3>2. proc[p].clients <= MaximumClients
      BY DEF ServingPassedTest
    <3>3. proc[p].clients \in Nat
      BY <2>1 DEF TypeOK, Child
    <3> QED
      BY <2>2, <3>1, <3>2, <3>3, ConstantsAssumption
  <2> QED
    BY <2>3, <2>4
<1> QED
  BY Invariance, <1>1, PTL

\* SIGCHLD merges exits without losing one: a zombie always finds the signal
\* pending or the handler still in its waitpid() loop (sigchld_handler).
THEOREM ZombiesNoticed == Spec => []NoLostZombie
<1>1. Init => NoLostZombie
  BY DEF Init, NoLostZombie, Zombies, In
<1>2. ASSUME TypeOK, NoLostZombie, [Next]_vars PROVE NoLostZombie'
  <2> USE <1>2 DEF NoLostZombie, Zombies, In
  <2>1. ASSUME NEW p \in Pids, Fork(p) PROVE NoLostZombie'
    BY <2>1 DEF Fork, At, Assign, CopyAtFork, sigs
  <2>2. CASE Main /\ ~ \E p \in Pids : Fork(p)
    BY <2>2 DEF Main, Accept, AcceptFails, ForkFails, LoadCount, StoreCount,
       LookupIp, LoadIp, StoreIp, Record, At, sigs
  <2>3. CASE HandlerEnter \/ HandlerReturn
    BY <2>3 DEF HandlerEnter, HandlerReturn
  <2>4. ASSUME NEW p \in Pids, Reap(p) \/ ReapUnknown(p) PROVE NoLostZombie'
    BY <2>4 DEF Reap, ReapUnknown, sigs
  <2>5. ASSUME NEW p \in Pids, Refuse(p) \/ Finish(p) PROVE NoLostZombie'
    BY <2>5 DEF Refuse, Finish, Exit, local, TypeOK
  <2>6. ASSUME NEW p \in Pids, Serve(p) PROVE NoLostZombie'
    BY <2>6 DEF Serve, sigs, TypeOK, Child
  <2>7. CASE UNCHANGED vars
    BY <2>7 DEF vars, sigs
  <2> QED
    BY <1>2, <2>1, <2>2, <2>3, <2>4, <2>5, <2>6, <2>7 DEF Next, Main, Handler, Children
<1> QED
  BY <1>1, <1>2, TypeCorrect, PTL DEF Spec

\* Between fork() and pid2ip[pid] = ip there is exactly one child without an
\* entry, it is unreaped, and the loop still holds its address.
AwaitsRecord ==
  pc # "dead" =>
    /\ new_pid # {} => pc = "record"
    /\ \A p, q \in new_pid : p = q
    /\ \A p \in new_pid : p \in DOMAIN proc /\ proc[p].ip = conn_ip

\* A step of a child changes its state and nothing else in the tables.
LEMMA ChildKeepsAddress ==
  ASSUME TypeOK, NEW p \in Pids, Refuse(p) \/ Serve(p) \/ Finish(p)
  PROVE  /\ DOMAIN proc' = DOMAIN proc
         /\ \A q \in DOMAIN proc : proc'[q].ip = proc[q].ip
         /\ UNCHANGED <<pc, conn_ip, new_pid, pid2ip>>
BY DEF Refuse, Serve, Finish, Exit, Serving, In, TypeOK, Child, local, tables

\* pid2ip names exactly the unreaped children, each with its own address, but
\* for the one just forked: pids are reused and no stale entry is ever found.
THEOREM ChildrenTracked == Spec => []Tracked
<1> USE DEF Tracked, AwaitsRecord
<1>1. Init => Tracked /\ AwaitsRecord
  BY DEF Init
<1>2. ASSUME TypeOK, HandlerNeedsMain, Tracked, AwaitsRecord, [Next]_vars
      PROVE  Tracked' /\ AwaitsRecord'
  <2> USE <1>2
  <2>1. ASSUME NEW p \in Pids, Fork(p) PROVE Tracked' /\ AwaitsRecord'
    <3>1. /\ pc = "fork" /\ pc' = "record" /\ new_pid = {} /\ new_pid' = {p}
          /\ p \notin DOMAIN proc /\ DOMAIN pid2ip = DOMAIN proc
          /\ pid2ip' = pid2ip /\ conn_ip' = conn_ip
      BY <2>1 DEF Fork, At, tables
    <3>2. /\ DOMAIN proc' = DOMAIN proc \cup {p} /\ proc'[p].ip = conn_ip
          /\ \A q \in DOMAIN proc : proc'[q] = proc[q]
      BY <2>1, <3>1 DEF Fork, Assign, CopyAtFork
    <3> QED
      BY <3>1, <3>2
  <2>2. ASSUME NEW p \in Pids, Record(p) PROVE Tracked' /\ AwaitsRecord'
    <3>1. /\ pc = "record" /\ pc' = "accept" /\ new_pid = {p} /\ new_pid' = {}
          /\ proc' = proc /\ proc[p].ip = conn_ip /\ p \in DOMAIN proc
      BY <2>2 DEF Record, At
    <3>2. /\ DOMAIN pid2ip' = DOMAIN pid2ip \cup {p} /\ pid2ip'[p] = conn_ip
          /\ \A q \in DOMAIN pid2ip \ {p} : pid2ip'[q] = pid2ip[q]
      BY <2>2 DEF Record, Assign
    <3> QED
      BY <3>1, <3>2
  <2>3. CASE Main /\ ~ \E p \in Pids : Fork(p) \/ Record(p)
    BY <2>3 DEF Main, Accept, AcceptFails, ForkFails, LoadCount, StoreCount,
       LookupIp, LoadIp, StoreIp, At, local, tables
  <2>4. ASSUME NEW p \in Pids, Reap(p) PROVE Tracked' /\ AwaitsRecord'
    <3>1. /\ pc # "dead" /\ p \in DOMAIN pid2ip /\ p \in DOMAIN proc
          /\ UNCHANGED <<pc, conn_ip, new_pid>>
          /\ proc' = Erase(proc, p) /\ pid2ip' = Erase(pid2ip, p)
      BY <2>4 DEF Reap, HandlerNeedsMain, Zombies, In
    <3>2. /\ DOMAIN proc' = DOMAIN proc \ {p} /\ DOMAIN pid2ip' = DOMAIN pid2ip \ {p}
          /\ \A q \in DOMAIN proc' : proc'[q] = proc[q]
          /\ \A q \in DOMAIN pid2ip' : pid2ip'[q] = pid2ip[q]
      BY <3>1 DEF Erase
    <3> QED
      BY <3>1, <3>2
  <2>5. ASSUME NEW p \in Pids, ReapUnknown(p) PROVE Tracked' /\ AwaitsRecord'
    BY <2>5 DEF ReapUnknown
  <2>6. CASE HandlerEnter \/ HandlerReturn \/ UNCHANGED vars
    BY <2>6 DEF HandlerEnter, HandlerReturn, vars, local, tables
  <2>7. ASSUME NEW p \in Pids, Refuse(p) \/ Serve(p) \/ Finish(p)
        PROVE  Tracked' /\ AwaitsRecord'
    BY <2>7, ChildKeepsAddress
  <2> QED
    BY <2>1, <2>2, <2>3, <2>4, <2>5, <2>6, <2>7 DEF Next, Main, Handler, Children
<1>3. IInv => TypeOK /\ HandlerNeedsMain
  BY DEF IInv
<1> QED
  BY <1>1, <1>2, <1>3, Invariance, PTL DEF Spec

\* The loop of main() in its abstract form: a child that starts to serve is
\* admitted, a serving child that exits leaves, all other steps stutter.
THEOREM ImplementsAdmission == Spec => AbstractSpec
<1>1. Init => Abstract!Init
  BY DEF Init, Abstract!Init, Serving, In
<1>2. ASSUME IInv, IInv', [Next]_vars PROVE [Abstract!Next]_Serving
  <2> USE <1>2 DEF IInv
  <2>1. ASSUME NEW p \in Pids, Serve(p) PROVE Abstract!Admit(p)
    <3>1. p \in In("checking") /\ ~OverLimit(proc[p])
          /\ proc' = [proc EXCEPT ![p].state = "serving"]
      BY <2>1 DEF Serve
    <3>2. Serving' = Serving \cup {p} /\ p \notin Serving
      BY <3>1 DEF Serving, In, TypeOK, Child
    <3>3. ASSUME MaximumClients # 0 PROVE Cardinality(Serving) < MaximumClients
      <4> DEFINE S == Serving \cup {p}
      <4>1. S \in SUBSET Live /\ Serving \in SUBSET DOMAIN proc
        BY <3>1 DEF Live, Serving, In
      <4>2. PICK q \in S : proc[q].clients >= Cardinality(S)
        BY <4>1 DEF CopiesCoverGroups
      <4>3. proc[q].clients \in Nat /\ proc[q].clients <= MaximumClients
        <5>1. proc[q].clients \in Nat
          BY <4>1 DEF TypeOK, Child, Live, In
        <5>2. CASE q = p
          BY <3>1, <3>3, <5>1, <5>2, ConstantsAssumption DEF OverLimit
        <5>3. CASE q \in Serving
          BY <3>3, <5>1, <5>3, ConstantsAssumption DEF ServingPassedTest
        <5> QED
          BY <5>1, <5>2, <5>3
      <4>4. Cardinality(S) = Cardinality(Serving) + 1 /\ Cardinality(Serving) \in Nat
        BY <3>2, <4>1, ChildrenFinite, FS_AddElement
      <4> QED
        BY <4>2, <4>3, <4>4, ConstantsAssumption
    <3> QED
      BY <3>2, <3>3 DEF Abstract!Admit, Abstract!Cardinality, Cardinality
  <2>2. ASSUME NEW p \in Pids, Finish(p) PROVE Abstract!Leave(p)
    BY <2>2 DEF Finish, Exit, Abstract!Leave, Serving, In, TypeOK, Child
  <2>3. ASSUME NEW p \in Pids, Refuse(p) PROVE Serving' = Serving
    BY <2>3 DEF Refuse, Exit, Serving, In, TypeOK, Child
  <2>4. ASSUME NEW p \in Pids, Fork(p) PROVE Serving' = Serving
    BY <2>4 DEF Fork, Assign, CopyAtFork, Serving, In
  <2>5. ASSUME NEW p \in Pids, Reap(p) \/ ReapUnknown(p) PROVE Serving' = Serving
    BY <2>5 DEF Reap, ReapUnknown, Erase, Zombies, Serving, In
  <2>6. CASE Main /\ ~ \E p \in Pids : Fork(p)
    BY <2>6 DEF Main, Accept, AcceptFails, ForkFails, LoadCount, StoreCount,
       LookupIp, LoadIp, StoreIp, Record, Serving, In
  <2>7. CASE HandlerEnter \/ HandlerReturn \/ UNCHANGED vars
    BY <2>7 DEF HandlerEnter, HandlerReturn, vars, Serving, In
  <2> QED
    BY <2>1, <2>2, <2>3, <2>4, <2>5, <2>6, <2>7
    DEF Next, Main, Handler, Children, Abstract!Next
<1> QED
  BY <1>1, <1>2, Invariance, PTL DEF Spec, AbstractSpec, Abstract!Spec
=============================================================================
