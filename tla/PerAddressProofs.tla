--------------------------- MODULE PerAddressProofs ---------------------------
(***************************************************************************)
(* The exact counters of the main process and the limit per address, for   *)
(* any pids, addresses and limits.                                         *)
(***************************************************************************)
EXTENDS ConnectionLimitProofs

\* The register holds an untorn counter between its load and its store, and
\* only a torn counter is stored through a dangling reference.
RegisterExact ==
  pc # "dead" =>
    /\ dangling => pc \in {"load_ip", "store_ip"} /\ conn_ip \in torn
    /\ (pc = "store_count" /\ "client_count" \notin torn) => reg = client_count
    /\ (pc = "store_ip" /\ conn_ip \notin torn) => reg = ip2conncount[conn_ip]

\* In every group of living children of an address whose counter lost nothing,
\* the one forked last holds a copy that counts the whole group.
IpCopiesCoverGroups ==
  \A ip \in Ips \ torn : \A S \in SUBSET OfIp(Live, ip) :
    S # {} => \E p \in S : proc[p].conns >= Cardinality(S)

\* A child that serves has passed the test of its address.
ServingPassedIpTest ==
  MaxConnsPerIp > 0 => \A p \in Serving : proc[p].conns <= MaxConnsPerIp

\* What main() has added to a counter for the connection it has not forked for.
PendingCount == IF pc \in {"lookup_ip", "load_ip", "store_ip", "fork"} THEN 1 ELSE 0
PendingIp(ip) == IF pc = "fork" /\ conn_ip = ip THEN 1 ELSE 0

Exact ==
  pc # "dead" =>
    /\ "client_count" \notin torn => client_count = Cardinality(DOMAIN proc) + PendingCount
    /\ \A ip \in Ips \ torn :
         ip2conncount[ip] = Cardinality(OfIp(DOMAIN proc, ip)) + PendingIp(ip)

\* Exact is the checked property, with its pending connections named.
LEMMA ExactIsProperty == Exact <=> CountersExactUnlessTorn
BY DEF Exact, CountersExactUnlessTorn, PendingCount, PendingIp

\* The unreaped children of an address are finitely many.
LEMMA OfIpFinite ==
  ASSUME TypeOK, NEW ip
  PROVE  /\ IsFiniteSet(OfIp(DOMAIN proc, ip))
         /\ Cardinality(OfIp(DOMAIN proc, ip)) \in Nat
BY ChildrenFinite DEF OfIp

\* Forking adds a child to its own address and to no other.
LEMMA ForkCounts ==
  ASSUME TypeOK, NEW p \in Pids, Fork(p)
  PROVE  /\ DOMAIN proc' = DOMAIN proc \cup {p} /\ p \notin DOMAIN proc
         /\ proc'[p] = CopyAtFork
         /\ \A q \in DOMAIN proc : proc'[q] = proc[q]
         /\ Cardinality(DOMAIN proc') = Cardinality(DOMAIN proc) + 1
         /\ \A ip \in Ips :
              Cardinality(OfIp(DOMAIN proc, ip)') =
                Cardinality(OfIp(DOMAIN proc, ip)) + (IF ip = conn_ip THEN 1 ELSE 0)
<1>1. /\ DOMAIN proc' = DOMAIN proc \cup {p} /\ p \notin DOMAIN proc
      /\ proc'[p] = CopyAtFork
      /\ \A q \in DOMAIN proc : proc'[q] = proc[q]
  BY DEF Fork, Assign
<1>2. Cardinality(DOMAIN proc') = Cardinality(DOMAIN proc) + 1
  BY <1>1, ChildrenFinite, FS_AddElement
<1>3. ASSUME NEW ip \in Ips
      PROVE  Cardinality(OfIp(DOMAIN proc, ip)') =
               Cardinality(OfIp(DOMAIN proc, ip)) + (IF ip = conn_ip THEN 1 ELSE 0)
  <2>1. proc'[p].ip = conn_ip
    BY <1>1 DEF CopyAtFork
  <2>2. CASE ip = conn_ip
    <3>1. OfIp(DOMAIN proc, ip)' = OfIp(DOMAIN proc, ip) \cup {p}
          /\ p \notin OfIp(DOMAIN proc, ip)
      BY <1>1, <2>1, <2>2 DEF OfIp
    <3> QED
      BY <2>2, <3>1, OfIpFinite, FS_AddElement
  <2>3. CASE ip # conn_ip
    <3>1. OfIp(DOMAIN proc, ip)' = OfIp(DOMAIN proc, ip)
      BY <1>1, <2>1, <2>3 DEF OfIp
    <3> QED
      BY <2>3, <3>1, OfIpFinite
  <2> QED
    BY <2>2, <2>3
<1> QED
  BY <1>1, <1>2, <1>3

\* Reaping removes a child from its own address and from no other.
LEMMA ReapCounts ==
  ASSUME TypeOK, NEW p \in DOMAIN proc, proc' = Erase(proc, p)
  PROVE  \A ip \in Ips :
           /\ Cardinality(OfIp(DOMAIN proc, ip)') =
                Cardinality(OfIp(DOMAIN proc, ip)) - (IF ip = proc[p].ip THEN 1 ELSE 0)
           /\ ip = proc[p].ip => Cardinality(OfIp(DOMAIN proc, ip)) > 0
<1> SUFFICES ASSUME NEW ip \in Ips
             PROVE  /\ Cardinality(OfIp(DOMAIN proc, ip)') =
                         Cardinality(OfIp(DOMAIN proc, ip)) - (IF ip = proc[p].ip THEN 1 ELSE 0)
                    /\ ip = proc[p].ip => Cardinality(OfIp(DOMAIN proc, ip)) > 0
  OBVIOUS
<1>1. CASE ip = proc[p].ip
  <2>1. OfIp(DOMAIN proc, ip)' = OfIp(DOMAIN proc, ip) \ {p} /\ p \in OfIp(DOMAIN proc, ip)
    BY <1>1, EraseChild DEF OfIp
  <2>2. Cardinality(OfIp(DOMAIN proc, ip)) # 0
    BY <2>1, OfIpFinite, FS_EmptySet
  <2> QED
    BY <1>1, <2>1, <2>2, OfIpFinite, FS_RemoveElement
<1>2. CASE ip # proc[p].ip
  <2>1. OfIp(DOMAIN proc, ip)' = OfIp(DOMAIN proc, ip)
    BY <1>2, EraseChild DEF OfIp
  <2> QED
    BY <1>2, <2>1, OfIpFinite
<1> QED
  BY <1>1, <1>2

\* The handler's decrement keeps an untorn counter exact: the one it finds
\* there counts the child it has reaped, and no half-done increment is on it.
LEMMA ReapKeepsExact ==
  ASSUME TypeOK, TypeOK', HandlerNeedsMain, Tracked, RegisterExact, Exact,
         NEW p \in Pids, Reap(p)
  PROVE  RegisterExact' /\ Exact'
<1> DEFINE a == pid2ip[p]
<1>1. /\ pc # "dead" /\ p \in DOMAIN proc /\ p \in DOMAIN pid2ip
      /\ UNCHANGED <<pc, conn_ip, reg>> /\ proc' = Erase(proc, p)
      /\ a = proc[p].ip /\ a \in Ips
      /\ DecreaseCounters(a) /\ torn' = torn \cup TornBy(a)
  BY DEF Reap, HandlerNeedsMain, Tracked, Zombies, In, TypeOK
<1>2. /\ client_count' = client_count - 1
      /\ ip2conncount' = IF ip2conncount[a] <= 0 THEN ip2conncount
                         ELSE [ip2conncount EXCEPT ![a] = ip2conncount[a] - 1]
      /\ dangling' = (dangling \/ (HoldsReference(a) /\ ip2conncount[a] = 1))
  BY <1>1 DEF DecreaseCounters
<1>3. torn \subseteq torn' /\ (pc = "store_count" => "client_count" \in torn')
  BY <1>1 DEF TornBy
<1>4. pc = "store_ip" /\ conn_ip = a => a \in torn'
  BY <1>1 DEF TornBy, HoldsReference
<1>5. HoldsReference(a) /\ ip2conncount[a] = 1 => a \in torn'
  BY <1>1 DEF TornBy
<1>6. RegisterExact'
  <2>1. dangling' => pc' \in {"load_ip", "store_ip"} /\ conn_ip' \in torn'
    BY <1>1, <1>2, <1>3, <1>5 DEF RegisterExact, HoldsReference
  <2>2. pc' = "store_ip" /\ conn_ip' \notin torn' => reg' = ip2conncount'[conn_ip']
    BY <1>1, <1>2, <1>3, <1>4 DEF RegisterExact, TypeOK
  <2> QED
    BY <1>1, <1>3, <2>1, <2>2 DEF RegisterExact
<1>7. Cardinality(DOMAIN proc') = Cardinality(DOMAIN proc) - 1
  BY <1>1, EraseChild
<1>8. "client_count" \notin torn' =>
        client_count' = Cardinality(DOMAIN proc') + PendingCount'
  BY <1>1, <1>2, <1>3, <1>7, ChildrenFinite DEF Exact, PendingCount, TypeOK
<1>9. ASSUME NEW ip \in Ips \ torn'
      PROVE  ip2conncount'[ip] = Cardinality(OfIp(DOMAIN proc, ip)') + PendingIp(ip)'
  <2>1. ip2conncount[ip] = Cardinality(OfIp(DOMAIN proc, ip)) + PendingIp(ip)
    BY <1>1, <1>3, <1>9 DEF Exact
  <2>2. PendingIp(ip)' = PendingIp(ip) /\ PendingIp(ip) \in {0, 1}
    BY <1>1 DEF PendingIp
  <2>3. CASE ip = a
    <3>1. Cardinality(OfIp(DOMAIN proc, ip)') = Cardinality(OfIp(DOMAIN proc, ip)) - 1
          /\ Cardinality(OfIp(DOMAIN proc, ip)) > 0
      BY <1>1, <2>3, ReapCounts
    <3>2. ip2conncount'[ip] = ip2conncount[ip] - 1
      BY <1>2, <2>1, <2>2, <2>3, <3>1, OfIpFinite DEF TypeOK
    <3> QED
      BY <2>1, <2>2, <3>1, <3>2, OfIpFinite
  <2>4. CASE ip # a
    <3>1. Cardinality(OfIp(DOMAIN proc, ip)') = Cardinality(OfIp(DOMAIN proc, ip))
      BY <1>1, <2>4, ReapCounts, OfIpFinite
    <3>2. ip2conncount'[ip] = ip2conncount[ip]
      BY <1>2, <2>4 DEF TypeOK
    <3> QED
      BY <2>1, <2>2, <3>1, <3>2
  <2> QED
    BY <2>3, <2>4
<1> QED
  BY <1>6, <1>8, <1>9 DEF Exact

\* The counters, and what is on its way into them, stay exact.
LEMMA ExactStep ==
  ASSUME TypeOK, TypeOK', HandlerNeedsMain, Tracked, RegisterExact, Exact, [Next]_vars
  PROVE  RegisterExact' /\ Exact'
<1> USE DEF RegisterExact, Exact, PendingCount, PendingIp, TypeOK
<1>n. /\ Cardinality(DOMAIN proc) \in Nat
      /\ \A ip : Cardinality(OfIp(DOMAIN proc, ip)) \in Nat
  BY ChildrenFinite, OfIpFinite
<1>a. ASSUME UNCHANGED proc
      PROVE  \A ip : OfIp(DOMAIN proc, ip)' = OfIp(DOMAIN proc, ip)
  BY <1>a DEF OfIp
<1>1. ASSUME NEW ip \in Ips, Accept(ip) PROVE RegisterExact' /\ Exact'
  BY <1>1, <1>a, <1>n DEF Accept, At, tables
<1>2. CASE AcceptFails \/ ForkFails
  BY <1>2 DEF AcceptFails, ForkFails
<1>3. CASE LoadCount
  BY <1>3, <1>a, <1>n DEF LoadCount, At, tables
<1>4. CASE StoreCount
  BY <1>4, <1>a, <1>n DEF StoreCount, At
<1>5. CASE LookupIp
  BY <1>5, <1>a, <1>n DEF LookupIp, At, tables
<1>6. CASE LoadIp
  BY <1>6, <1>a, <1>n DEF LoadIp, At, tables
<1>7. CASE StoreIp
  BY <1>7, <1>a, <1>n DEF StoreIp, At
<1>8. ASSUME NEW p \in Pids, Fork(p) PROVE RegisterExact' /\ Exact'
  <2>1. /\ pc = "fork" /\ pc' = "record" /\ ~dangling /\ ~dangling'
        /\ UNCHANGED <<conn_ip, client_count, ip2conncount, torn>>
    BY <1>8 DEF Fork, At, tables
  <2> HIDE DEF TypeOK
  <2>2. Cardinality(DOMAIN proc') = Cardinality(DOMAIN proc) + 1
        /\ \A ip \in Ips :
             Cardinality(OfIp(DOMAIN proc, ip)') =
               Cardinality(OfIp(DOMAIN proc, ip)) + (IF ip = conn_ip THEN 1 ELSE 0)
    BY <1>8, ForkCounts
  <2> QED
    BY <2>1, <2>2, <1>n
<1>9. ASSUME NEW p \in Pids, Record(p) PROVE RegisterExact' /\ Exact'
  BY <1>9, <1>a, <1>n DEF Record, At
<1>10. CASE HandlerEnter \/ HandlerReturn
  BY <1>10, <1>a, <1>n DEF HandlerEnter, HandlerReturn, local, tables
<1>11. ASSUME NEW p \in Pids, Reap(p) PROVE RegisterExact' /\ Exact'
  BY <1>11, ReapKeepsExact
<1>12. ASSUME NEW p \in Pids, ReapUnknown(p) PROVE RegisterExact' /\ Exact'
  BY <1>12 DEF ReapUnknown
<1>13. ASSUME NEW p \in Pids, Refuse(p) \/ Serve(p) \/ Finish(p)
       PROVE  RegisterExact' /\ Exact'
  <2>1. /\ DOMAIN proc' = DOMAIN proc
        /\ \A ip : OfIp(DOMAIN proc, ip)' = OfIp(DOMAIN proc, ip)
    BY <1>13, ChildKeepsAddress DEF OfIp
  <2>2. UNCHANGED <<pc, local, tables, torn>>
    BY <1>13 DEF Refuse, Serve, Finish, Exit
  <2> QED
    BY <2>1, <2>2, <1>n DEF local, tables
<1>14. CASE UNCHANGED vars
  BY <1>14, <1>a, <1>n DEF vars, local, tables
<1> QED
  BY <1>1, <1>2, <1>3, <1>4, <1>5, <1>6, <1>7, <1>8, <1>9, <1>10, <1>11,
     <1>12, <1>13, <1>14
  DEF Next, Main, Handler, Children

\* The history of lost updates only grows.
LEMMA TornGrows == ASSUME [Next]_vars PROVE torn \subseteq torn'
<1>1. CASE Main
  BY <1>1 DEF Main, Accept, AcceptFails, ForkFails, LoadCount, StoreCount,
     LookupIp, LoadIp, StoreIp, Fork, Record
<1>2. CASE Handler
  BY <1>2 DEF Handler, HandlerEnter, HandlerReturn, Reap, ReapUnknown
<1>3. CASE Children
  BY <1>3 DEF Children, Refuse, Serve, Finish, Exit
<1> QED
  BY <1>1, <1>2, <1>3 DEF Next, vars

\* A child forked while its address's counter is untorn holds a copy that
\* counts every unreaped child of that address and itself.
LEMMA IpGroupStep ==
  ASSUME TypeOK, TypeOK', Exact, IpCopiesCoverGroups, [Next]_vars
  PROVE  IpCopiesCoverGroups'
<1> SUFFICES ASSUME NEW ip \in Ips \ torn', NEW S \in SUBSET OfIp(Live, ip)', S # {}
             PROVE  \E q \in S : proc'[q].conns >= Cardinality(S)
  BY DEF IpCopiesCoverGroups
<1>1. ip \in Ips \ torn
  BY TornGrows
<1>2. ASSUME NEW p \in Pids, Fork(p)
      PROVE  \E q \in S : proc'[q].conns >= Cardinality(S)
  <2>1. /\ DOMAIN proc' = DOMAIN proc \cup {p} /\ p \notin DOMAIN proc
        /\ proc'[p] = CopyAtFork
        /\ \A q \in DOMAIN proc : proc'[q] = proc[q]
        /\ Cardinality(OfIp(DOMAIN proc, ip)') =
             Cardinality(OfIp(DOMAIN proc, ip)) + (IF ip = conn_ip THEN 1 ELSE 0)
    BY <1>2, ForkCounts
  <2>2. CASE p \in S
    <3>1. ip = conn_ip /\ proc'[p].conns = ip2conncount[ip]
      BY <2>1, <2>2 DEF OfIp, CopyAtFork
    <3>2. ip2conncount[ip] = Cardinality(OfIp(DOMAIN proc, ip)')
      BY <1>1, <1>2, <2>1, <3>1 DEF Exact, PendingIp, Fork, At
    <3>3. S \in SUBSET (OfIp(DOMAIN proc, ip)')
      BY DEF OfIp, Live, In
    <3>4. IsFiniteSet(OfIp(DOMAIN proc, ip)')
      <4>1. IsFiniteSet(DOMAIN proc')
        BY <2>1, ChildrenFinite, FS_AddElement
      <4> QED
        BY <4>1, FS_Subset DEF OfIp
    <3> QED
      BY <2>2, <3>1, <3>2, <3>3, <3>4, FS_Subset, FS_CardinalityType
  <2>3. CASE p \notin S
    <3>1. S \in SUBSET OfIp(Live, ip)
      BY <2>1, <2>3 DEF OfIp, Live, In
    <3>2. PICK q \in S : proc[q].conns >= Cardinality(S)
      BY <1>1, <3>1 DEF IpCopiesCoverGroups
    <3> QED
      BY <2>1, <3>1, <3>2 DEF OfIp, Live, In
  <2> QED
    BY <2>2, <2>3
<1>3. CASE ~ \E p \in Pids : Fork(p)
  <2>1. KeepsCopies
    BY <1>3, NoForkKeepsCopies
  <2>2. S \in SUBSET OfIp(Live, ip)
    BY <2>1 DEF KeepsCopies, OfIp
  <2>3. PICK q \in S : proc[q].conns >= Cardinality(S)
    BY <1>1, <2>2 DEF IpCopiesCoverGroups
  <2> QED
    BY <2>1, <2>3 DEF KeepsCopies, OfIp
<1> QED
  BY <1>2, <1>3

\* Only Serve makes a child serve, and it has passed the test of its address.
LEMMA IpTestStep ==
  ASSUME TypeOK, TypeOK', ServingPassedIpTest, [Next]_vars
  PROVE  ServingPassedIpTest'
<1> SUFFICES ASSUME MaxConnsPerIp > 0, NEW q \in Serving'
             PROVE  proc'[q].conns <= MaxConnsPerIp
  BY DEF ServingPassedIpTest
<1> USE DEF Serving, In, ServingPassedIpTest
<1>1. ASSUME NEW p \in Pids, Fork(p) PROVE proc'[q].conns <= MaxConnsPerIp
  BY <1>1 DEF Fork, Assign, CopyAtFork
<1>2. ASSUME NEW p \in Pids, Serve(p) PROVE proc'[q].conns <= MaxConnsPerIp
  <2>1. CASE q = p
    BY <1>2, <2>1, ConstantsAssumption DEF Serve, OverLimit, TypeOK, Child
  <2>2. CASE q # p
    BY <1>2, <2>2 DEF Serve, TypeOK, Child
  <2> QED
    BY <2>1, <2>2
<1>3. ASSUME NEW p \in Pids, Refuse(p) \/ Finish(p) PROVE proc'[q].conns <= MaxConnsPerIp
  BY <1>3 DEF Refuse, Finish, Exit, TypeOK, Child
<1>4. ASSUME NEW p \in Pids, Reap(p) \/ ReapUnknown(p)
      PROVE  proc'[q].conns <= MaxConnsPerIp
  BY <1>4 DEF Reap, ReapUnknown, Erase
<1>5. CASE UNCHANGED proc
  BY <1>5
<1> QED
  BY <1>1, <1>2, <1>3, <1>4, <1>5 DEF Next, Main, Accept, AcceptFails, ForkFails,
     LoadCount, StoreCount, LookupIp, LoadIp, StoreIp, Record, Handler,
     HandlerEnter, HandlerReturn, Children, vars

\* The inductive invariant behind the limit per address.
IpInv == RegisterExact /\ Exact /\ IpCopiesCoverGroups /\ ServingPassedIpTest

\* The server starts with no child, empty counters and nothing torn.
LEMMA IpInitially == Init => IpInv
<1> SUFFICES ASSUME Init PROVE IpInv
  OBVIOUS
<1>1. DOMAIN proc = {} /\ \A ip : OfIp(DOMAIN proc, ip) = {}
  BY DEF Init, OfIp
<1>2. Live = {} /\ Serving = {}
  BY <1>1 DEF Live, Serving, In
<1>3. Exact
  <2>1. Cardinality(DOMAIN proc) = 0 /\ \A ip : Cardinality(OfIp(DOMAIN proc, ip)) = 0
    BY <1>1, FS_EmptySet
  <2>2. /\ client_count = 0 /\ PendingCount = 0
        /\ \A ip \in Ips : ip2conncount[ip] = 0 /\ PendingIp(ip) = 0
    BY DEF Init, PendingCount, PendingIp
  <2> QED
    BY <2>1, <2>2 DEF Exact
<1>4. IpCopiesCoverGroups /\ ServingPassedIpTest
  BY <1>2 DEF IpCopiesCoverGroups, ServingPassedIpTest, OfIp
<1> QED
  BY <1>3, <1>4 DEF Init, IpInv, RegisterExact

\* IpInv is an invariant of the accept loop, its handler and its children.
THEOREM IpInvariance == Spec => []IpInv
<1>1. TypeOK /\ TypeOK' /\ IInv /\ Tracked /\ IpInv /\ [Next]_vars => IpInv'
  BY ExactStep, IpGroupStep, IpTestStep DEF IpInv, IInv
<1> QED
  BY IpInitially, <1>1, TypeCorrect, Invariance, ChildrenTracked, PTL DEF Spec

\* A counter of connection_limit.cpp that has lost no update to the handler is
\* exact at every instant of increase_connection() and decrease_connection().
THEOREM CountersExact == Spec => []CountersExactUnlessTorn
<1>1. IpInv => CountersExactUnlessTorn
  BY ExactIsProperty DEF IpInv
<1> QED
  BY <1>1, IpInvariance, PTL

\* check_connection_limit() enforces max_conns_per_ip for every address whose
\* counter has lost no update, for any number of pids and any limit.
THEOREM PerIpLimitHolds == Spec => []PerIpLimitUnlessTorn
<1>1. ASSUME TypeOK, IpInv PROVE PerIpLimitUnlessTorn
  <2> SUFFICES ASSUME MaxConnsPerIp > 0, NEW ip \in Ips \ torn
               PROVE  Cardinality(OfIp(Serving, ip)) <= MaxConnsPerIp
    BY DEF PerIpLimitUnlessTorn
  <2> DEFINE S == OfIp(Serving, ip)
  <2>1. S \in SUBSET OfIp(Live, ip) /\ S \in SUBSET DOMAIN proc /\ S \subseteq Serving
    BY DEF OfIp, Live, Serving, In
  <2>2. Cardinality(S) \in Nat
    BY <1>1, <2>1, ChildrenFinite
  <2>3. CASE S = {}
    BY <2>3, FS_EmptySet, ConstantsAssumption
  <2>4. CASE S # {}
    <3>1. PICK p \in S : proc[p].conns >= Cardinality(S)
      BY <1>1, <2>1, <2>4 DEF IpInv, IpCopiesCoverGroups
    <3>2. proc[p].conns <= MaxConnsPerIp /\ proc[p].conns \in Nat
      BY <1>1, <2>1 DEF IpInv, ServingPassedIpTest, TypeOK, Child
    <3> QED
      BY <2>2, <3>1, <3>2, ConstantsAssumption
  <2> QED
    BY <2>3, <2>4
<1> QED
  BY <1>1, TypeCorrect, IpInvariance, PTL
=============================================================================
