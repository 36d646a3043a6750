----------------------------- MODULE DaemonProofs -----------------------------
(***************************************************************************)
(* Theorems about the main process and the sessions together, for any      *)
(* number of children.                                                     *)
(***************************************************************************)
EXTENDS Daemon, ConnectionLimitProofs

\* A child that ends leaves the ones that serve, and no other child does.
LEMMA FinishLeaves ==
  ASSUME TypeOK, NEW p \in Pids, Finish(p)
  PROVE  Serving' = Serving \ {p} /\ p \in Serving
<1>1. /\ DOMAIN proc' = DOMAIN proc /\ proc'[p].state = "zombie" /\ p \in Serving
      /\ \A q \in DOMAIN proc \ {p} : proc'[q] = proc[q]
  BY DEF Finish, Exit, TypeOK, Child, Serving, In
<1> QED  BY <1>1 DEF Serving, In

\* Nothing outside start_ftp_service() ends a child that serves.
LEMMA OutsideKeeps ==
  ASSUME TypeOK, Outside
  PROVE  Serving \subseteq Serving'
<1>1. CASE Main
  BY <1>1 DEF Main, Accept, AcceptFails, ForkFails, LoadCount, StoreCount, LookupIp, LoadIp,
     StoreIp, Fork, Record, Assign, Serving, In
<1>2. CASE Handler
  BY <1>2 DEF Handler, HandlerEnter, HandlerReturn, Reap, ReapUnknown, Erase, Zombies,
     Serving, In
<1>3. ASSUME NEW p \in Pids, Refuse(p) \/ Serve(p)
      PROVE  Serving \subseteq Serving'
  BY <1>3 DEF Refuse, Serve, Exit, TypeOK, Child, Serving, In
<1> QED  BY <1>1, <1>2, <1>3 DEF Outside

\* A step of a session is a step of its child or none, for the main process.
LEMMA DaemonStep ==
  ASSUME [DaemonNext]_allVars
  PROVE  [Next]_vars
BY DEF DaemonNext, allVars, Outside, OrphanExits, ForkFtp, ForkFtpFails, FtpExits, HelperLost,
   HelperFollows, HelperSpins, Starting, Finish, In, Serving, Next, Children

\* With its sessions the main process still is the process ConnectionLimit
\* describes: what holds there holds in the daemon.
THEOREM DaemonImplementsMain == DaemonSpec => Spec
<1>1. DaemonInit => Init
  BY DEF DaemonInit
<1> QED  BY <1>1, DaemonStep, PTL DEF DaemonSpec, Spec

LEMMA SessionsStep ==
  ASSUME TypeOK, DaemonTypeOK, [DaemonNext]_allVars
  PROVE  DaemonTypeOK'
<1> USE DEF DaemonTypeOK
<1>1. CASE Outside
  BY <1>1, OutsideKeeps DEF Outside, sessions
<1>2. CASE OrphanExits
  BY <1>2, MaxOrphansAssumption DEF OrphanExits, vars, Serving, In
<1>3. ASSUME NEW p \in Pids, ForkFtp(p) \/ FtpExits(p) \/ HelperSpins(p)
      PROVE  DaemonTypeOK'
  BY <1>3 DEF ForkFtp, FtpExits, HelperSpins, Starting, vars, Serving, In
<1>4. ASSUME NEW p \in Pids, ForkFtpFails(p) \/ HelperFollows(p) \/ HelperLost(p)
      PROVE  DaemonTypeOK'
  <2>1. Serving' = Serving \ {p}
    BY <1>4, FinishLeaves DEF ForkFtpFails, HelperFollows, HelperLost
  <2>2. CASE ForkFtpFails(p)
    BY <2>1, <2>2 DEF ForkFtpFails, Starting, sessions
  <2>3. CASE HelperFollows(p)
    BY <2>1, <2>3 DEF HelperFollows
  <2>4. CASE HelperLost(p)
    BY <2>1, <2>4, MaxOrphansAssumption DEF HelperLost
  <2> QED  BY <1>4, <2>2, <2>3, <2>4
<1>5. CASE UNCHANGED allVars
  BY <1>5 DEF allVars, sessions, vars, Serving, In
<1> QED  BY <1>1, <1>2, <1>3, <1>4, <1>5 DEF DaemonNext

\* Every session's nobody process is a child that serves, and its FTP process
\* lives or does not: the tables of main() and the sessions never disagree.
THEOREM SessionsAreChildren == DaemonSpec => []DaemonTypeOK
<1>1. DaemonInit => DaemonTypeOK
  BY MaxOrphansAssumption DEF DaemonInit, DaemonTypeOK
<1>2. TypeOK /\ DaemonTypeOK /\ [DaemonNext]_allVars => DaemonTypeOK'
  BY SessionsStep
<1> QED  BY <1>1, <1>2, DaemonImplementsMain, TypeCorrect, PTL DEF DaemonSpec

\* readme.md's limit holds for the nobody processes, for any limit and any
\* number of children: what passes it are the FTP processes whose helper is
\* gone.
THEOREM HelpersWithinLimitHolds == DaemonSpec => []HelpersWithinLimit
<1>1. TypeOK /\ DaemonTypeOK /\ TotalLimit => HelpersWithinLimit
  <2> SUFFICES ASSUME TypeOK, DaemonTypeOK, TotalLimit, MaximumClients > 0
               PROVE  Cardinality(paired \cup alone) <= MaximumClients
    BY DEF HelpersWithinLimit
  <2> DEFINE helpers == paired \cup alone
  <2>1. IsFiniteSet(Serving) /\ helpers \subseteq Serving
    BY ChildrenFinite DEF Serving, In, DaemonTypeOK
  <2> HIDE DEF helpers
  <2>2. /\ IsFiniteSet(helpers) /\ Cardinality(helpers) <= Cardinality(Serving)
        /\ Cardinality(helpers) \in Nat /\ Cardinality(Serving) \in Nat
    BY <2>1, FS_Subset, FS_CardinalityType
  <2>3. Cardinality(helpers) <= MaximumClients
    BY <2>2, ConstantsAssumption DEF TotalLimit
  <2> QED  BY <2>3 DEF helpers
<1> QED
  BY <1>1, DaemonImplementsMain, TypeCorrect, TotalLimitHolds, SessionsAreChildren, PTL
=============================================================================
