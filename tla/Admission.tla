------------------------------ MODULE Admission ------------------------------
(***************************************************************************)
(* What the connection limit of the server promises, with no counter in    *)
(* sight: the set of clients being served never outgrows Limit.  A Limit   *)
(* of 0 means that there is no limit (config.h, maximum_clients).          *)
(***************************************************************************)
EXTENDS Integers, FiniteSets

CONSTANTS Clients,  \* who can be served
          Limit     \* how many of them at once, 0 for any number

VARIABLE admitted   \* the clients being served

Init == admitted = {}

Admit(c) ==
  /\ c \notin admitted
  /\ Limit = 0 \/ Cardinality(admitted) < Limit
  /\ admitted' = admitted \cup {c}

Leave(c) ==
  /\ c \in admitted
  /\ admitted' = admitted \ {c}

Next == \E c \in Clients : Admit(c) \/ Leave(c)

Spec == Init /\ [][Next]_admitted
=============================================================================
