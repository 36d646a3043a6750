------------------------------ MODULE DataChannel ------------------------------
(***************************************************************************)
(* What the FTP process relies on when it asks for a data connection,      *)
(* without the helper process, the socketpair or its messages: the client  *)
(* prepares an endpoint, a transfer asks for it, and gets a connection to  *)
(* exactly that endpoint or a refusal; afterwards nothing is prepared.     *)
(* Only a session whose helper is lost may be told otherwise.              *)
(***************************************************************************)
CONSTANTS Endpoints,  \* where a data connection can lead: [mode, at]
          None        \* no endpoint

VARIABLES prepared,   \* endpoints prepared by PORT and PASV since the last transfer
          pending,    \* a transfer command is waiting for its connection
          channel,    \* the endpoint the running transfer is connected to
          helper      \* the helper process is alive

vars == <<prepared, pending, channel, helper>>

Init == prepared = {} /\ pending = FALSE /\ channel = None /\ helper = TRUE

\* PORT or PASV: the endpoint replaces others of its kind.
Prepare(e) ==
  /\ ~pending /\ channel = None
  /\ prepared' = {x \in prepared : x.mode # e.mode} \cup {e}
  /\ UNCHANGED <<pending, channel, helper>>

Ask ==
  /\ ~pending /\ channel = None
  /\ pending'
  /\ UNCHANGED <<prepared, channel, helper>>

Connect(e) ==
  /\ pending /\ ~pending'
  /\ prepared = {e} \/ ~helper
  /\ channel' = e
  /\ UNCHANGED <<prepared, helper>>

\* A refused or a finished transfer leaves nothing prepared.
Close ==
  /\ prepared' = {} /\ ~pending' /\ channel' = None
  /\ UNCHANGED helper

LoseHelper == helper /\ ~helper' /\ UNCHANGED <<prepared, pending, channel>>

Next ==
  \/ \E e \in Endpoints : Prepare(e)
  \/ Ask \/ Close \/ LoseHelper
  \/ \E e \in Endpoints \cup {None} : Connect(e)

Spec == Init /\ [][Next]_vars
=============================================================================
