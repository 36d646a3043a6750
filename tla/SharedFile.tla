------------------------------ MODULE SharedFile ------------------------------
(***************************************************************************)
(* What sessions that share files are promised, whatever locks they take:  *)
(* a file is read by any number of sessions or written by one, and nobody  *)
(* but its writer changes it.                                              *)
(***************************************************************************)
EXTENDS Integers, Sequences

CONSTANT Sessions

VARIABLES
  files,   \* contents of the files, by number
  reads,   \* session -> number of the file it reads, 0: none
  writes   \* session -> number of the file it writes, 0: none

Init ==
  /\ files \in {<<>>, << <<>> >>}
  /\ reads = [s \in Sessions |-> 0]
  /\ writes = [s \in Sessions |-> 0]

Unwritten(f) == \A s \in Sessions : writes[s] # f
Unread(f) == \A s \in Sessions : reads[s] # f
Free(s) == reads[s] = 0 /\ writes[s] = 0

Create ==
  /\ files' = Append(files, <<>>)
  /\ UNCHANGED <<reads, writes>>

BeginRead(s, f) ==
  /\ Free(s) /\ Unwritten(f)
  /\ reads' = [reads EXCEPT ![s] = f]
  /\ UNCHANGED <<files, writes>>

BeginWrite(s, f) ==
  /\ Free(s) /\ Unwritten(f) /\ Unread(f)
  /\ writes' = [writes EXCEPT ![s] = f]
  /\ UNCHANGED <<files, reads>>

End(s) ==
  /\ ~Free(s)
  /\ reads' = [reads EXCEPT ![s] = 0]
  /\ writes' = [writes EXCEPT ![s] = 0]
  /\ UNCHANGED files

Write(s) ==
  /\ writes[s] # 0
  /\ DOMAIN files' = DOMAIN files
  /\ \A f \in DOMAIN files \ {writes[s]} : files'[f] = files[f]
  /\ UNCHANGED <<reads, writes>>

Next ==
  \/ Create
  \/ \E s \in Sessions : End(s) \/ Write(s)
  \/ \E s \in Sessions, f \in DOMAIN files : BeginRead(s, f) \/ BeginWrite(s, f)

Spec == Init /\ [][Next]_<<files, reads, writes>>
=============================================================================
