-------------------------- MODULE FileTransfersProofs --------------------------
(***************************************************************************)
(* Theorems about the fcntl locks around transfers, for any number of      *)
(* sessions and files of any length.                                       *)
(***************************************************************************)
EXTENDS FileTransfers, SequenceTheorems, TLAPS

Blocks == Sessions \cup {Hole}

\* write() keeps every block but the one it is given.
LEMMA WriteAtProperties ==
  ASSUME NEW c \in Seq(Blocks), NEW p \in Nat, NEW b \in Blocks
  PROVE  /\ WriteAt(c, p, b) \in Seq(Blocks)
         /\ Len(WriteAt(c, p, b)) = IF p < Len(c) THEN Len(c) ELSE p + 1
         /\ \A k \in DOMAIN c : k # p + 1 => WriteAt(c, p, b)[k] = c[k]
         /\ WriteAt(c, p, b)[p + 1] = b
<1> DEFINE n == IF p < Len(c) THEN Len(c) ELSE p + 1
<1>1. n \in Nat /\ p + 1 \in 1 .. n /\ DOMAIN c \subseteq 1 .. n
  OBVIOUS
<1>2. WriteAt(c, p, b) \in [1 .. n -> Blocks]
  <2>1. \A k \in 1 .. Len(c) : c[k] \in Blocks
    OBVIOUS
  <2> QED  BY <2>1 DEF WriteAt, Blocks
<1>3. WriteAt(c, p, b) \in Seq(Blocks) /\ Len(WriteAt(c, p, b)) = n
  BY <1>1, <1>2
<1>4. /\ \A k \in DOMAIN c : k # p + 1 => WriteAt(c, p, b)[k] = c[k]
      /\ WriteAt(c, p, b)[p + 1] = b
  BY <1>1 DEF WriteAt
<1> QED  BY <1>3, <1>4

-----------------------------------------------------------------------------
\* The type invariant with names for the sets of sequences, so that a proof
\* sees into them only where a step makes a sequence.
Files == Seq(Seq(Blocks))
Moves == Seq(Blocks)

LocalsTyped ==
  /\ link \in 0 .. Len(content)
  /\ pc \in [Sessions -> Stages \cup {"idle"}]
  /\ op \in [Sessions -> Commands]
  /\ inode \in [Sessions -> 0 .. Len(content)]
  /\ size \in [Sessions -> Nat]
  /\ restart_position \in [Sessions -> Int]
  /\ pos \in [Sessions -> Nat]
  /\ left \in [Sessions -> Nat]
  /\ moved \in [Sessions -> Moves]
  /\ cut \in [Sessions -> BOOLEAN]
  /\ \A s \in Sessions : pc[s] \in Stages => inode[s] # 0

LEMMA Typing ==
  /\ TypeOK <=> (content \in Files /\ LocalsTyped)
  /\ TypeOK' <=> (content' \in Files /\ LocalsTyped')
BY DEF TypeOK, LocalsTyped, Files, Moves, Blocks

LEMMA TypedFiles ==
  ASSUME content \in Files
  PROVE  /\ Len(content) \in Nat
         /\ DOMAIN content = 1 .. Len(content)
         /\ \A i \in DOMAIN content :
              /\ content[i] \in Moves
              /\ Len(content[i]) \in Nat
              /\ DOMAIN content[i] = 1 .. Len(content[i])
              /\ \A k \in DOMAIN content[i] : content[i][k] \in Blocks
BY DEF Files, Moves

\* What the steps make of the files and of what a transfer has moved.
LEMMA Made ==
  ASSUME content \in Files
  PROVE  /\ <<>> \in Moves
         /\ Append(content, <<>>) \in Files
         /\ Len(Append(content, <<>>)) = Len(content) + 1
         /\ \A i \in DOMAIN content, c \in Moves :
              /\ [content EXCEPT ![i] = c] \in Files
              /\ Len([content EXCEPT ![i] = c]) = Len(content)
              /\ [content EXCEPT ![i] = c][i] = c
              /\ \A j \in DOMAIN content \ {i} : [content EXCEPT ![i] = c][j] = content[j]
         /\ \A m \in Moves, b \in Blocks : Append(m, b) \in Moves
         /\ \A c \in Moves, p \in Nat, b \in Blocks : WriteAt(c, p, b) \in Moves
<1>1. <<>> \in Moves
  BY DEF Moves
<1>2. Append(content, <<>>) \in Files /\ Len(Append(content, <<>>)) = Len(content) + 1
  BY <1>1, AppendProperties DEF Files, Moves
<1>3. ASSUME NEW i \in DOMAIN content, NEW c \in Moves
      PROVE  /\ [content EXCEPT ![i] = c] \in Files
             /\ Len([content EXCEPT ![i] = c]) = Len(content)
             /\ [content EXCEPT ![i] = c][i] = c
             /\ \A j \in DOMAIN content \ {i} : [content EXCEPT ![i] = c][j] = content[j]
  <2>1. i \in 1 .. Len(content)
    BY TypedFiles
  <2> QED  BY <2>1, ExceptSeq DEF Files, Moves
<1>4. ASSUME NEW m \in Moves, NEW b \in Blocks
      PROVE  Append(m, b) \in Moves
  BY AppendProperties DEF Moves
<1>5. ASSUME NEW c \in Moves, NEW p \in Nat, NEW b \in Blocks
      PROVE  WriteAt(c, p, b) \in Moves
  BY WriteAtProperties DEF Moves
<1> QED  BY <1>1, <1>2, <1>3, <1>4, <1>5

\* A stretch of a file that is sent.
LEMMA Stretch ==
  ASSUME NEW c \in Moves, NEW p \in Nat, NEW k \in Nat, p + k <= Len(c)
  PROVE  /\ SubSeq(c, p + 1, p + k) \in Moves
         /\ Len(SubSeq(c, p + 1, p + k)) = k
         /\ \A i \in 1 .. k : SubSeq(c, p + 1, p + k)[i] = c[p + i]
<1>1. PICK f \in Nat, g \in Nat : f = p + 1 /\ g = p + k
  OBVIOUS
<1>2. c \in Seq(Blocks) /\ f >= 1 /\ g <= Len(c) /\ f <= g + 1
  BY <1>1 DEF Moves
<1>3. \A i \in f .. g : c[i] \in Blocks
  BY <1>2
<1>4. /\ SubSeq(c, f, g) \in Seq(Blocks)
      /\ Len(SubSeq(c, f, g)) = g - f + 1
      /\ \A i \in 1 .. g - f + 1 : SubSeq(c, f, g)[i] = c[f + i - 1]
  BY <1>2, <1>3, SubSeqProperties
<1>5. g - f + 1 = k /\ \A i \in 1 .. k : f + i - 1 = p + i
  BY <1>1
<1>6. /\ SubSeq(c, f, g) \in Moves
      /\ Len(SubSeq(c, f, g)) = k
      /\ \A i \in 1 .. k : SubSeq(c, f, g)[i] = c[p + i]
  BY <1>4, <1>5 DEF Moves
<1> QED  BY <1>1, <1>6

\* What sendfile() does to the session it sends for.
LEMMA SendEffect ==
  ASSUME TypeOK, NEW s \in Sessions, Send(s)
  PROVE  LET i == inode[s] IN
         /\ pc[s] = "send" /\ i \in DOMAIN content /\ content[i] \in Moves
         /\ moved[s] \in Moves /\ pos[s] \in Nat /\ left[s] \in Nat /\ left[s] > 0
         /\ UNCHANGED <<link, content, pc, op, inode, size, restart_position>>
         /\ left' = [left EXCEPT ![s] = IF left[s] > Chunk THEN left[s] - Chunk ELSE 0]
         /\ \/ There(s) = {} /\ UNCHANGED <<moved, pos, cut>>
            \/ \E k \in There(s) :
                 /\ moved' = [moved EXCEPT ![s] =
                                moved[s] \o SubSeq(content[i], pos[s] + 1, pos[s] + k)]
                 /\ pos' = [pos EXCEPT ![s] = pos[s] + k]
                 /\ cut' = [cut EXCEPT ![s] = cut[s] \/ k + 1 \in There(s)]
<1>1. /\ pc[s] = "send" /\ left[s] > 0
      /\ UNCHANGED <<link, content, op, inode, size, restart_position>>
  BY DEF Send, Go, fd
<1>2. /\ content \in Files /\ LocalsTyped
  BY Typing
<1>3. pc' = pc
  BY <1>2 DEF Send, Go, LocalsTyped
<1>4. inode[s] \in DOMAIN content
  BY <1>1, <1>2, TypedFiles DEF LocalsTyped, Stages
<1>5. /\ content[inode[s]] \in Moves
      /\ moved[s] \in Moves /\ pos[s] \in Nat /\ left[s] \in Nat
  BY <1>2, <1>4, TypedFiles DEF LocalsTyped
<1>6. left' = [left EXCEPT ![s] = IF left[s] > Chunk THEN left[s] - Chunk ELSE 0]
  BY DEF Send
<1>7. \/ There(s) = {} /\ UNCHANGED <<moved, pos, cut>>
      \/ \E k \in There(s) :
           /\ moved' = [moved EXCEPT ![s] =
                          moved[s] \o SubSeq(content[inode[s]], pos[s] + 1, pos[s] + k)]
           /\ pos' = [pos EXCEPT ![s] = pos[s] + k]
           /\ cut' = [cut EXCEPT ![s] = cut[s] \/ k + 1 \in There(s)]
  BY DEF Send
<1> QED  BY <1>1, <1>3, <1>4, <1>5, <1>6, <1>7
-----------------------------------------------------------------------------
\* Every variable keeps its type.
LEMMA TypeStep ==
  ASSUME TypeOK, [Next]_vars
  PROVE  TypeOK'
<1> SUFFICES content' \in Files /\ LocalsTyped'
  BY Typing
<1>0. content \in Files /\ LocalsTyped
  BY Typing
<1> USE <1>0 DEF LocalsTyped
<1>1. CASE Dele
  BY <1>1, TypedFiles DEF Dele, fd
<1>2. ASSUME NEW s \in Sessions, NEW n \in -1 .. MaxLen - 1, Rest(s, n)
      PROVE  content' \in Files /\ LocalsTyped'
  BY <1>2, ConstantsAssumption DEF Rest, fd
<1>3. ASSUME NEW s \in Sessions, Fails(s) \/ Dies(s) \/ Finish(s)
      PROVE  content' \in Files /\ LocalsTyped'
  <2>1. /\ Close(s)
        /\ restart_position' = restart_position \/ TakeOffset(s)
    BY <1>3 DEF Fails, Dies, Finish
  <2> QED  BY <2>1, TypedFiles, Made DEF Close, TakeOffset, Commands, Stages
<1>4. ASSUME NEW s \in Sessions, OpenDownload(s)
      PROVE  content' \in Files /\ LocalsTyped'
  BY <1>4, TypedFiles DEF OpenDownload, Go, Stages, Commands
<1>5. ASSUME NEW s \in Sessions, NEW c \in Commands, OpenUpload(s, c)
      PROVE  content' \in Files /\ LocalsTyped'
  <2>1. /\ content' \in Files
        /\ link' \in 1 .. Len(content')
        /\ Len(content) <= Len(content')
    BY <1>5, TypedFiles, Made DEF OpenUpload
  <2>2. Len(content') \in Nat
    BY <2>1 DEF Files
  <2> QED  BY <1>5, <2>1, <2>2, TypedFiles DEF OpenUpload, Go, Stages
<1>6. ASSUME NEW s \in Sessions, Lock(s) \/ SendDone(s) \/ RecvEof(s)
      PROVE  content' \in Files /\ LocalsTyped'
  BY <1>6 DEF Lock, SendDone, RecvEof, Go, Stages, fd
<1>7. ASSUME NEW s \in Sessions, StartDownload(s)
      PROVE  content' \in Files /\ LocalsTyped'
  BY <1>7 DEF StartDownload, TakeOffset, Go, Stages, fd
<1>8. ASSUME NEW s \in Sessions, StartUpload(s)
      PROVE  content' \in Files /\ LocalsTyped'
  <2>1. inode[s] \in DOMAIN content
    BY <1>8, TypedFiles DEF StartUpload, Go, Stages
  <2>2. content' \in Files /\ Len(content') = Len(content)
    BY <1>8, <2>1, Made DEF StartUpload
  <2>3. pos' \in [Sessions -> Nat]
    <3>1. op[s] = "APPE" \/ restart_position[s] \in Nat
      BY <1>8 DEF StartUpload, Commands
    <3> QED  BY <1>8, <2>1, <3>1, TypedFiles DEF StartUpload
  <2> QED  BY <1>8, <2>2, <2>3 DEF StartUpload, TakeOffset, Go, Stages, fd
<1>9. ASSUME NEW s \in Sessions, Send(s)
      PROVE  content' \in Files /\ LocalsTyped'
  <2>0. /\ left[s] \in Nat
        /\ left' = [left EXCEPT ![s] = IF left[s] > Chunk THEN left[s] - Chunk ELSE 0]
        /\ UNCHANGED <<content, link, pc, op, inode, size, restart_position>>
    BY <1>9, SendEffect
  <2>1. /\ left' \in [Sessions -> Nat]
        /\ UNCHANGED <<content, link, pc, op, inode, size, restart_position>>
    BY <2>0, ConstantsAssumption
  <2>2. CASE UNCHANGED <<moved, pos, cut>>
    BY <2>1, <2>2
  <2>3. ASSUME NEW k \in There(s),
               moved' = [moved EXCEPT ![s] =
                          moved[s] \o SubSeq(content[inode[s]], pos[s] + 1, pos[s] + k)],
               pos' = [pos EXCEPT ![s] = pos[s] + k],
               cut' = [cut EXCEPT ![s] = cut[s] \/ k + 1 \in There(s)]
        PROVE  content' \in Files /\ LocalsTyped'
    <3>1. /\ k \in Nat /\ pos[s] + k <= Len(content[inode[s]])
          /\ content[inode[s]] \in Moves /\ moved[s] \in Moves /\ pos[s] \in Nat
      BY <1>9, SendEffect, ConstantsAssumption DEF There
    <3>2. SubSeq(content[inode[s]], pos[s] + 1, pos[s] + k) \in Moves
      BY <3>1, Stretch
    <3>3. moved[s] \o SubSeq(content[inode[s]], pos[s] + 1, pos[s] + k) \in Moves
      BY <3>1, <3>2, ConcatProperties DEF Moves
    <3>4. /\ moved' \in [Sessions -> Moves]
          /\ pos' \in [Sessions -> Nat]
          /\ cut' \in [Sessions -> BOOLEAN]
      <4>1. moved' \in [Sessions -> Moves]
        BY <2>3, <3>3
      <4>2. pos' \in [Sessions -> Nat]
        <5>1. pos' = [pos EXCEPT ![s] = pos[s] + k] /\ pos[s] + k \in Nat
          BY <2>3, <3>1
        <5> QED  BY <5>1
      <4>3. cut' \in [Sessions -> BOOLEAN]
        <5>1. PICK b \in BOOLEAN : b = (cut[s] \/ k + 1 \in There(s))
          OBVIOUS
        <5>2. cut' = [cut EXCEPT ![s] = b]
          BY <2>3, <5>1
        <5> QED  BY <5>2
      <4> QED  BY <4>1, <4>2, <4>3
    <3> QED  BY <2>1, <3>4
  <2> QED  BY <1>9, <2>2, <2>3, SendEffect
<1>10. ASSUME NEW s \in Sessions, Recv(s)
       PROVE  content' \in Files /\ LocalsTyped'
  <2>1. inode[s] \in DOMAIN content /\ s \in Blocks
    BY <1>10, TypedFiles DEF Recv, Go, Stages, Blocks
  <2>2. content' \in Files /\ Len(content') = Len(content)
    BY <1>10, <2>1, TypedFiles, Made DEF Recv
  <2>3. moved' \in [Sessions -> Moves]
    BY <1>10, <2>1, Made DEF Recv
  <2> QED  BY <1>10, <2>2, <2>3 DEF Recv, Go, Stages, fd
<1>11. CASE UNCHANGED vars
  BY <1>11 DEF vars, fd
<1> QED
  BY <1>1, <1>2, <1>3, <1>4, <1>5, <1>6, <1>7, <1>8, <1>9, <1>10, <1>11
  DEF Next, SessionStep, Download

LEMMA InitTyped == Init => TypeOK
<1> SUFFICES ASSUME Init
             PROVE  content \in Files /\ LocalsTyped
  BY Typing
<1>1. content \in Files /\ link \in 0 .. Len(content) /\ Len(content) \in Nat
  BY DEF Init, Files
<1>2. <<>> \in Moves
  BY DEF Moves
<1> QED  BY <1>1, <1>2 DEF Init, LocalsTyped, Commands, Stages

\* Every variable keeps its type: what is left to send, counted down by
\* handle_retr(), never goes below zero, and a transfer has its file open.
THEOREM TransferTypes == Spec => []TypeOK
<1>1. Init => TypeOK
  BY InitTyped
<1>2. TypeOK /\ [Next]_vars => TypeOK'
  BY TypeStep
<1> QED  BY <1>1, <1>2, PTL DEF Spec
-----------------------------------------------------------------------------
\* The steps that leave alone who holds a lock on what, and the files.
Quiet(s) ==
  \/ \E n \in -1 .. MaxLen - 1 : Rest(s, n)
  \/ StartDownload(s) \/ Send(s) \/ SendDone(s) \/ RecvEof(s)

\* The steps that store into the file of a transfer.
Storing(s) == StartUpload(s) \/ Recv(s)

\* The steps with which a session lets go of its file.
Closing(s) == Fails(s) \/ Dies(s) \/ Finish(s)

\* The steps of nobody's session.
Aside ==
  Dele \/ UNCHANGED <<link, content, pc, fd, restart_position, pos, left, moved, cut>>

LEMMA Kinds ==
  [Next]_vars =>
    \/ Aside
    \/ \E s \in Sessions :
         \/ Quiet(s) \/ Storing(s) \/ Closing(s) \/ OpenDownload(s) \/ Lock(s)
         \/ \E c \in Commands : OpenUpload(s, c)
BY DEF Next, SessionStep, Download, Quiet, Storing, Closing, Aside, vars

\* A download sends, an upload receives.
StageFits ==
  \A s \in Sessions :
    /\ pc[s] = "send" => op[s] = "RETR"
    /\ pc[s] = "recv" => op[s] # "RETR"

LEMMA StageFitsStep ==
  ASSUME TypeOK, StageFits, [Next]_vars
  PROVE  StageFits'
<1> USE DEF StageFits, TypeOK
<1>1. CASE Aside
  BY <1>1 DEF Aside, Dele, fd
<1>2. ASSUME NEW s \in Sessions, Quiet(s) \/ Storing(s)
      PROVE  StageFits'
  BY <1>2 DEF Quiet, Storing, Rest, StartDownload, Send, SendDone, RecvEof,
     StartUpload, Recv, Go, fd
<1>3. ASSUME NEW s \in Sessions, Closing(s)
      PROVE  StageFits'
  BY <1>3 DEF Closing, Fails, Dies, Finish, Close
<1>4. ASSUME NEW s \in Sessions, OpenDownload(s) \/ Lock(s)
      PROVE  StageFits'
  BY <1>4 DEF OpenDownload, Lock, Go, fd
<1>5. ASSUME NEW s \in Sessions, NEW c \in Commands, OpenUpload(s, c)
      PROVE  StageFits'
  BY <1>5 DEF OpenUpload, Go
<1> QED  BY <1>1, <1>2, <1>3, <1>4, <1>5, Kinds

\* What each kind of step does to the files and to who holds a lock on which.
LEMMA QuietFrame ==
  ASSUME TypeOK, NEW s \in Sessions, Quiet(s)
  PROVE  /\ UNCHANGED <<link, content, op, inode, size>>
         /\ \A t \in Sessions \ {s} : pc'[t] = pc[t]
         /\ Holding(s)' <=> Holding(s)
BY DEF TypeOK, Quiet, Rest, StartDownload, Send, SendDone, RecvEof, Go, Holding, fd

LEMMA StoringFrame ==
  ASSUME TypeOK, StageFits, NEW s \in Sessions, Storing(s)
  PROVE  /\ UNCHANGED <<link, op, inode, size>>
         /\ \A t \in Sessions \ {s} : pc'[t] = pc[t]
         /\ Writing(s) /\ Holding(s)' /\ inode[s] \in DOMAIN content
         /\ DOMAIN content' = DOMAIN content
         /\ \A i \in DOMAIN content \ {inode[s]} : content'[i] = content[i]
<1>1. /\ pc[s] \in {"start", "recv"} /\ op[s] # "RETR"
      /\ pc' = [pc EXCEPT ![s] = "recv"]
      /\ UNCHANGED <<link, op, inode, size>>
  BY DEF Storing, StartUpload, Recv, Go, StageFits, fd
<1>2. inode[s] \in DOMAIN content
  BY <1>1 DEF TypeOK, Stages
<1>3. \E c : content' = content \/ content' = [content EXCEPT ![inode[s]] = c]
  BY DEF Storing, StartUpload, Recv
<1>4. /\ DOMAIN content' = DOMAIN content
      /\ \A i \in DOMAIN content \ {inode[s]} : content'[i] = content[i]
  BY <1>2, <1>3
<1>5. Writing(s) /\ Holding(s)' /\ \A t \in Sessions \ {s} : pc'[t] = pc[t]
  BY <1>1 DEF Writing, Holding, TypeOK
<1> QED  BY <1>1, <1>2, <1>4, <1>5

LEMMA ClosingFrame ==
  ASSUME TypeOK, NEW s \in Sessions, Closing(s)
  PROVE  /\ UNCHANGED <<link, content>>
         /\ \A t \in Sessions \ {s} :
              pc'[t] = pc[t] /\ op'[t] = op[t] /\ inode'[t] = inode[t] /\ size'[t] = size[t]
         /\ ~Holding(s)'
BY DEF TypeOK, Closing, Fails, Dies, Finish, Close, Holding

LEMMA OpeningFrame ==
  ASSUME TypeOK, NEW s \in Sessions,
         OpenDownload(s) \/ \E c \in Commands : OpenUpload(s, c)
  PROVE  /\ content' \in {content, Append(content, <<>>)}
         /\ \A t \in Sessions \ {s} :
              pc'[t] = pc[t] /\ op'[t] = op[t] /\ inode'[t] = inode[t] /\ size'[t] = size[t]
         /\ ~Holding(s) /\ ~Holding(s)'
<1>1. CASE OpenDownload(s)
  BY <1>1 DEF TypeOK, OpenDownload, Go, Holding
<1>2. ASSUME NEW c \in Commands, OpenUpload(s, c)
      PROVE  /\ content' \in {content, Append(content, <<>>)}
             /\ \A t \in Sessions \ {s} :
                  pc'[t] = pc[t] /\ op'[t] = op[t] /\ inode'[t] = inode[t] /\ size'[t] = size[t]
             /\ ~Holding(s) /\ ~Holding(s)'
  BY <1>2 DEF TypeOK, OpenUpload, Go, Holding
<1> QED  BY <1>1, <1>2

LEMMA LockFrame ==
  ASSUME TypeOK, NEW s \in Sessions, Lock(s)
  PROVE  /\ UNCHANGED <<link, content, op, inode, size>>
         /\ \A t \in Sessions \ {s} : pc'[t] = pc[t]
         /\ ~Holding(s) /\ Holding(s)' /\ inode[s] \in DOMAIN content
BY DEF TypeOK, Lock, Go, Holding, Stages, fd
-----------------------------------------------------------------------------
\* The sessions that hold a lock on an inode read it, or there is only one.
Exclusive ==
  \A s, t \in Sessions :
    (s # t /\ Holding(s) /\ Holding(t) /\ inode[s] = inode[t]) =>
      op[s] = "RETR" /\ op[t] = "RETR"

LEMMA ExclusiveStep ==
  ASSUME TypeOK, StageFits, Exclusive, [Next]_vars
  PROVE  Exclusive'
<1> SUFFICES ASSUME NEW t \in Sessions, NEW u \in Sessions,
                    t # u, Holding(t)', Holding(u)', inode'[t] = inode'[u]
             PROVE  op'[t] = "RETR" /\ op'[u] = "RETR"
  BY DEF Exclusive
<1>1. CASE Aside
  BY <1>1 DEF Aside, Dele, fd, Holding, Exclusive
<1>2. ASSUME NEW s \in Sessions, Quiet(s)
      PROVE  op'[t] = "RETR" /\ op'[u] = "RETR"
  BY <1>2, QuietFrame DEF Holding, Exclusive
<1>3. ASSUME NEW s \in Sessions, Storing(s)
      PROVE  op'[t] = "RETR" /\ op'[u] = "RETR"
  BY <1>3, StoringFrame DEF Holding, Writing, Exclusive
<1>4. ASSUME NEW s \in Sessions, Closing(s)
      PROVE  op'[t] = "RETR" /\ op'[u] = "RETR"
  BY <1>4, ClosingFrame DEF Holding, Exclusive
<1>5. ASSUME NEW s \in Sessions,
             OpenDownload(s) \/ \E c \in Commands : OpenUpload(s, c)
      PROVE  op'[t] = "RETR" /\ op'[u] = "RETR"
  BY <1>5, OpeningFrame DEF Holding, Exclusive
<1>6. ASSUME NEW s \in Sessions, Lock(s)
      PROVE  op'[t] = "RETR" /\ op'[u] = "RETR"
  <2>1. \A r \in Sessions \ {s} :
          inode[r] = inode[s] => IF op[s] = "RETR" THEN ~Writing(r) ELSE ~Holding(r)
    BY <1>6 DEF Lock, MayLock
  <2> QED  BY <1>6, <2>1, LockFrame DEF Holding, Writing, Exclusive
<1> QED  BY <1>1, <1>2, <1>3, <1>4, <1>5, <1>6, Kinds
-----------------------------------------------------------------------------
\* The locks make the files what SharedFile promises: whatever sessions do to
\* a name, a file has many readers or one writer, and only that one changes it.
LEMMA SharedStep ==
  ASSUME TypeOK, StageFits, [Next]_vars
  PROVE  [Shared!Next]_<<content, Reads, Writes>>
<1> DEFINE Abstract == [Shared!Next]_<<content, Reads, Writes>>
<1>1. CASE Aside
  BY <1>1 DEF Aside, Dele, fd, Reads, Writes, Reading, Writing, Holding
<1>2. ASSUME NEW s \in Sessions, Quiet(s)
      PROVE  Abstract
  <2>1. \A t \in Sessions : Holding(t)' <=> Holding(t)
    BY <1>2, QuietFrame DEF Holding
  <2> QED  BY <1>2, <2>1, QuietFrame DEF Reads, Writes, Reading, Writing
<1>3. ASSUME NEW s \in Sessions, Storing(s)
      PROVE  Abstract
  <2>1. \A t \in Sessions : Holding(t)' <=> Holding(t)
    BY <1>3, StoringFrame DEF Holding, Writing
  <2>2. UNCHANGED <<Reads, Writes>>
    BY <1>3, <2>1, StoringFrame DEF Reads, Writes, Reading, Writing
  <2>3. Writes[s] = inode[s] /\ Writes[s] # 0
    <3>1. Writing(s) /\ inode[s] \in DOMAIN content
      BY <1>3, StoringFrame
    <3>2. inode[s] # 0
      BY <3>1 DEF TypeOK
    <3> QED  BY <3>1, <3>2 DEF Writes
  <2>4. Shared!Write(s)
    BY <1>3, <2>2, <2>3, StoringFrame DEF Shared!Write
  <2> QED  BY <2>4 DEF Shared!Next
<1>4. ASSUME NEW s \in Sessions, Closing(s)
      PROVE  Abstract
  <2>1. \A t \in Sessions \ {s} : Reads'[t] = Reads[t] /\ Writes'[t] = Writes[t]
    BY <1>4, ClosingFrame DEF Reads, Writes, Reading, Writing, Holding
  <2>2. Reads'[s] = 0 /\ Writes'[s] = 0
    BY <1>4, ClosingFrame DEF Reads, Writes, Reading, Writing
  <2>3. /\ Reads' = [Reads EXCEPT ![s] = 0]
        /\ Writes' = [Writes EXCEPT ![s] = 0]
    BY <2>1, <2>2 DEF Reads, Writes
  <2>4. CASE Reads[s] = 0 /\ Writes[s] = 0
    BY <1>4, <2>3, <2>4, ClosingFrame DEF Reads, Writes
  <2>5. CASE ~(Reads[s] = 0 /\ Writes[s] = 0)
    BY <1>4, <2>3, <2>5, ClosingFrame DEF Shared!Next, Shared!End, Shared!Free
  <2> QED  BY <2>4, <2>5
<1>5. ASSUME NEW s \in Sessions,
             OpenDownload(s) \/ \E c \in Commands : OpenUpload(s, c)
      PROVE  Abstract
  <2>1. UNCHANGED <<Reads, Writes>>
    BY <1>5, OpeningFrame DEF Reads, Writes, Reading, Writing, Holding
  <2> QED  BY <1>5, <2>1, OpeningFrame DEF Shared!Next, Shared!Create
<1>6. ASSUME NEW s \in Sessions, Lock(s)
      PROVE  Abstract
  <2>1. Reads[s] = 0 /\ Writes[s] = 0
    BY <1>6, LockFrame DEF Reads, Writes, Reading, Writing
  <2>2. \A t \in Sessions \ {s} : Reads'[t] = Reads[t] /\ Writes'[t] = Writes[t]
    BY <1>6, LockFrame DEF Reads, Writes, Reading, Writing, Holding
  <2>3. inode[s] \in DOMAIN content /\ inode[s] # 0
    <3>1. inode[s] \in DOMAIN content
      BY <1>6, LockFrame
    <3>2. content \in Files
      BY Typing
    <3>3. DOMAIN content = 1 .. Len(content) /\ Len(content) \in Nat
      BY <3>2, TypedFiles
    <3> QED  BY <3>1, <3>3
  <2>4. \A t \in Sessions \ {s} :
          inode[t] = inode[s] => IF op[s] = "RETR" THEN ~Writing(t) ELSE ~Holding(t)
    BY <1>6 DEF Lock, MayLock
  <2>5. \A t \in Sessions : Writes[t] # inode[s]
    BY <2>1, <2>3, <2>4 DEF Writes, Writing
  <2>6. CASE op[s] = "RETR"
    <3>1. Reads'[s] = inode[s] /\ Writes'[s] = 0
      BY <1>6, <2>6, LockFrame DEF Reads, Writes, Reading, Writing
    <3>2. Reads' = [Reads EXCEPT ![s] = inode[s]] /\ Writes' = Writes
      BY <2>1, <2>2, <3>1 DEF Reads, Writes
    <3>3. Shared!BeginRead(s, inode[s])
      BY <1>6, <2>1, <2>5, <3>2, LockFrame
      DEF Shared!BeginRead, Shared!Free, Shared!Unwritten
    <3> QED  BY <2>3, <3>3 DEF Shared!Next
  <2>7. CASE op[s] # "RETR"
    <3>1. Reads'[s] = 0 /\ Writes'[s] = inode[s]
      BY <1>6, <2>7, LockFrame DEF Reads, Writes, Reading, Writing
    <3>2. Writes' = [Writes EXCEPT ![s] = inode[s]] /\ Reads' = Reads
      BY <2>1, <2>2, <3>1 DEF Reads, Writes
    <3>3. \A t \in Sessions : Reads[t] # inode[s]
      BY <2>1, <2>3, <2>4, <2>7 DEF Reads, Reading
    <3>4. Shared!BeginWrite(s, inode[s])
      BY <1>6, <2>1, <2>5, <3>2, <3>3, LockFrame
      DEF Shared!BeginWrite, Shared!Free, Shared!Unwritten, Shared!Unread
    <3> QED  BY <2>3, <3>4 DEF Shared!Next
  <2> QED  BY <2>6, <2>7
<1> QED  BY <1>1, <1>2, <1>3, <1>4, <1>5, <1>6, Kinds

\* The transfers of any number of sessions implement SharedFile.
THEOREM ImplementsSharedFile == Spec => SharedSpec
<1>1. Init => Shared!Init
  BY DEF Init, Shared!Init, Reads, Writes, Reading, Writing, Holding
<1>2. Init => StageFits
  BY DEF Init, StageFits
<1>3. TypeOK /\ StageFits /\ [Next]_vars => StageFits'
  BY StageFitsStep
<1>4. TypeOK /\ StageFits /\ [Next]_vars => [Shared!Next]_<<content, Reads, Writes>>
  BY SharedStep
<1> QED
  BY <1>1, <1>2, <1>3, <1>4, TransferTypes, PTL DEF Spec, SharedSpec, Shared!Spec
-----------------------------------------------------------------------------
\* A session's transfer is moved on by its own steps only.
LEMMA OthersFrame ==
  ASSUME TypeOK, [Next]_vars, NEW t \in Sessions, ~SessionStep(t)
  PROVE  /\ pc'[t] = pc[t] /\ op'[t] = op[t] /\ inode'[t] = inode[t]
         /\ size'[t] = size[t] /\ pos'[t] = pos[t] /\ left'[t] = left[t]
         /\ moved'[t] = moved[t] /\ cut'[t] = cut[t]
<1> DEFINE Kept == /\ pc'[t] = pc[t] /\ op'[t] = op[t] /\ inode'[t] = inode[t]
                   /\ size'[t] = size[t] /\ pos'[t] = pos[t] /\ left'[t] = left[t]
                   /\ moved'[t] = moved[t] /\ cut'[t] = cut[t]
<1>1. CASE Aside
  BY <1>1 DEF Aside, Dele, fd
<1>2. ASSUME NEW s \in Sessions, s # t, Quiet(s) \/ Lock(s)
      PROVE  Kept
  BY <1>2 DEF Quiet, Rest, StartDownload, Send, SendDone, RecvEof, Lock, Go, fd, TypeOK
<1>3. ASSUME NEW s \in Sessions, s # t, Storing(s)
      PROVE  Kept
  BY <1>3 DEF Storing, StartUpload, Recv, Go, fd, TypeOK
<1>4. ASSUME NEW s \in Sessions, s # t, Closing(s)
      PROVE  Kept
  BY <1>4 DEF Closing, Fails, Dies, Finish, Close, TypeOK
<1>5. ASSUME NEW s \in Sessions, s # t, OpenDownload(s)
      PROVE  Kept
  BY <1>5 DEF OpenDownload, Go, TypeOK
<1>6. ASSUME NEW s \in Sessions, s # t, NEW c \in Commands, OpenUpload(s, c)
      PROVE  Kept
  BY <1>6 DEF OpenUpload, Go, TypeOK
<1>7. \A s \in Sessions :
        (\/ Quiet(s) \/ Storing(s) \/ Closing(s) \/ OpenDownload(s) \/ Lock(s)
         \/ \E c \in Commands : OpenUpload(s, c)) => SessionStep(s)
  BY DEF SessionStep, Download, Quiet, Storing, Closing
<1> QED  BY <1>1, <1>2, <1>3, <1>4, <1>5, <1>6, <1>7, Kinds

\* The file that a session holds is changed by what it stores itself.
LEMMA HeldFileKept ==
  ASSUME TypeOK, StageFits, Exclusive, [Next]_vars,
         NEW t \in Sessions, Holding(t), ~Storing(t)
  PROVE  content'[inode[t]] = content[inode[t]]
<1>1. inode[t] \in DOMAIN content
  BY DEF Holding, Stages, TypeOK
<1>2. CASE Aside
  BY <1>2 DEF Aside, Dele, fd
<1>3. ASSUME NEW s \in Sessions, Storing(s)
      PROVE  content'[inode[t]] = content[inode[t]]
  <2>1. Holding(s) /\ op[s] # "RETR"
    BY <1>3, StoringFrame DEF Writing
  <2>2. s # t /\ inode[s] # inode[t]
    BY <1>3, <2>1 DEF Exclusive
  <2> QED  BY <1>1, <1>3, <2>2, StoringFrame
<1>4. ASSUME NEW s \in Sessions, Quiet(s) \/ Closing(s) \/ Lock(s)
      PROVE  content'[inode[t]] = content[inode[t]]
  BY <1>4, QuietFrame, ClosingFrame, LockFrame
<1>5. ASSUME NEW s \in Sessions,
             OpenDownload(s) \/ \E c \in Commands : OpenUpload(s, c)
      PROVE  content'[inode[t]] = content[inode[t]]
  <2>1. content' \in {content, Append(content, <<>>)}
    BY <1>5, OpeningFrame
  <2>2. Append(content, <<>>)[inode[t]] = content[inode[t]]
    BY <1>1, AppendProperties DEF TypeOK
  <2> QED  BY <2>1, <2>2
<1> QED  BY <1>2, <1>3, <1>4, <1>5, Kinds

\* What Recv makes of the file: the block is at its place, the others stay.
LEMMA RecvStores ==
  ASSUME TypeOK, NEW s \in Sessions, Recv(s)
  PROVE  LET i == inode[s]  p == pos[s] IN
         /\ pos'[s] = p + 1 /\ moved'[s] = Append(moved[s], s)
         /\ Len(content'[i]) = IF p < Len(content[i]) THEN Len(content[i]) ELSE p + 1
         /\ \A k \in DOMAIN content[i] : k # p + 1 => content'[i][k] = content[i][k]
         /\ content'[i][p + 1] = s
<1> DEFINE i == inode[s]  p == pos[s]
<1>1. i \in DOMAIN content /\ s \in Blocks
  BY DEF Recv, Go, Stages, TypeOK, Blocks
<1>2. content[i] \in Seq(Blocks) /\ p \in Nat
  BY <1>1 DEF TypeOK, Blocks
<1>3. content'[i] = WriteAt(content[i], p, s)
  BY <1>1 DEF Recv
<1>4. pos'[s] = p + 1 /\ moved'[s] = Append(moved[s], s)
  BY DEF Recv, TypeOK
<1>5. /\ Len(content'[i]) = IF p < Len(content[i]) THEN Len(content[i]) ELSE p + 1
      /\ \A k \in DOMAIN content[i] : k # p + 1 => content'[i][k] = content[i][k]
      /\ content'[i][p + 1] = s
  <2>1. PICK c \in Seq(Blocks), q \in Nat : c = content[i] /\ q = p
    BY <1>2
  <2>2. /\ Len(WriteAt(c, q, s)) = IF q < Len(c) THEN Len(c) ELSE q + 1
        /\ \A k \in DOMAIN c : k # q + 1 => WriteAt(c, q, s)[k] = c[k]
        /\ WriteAt(c, q, s)[q + 1] = s
    BY <1>1, WriteAtProperties
  <2> QED  BY <1>3, <2>1, <2>2
<1> QED  BY <1>4, <1>5
-----------------------------------------------------------------------------
\* APPE stores at the end of the file, which nobody moves.
AppendsAtEnd ==
  \A s \in Sessions :
    (pc[s] = "recv" /\ op[s] = "APPE") => pos[s] = Len(content[inode[s]])

LEMMA AppendsAtEndStep ==
  ASSUME TypeOK, StageFits, Exclusive, AppendsAtEnd, [Next]_vars
  PROVE  AppendsAtEnd'
<1> SUFFICES ASSUME NEW t \in Sessions, pc'[t] = "recv", op'[t] = "APPE"
             PROVE  pos'[t] = Len(content'[inode'[t]])
  BY DEF AppendsAtEnd
<1>1. CASE ~SessionStep(t)
  <2>1. Holding(t) /\ ~Storing(t)
    BY <1>1, OthersFrame DEF Holding, SessionStep, Storing
  <2> QED  BY <1>1, <2>1, OthersFrame, HeldFileKept DEF AppendsAtEnd
<1>2. CASE StartUpload(t)
  BY <1>2 DEF StartUpload, TypeOK, fd
<1>3. CASE Recv(t)
  <2>1. op[t] = "APPE" /\ pc[t] = "recv" /\ inode'[t] = inode[t]
    BY <1>3 DEF Recv, Go, fd
  <2> QED  BY <1>3, <2>1, RecvStores DEF AppendsAtEnd
<1>4. CASE SessionStep(t) /\ ~StartUpload(t) /\ ~Recv(t)
  BY <1>4 DEF SessionStep, Download, Rest, OpenDownload, Lock, StartDownload, Send,
     SendDone, RecvEof, OpenUpload, Fails, Dies, Finish, Close, Go, TypeOK
<1> QED  BY <1>1, <1>2, <1>3, <1>4

\* While an APPE runs, the blocks the file held stay where they are.
LEMMA AppendStep ==
  ASSUME TypeOK, StageFits, Exclusive, AppendsAtEnd, [Next]_vars,
         NEW t \in Sessions, op[t] = "APPE", Holding(t)
  PROVE  /\ Len(content'[inode[t]]) >= Len(content[inode[t]])
         /\ \A k \in DOMAIN content[inode[t]] :
              content'[inode[t]][k] = content[inode[t]][k]
<1>0. Len(content[inode[t]]) \in Nat
  BY DEF Holding, Stages, TypeOK
<1>1. CASE ~Storing(t)
  BY <1>0, <1>1, HeldFileKept
<1>2. CASE StartUpload(t)
  BY <1>0, <1>2 DEF StartUpload
<1>3. CASE Recv(t)
  <2>1. pos[t] = Len(content[inode[t]])
    BY <1>3 DEF Recv, Go, AppendsAtEnd
  <2>2. \A k \in DOMAIN content[inode[t]] : k # pos[t] + 1
    BY <2>1 DEF Holding, Stages, TypeOK
  <2>3. Len(content'[inode[t]]) = pos[t] + 1
    BY <1>0, <1>3, <2>1, RecvStores
  <2>4. \A k \in DOMAIN content[inode[t]] :
          k # pos[t] + 1 => content'[inode[t]][k] = content[inode[t]][k]
    BY <1>3, RecvStores
  <2> QED  BY <1>0, <2>1, <2>2, <2>3, <2>4
<1> QED  BY <1>1, <1>2, <1>3 DEF Storing
-----------------------------------------------------------------------------
\* The blocks m lie in the file c just before position p.
Before(m, c, p) ==
  /\ Len(m) <= p
  /\ p <= Len(c)
  /\ \A k \in 1 .. Len(m) : m[k] = c[p - Len(m) + k]

\* One more block is sent from, or stored at, the position.
LEMMA OneMore ==
  ASSUME NEW c \in Seq(Blocks), NEW d \in Seq(Blocks), NEW m \in Seq(Blocks),
         NEW p \in Nat, NEW b \in Blocks,
         m # <<>> => Before(m, c, p),
         p + 1 <= Len(d), d[p + 1] = b,
         \A j \in 1 .. Len(c) : j # p + 1 => d[j] = c[j]
  PROVE  Before(Append(m, b), d, p + 1)
<1>1. /\ Len(Append(m, b)) = Len(m) + 1 /\ Len(m) \in Nat
      /\ \A k \in 1 .. Len(m) : Append(m, b)[k] = m[k]
      /\ Append(m, b)[Len(m) + 1] = b
  BY AppendProperties
<1>2. Len(m) <= p
  <2>1. m = <<>> => Len(m) = 0
    OBVIOUS
  <2> QED  BY <2>1 DEF Before
<1>3. ASSUME NEW k \in 1 .. Len(m)
      PROVE  m[k] = d[p - Len(m) + k]
  <2>1. m # <<>>
    BY <1>3
  <2>2. /\ p <= Len(c) /\ m[k] = c[p - Len(m) + k]
    BY <2>1 DEF Before
  <2>3. p - Len(m) + k \in 1 .. Len(c) /\ p - Len(m) + k # p + 1
    BY <1>1, <1>2, <2>2
  <2> QED  BY <2>2, <2>3
<1>4. ASSUME NEW k \in 1 .. Len(m) + 1
      PROVE  Append(m, b)[k] = d[p + 1 - (Len(m) + 1) + k]
  <2>1. CASE k = Len(m) + 1
    <3>1. p + 1 - (Len(m) + 1) + k = p + 1
      BY <1>1, <2>1
    <3> QED  BY <1>1, <2>1, <3>1
  <2>2. CASE k # Len(m) + 1
    <3>1. k \in 1 .. Len(m) /\ p + 1 - (Len(m) + 1) + k = p - Len(m) + k
      BY <1>1, <2>2
    <3> QED  BY <1>1, <1>3, <3>1
  <2> QED  BY <2>1, <2>2
<1>5. PICK a : a = Append(m, b)
  OBVIOUS
<1>6. Len(a) <= p + 1 /\ \A k \in 1 .. Len(a) : a[k] = d[p + 1 - Len(a) + k]
  BY <1>1, <1>2, <1>4, <1>5
<1> QED  BY <1>5, <1>6 DEF Before

\* Some more blocks of a file that stays as it is are sent.
LEMMA ManyMore ==
  ASSUME NEW c \in Seq(Blocks), NEW m \in Seq(Blocks), NEW p \in Nat, NEW k \in Nat,
         m # <<>> => Before(m, c, p), p + k <= Len(c)
  PROVE  Before(m \o SubSeq(c, p + 1, p + k), c, p + k)
<1>1. PICK e : e = SubSeq(c, p + 1, p + k)
  OBVIOUS
<1>2. e \in Seq(Blocks) /\ Len(e) = k /\ \A i \in 1 .. k : e[i] = c[p + i]
  BY <1>1, Stretch DEF Moves
<1>3. PICK a : a = m \o e
  OBVIOUS
<1>4. /\ Len(a) = Len(m) + k /\ Len(m) \in Nat
      /\ \A i \in 1 .. Len(m) : a[i] = m[i]
      /\ \A i \in 1 .. Len(m) + k : i > Len(m) => a[i] = e[i - Len(m)]
  <2>1. e \in Seq(Blocks) /\ Len(e) = k /\ Len(m) \in Nat
    BY <1>2
  <2>2. /\ Len(m \o e) = Len(m) + Len(e)
        /\ \A i \in 1 .. Len(m) + Len(e) :
             (m \o e)[i] = IF i <= Len(m) THEN m[i] ELSE e[i - Len(m)]
    BY <2>1, ConcatProperties
  <2>3. \A i \in 1 .. Len(m) : i \in 1 .. Len(m) + k /\ i <= Len(m)
    BY <2>1
  <2>4. \A i \in 1 .. Len(m) + k : i > Len(m) => ~(i <= Len(m))
    BY <2>1
  <2> QED  BY <1>3, <2>1, <2>2, <2>3, <2>4
<1>5. Len(m) <= p
  <2>1. m = <<>> => Len(m) = 0
    OBVIOUS
  <2> QED  BY <2>1 DEF Before
<1>6. ASSUME NEW i \in 1 .. Len(m) + k
      PROVE  a[i] = c[p + k - (Len(m) + k) + i]
  <2>1. CASE i <= Len(m)
    <3>1. i \in 1 .. Len(m) /\ p + k - (Len(m) + k) + i = p - Len(m) + i /\ m # <<>>
      BY <1>4, <2>1
    <3>2. a[i] = m[i] /\ m[i] = c[p - Len(m) + i]
      BY <1>4, <3>1 DEF Before
    <3> QED  BY <3>1, <3>2
  <2>2. CASE i > Len(m)
    <3>1. /\ i - Len(m) \in 1 .. k
          /\ p + k - (Len(m) + k) + i = p + (i - Len(m))
      <4>1. PICK n \in Nat : n = Len(m)
        BY <1>4
      <4>2. i - n \in 1 .. k /\ p + k - (n + k) + i = p + (i - n)
        BY <2>2, <4>1
      <4> QED  BY <4>1, <4>2
    <3> QED  BY <1>2, <1>4, <2>2, <3>1
  <2> QED  BY <1>4, <2>1, <2>2
<1>7. Before(a, c, p + k)
  BY <1>4, <1>5, <1>6 DEF Before
<1> QED  BY <1>1, <1>3, <1>7

LEMMA BeforeIsSubSeq ==
  ASSUME NEW c \in Seq(Blocks), NEW m \in Seq(Blocks), NEW p \in Nat,
         m # <<>>, Before(m, c, p)
  PROVE  m = SubSeq(c, p - Len(m) + 1, p)
<1>1. PICK f \in Int : f = p - Len(m) + 1
  OBVIOUS
<1>2. Len(m) \in Nat \ {0} /\ f \in 1 .. p /\ p <= Len(c)
  BY <1>1 DEF Before
<1>3. \A i \in f .. p : c[i] \in Blocks
  BY <1>2
<1>4. /\ SubSeq(c, f, p) \in Seq(Blocks)
      /\ Len(SubSeq(c, f, p)) = p - f + 1
      /\ \A k \in 1 .. p - f + 1 : SubSeq(c, f, p)[k] = c[f + k - 1]
  BY <1>2, <1>3, SubSeqProperties
<1>5. p - f + 1 = Len(m)
  BY <1>1, <1>2
<1>6. ASSUME NEW k \in 1 .. Len(m)
      PROVE  m[k] = SubSeq(c, f, p)[k]
  <2>1. f + k - 1 = p - Len(m) + k
    BY <1>1, <1>2
  <2> QED  BY <1>4, <1>5, <2>1 DEF Before
<1>7. m = SubSeq(c, f, p)
  BY <1>4, <1>5, <1>6, SeqEqual
<1> QED  BY <1>1, <1>7

\* Block for block, what a transfer has moved lies in the file before its
\* position.
MovedInPlace ==
  \A s \in Sessions :
    moved[s] # <<>> =>
      /\ pc[s] \in {"send", "recv", "done"}
      /\ Before(moved[s], content[inode[s]], pos[s])

LEMMA MovedStep ==
  ASSUME TypeOK, StageFits, Exclusive, MovedInPlace, [Next]_vars
  PROVE  MovedInPlace'
<1> DEFINE InPlace(t) == /\ pc[t] \in {"send", "recv", "done"}
                         /\ Before(moved[t], content[inode[t]], pos[t])
<1> SUFFICES ASSUME NEW t \in Sessions, moved'[t] # <<>>
             PROVE  InPlace(t)'
  BY DEF MovedInPlace
<1>0. moved[t] # <<>> => InPlace(t)
  BY DEF MovedInPlace
<1>1. ASSUME ~Storing(t), pc'[t] \in {"send", "recv", "done"},
             UNCHANGED <<pos[t], moved[t], inode[t]>>
      PROVE  InPlace(t)'
  <2>1. Holding(t)
    BY <1>0, <1>1 DEF Holding
  <2> QED  BY <1>0, <1>1, <2>1, HeldFileKept DEF Before
<1>2. CASE ~SessionStep(t)
  <2>1. ~Storing(t)
    BY <1>2 DEF SessionStep, Storing
  <2> QED  BY <1>0, <1>1, <1>2, <2>1, OthersFrame
<1>3. CASE Send(t)
  <2>1. /\ pc[t] = "send" /\ content[inode[t]] \in Moves
        /\ moved[t] \in Moves /\ pos[t] \in Nat
        /\ UNCHANGED <<content, pc, inode>>
    BY <1>3, SendEffect
  <2>2. CASE UNCHANGED <<moved, pos>>
    BY <1>0, <2>1, <2>2 DEF Before
  <2>3. ASSUME NEW k \in There(t),
               moved' = [moved EXCEPT ![t] =
                          moved[t] \o SubSeq(content[inode[t]], pos[t] + 1, pos[t] + k)],
               pos' = [pos EXCEPT ![t] = pos[t] + k]
        PROVE  InPlace(t)'
    <3>1. k \in Nat /\ pos[t] + k <= Len(content[inode[t]])
      BY <1>3, SendEffect, ConstantsAssumption DEF There
    <3>2. /\ moved'[t] = moved[t] \o SubSeq(content[inode[t]], pos[t] + 1, pos[t] + k)
          /\ pos'[t] = pos[t] + k
      BY <2>3 DEF TypeOK
    <3>3. content[inode[t]] \in Seq(Blocks) /\ moved[t] \in Seq(Blocks)
      BY <2>1 DEF Moves
    <3>4. moved[t] # <<>> => Before(moved[t], content[inode[t]], pos[t])
      BY <1>0
    <3>5. Before(moved[t] \o SubSeq(content[inode[t]], pos[t] + 1, pos[t] + k),
                 content[inode[t]], pos[t] + k)
      BY <2>1, <3>1, <3>3, <3>4, ManyMore
    <3> QED  BY <2>1, <3>2, <3>5 DEF Before
  <2> QED  BY <1>3, <2>2, <2>3, SendEffect
<1>4. CASE Recv(t)
  <2> DEFINE c == content[inode[t]]  d == content'[inode[t]]
  <2>1. /\ pc[t] = "recv" /\ pc'[t] = "recv" /\ UNCHANGED inode
    BY <1>4 DEF Recv, Go, TypeOK, fd
  <2>2. /\ inode[t] \in DOMAIN content /\ pos[t] \in Nat
        /\ moved[t] \in Seq(Blocks) /\ t \in Blocks
    BY <2>1 DEF TypeOK, Stages, Blocks
  <2>3. c \in Seq(Blocks) /\ d \in Seq(Blocks)
    <3>1. inode[t] \in DOMAIN content'
      BY <1>4, <2>2 DEF Recv
    <3>2. content \in Seq(Seq(Blocks)) /\ content' \in Seq(Seq(Blocks))
      BY TypeStep DEF TypeOK, Blocks
    <3> QED  BY <2>2, <3>1, <3>2
  <2>4. /\ pos[t] + 1 <= Len(d) /\ d[pos[t] + 1] = t
        /\ \A j \in 1 .. Len(c) : j # pos[t] + 1 => d[j] = c[j]
        /\ moved'[t] = Append(moved[t], t) /\ pos'[t] = pos[t] + 1
    BY <1>4, <2>2, <2>3, RecvStores
  <2>5. Before(Append(moved[t], t), d, pos[t] + 1)
    BY <1>0, <2>2, <2>3, <2>4, OneMore
  <2> QED  BY <2>1, <2>4, <2>5 DEF Before
<1>5. CASE StartUpload(t) \/ StartDownload(t)
  BY <1>0, <1>5 DEF StartUpload, StartDownload, Go
<1>6. CASE Closing(t)
  BY <1>6 DEF Closing, Fails, Dies, Finish, Close, TypeOK
<1>7. CASE SendDone(t) \/ RecvEof(t)
  <2>1. /\ pc'[t] = "done" /\ ~Storing(t)
        /\ UNCHANGED <<pos[t], moved[t], inode[t]>>
    BY <1>7 DEF SendDone, RecvEof, Storing, StartUpload, Recv, Go, TypeOK, fd
  <2> QED  BY <1>1, <2>1
<1>8. CASE \/ OpenDownload(t) \/ Lock(t) \/ \E n \in -1 .. MaxLen - 1 : Rest(t, n)
           \/ \E c \in Commands : OpenUpload(t, c)
  BY <1>0, <1>8 DEF OpenDownload, OpenUpload, Lock, Rest, Go
<1> QED
  BY <1>2, <1>3, <1>4, <1>5, <1>6, <1>7, <1>8 DEF SessionStep, Download, Closing

LEMMA MovedImpliesIntact ==
  ASSUME TypeOK, MovedInPlace
  PROVE  TransferIntact
<1> SUFFICES ASSUME NEW s \in Sessions, moved[s] # <<>>
             PROVE  /\ pos[s] <= Len(content[inode[s]])
                    /\ moved[s] = SubSeq(content[inode[s]], pos[s] - Len(moved[s]) + 1, pos[s])
  BY DEF TransferIntact
<1>1. Before(moved[s], content[inode[s]], pos[s]) /\ pc[s] \in Stages
  BY DEF MovedInPlace, Stages
<1>2. moved[s] \in Seq(Blocks) /\ content[inode[s]] \in Seq(Blocks) /\ pos[s] \in Nat
  BY <1>1 DEF TypeOK, Blocks
<1>3. moved[s] = SubSeq(content[inode[s]], pos[s] - Len(moved[s]) + 1, pos[s])
  BY <1>1, <1>2, BeforeIsSubSeq
<1> QED  BY <1>1, <1>3 DEF Before
-----------------------------------------------------------------------------
\* What is left reaches to the end, as it was when the size was read, unless a
\* signal has cut a chunk short.
SendsTheRest ==
  \A s \in Sessions :
    /\ (pc[s] \in {"send", "done"} /\ op[s] = "RETR") =>
         \/ cut[s]
         \/ pos[s] >= Len(content[inode[s]])
         \/ pos[s] + left[s] >= size[s]
    /\ (pc[s] = "done" /\ op[s] = "RETR") => left[s] = 0

LEMMA SendsTheRestStep ==
  ASSUME TypeOK, StageFits, Exclusive, SendsTheRest, [Next]_vars
  PROVE  SendsTheRest'
<1> SUFFICES ASSUME NEW t \in Sessions, pc'[t] \in {"send", "done"}, op'[t] = "RETR"
             PROVE  /\ \/ cut'[t]
                       \/ pos'[t] >= Len(content'[inode'[t]])
                       \/ pos'[t] + left'[t] >= size'[t]
                    /\ pc'[t] = "done" => left'[t] = 0
  BY DEF SendsTheRest
<1>1. CASE ~SessionStep(t)
  <2>1. Holding(t) /\ ~Storing(t)
    BY <1>1, OthersFrame DEF Holding, SessionStep, Storing
  <2> QED  BY <1>1, <2>1, OthersFrame, HeldFileKept DEF SendsTheRest
<1>2. CASE StartDownload(t)
  BY <1>2 DEF StartDownload, Go, TypeOK, fd
<1>3. CASE Send(t)
  <2>1. /\ pc[t] = "send" /\ op[t] = "RETR" /\ pc'[t] = "send"
        /\ UNCHANGED <<content, inode, size>>
        /\ left'[t] = IF left[t] > Chunk THEN left[t] - Chunk ELSE 0
        /\ pos[t] \in Nat /\ left[t] \in Nat \ {0} /\ size[t] \in Nat
        /\ Len(content[inode[t]]) \in Nat
    <3>1. /\ pc[t] = "send" /\ content[inode[t]] \in Moves
          /\ pos[t] \in Nat /\ left[t] \in Nat /\ left[t] > 0
          /\ UNCHANGED <<content, pc, inode, size>>
          /\ left' = [left EXCEPT ![t] = IF left[t] > Chunk THEN left[t] - Chunk ELSE 0]
      BY <1>3, SendEffect
    <3>2. size[t] \in Nat /\ t \in DOMAIN left
      BY DEF TypeOK
    <3> QED  BY <3>1, <3>2 DEF StageFits, Moves
  <2>2. cut[t] \/ pos[t] >= Len(content[inode[t]]) \/ pos[t] + left[t] >= size[t]
    BY <2>1 DEF SendsTheRest
  <2>3. CASE There(t) = {} /\ UNCHANGED <<moved, pos, cut>>
    <3>1. 1 \notin There(t)
      BY <2>3
    <3>2. pos[t] >= Len(content[inode[t]])
      BY <2>1, <3>1, ConstantsAssumption DEF There
    <3> QED  BY <2>1, <2>3, <3>2
  <2>4. ASSUME NEW k \in There(t),
               pos' = [pos EXCEPT ![t] = pos[t] + k],
               cut' = [cut EXCEPT ![t] = cut[t] \/ k + 1 \in There(t)]
        PROVE  \/ cut'[t]
               \/ pos'[t] >= Len(content'[inode'[t]])
               \/ pos'[t] + left'[t] >= size'[t]
    <3>1. pos'[t] = pos[t] + k /\ (cut'[t] <=> (cut[t] \/ k + 1 \in There(t)))
      BY <2>4 DEF TypeOK
    <3>2. k \in 1 .. (IF left[t] > Chunk THEN Chunk ELSE left[t])
      BY DEF There
    <3>3. CASE k + 1 \notin There(t)
      <4>1. \/ k = IF left[t] > Chunk THEN Chunk ELSE left[t]
            \/ pos[t] + k >= Len(content[inode[t]])
        BY <2>1, <3>2, <3>3, ConstantsAssumption DEF There
      <4> QED  BY <2>1, <2>2, <3>1, <3>2, <4>1, ConstantsAssumption
    <3> QED  BY <3>1, <3>3
  <2> QED  BY <1>3, <2>1, <2>3, <2>4, SendEffect
<1>4. CASE SendDone(t)
  BY <1>4 DEF SendDone, Go, SendsTheRest, StageFits, fd
<1>5. CASE RecvEof(t)
  BY <1>5 DEF RecvEof, Go, StageFits, fd
<1>6. CASE SessionStep(t) /\ ~StartDownload(t) /\ ~Send(t) /\ ~SendDone(t) /\ ~RecvEof(t)
  BY <1>6 DEF SessionStep, Download, Rest, OpenDownload, Lock, StartUpload, Recv,
     OpenUpload, Fails, Dies, Finish, Close, Go, TypeOK
<1> QED  BY <1>1, <1>2, <1>3, <1>4, <1>5, <1>6
-----------------------------------------------------------------------------
\* The inductive invariant of transfers under locks.
IInv ==
  /\ TypeOK /\ StageFits /\ Exclusive
  /\ AppendsAtEnd /\ MovedInPlace /\ SendsTheRest

\* Locks, positions and what is left to send fit together at every instant.
THEOREM LocksInvariant == Spec => []IInv
<1>1. Init => IInv
  <2> SUFFICES ASSUME Init PROVE IInv
    OBVIOUS
  <2>1. TypeOK
    BY InitTyped
  <2>2. \A s \in Sessions : pc[s] = "idle" /\ moved[s] = <<>>
    BY DEF Init
  <2> QED  BY <2>1, <2>2 DEF IInv, StageFits, Exclusive, AppendsAtEnd, MovedInPlace,
              SendsTheRest, Holding
<1>2. IInv /\ [Next]_vars => IInv'
  BY TypeStep, StageFitsStep, ExclusiveStep, AppendsAtEndStep, MovedStep,
     SendsTheRestStep DEF IInv
<1> QED  BY <1>1, <1>2, PTL DEF Spec

\* A download sends one version of the file and nothing an upload stored is
\* lost while it runs: upload_auxiliary() empties the file under the lock.
THEOREM TransfersIntact == Spec => []TransferIntact
<1>1. IInv => TransferIntact
  BY MovedImpliesIntact DEF IInv
<1> QED  BY <1>1, LocksInvariant, PTL

\* A 226 after a download of a file whose length did not change before the
\* lock, and of which no sendfile() was cut short, means that all of it was sent.
THEOREM WholeUnlessStaleOrCut == Spec => []SentAllUnlessStaleOrCut
<1>1. IInv => SentAllUnlessStaleOrCut
  <2> SUFFICES ASSUME IInv, NEW s \in Sessions, pc[s] = "done", Reading(s),
                      size[s] = Len(content[inode[s]]), ~cut[s]
               PROVE  pos[s] >= Len(content[inode[s]])
    BY DEF SentAllUnlessStaleOrCut
  <2>1. left[s] = 0 /\ pos[s] \in Nat
    BY DEF IInv, TypeOK, SendsTheRest, Reading
  <2> QED  BY <2>1 DEF IInv, SendsTheRest, Reading
<1> QED  BY <1>1, LocksInvariant, PTL

\* APPE never disturbs what was there, and nobody else does while it runs.
THEOREM AppendsPreserve == Spec => AppendKeepsEarlier
<1>1. IInv /\ [Next]_vars =>
        [\A s \in Sessions :
           (op[s] = "APPE" /\ Holding(s)) =>
              /\ Len(content'[inode[s]]) >= Len(content[inode[s]])
              /\ \A k \in DOMAIN content[inode[s]] :
                   content'[inode[s]][k] = content[inode[s]][k]]_vars
  BY AppendStep DEF IInv
<1> QED  BY <1>1, LocksInvariant, PTL DEF Spec, AppendKeepsEarlier
=============================================================================
