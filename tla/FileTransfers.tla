----------------------------- MODULE FileTransfers -----------------------------
(***************************************************************************)
(* Sessions that download, upload, append to and delete one name of a      *)
(* shared directory: handle_retr(), upload_auxiliary(), handle_dele() and  *)
(* the fcntl locks of file_utility.cpp.  Session has the replies and the   *)
(* early returns of a transfer; here is what it does to the file, and when *)
(* it holds the lock.                                                      *)
(*                                                                         *)
(* A file is a sequence of blocks, a block is the session that wrote it.   *)
(* The name leads to an inode, which descriptors keep alive after unlink() *)
(* and after which O_CREAT makes another.  A lock belongs to the process   *)
(* and goes when the file is closed, so that who holds it follows from pc. *)
(* open() and fstat() are one step: what happens in between is as if it    *)
(* had happened before the two.                                            *)
(***************************************************************************)
EXTENDS Integers, Sequences

CONSTANTS
  Sessions,
  Hole,       \* a block nobody wrote, skipped by an upload at an offset
  Chunk,      \* blocks that one sendfile() is asked for
  MaxLen,     \* exploration bound: blocks of a file; offsets of REST are from
              \* -1 to below it
  MaxInodes   \* exploration bound: inodes the name ever leads to

ASSUME ConstantsAssumption ==
  /\ Hole \notin Sessions
  /\ Chunk \in Nat \ {0}
  /\ MaxLen \in Nat
  /\ MaxInodes \in Nat

VARIABLES
  link,              \* the inode of the name, 0: no such file
  content,           \* inode -> its blocks
  pc,                \* stage of the session's transfer
  op,                \* its command
  inode,             \* the inode file_fd leads to, 0: closed
  size,              \* st_buf.st_size of a download
  restart_position,  \* Session.restart_position
  pos,               \* position of file_fd
  left,              \* bytes_to_send
  moved,             \* history: the blocks the transfer has sent or stored
  cut                \* history: a signal has made its sendfile() return early

fd == <<op, inode, size>>
vars == <<link, content, pc, fd, restart_position, pos, left, moved, cut>>

Commands == {"RETR", "STOR", "APPE"}
Stages == {"lock", "start", "send", "recv", "done"}

\* The file may be there, and empty, when the first session comes.
Init ==
  /\ link \in {0, 1}
  /\ content = IF link = 0 THEN <<>> ELSE << <<>> >>
  /\ pc = [s \in Sessions |-> "idle"]
  /\ op = [s \in Sessions |-> "RETR"]
  /\ inode = [s \in Sessions |-> 0]
  /\ size = [s \in Sessions |-> 0]
  /\ restart_position = [s \in Sessions |-> 0]
  /\ pos = [s \in Sessions |-> 0]
  /\ left = [s \in Sessions |-> 0]
  /\ moved = [s \in Sessions |-> <<>>]
  /\ cut = [s \in Sessions |-> FALSE]
-----------------------------------------------------------------------------
Go(s, from, to) ==
  /\ pc[s] = from
  /\ pc' = [pc EXCEPT ![s] = to]

\* close(), which releases the lock; the session forgets the transfer.
Close(s) ==
  /\ pc' = [pc EXCEPT ![s] = "idle"]
  /\ op' = [op EXCEPT ![s] = "RETR"]
  /\ inode' = [inode EXCEPT ![s] = 0]
  /\ size' = [size EXCEPT ![s] = 0]
  /\ pos' = [pos EXCEPT ![s] = 0]
  /\ left' = [left EXCEPT ![s] = 0]
  /\ moved' = [moved EXCEPT ![s] = <<>>]
  /\ cut' = [cut EXCEPT ![s] = FALSE]
  /\ UNCHANGED <<link, content>>

\* stol() takes a negative number for an offset like any other.
Rest(s, n) ==
  /\ pc[s] = "idle"
  /\ restart_position' = [restart_position EXCEPT ![s] = n]
  /\ UNCHANGED <<link, content, pc, fd, pos, left, moved, cut>>

\* mutant: O_TRUNC, the file is emptied before the lock is taken
BugOpenUpload(s, c) ==
  /\ c # "RETR"
  /\ Go(s, "idle", "lock")
  /\ op' = [op EXCEPT ![s] = c]
  /\ link # 0 \/ Len(content) < MaxInodes
  /\ link' = IF link = 0 THEN Len(content) + 1 ELSE link
  /\ content' = IF link = 0 THEN Append(content, <<>>)
                            ELSE [content EXCEPT ![link] = <<>>]
  /\ inode' = [inode EXCEPT ![s] = link']
  /\ UNCHANGED <<size, restart_position, pos, left, moved, cut>>

OpenDownload(s) ==
  /\ Go(s, "idle", "lock")
  /\ link # 0
  /\ op' = [op EXCEPT ![s] = "RETR"]
  /\ inode' = [inode EXCEPT ![s] = link]
  /\ size' = [size EXCEPT ![s] = Len(content[link])]
  /\ UNCHANGED <<link, content, restart_position, pos, left, moved, cut>>

\* O_CREAT makes a file where there is none, and leaves one that is there.
OpenUpload(s, c) ==
  /\ c # "RETR"
  /\ Go(s, "idle", "lock")
  /\ op' = [op EXCEPT ![s] = c]
  /\ link # 0 \/ Len(content) < MaxInodes
  /\ link' = IF link = 0 THEN Len(content) + 1 ELSE link
  /\ content' = IF link = 0 THEN Append(content, <<>>) ELSE content
  /\ inode' = [inode EXCEPT ![s] = link']
  /\ UNCHANGED <<size, restart_position, pos, left, moved, cut>>

Holding(s) == pc[s] \in {"start", "send", "recv", "done"}
Reading(s) == Holding(s) /\ op[s] = "RETR"
Writing(s) == Holding(s) /\ op[s] # "RETR"

\* mutant: a writer waits for writers only
BugMayLock(s) ==
  \A t \in Sessions \ {s} : inode[t] = inode[s] => ~Writing(t)

\* F_RDLCK waits for a writer, F_WRLCK for anybody.
MayLock(s) ==
  \A t \in Sessions \ {s} :
    inode[t] = inode[s] => IF op[s] = "RETR" THEN ~Writing(t) ELSE ~Holding(t)

Lock(s) ==
  /\ Go(s, "lock", "start")
  /\ MayLock(s)
  /\ UNCHANGED <<link, content, fd, restart_position, pos, left, moved, cut>>

\* The lock is taken: the offset is read and reset, the file positioned.
TakeOffset(s) == restart_position' = [restart_position EXCEPT ![s] = 0]

BugStartDownload(s) ==  \* mutant: no test for an offset beyond the end
  LET offset == restart_position[s] IN
  /\ Go(s, "start", "send") /\ op[s] = "RETR"
  /\ TakeOffset(s)
  /\ pos' = [pos EXCEPT ![s] = IF offset > 0 THEN offset ELSE 0]
  /\ left' = [left EXCEPT ![s] = size[s] - offset]
  /\ UNCHANGED <<link, content, fd, moved, cut>>

\* Only an offset above 0 positions the file; a negative one adds to what is
\* left.
StartDownload(s) ==
  LET offset == restart_position[s] IN
  /\ Go(s, "start", "send") /\ op[s] = "RETR"
  /\ TakeOffset(s)
  /\ pos' = [pos EXCEPT ![s] = IF offset > 0 THEN offset ELSE 0]
  /\ left' = [left EXCEPT ![s] = IF offset > size[s] THEN 0 ELSE size[s] - offset]
  /\ UNCHANGED <<link, content, fd, moved, cut>>

BugStartUpload(s) ==  \* mutant: APPE goes to the offset, too
  LET offset == restart_position[s] IN
  /\ Go(s, "start", "recv") /\ op[s] # "RETR"
  /\ op[s] = "STOR" => offset >= 0
  /\ TakeOffset(s)
  /\ content' = IF op[s] = "STOR" /\ offset = 0
                  THEN [content EXCEPT ![inode[s]] = <<>>] ELSE content
  /\ pos' = [pos EXCEPT ![s] = offset]
  /\ UNCHANGED <<link, fd, left, moved, cut>>

\* STOR without an offset empties the file, with one it goes to the offset,
\* if lseek() accepts it; APPE goes to the end.
StartUpload(s) ==
  LET offset == restart_position[s] IN
  /\ Go(s, "start", "recv") /\ op[s] # "RETR"
  /\ op[s] = "STOR" => offset >= 0
  /\ TakeOffset(s)
  /\ content' = IF op[s] = "STOR" /\ offset = 0
                  THEN [content EXCEPT ![inode[s]] = <<>>] ELSE content
  /\ pos' = [pos EXCEPT ![s] = IF op[s] = "APPE" THEN Len(content[inode[s]]) ELSE offset]
  /\ UNCHANGED <<link, fd, left, moved, cut>>

\* What one sendfile() may send: some of the chunk, as far as the file goes;
\* all of it unless a signal comes in between.
There(s) ==
  {k \in 1 .. (IF left[s] > Chunk THEN Chunk ELSE left[s]) :
     pos[s] + k <= Len(content[inode[s]])}

BugSend(s) ==  \* mutant: what is left is counted down by what sendfile() sent
  /\ Go(s, "send", "send") /\ left[s] > 0
  /\ IF There(s) = {}
       THEN UNCHANGED <<pos, left, moved, cut>>
       ELSE \E k \in There(s) :
              /\ moved' = [moved EXCEPT ![s] =
                             @ \o SubSeq(content[inode[s]], pos[s] + 1, pos[s] + k)]
              /\ pos' = [pos EXCEPT ![s] = @ + k]
              /\ left' = [left EXCEPT ![s] = @ - k]
              /\ cut' = [cut EXCEPT ![s] = @ \/ k + 1 \in There(s)]
  /\ UNCHANGED <<link, content, fd, restart_position>>

\* At the end of the file sendfile() sends nothing. Whatever it sent, the
\* chunk it was asked for is taken off what is left.
Send(s) ==
  /\ Go(s, "send", "send") /\ left[s] > 0
  /\ IF There(s) = {}
       THEN UNCHANGED <<pos, moved, cut>>
       ELSE \E k \in There(s) :
              /\ moved' = [moved EXCEPT ![s] =
                             @ \o SubSeq(content[inode[s]], pos[s] + 1, pos[s] + k)]
              /\ pos' = [pos EXCEPT ![s] = @ + k]
              /\ cut' = [cut EXCEPT ![s] = @ \/ k + 1 \in There(s)]
  /\ left' = [left EXCEPT ![s] = IF @ > Chunk THEN @ - Chunk ELSE 0]
  /\ UNCHANGED <<link, content, fd, restart_position>>

BugSendDone(s) ==  \* mutant: the loop stops one block early
  /\ Go(s, "send", "done") /\ left[s] <= 1
  /\ UNCHANGED <<link, content, fd, restart_position, pos, left, moved, cut>>

SendDone(s) ==
  /\ Go(s, "send", "done") /\ left[s] = 0
  /\ UNCHANGED <<link, content, fd, restart_position, pos, left, moved, cut>>

\* write() at a position, which may lie beyond the end.
WriteAt(c, p, b) ==
  [k \in 1 .. IF p < Len(c) THEN Len(c) ELSE p + 1 |->
     IF k = p + 1 THEN b ELSE IF k <= Len(c) THEN c[k] ELSE Hole]

Recv(s) ==
  /\ Go(s, "recv", "recv") /\ pos[s] < MaxLen
  /\ content' = [content EXCEPT ![inode[s]] = WriteAt(@, pos[s], s)]
  /\ pos' = [pos EXCEPT ![s] = @ + 1]
  /\ moved' = [moved EXCEPT ![s] = Append(@, s)]
  /\ UNCHANGED <<link, fd, restart_position, left, cut>>

RecvEof(s) ==
  /\ Go(s, "recv", "done")
  /\ UNCHANGED <<link, content, fd, restart_position, pos, left, moved, cut>>

Finish(s) ==
  /\ pc[s] = "done"
  /\ Close(s)
  /\ UNCHANGED restart_position

\* 550, 553, 426 or 451: a failure before the offset is read leaves it.
Fails(s) ==
  /\ pc[s] \in Stages \ {"done"}
  /\ Close(s)
  /\ IF pc[s] = "lock" THEN UNCHANGED restart_position ELSE TakeOffset(s)

\* The process ends at any instant (421, SIGPIPE, kill) and the kernel closes
\* its files; the session's place is taken by a new one.
Dies(s) ==
  /\ Close(s)
  /\ TakeOffset(s)

\* DELE of any session; unlink() asks for no lock.
Dele ==
  /\ link # 0
  /\ link' = 0
  /\ UNCHANGED <<content, pc, fd, restart_position, pos, left, moved, cut>>

-----------------------------------------------------------------------------
Download(s) == StartDownload(s) \/ Send(s) \/ SendDone(s) \/ Finish(s)

SessionStep(s) ==
  \/ Download(s)
  \/ \E n \in -1 .. MaxLen - 1 : Rest(s, n)
  \/ OpenDownload(s) \/ Lock(s) \/ StartUpload(s) \/ Recv(s) \/ RecvEof(s)
  \/ \E c \in Commands : OpenUpload(s, c)
  \/ Fails(s) \/ Dies(s)

Next == Dele \/ \E s \in Sessions : SessionStep(s)

Spec == Init /\ [][Next]_vars
-----------------------------------------------------------------------------
TypeOK ==
  /\ content \in Seq(Seq(Sessions \cup {Hole}))
  /\ link \in 0 .. Len(content)
  /\ pc \in [Sessions -> Stages \cup {"idle"}]
  /\ op \in [Sessions -> Commands]
  /\ inode \in [Sessions -> 0 .. Len(content)]
  /\ size \in [Sessions -> Nat]
  /\ restart_position \in [Sessions -> Int]
  /\ pos \in [Sessions -> Nat]
  /\ left \in [Sessions -> Nat]
  /\ moved \in [Sessions -> Seq(Sessions \cup {Hole})]
  /\ cut \in [Sessions -> BOOLEAN]
  /\ \A s \in Sessions : pc[s] \in Stages => inode[s] # 0

\* What a transfer has moved is what the file still holds at that place: a
\* download sends one version of the file and not a mixture of two uploads,
\* and nothing an upload has stored is overwritten or cut off while it runs.
TransferIntact ==
  \A s \in Sessions :
    moved[s] # <<>> =>
      /\ pos[s] <= Len(content[inode[s]])
      /\ moved[s] = SubSeq(content[inode[s]], pos[s] - Len(moved[s]) + 1, pos[s])

\* A download that ends with 226 has sent all there is from its offset on,
\* if the file was as long under the lock as when its size was read and no
\* signal has cut a chunk short.
SentAllUnlessStaleOrCut ==
  \A s \in Sessions :
    /\ pc[s] = "done" /\ Reading(s)
    /\ size[s] = Len(content[inode[s]])
    /\ ~cut[s]
    => pos[s] >= Len(content[inode[s]])

\* While an APPE runs nobody, itself included, changes what the file held.
AppendKeepsEarlier ==
  [][\A s \in Sessions :
       (op[s] = "APPE" /\ Holding(s)) =>
          /\ Len(content'[inode[s]]) >= Len(content[inode[s]])
          /\ \A k \in DOMAIN content[inode[s]] :
               content'[inode[s]][k] = content[inode[s]][k]]_vars

\* If its client does not keep a session from going on with its downloads, by
\* not reading or by half an urgent line, for both of which the process waits
\* without a timeout, every download of it ends, even of a file that got shorter
\* while it waited for the lock, and gives the lock back.
ClientKeepsUp(s) == WF_vars(Reading(s) /\ Download(s))
DownloadEndsUnlessStalled ==
  \A s \in Sessions : ClientKeepsUp(s) => (Reading(s) ~> ~Reading(s))

\* The locks make the files what SharedFile promises.
Reads == [s \in Sessions |-> IF Reading(s) THEN inode[s] ELSE 0]
Writes == [s \in Sessions |-> IF Writing(s) THEN inode[s] ELSE 0]
Shared == INSTANCE SharedFile WITH files <- content, reads <- Reads, writes <- Writes
SharedSpec == Shared!Spec
-----------------------------------------------------------------------------
(***************************************************************************)
(* What the code says and does not do.                                     *)
(***************************************************************************)
\* ftp_protocol.cpp: "226 Transfer complete.", after the loop has sent the
\* bytes it was to send, means that the rest of the file has been sent.
WholeFileSent ==
  \A s \in Sessions :
    (pc[s] = "done" /\ Reading(s)) => pos[s] >= Len(content[inode[s]])
=============================================================================
