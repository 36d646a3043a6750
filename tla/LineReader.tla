------------------------------ MODULE LineReader ------------------------------
(***************************************************************************)
(* How the FTP process gets lines out of the control connection: readline()*)
(* peeks at what has arrived, looks for a newline and takes out what it    *)
(* has seen, so that no byte is kept between two calls.  It has two        *)
(* callers, the command loop and sigurg_handler(), which runs on top of    *)
(* the loop.  A character is a newline "n" or another one, "x".            *)
(***************************************************************************)
EXTENDS Integers, Sequences, SequencesExt

CONSTANTS
  MaxLine,  \* max_len of readline(), the size of parse_command()'s buffer
  MaxSent   \* exploration bound: characters the client sends

ASSUME ConstantsAssumption == MaxLine \in Nat \ {0, 1} /\ MaxSent \in Nat

VARIABLES
  sock,    \* arrived and not yet read
  closed,  \* the client has closed the connection, or it is broken
  sent,    \* history: all the client has sent
  at,      \* caller -> where it is in readline()
  buf,     \* caller -> its buffer, from the start to buf_ptr
  want,    \* caller -> count of the read_n() it is in
  data_fd  \* Session.data_fd is open

VARIABLE
  lines    \* history: what readline() has returned

frames == <<at, buf, want>>
vars == <<sock, closed, sent, frames, data_fd, lines>>

Callers == {"loop", "handler"}
Chars == {"x", "n"}

Init ==
  /\ sock = <<>> /\ closed = FALSE /\ sent = <<>>
  /\ at = [c \in Callers |-> IF c = "loop" THEN "peek" ELSE "out"]
  /\ buf = [c \in Callers |-> <<>>]
  /\ want = [c \in Callers |-> 0]
  /\ data_fd = FALSE
  /\ lines = <<>>

\* The handler suspends the loop; after exit() neither runs.
Runs(c) == c = "handler" \/ at["handler"] = "out"
Exited == at["loop"] = "exited"
-----------------------------------------------------------------------------
(***************************************************************************)
(* The client, and what calls readline().                                  *)
(***************************************************************************)
Send(ch) ==
  /\ ~closed /\ Len(sent) < MaxSent
  /\ sent' = Append(sent, ch)
  /\ sock' = Append(sock, ch)
  /\ UNCHANGED <<closed, frames, data_fd, lines>>

Close ==
  /\ ~closed
  /\ closed' = TRUE
  /\ UNCHANGED <<sock, sent, frames, data_fd, lines>>

Call(c) ==
  /\ at' = [at EXCEPT ![c] = "peek"]
  /\ buf' = [buf EXCEPT ![c] = <<>>]
  /\ UNCHANGED <<sock, closed, sent, want, lines>>

\* The command that was read opens a data connection, or not.
OpenData ==
  /\ at["loop"] = "out" /\ Runs("loop")
  /\ data_fd' = TRUE
  /\ UNCHANGED <<sock, closed, sent, frames, lines>>

\* It ends, without a data connection; the loop reads the next line.
NextCommand ==
  /\ at["loop"] = "out" /\ Runs("loop")
  /\ data_fd' = FALSE
  /\ Call("loop")

BugUrgent ==  \* mutant: the handler does not look at data_fd
  /\ at["handler"] = "out" /\ ~Exited
  /\ Call("handler")
  /\ UNCHANGED data_fd

\* SIGURG, at any instant; without a data connection the handler returns.
Urgent ==
  /\ at["handler"] = "out" /\ ~Exited
  /\ data_fd
  /\ Call("handler")
  /\ UNCHANGED data_fd
-----------------------------------------------------------------------------
(***************************************************************************)
(* readline().                                                             *)
(***************************************************************************)
BugRoom(c) == MaxLine - Len(buf[c])  \* mutant: no place for the terminator

\* n_left: the last place of the buffer is for the terminator.
Room(c) == MaxLine - 1 - Len(buf[c])

Newlines(s) == {i \in DOMAIN s : s[i] = "n"}
FirstNewline(s) == CHOOSE i \in Newlines(s) : \A j \in Newlines(s) : i <= j

\* mutant: what was peeked at is taken out whole, newline inside or not
BugTake(seen) == Len(seen)

\* Up to the newline, if there is one, else all of it.
Take(seen) == IF Newlines(seen) = {} THEN Len(seen) ELSE FirstNewline(seen)

\* recv_peek(): some of what has arrived; recv() stops at the urgent mark.
Peek(c) ==
  /\ Runs(c) /\ at[c] = "peek"
  /\ \E n \in 1 .. Len(sock) :
       /\ n <= Room(c)
       /\ want' = [want EXCEPT ![c] = Take(SubSeq(sock, 1, n))]
  /\ at' = [at EXCEPT ![c] = "read"]
  /\ UNCHANGED <<sock, closed, sent, buf, data_fd, lines>>

\* recv() returns 0 or an error: exit().
PeekEnds(c) ==
  /\ Runs(c) /\ at[c] = "peek"
  /\ closed /\ sock = <<>>
  /\ at' = [r \in Callers |-> "exited"]
  /\ UNCHANGED <<sock, closed, sent, buf, want, data_fd, lines>>

\* One read() of read_n(), which goes on until it has all.
Read(c) ==
  /\ Runs(c) /\ at[c] = "read" /\ want[c] > 0
  /\ \E k \in 1 .. Len(sock) :
       /\ k <= want[c]
       /\ buf' = [buf EXCEPT ![c] = @ \o SubSeq(sock, 1, k)]
       /\ sock' = SubSeq(sock, k + 1, Len(sock))
       /\ want' = [want EXCEPT ![c] = @ - k]
  /\ UNCHANGED <<at, closed, sent, data_fd, lines>>

Complete(s) == s # <<>> /\ Last(s) = "n"

BugReadMore(c) ==  \* mutant: a full buffer is not a reason to return
  /\ Runs(c) /\ at[c] = "read" /\ want[c] = 0
  /\ ~Complete(buf[c])
  /\ at' = [at EXCEPT ![c] = "peek"]
  /\ UNCHANGED <<sock, closed, sent, buf, want, data_fd, lines>>

\* No newline so far, and there is room left: peek again.
ReadMore(c) ==
  /\ Runs(c) /\ at[c] = "read" /\ want[c] = 0
  /\ ~Complete(buf[c]) /\ Room(c) > 0
  /\ at' = [at EXCEPT ![c] = "peek"]
  /\ UNCHANGED <<sock, closed, sent, buf, want, data_fd, lines>>

\* The line is there, or the buffer is full.
Return(c) ==
  /\ Runs(c) /\ at[c] = "read" /\ want[c] = 0
  /\ Complete(buf[c]) \/ Room(c) = 0
  /\ lines' = Append(lines, buf[c])
  /\ buf' = [buf EXCEPT ![c] = <<>>]
  /\ at' = [at EXCEPT ![c] = "out"]
  /\ UNCHANGED <<sock, closed, sent, want, data_fd>>
-----------------------------------------------------------------------------
Readline(c) == Peek(c) \/ PeekEnds(c) \/ Read(c) \/ ReadMore(c) \/ Return(c)

Next ==
  \/ \E ch \in Chars : Send(ch)
  \/ Close \/ OpenData \/ NextCommand \/ Urgent
  \/ \E c \in Callers : Readline(c)

Spec == Init /\ [][Next]_vars

\* The process is scheduled.
FairSpec == Spec /\ \A c \in Callers : WF_vars(Readline(c))
-----------------------------------------------------------------------------
TypeOK ==
  /\ sock \in Seq(Chars) /\ sent \in Seq(Chars)
  /\ closed \in BOOLEAN /\ data_fd \in BOOLEAN
  /\ at \in [Callers -> {"out", "peek", "read", "exited"}]
  /\ buf \in [Callers -> Seq(Chars)]
  /\ want \in [Callers -> Nat]
  /\ lines \in Seq(Seq(Chars))
  /\ \A c \in Callers : Len(buf[c]) + want[c] < MaxLine

\* Nothing is lost, doubled or swapped, however the stream is cut into pieces
\* and wherever SIGURG interrupts: the lines returned, what the callers have
\* taken out and what is still in the socket are what the client has sent.
NothingLost ==
  FlattenSeq(lines) \o buf["loop"] \o buf["handler"] \o sock = sent

\* A line ends at its newline and never after it; only a full buffer is
\* returned without one.
LinesWhole ==
  \A i \in DOMAIN lines :
    \/ Newlines(lines[i]) = {Len(lines[i])}
    \/ Newlines(lines[i]) = {} /\ Len(lines[i]) = MaxLine - 1

\* A caller gets the line, or as much as fits, once it has arrived, even if
\* nothing is sent after it.
LineReturned ==
  \A c \in Callers :
    (at[c] = "peek" /\ Newlines(sock) # {}) ~> (at[c] \in {"out", "exited"})
=============================================================================
