----------------------------- MODULE TimedTransfer -----------------------------
(***************************************************************************)
(* Time in a transfer: the waits of block_socket.cpp with a timeout (data  *)
(* connection and idle client), the blocking read() and sendfile() between *)
(* them, and the pause of limit_transmission_speed().  The settings come   *)
(* from Config.                                                            *)
(*                                                                         *)
(* Time passes in ticks.  Only differences of the clock matter to the code,*)
(* so that what is kept is how long the process has waited and how long    *)
(* ago the current chunk began.                                            *)
(***************************************************************************)
EXTENDS Config

CONSTANTS
  TicksPerSecond,
  MinElapsed,  \* ticks of the 0.01 s that stand for no time or less
  Chunk,       \* bytes of one read() or sendfile(), 65536 in the code
  Capacity,    \* bytes the connection's buffer holds
  MaxElapsed   \* exploration bound: any longer counts as this long

ASSUME TimeAssumption ==
  /\ {"connect_timeout", "accept_timeout", "idle_data_timeout"} \subseteq Items
  /\ {TicksPerSecond, MinElapsed, Chunk, Capacity} \subseteq Nat \ {0}
  /\ MinRate > 0 /\ MaxElapsed \in Nat
  /\ MaxElapsed * MinRate >= Chunk * TicksPerSecond

VARIABLES
  pc,
  way,          \* "upload" or "download"
  nonblock,     \* O_NONBLOCK is set on the data connection
  waited,       \* ticks of the current wait
  interrupted,  \* a signal has ended its select()
  held,         \* sigurg_handler() waits for the rest of a line
  avail,        \* bytes received and unread, or free in the send buffer
  eof,          \* the client has ended its upload
  todo,         \* bytes the sendfile() under way has still to send
  moved,        \* bytes of the current chunk
  elapsed,      \* ticks since time_point
  pause,        \* ticks left of the sleep
  raw,          \* history: elapsed when the pause was computed
  wrapped       \* history: current_rate did not fit 32 bits

signals == <<interrupted, held>>
wait == <<waited, signals>>
chunk == <<todo, moved>>
pace == <<elapsed, pause, raw, wrapped>>
allVars == <<pc, way, nonblock, wait, avail, eof, chunk, pace, loaded>>

Waiting == {"connecting", "accepting", "select"}
Ends == {"refused", "421", "finished", "gone"}

TimeInit ==
  /\ ConfigInit
  /\ pc = "load" /\ way \in {"upload", "download"}
  /\ nonblock = FALSE /\ waited = 0 /\ interrupted = FALSE /\ held = FALSE
  /\ avail = 0 /\ eof = FALSE /\ todo = 0 /\ moved = 0
  /\ elapsed = 0 /\ pause = 0 /\ raw = 0 /\ wrapped = FALSE

Limit(p) ==
  TicksPerSecond * conf[CASE p = "connecting" -> "connect_timeout"
                          [] p = "accepting" -> "accept_timeout"
                          [] p = "select" -> "idle_data_timeout"]
-----------------------------------------------------------------------------
Load ==
  /\ pc = "load"
  /\ ParseConfig
  /\ UNCHANGED <<pc, way, nonblock, wait, avail, eof, chunk, pace>>

\* The nobody process is asked for the data connection.
Ask ==
  /\ pc = "load" /\ rest = <<>>
  /\ pc' \in {"connect", "accepting"}
  /\ nonblock' = (pc' = "connect" /\ conf["connect_timeout"] > 0)
  /\ file' = <<>>
  /\ UNCHANGED <<way, wait, avail, eof, chunk, pace, conf, rest>>

\* An iteration of the transfer's loop: with idle_data_timeout 0 it goes to
\* the blocking call at once.
Iterate == IF Limit("select") > 0 THEN "select" ELSE "io"
BeginChunk ==
  /\ pc' = Iterate
  /\ waited' = 0
  /\ todo' \in IF way = "download" THEN 1 .. Chunk ELSE {0}
  /\ moved' = 0
  /\ elapsed' = 0 /\ pause' = 0 /\ raw' = 0 /\ wrapped' = FALSE

BugConnect ==  \* mutant: the mode is restored after select() only
  /\ pc = "connect"
  /\ \/ BeginChunk /\ UNCHANGED nonblock
     \/ pc' = "refused" /\ nonblock' = FALSE /\ UNCHANGED <<waited, chunk, pace>>
     \/ /\ nonblock /\ pc' = "connecting" /\ waited' = 0
        /\ UNCHANGED <<nonblock, chunk, pace>>
  /\ UNCHANGED <<way, signals, avail, eof, loaded>>

\* connect() succeeds or fails at once, which it also does in the end when it
\* may block; or it is in progress.
Connect ==
  /\ pc = "connect"
  /\ \/ BeginChunk /\ nonblock' = FALSE
     \/ pc' = "refused" /\ nonblock' = FALSE /\ UNCHANGED <<waited, chunk, pace>>
     \/ /\ nonblock /\ pc' = "connecting" /\ waited' = 0
        /\ UNCHANGED <<nonblock, chunk, pace>>
  /\ UNCHANGED <<way, signals, avail, eof, loaded>>

\* select() reports the connection, or its error; accept() returns it.
Answered ==
  /\ pc \in {"connecting", "accepting"} /\ ~interrupted
  /\ nonblock' = FALSE
  /\ \/ BeginChunk
     \/ pc' = "refused" /\ UNCHANGED <<waited, chunk, pace>>
  /\ UNCHANGED <<way, signals, avail, eof, loaded>>

Ready ==
  /\ pc = "select" /\ ~interrupted
  /\ avail > 0 \/ eof
  /\ pc' = "io"
  /\ UNCHANGED <<way, nonblock, wait, avail, eof, chunk, pace, loaded>>

\* select() returned 0: no data connection, or 421 and exit().
TimeOut ==
  /\ pc \in Waiting /\ ~interrupted
  /\ Limit(pc) > 0 /\ waited = Limit(pc)
  /\ pc' = IF pc = "select" THEN "421" ELSE "refused"
  /\ nonblock' = FALSE
  /\ UNCHANGED <<way, wait, avail, eof, chunk, pace, loaded>>

BugResume ==  \* mutant: the wait starts again with the whole timeout
  /\ interrupted
  /\ interrupted' = FALSE
  /\ waited' = 0
  /\ UNCHANGED <<pc, way, nonblock, held, avail, eof, chunk, pace, loaded>>

\* EINTR: once the handler has returned, select() is called again with what is
\* left in timeout, from which Linux has deducted the time spent.
Resume ==
  /\ interrupted
  /\ interrupted' = FALSE
  /\ UNCHANGED <<pc, way, nonblock, waited, held, avail, eof, chunk, pace, loaded>>

\* read() of an upload, and its end.
ReadChunk ==
  /\ pc = "io" /\ way = "upload"
  /\ \E n \in 1 .. avail :
       /\ n <= Chunk
       /\ moved' = n /\ avail' = avail - n
  /\ pc' = "limit"
  /\ UNCHANGED <<way, nonblock, wait, eof, todo, pace, loaded>>

ReadEof ==
  /\ pc = "io" /\ way = "upload" /\ avail = 0 /\ eof
  /\ pc' = "finished"
  /\ UNCHANGED <<way, nonblock, wait, avail, eof, chunk, pace, loaded>>

\* sendfile() puts into the buffer what fits, and blocks until the rest does.
SendSome ==
  /\ pc = "io" /\ way = "download"
  /\ \E n \in 1 .. avail :
       /\ n <= todo
       /\ todo' = todo - n /\ moved' = moved + n /\ avail' = avail - n
  /\ pc' = IF todo' = 0 THEN "limit" ELSE "io"
  /\ UNCHANGED <<way, nonblock, wait, eof, pace, loaded>>

BugSignal ==  \* mutant: the -1 of an interrupted sendfile() is taken for a count
  /\ ~held
  /\ \/ /\ pc \in Waiting /\ ~interrupted
        /\ Limit(pc) = 0 \/ waited < Limit(pc)
        /\ interrupted' = TRUE /\ UNCHANGED <<pc, moved>>
     \/ /\ pc = "io" /\ way = "download"
        /\ moved' = IF moved > 0 THEN moved ELSE -1
        /\ pc' = "limit" /\ UNCHANGED interrupted
  /\ held' \in BOOLEAN /\ (held' => pc \in {"select", "io"})
  /\ UNCHANGED <<way, nonblock, waited, avail, eof, todo, pace, loaded>>

\* SIGURG to the FTP process, SIGCHLD to the nobody process while it connects
\* or accepts.  A signal ends a select(), and a sendfile() that has sent
\* something; read() and nanosleep() go on after it.  sigurg_handler() returns
\* once it has a whole line: what is waiting may be only the beginning of one.
Signal ==
  /\ ~held
  /\ \/ /\ pc \in Waiting /\ ~interrupted
        /\ Limit(pc) = 0 \/ waited < Limit(pc)
        /\ interrupted' = TRUE /\ UNCHANGED pc
     \/ /\ pc = "io" /\ moved > 0
        /\ pc' = "limit" /\ UNCHANGED interrupted
     \/ /\ pc = "sleep" \/ (pc = "io" /\ moved = 0)
        /\ UNCHANGED <<pc, interrupted>>
  /\ held' \in BOOLEAN /\ (held' => pc \in {"select", "io", "sleep"})
  /\ UNCHANGED <<way, nonblock, waited, avail, eof, chunk, pace, loaded>>

\* The rest of the line comes, or the end of the control connection, upon
\* which the handler ends the process.
LineArrives ==
  /\ held /\ held' = FALSE
  /\ pc' \in {pc, "gone"}
  /\ UNCHANGED <<way, nonblock, waited, interrupted, avail, eof, chunk, pace, loaded>>
-----------------------------------------------------------------------------
(***************************************************************************)
(* limit_transmission_speed() and sleep_for_seconds().                     *)
(***************************************************************************)
MaxRate == conf[IF way = "upload" THEN "max_upload_rate" ELSE "max_download_rate"]

Effective(e) == IF e = 0 THEN MinElapsed ELSE e
Rate(n, e) == (n * TicksPerSecond) \div Effective(e)

BugPause(rate, e) ==  \* mutant: the ratio is an integer, without the cast to double
  (rate \div MaxRate - 1) * Effective(e)

\* (rate / max - 1) * elapsed, in ticks and rounded up.
Pause(rate, e) == ((rate - MaxRate) * Effective(e) + MaxRate - 1) \div MaxRate

\* The double becomes an unsigned int, what does not fit modulo 2^32.  With a
\* limit of 0 the pause is infinite, which nanosleep() refuses.
LimitSpeed ==
  LET rate == Rate(moved, elapsed) % Modulus IN
  /\ pc = "limit"
  /\ raw' = elapsed
  /\ wrapped' = (Rate(moved, elapsed) >= Modulus)
  /\ pause' = IF MaxRate > 0 /\ rate > MaxRate THEN Pause(rate, elapsed) ELSE 0
  /\ pc' = "sleep"
  /\ UNCHANGED <<way, nonblock, wait, avail, eof, chunk, elapsed, loaded>>

\* nanosleep() returned for good: signals only make it sleep the rest.
Wake ==
  /\ pc = "sleep" /\ pause = 0
  /\ pc' = "limited"
  /\ UNCHANGED <<way, nonblock, wait, avail, eof, chunk, pace, loaded>>

\* The time point is set anew; there is more to transfer, or not.
Again ==
  /\ pc = "limited"
  /\ BeginChunk
  /\ UNCHANGED <<way, nonblock, signals, avail, eof, loaded>>

Done ==
  /\ pc = "limited" /\ way = "download"
  /\ pc' = "finished"
  /\ UNCHANGED <<way, nonblock, wait, avail, eof, chunk, pace, loaded>>
-----------------------------------------------------------------------------
(***************************************************************************)
(* The client, and time.                                                   *)
(***************************************************************************)
\* It sends a byte of its upload, or reads one of its download.
ClientMoves ==
  /\ pc \notin Ends \cup {"load"}
  /\ ~eof /\ avail < Capacity
  /\ avail' = avail + 1
  /\ UNCHANGED <<pc, way, nonblock, wait, eof, chunk, pace, loaded>>

ClientEnds ==
  /\ pc \in {"select", "io", "sleep"} /\ way = "upload" /\ ~eof
  /\ eof' = TRUE
  /\ UNCHANGED <<pc, way, nonblock, wait, avail, chunk, pace, loaded>>

\* select() and nanosleep() return on time; what a handler takes between two
\* calls of them counts for neither.
Tick ==
  /\ pc \in Waiting \cup {"io", "sleep"} \/ held
  /\ IF pc \in Waiting /\ Limit(pc) > 0 /\ ~held
       THEN waited < Limit(pc) /\ waited' = waited + 1
       ELSE UNCHANGED waited
  /\ IF pc = "sleep" /\ ~held THEN pause > 0 /\ pause' = pause - 1 ELSE UNCHANGED pause
  /\ elapsed' = IF elapsed < MaxElapsed THEN elapsed + 1 ELSE elapsed
  /\ UNCHANGED <<pc, way, nonblock, signals, avail, eof, chunk, raw, wrapped, loaded>>
-----------------------------------------------------------------------------
\* The process goes on when its handler has returned.
Process ==
  /\ ~held
  /\ \/ Load \/ Ask \/ Connect \/ Answered \/ Ready \/ TimeOut \/ Resume
     \/ ReadChunk \/ ReadEof \/ SendSome
     \/ LimitSpeed \/ Wake \/ Again \/ Done

TimeNext == Process \/ Signal \/ LineArrives \/ ClientMoves \/ ClientEnds \/ Tick

TimeSpec == TimeInit /\ [][TimeNext]_allVars

\* Time passes and the process is scheduled.  That an answer to connect() or
\* a connection for accept() comes is not assumed, nor anything of a client:
\* not even the rest of an urgent line.
TimeFairSpec ==
  /\ TimeSpec
  /\ WF_allVars(Tick)
  /\ WF_allVars(/\ ~held
                /\ \/ Ready \/ TimeOut \/ Resume \/ ReadChunk \/ ReadEof \/ SendSome
                   \/ LimitSpeed \/ Wake \/ Again)
-----------------------------------------------------------------------------
TimeTypeOK ==
  /\ conf \in [Items -> 0 .. Modulus - 1]
  /\ pc \in {"load", "connect", "io", "limit", "sleep", "limited"} \cup Waiting \cup Ends
  /\ nonblock \in BOOLEAN /\ interrupted \in BOOLEAN /\ held \in BOOLEAN /\ wrapped \in BOOLEAN
  /\ waited \in Nat /\ (pc \in Waiting => Limit(pc) = 0 \/ waited <= Limit(pc))
  /\ avail \in 0 .. Capacity
  /\ todo \in 0 .. Chunk /\ moved \in 0 .. Chunk /\ todo + moved <= Chunk
  /\ elapsed \in 0 .. MaxElapsed /\ raw \in 0 .. MaxElapsed
  /\ pause \in Nat

\* Whatever the order of its lines and however odd their values, the file
\* gives every item the value of the last line that has one for it, and a rate
\* that is named at all is at least MinRate.
LoadedAsWritten ==
  (pc = "load" /\ rest = <<>>) => conf = [item \in Items |-> Meant(item)]

\* The descriptor that goes to the transfer blocks again, whichever way
\* connect_with_timeout() has made the connection.
BlockingForTransfers == pc \in {"select", "io"} => ~nonblock

\* A chunk takes, its pause included, the time it takes at max_rate, as long
\* as its rate fits 32 bits.  The rounding of the rate to an integer lets at
\* most a byte a second through; a chunk that took no time counts as 0.01 s.
PaceKeptUnlessWrapped ==
  (pc = "limited" /\ MaxRate > 0 /\ ~wrapped) =>
    moved * TicksPerSecond <=
      MaxRate * (elapsed + (IF raw = 0 THEN MinElapsed ELSE 0)) + Effective(raw)

\* With its timeout set a wait ends, however many signals interrupt it, unless
\* the handler of one does not return: an idle client is found out.
InTimedWait == pc \in Waiting /\ Limit(pc) > 0
WaitEnds == InTimedWait ~> (~InTimedWait \/ held)
-----------------------------------------------------------------------------
(***************************************************************************)
(* What the documentation says and the code does not do.                   *)
(***************************************************************************)
\* readme.md: functions with a timeout (select) solve the problem of a client
\* that makes a transfer block.  It can still block sendfile(), with no signal
\* at all, ...
InTimedTransfer == pc = "io" /\ Limit("select") > 0
TransferNeverBlocks == InTimedTransfer ~> (~InTimedTransfer \/ held)

\* ... and, with one urgent byte that ends no line, sigurg_handler(), in the
\* middle of a wait with a timeout.
InHeldWait == InTimedWait /\ held
IdleClientFoundOut == InHeldWait ~> ~InHeldWait

\* readme.md: the pauses make a transfer last as long as at the maximal rate.
PaceKept ==
  (pc = "limited" /\ MaxRate > 0) =>
    moved * TicksPerSecond <=
      MaxRate * (elapsed + (IF raw = 0 THEN MinElapsed ELSE 0)) + Effective(raw)
=============================================================================
