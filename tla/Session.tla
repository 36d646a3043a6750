-------------------------------- MODULE Session --------------------------------
(***************************************************************************)
(* The FTP process of one client: the command loop of start_ftp_service(), *)
(* the handlers that keep state in Session, the transfers step by step,    *)
(* the urgent ABOR that interrupts them (sigurg_handler) and the alarm of  *)
(* an idle control connection.  DataConnection models how a transfer gets  *)
(* its data connection; here it gets one or it does not.                   *)
(*                                                                         *)
(* The kernel delivers SIGURG before the process makes its next step, so   *)
(* an urgent line and the handler's run are one step, between any two      *)
(* steps of a transfer.  The handler reads a whole line: when the urgent   *)
(* byte comes without its newline, the process stays in the handler until  *)
(* the client sends the rest.  A file is as many chunks as its length asks *)
(* for.                                                                    *)
(***************************************************************************)
EXTENDS Integers, Sequences

CONSTANTS
  Lines,     \* lines the client sends, each [cmd, arg]
  Root,      \* the uid that may read the shadow file
  Users,     \* uids that have an account
  Locked,    \* those of them whose shadow entry crypt() cannot use
  None,      \* empty string, no uid, descriptor -1
  MaxLines,  \* exploration bound: lines received and not yet read
  MaxChunks  \* exploration bound: chunks of the longest file

ASSUME ConstantsAssumption ==
  /\ Locked \subseteq Users
  /\ None \notin Users \cup {Root}
  /\ MaxChunks \in Nat

VARIABLES
  pc,        \* the step of the loop or of the running transfer
  ctrl,      \* lines in the receive buffer of the control connection
  cmd, arg,  \* Session.cmd, Session.arg
  logged_in, uid, active_port, active_pasv, data_fd, restart_position,
  rnfr_name, received_abor,  \* the other fields of Session
  in_handler,  \* sigurg_handler() is in readline(), waiting for its line's end
  euid,      \* effective uid of the process
  alarm,     \* SIGALRM is scheduled
  running,   \* the transfer command whose handler is on the stack
  file,      \* the file that handler has open, None: closed
  left,      \* chunks it has still to send
  reply,     \* code of the reply that ended the last command
  proved,    \* history: uids whose password the client has given
  short      \* history: bytes of the running transfer were skipped

command == <<cmd, arg>>
login == <<logged_in, uid, euid, proved>>
modes == <<active_port, active_pasv>>
xfer == <<running, file, left, short>>
vars == <<pc, ctrl, command, login, modes, data_fd, restart_position, rnfr_name,
          received_abor, in_handler, alarm, xfer, reply>>

Downloads == {"RETR"}
Uploads == {"STOR", "APPE"}
Listings == {"LIST", "NLST"}
Transfers == Downloads \cup Uploads \cup Listings

Idle == {"wait", "parsed"}
Stages == {"establish", "list", "open", "lock", "start", "send", "sent", "recv",
           "stored", "done", "failed_recv", "failed_write", "failed_send"}
Ends == {"exited", "timed_out", "killed", "sigpipe"}

Init ==
  /\ pc = "wait" /\ ctrl = <<>>
  /\ cmd = None /\ arg = None
  /\ logged_in = FALSE /\ uid = None /\ euid = Root /\ proved = {}
  /\ active_port = FALSE /\ active_pasv = FALSE /\ data_fd = None
  /\ restart_position = 0 /\ rnfr_name = None /\ received_abor = FALSE
  /\ in_handler = FALSE /\ alarm = TRUE
  /\ running = None /\ file = None /\ left = 0 /\ short = FALSE
  /\ reply = None
-----------------------------------------------------------------------------
(***************************************************************************)
(* The client and the command loop.                                        *)
(***************************************************************************)
SendLine(l) ==
  /\ pc \notin Ends /\ Len(ctrl) < MaxLines /\ ~in_handler
  /\ ctrl' = Append(ctrl, l)
  /\ UNCHANGED <<pc, command, login, modes, data_fd, restart_position, rnfr_name,
                 received_abor, in_handler, alarm, xfer, reply>>

\* parse_command(): a blank line leaves cmd as it was and empties arg, unless
\* the command is SITE, whose getline() leaves arg too.
Parse(l) ==
  /\ cmd' = IF l.cmd = None THEN cmd ELSE l.cmd
  /\ arg' = IF l.cmd = None /\ cmd = "SITE" THEN arg ELSE l.arg

ReadLine ==
  /\ pc = "wait" /\ ctrl # <<>>
  /\ Parse(Head(ctrl))
  /\ ctrl' = Tail(ctrl)
  /\ pc' = "parsed"
  /\ UNCHANGED <<login, modes, data_fd, restart_position, rnfr_name,
                 received_abor, in_handler, alarm, xfer, reply>>

\* The loop ends with the process, whatever it holds.
End(how) ==
  /\ pc' = how
  /\ UNCHANGED <<ctrl, command, login, modes, data_fd, restart_position, rnfr_name,
                 received_abor, in_handler, alarm, xfer, reply>>

\* readline() finds the end of the stream, in the loop or in the handler.
ClientLeaves ==
  /\ pc = "wait" \/ (in_handler /\ pc \in Stages)
  /\ ctrl = <<>>
  /\ End("exited")

\* control_alarm_handler(), at any instant between alarm(n) and alarm(0)
AlarmFires == alarm /\ pc \notin Ends /\ End("timed_out")

\* mutant: the gate tests the user name instead of the password
BugMayRun == uid # None \/ cmd \in {"USER", "PASS"}

MayRun == logged_in \/ cmd \in {"USER", "PASS"}

\* The loop sends its refusal and goes round, without alarm(0).
NotLoggedIn ==
  /\ pc = "parsed" /\ ~MayRun
  /\ reply' = "500"
  /\ pc' = "wait" /\ alarm' = TRUE
  /\ UNCHANGED <<ctrl, command, login, modes, data_fd, restart_position, rnfr_name,
                 received_abor, in_handler, xfer>>

\* A handler that sends code c and returns to the loop, which sets the alarm
\* again for its next read.
Command(c) == pc = "parsed" /\ MayRun /\ cmd = c
Answer(code) ==
  /\ reply' = code
  /\ pc' = "wait"
  /\ alarm' = TRUE
  /\ UNCHANGED <<ctrl, command, in_handler, xfer>>

BugUser ==  \* mutant: a second USER is not refused
  /\ Command("USER")
  /\ IF arg \in Users THEN uid' = arg ELSE UNCHANGED uid
  /\ Answer(IF arg \in Users THEN "331" ELSE "530")
  /\ UNCHANGED <<logged_in, euid, proved, modes, data_fd, restart_position,
                 rnfr_name, received_abor>>

User ==
  /\ Command("USER")
  /\ IF uid # None \/ arg \notin Users THEN UNCHANGED uid ELSE uid' = arg
  /\ Answer(IF uid = None /\ arg \in Users THEN "331" ELSE "530")
  /\ UNCHANGED <<logged_in, euid, proved, modes, data_fd, restart_position,
                 rnfr_name, received_abor>>

\* The right password is modelled as the uid it belongs to.
PassOk == uid # None /\ euid = Root /\ uid \notin Locked /\ arg = uid

PassAccepted ==
  /\ Command("PASS") /\ PassOk
  /\ proved' = proved \cup {arg}
  /\ euid' = uid
  /\ logged_in' = TRUE
  /\ Answer("230")
  /\ UNCHANGED <<uid, modes, data_fd, restart_position, rnfr_name, received_abor>>

PassRefused ==
  /\ Command("PASS") /\ ~PassOk
  /\ Answer("530")
  /\ UNCHANGED <<login, modes, data_fd, restart_position, rnfr_name, received_abor>>

\* crypt() may return NULL for the entry of a locked account, which strcmp()
\* reads; set_permissions() and activate_SIGURG() exit when they fail.
PassEnds ==
  /\ Command("PASS")
  /\ PassOk \/ (uid \in Locked /\ euid = Root)
  /\ End("killed")

Port ==
  /\ Command("PORT")
  /\ active_port' = TRUE
  /\ Answer("200")
  /\ UNCHANGED <<login, active_pasv, data_fd, restart_position, rnfr_name, received_abor>>

Pasv ==
  /\ Command("PASV")
  /\ active_pasv' = TRUE
  /\ Answer("227")
  /\ UNCHANGED <<login, active_port, data_fd, restart_position, rnfr_name, received_abor>>

\* stol() takes a negative number too.
Rest ==
  /\ Command("REST") /\ arg \in Int
  /\ restart_position' = arg
  /\ Answer("350")
  /\ UNCHANGED <<login, modes, data_fd, rnfr_name, received_abor>>

\* stol() throws for an argument that is no number, and nothing catches it.
RestCrashes == Command("REST") /\ arg \notin Int /\ End("killed")

\* handle_site() takes back() of a vector that is empty without an argument, and
\* stoi() throws for a mode that is no number.  Arguments are not told apart.
SiteCrashes == Command("SITE") /\ End("killed")

Rnfr ==
  /\ Command("RNFR")
  /\ rnfr_name' = arg
  /\ Answer("350")
  /\ UNCHANGED <<login, modes, data_fd, restart_position, received_abor>>

Rnto ==
  /\ Command("RNTO")
  /\ \/ rnfr_name = None /\ Answer("503") /\ UNCHANGED rnfr_name
     \/ rnfr_name # None /\ Answer("550") /\ UNCHANGED rnfr_name  \* rename() failed
     \/ rnfr_name # None /\ Answer("250") /\ rnfr_name' = None
  /\ UNCHANGED <<login, modes, data_fd, restart_position, received_abor>>

Quit == Command("QUIT") /\ End("exited")

\* A system call on the name in arg or on the working directory, and its result;
\* 213 and 257 count as 250.
FileCommands == {"SIZE", "PWD", "CWD", "CDUP", "MKD", "DELE", "RMD"}
FileCommand ==
  /\ Command(cmd) /\ cmd \in FileCommands
  /\ Answer("250") \/ Answer("550")
  /\ UNCHANGED <<login, modes, data_fd, restart_position, rnfr_name, received_abor>>

\* ABOR outside a transfer, and the commands that keep no state in Session.
Other ==
  /\ Command(cmd)
  /\ cmd \notin Transfers \cup FileCommands
       \cup {"USER", "PASS", "PORT", "PASV", "REST", "RNFR", "RNTO", "QUIT"}
  /\ Answer(IF cmd = "ABOR" THEN "225" ELSE "200")
  /\ UNCHANGED <<login, modes, data_fd, restart_position, rnfr_name, received_abor>>
-----------------------------------------------------------------------------
(***************************************************************************)
(* Transfers.                                                              *)
(***************************************************************************)
ResetDataFd ==
  /\ data_fd' = None
  /\ active_pasv' = FALSE
  /\ active_port' = FALSE

Step(from, to) ==
  /\ pc = from /\ ~in_handler
  /\ pc' = to
  /\ UNCHANGED <<ctrl, command, login, alarm, rnfr_name, in_handler, reply>>

\* The handler gives up or is done: everything it opened is closed.
Conclude(code) ==
  /\ ~in_handler
  /\ ResetDataFd
  /\ file' = None
  /\ reply' = code
  /\ pc' = "wait"
  /\ alarm' = TRUE
  /\ UNCHANGED <<ctrl, command, login, rnfr_name, in_handler, running, left, short>>

\* Neither PORT nor PASV, or both: establish_transfer() returns false.
NotPrepared ==
  /\ Command(cmd) /\ cmd \in Transfers
  /\ active_port = active_pasv
  /\ Conclude("550")
  /\ UNCHANGED <<restart_position, received_abor>>

BugBegin ==  \* mutant: alarm(0) is left out
  /\ Command(cmd) /\ cmd \in Transfers
  /\ active_port # active_pasv
  /\ running' = cmd /\ short' = FALSE
  /\ pc' = "establish"
  /\ UNCHANGED <<ctrl, command, login, modes, data_fd, restart_position, rnfr_name,
                 received_abor, in_handler, alarm, file, left, reply>>

Begin ==
  /\ Command(cmd) /\ cmd \in Transfers
  /\ active_port # active_pasv
  /\ alarm' = FALSE
  /\ running' = cmd /\ short' = FALSE
  /\ pc' = "establish"
  /\ UNCHANGED <<ctrl, command, login, modes, data_fd, restart_position, rnfr_name,
                 received_abor, in_handler, file, left, reply>>

EstablishFails ==
  /\ pc = "establish"
  /\ Conclude("550")
  /\ UNCHANGED <<restart_position, received_abor>>

\* The nobody process is gone.
EstablishEnds == pc = "establish" /\ End("exited")

Established ==
  /\ Step("establish", IF running \in Listings THEN "list" ELSE "open")
  /\ data_fd' = "open"
  /\ UNCHANGED <<modes, restart_position, received_abor, xfer>>

\* handle_list(), handle_nlst(): what is written may all fit before an ABOR.
List ==
  /\ pc = "list"
  /\ Conclude("226")
  /\ UNCHANGED <<restart_position, received_abor>>

\* A write to a connection that the client or the handler has shut down.
WriteBreaks ==
  /\ ~in_handler
  /\ pc = "list" \/ (pc = "send" /\ left > 0)
  /\ End("sigpipe")

\* open() takes its name from Session.arg, now.
OpenFile ==
  /\ Step("open", "lock")
  /\ arg # None
  /\ file' = arg
  /\ UNCHANGED <<modes, data_fd, restart_position, received_abor, running, left, short>>

\* open(), fstat() or the lock fails, or it is no regular file.
OpenFails ==
  /\ pc \in {"open", "lock"}
  /\ Conclude("550")
  /\ UNCHANGED <<restart_position, received_abor>>

LockFile ==
  /\ Step("lock", "start")
  /\ UNCHANGED <<modes, data_fd, restart_position, received_abor, xfer>>

\* The offset is taken and reset, the file positioned and, for STOR, emptied;
\* lseek() fails for STOR at a negative offset, RETR and APPE pass over it.
Start ==
  /\ Step("start", IF running \in Downloads THEN "send" ELSE "recv")
  /\ running = "STOR" => restart_position >= 0
  /\ restart_position' = 0
  /\ left' \in IF running \in Downloads THEN 0..MaxChunks ELSE {0}
  /\ UNCHANGED <<modes, data_fd, received_abor, running, file, short>>

BugStartFails ==  \* mutant: 550 and return, without close() and reset_data_fd()
  /\ pc = "start"
  /\ restart_position' = 0
  /\ Answer("550")
  /\ UNCHANGED <<login, modes, data_fd, rnfr_name, received_abor>>

StartFails ==
  /\ pc = "start"
  /\ restart_position' = 0
  /\ Conclude("550")
  /\ UNCHANGED received_abor

BugSendChunk ==  \* mutant: the loop subtracts a whole chunk from a shorter rest
  /\ Step("send", "sent")
  /\ left > 0 /\ data_fd = "open"
  /\ left' = left - 2
  /\ UNCHANGED <<modes, data_fd, restart_position, received_abor, running, file, short>>

SendChunk ==
  /\ Step("send", "sent")
  /\ left > 0 /\ data_fd = "open"
  /\ left' = left - 1
  /\ UNCHANGED <<modes, data_fd, restart_position, received_abor, running, file, short>>

SendFails ==
  /\ Step("send", "failed_send")
  /\ left > 0 /\ data_fd = "open"
  /\ UNCHANGED <<modes, data_fd, restart_position, received_abor, xfer>>

\* After limit_transmission_speed(): stop for an ABOR, go on otherwise.
AfterSend ==
  /\ Step("sent", IF received_abor THEN "failed_send" ELSE "send")
  /\ UNCHANGED <<modes, data_fd, restart_position, received_abor, xfer>>

SendDone ==
  /\ Step("send", "done")
  /\ left = 0
  /\ UNCHANGED <<modes, data_fd, restart_position, received_abor, xfer>>

\* What the client had sent before an ABOR shut the connection can still be
\* read; a client that goes on sending resets it, before or after.
RecvChunk ==
  /\ \E to \in {"stored", "failed_write", "failed_recv"} : Step("recv", to)
  /\ UNCHANGED <<modes, data_fd, restart_position, received_abor, xfer>>

\* read() returns 0: the client has sent all, or the handler shut the socket.
RecvEof ==
  /\ Step("recv", "done")
  /\ short' = (data_fd = "shut")
  /\ UNCHANGED <<modes, data_fd, restart_position, received_abor, running, file, left>>

BugAfterStore ==  \* mutant: the upload goes on after an ABOR
  /\ Step("stored", "recv")
  /\ UNCHANGED <<modes, data_fd, restart_position, received_abor, xfer>>

AfterStore ==
  /\ Step("stored", IF received_abor THEN "failed_recv" ELSE "recv")
  /\ UNCHANGED <<modes, data_fd, restart_position, received_abor, xfer>>

\* detect_write_timeout(), detect_read_timeout(): 421, then exit().
DataTimeout ==
  /\ ~in_handler
  /\ (pc = "send" /\ left > 0) \/ pc = "recv"
  /\ data_fd = "open"
  /\ End("exited")

Finish ==
  /\ pc \in {"done", "failed_send", "failed_recv", "failed_write"}
  /\ Conclude(CASE pc = "done" -> "226" [] pc = "failed_write" -> "451" [] OTHER -> "426")
  /\ received_abor' = FALSE
  /\ UNCHANGED restart_position
-----------------------------------------------------------------------------
(***************************************************************************)
(* sigurg_handler(): with a data connection open it reads the next line of *)
(* the control connection, which is the urgent one unless others wait.     *)
(***************************************************************************)
HandlerReads(lines) ==
  /\ ctrl' = Tail(lines)
  /\ Parse(Head(lines))
  /\ IF cmd' = "ABOR" THEN received_abor' = TRUE /\ data_fd' = "shut"
                      ELSE UNCHANGED <<received_abor, data_fd>>

\* A SIGURG makes sendfile() return early; the other calls are restarted.
Interrupts ==
  \/ UNCHANGED <<pc, left, short>>
  \/ /\ pc = "send" /\ left > 0 /\ data_fd = "open"
     /\ pc' = "sent" /\ left' = left - 1
     /\ short' = TRUE

\* An urgent line, complete when SIGURG is handled.
Urgent(l) ==
  /\ pc \notin Ends /\ Len(ctrl) < MaxLines /\ ~in_handler
  /\ IF data_fd = None
       THEN ctrl' = Append(ctrl, l) /\ UNCHANGED <<command, data_fd, received_abor>>
       ELSE HandlerReads(Append(ctrl, l))
  /\ Interrupts
  /\ UNCHANGED <<login, modes, restart_position, rnfr_name, in_handler, alarm,
                 running, file, reply>>

\* An urgent byte of a line that is not complete: the handler reads a line that
\* was there before, or waits.
UrgentPart ==
  /\ pc \notin Ends /\ data_fd # None /\ ~in_handler
  /\ IF ctrl = <<>>
       THEN in_handler' = TRUE /\ UNCHANGED <<ctrl, command, data_fd, received_abor>>
       ELSE HandlerReads(ctrl) /\ UNCHANGED in_handler
  /\ Interrupts
  /\ UNCHANGED <<login, modes, restart_position, rnfr_name, alarm, running, file, reply>>

\* The rest of the line the handler waits for; another urgent byte behind it
\* has the handler run again.
CompleteLine(l) ==
  /\ in_handler /\ pc \notin Ends /\ data_fd # None
  /\ HandlerReads(<<l>>)
  /\ in_handler' \in BOOLEAN
  /\ UNCHANGED <<pc, login, modes, restart_position, rnfr_name, alarm, xfer, reply>>
-----------------------------------------------------------------------------
Loop ==
  \/ ReadLine \/ ClientLeaves \/ AlarmFires \/ NotLoggedIn
  \/ User \/ PassAccepted \/ PassRefused \/ PassEnds \/ Port \/ Pasv
  \/ Rest \/ RestCrashes \/ SiteCrashes \/ Rnfr \/ Rnto \/ Quit \/ FileCommand \/ Other

Transfer ==
  \/ NotPrepared \/ Begin \/ EstablishFails \/ EstablishEnds \/ Established
  \/ List \/ WriteBreaks \/ OpenFile \/ OpenFails \/ LockFile \/ Start \/ StartFails
  \/ SendChunk \/ SendFails \/ AfterSend \/ SendDone
  \/ RecvChunk \/ RecvEof \/ AfterStore \/ DataTimeout \/ Finish

Client ==
  \/ UrgentPart
  \/ \E l \in Lines : SendLine(l) \/ Urgent(l) \/ CompleteLine(l)

Next == Loop \/ Transfer \/ Client

Spec == Init /\ [][Next]_vars

\* Of fairness only what the code can count on: on a connection that is shut
\* down no read or write blocks, and the few replies of a transfer fit into the
\* control connection.  Nothing is assumed of the client, so that the handler
\* may wait for ever, nor of open(), which can wait for a pipe's other end, nor
\* of the lock, which another session may hold for as long as its own client
\* likes.
Aborting == data_fd = "shut" /\ pc \in Stages
WaitsForOthers == in_handler \/ pc \in {"open", "lock"}
FairSpec == Spec /\ WF_vars(Aborting /\ ~WaitsForOthers /\ Transfer)
-----------------------------------------------------------------------------
FileTransfers == Downloads \cup Uploads

\* A line's argument: a uid, a file name, an offset, or nothing.
Args == {l.arg : l \in Lines} \cup {None}

Codes == {"200", "225", "226", "227", "230", "250", "331", "350", "426", "451",
          "500", "503", "530", "550"}

TypeOK ==
  /\ pc \in Idle \cup Stages \cup Ends
  /\ ctrl \in Seq(Lines)
  /\ cmd \in {l.cmd : l \in Lines} \cup {None} /\ arg \in Args
  /\ logged_in \in BOOLEAN
  /\ uid \in Users \cup {None} /\ euid \in Users \cup {Root} /\ proved \subseteq Users
  /\ active_port \in BOOLEAN /\ active_pasv \in BOOLEAN
  /\ data_fd \in {None, "open", "shut"}
  /\ restart_position \in Int
  /\ rnfr_name \in Args /\ file \in Args
  /\ received_abor \in BOOLEAN /\ in_handler \in BOOLEAN
  /\ alarm \in BOOLEAN /\ short \in BOOLEAN
  /\ running \in Transfers \cup {None}
  /\ left \in 0..MaxChunks
  /\ reply \in Codes \cup {None}

\* The process acts for the account whose password the client has given, and
\* as root until then: no order of USER and PASS mixes two accounts.
PermissionsMatchLogin ==
  IF logged_in THEN uid \in proved /\ euid = uid
               ELSE euid = Root

\* Before the login no command but USER and PASS leaves a trace, and no urgent
\* line reaches the session.
NothingBeforeLogin ==
  ~logged_in => /\ ~active_port /\ ~active_pasv /\ ~received_abor
                /\ restart_position = 0 /\ rnfr_name = None
                /\ running = None

\* Every way a command can end, failures included, leaves no data connection
\* and no open (so no locked) file behind in the session.
NothingHeldBetweenCommands == pc \in Idle => data_fd = None /\ file = None

\* The alarm for an idle control connection never cuts a transfer.
AlarmSparesTransfers == [][pc' = "timed_out" => pc \in Idle]_vars

\* An ABOR ends its transfer, whether or not the client still reads or sends:
\* by its replies, or by SIGPIPE.  Only a lock that another session holds, an
\* open() that waits, or a further urgent byte without its line can keep it.
AbortEndsTransfer == Aborting ~> (~Aborting \/ WaitsForOthers)
-----------------------------------------------------------------------------
(***************************************************************************)
(* What the code and its documentation say and the code does not do.       *)
(***************************************************************************)
\* readme.md: ABOR aborts the transfer before it; a transfer whose connection
\* no ABOR has shut is not marked as aborted.
AbortOfThisTransfer == data_fd = "open" => ~received_abor

\* "226 Transfer complete" is sent when the transfer was complete; readme.md:
\* one that ABOR cut short is answered with 426, then 226.
CompleteMeansComplete ==
  [][(pc \in Stages /\ running \in FileTransfers /\ pc' = "wait" /\ reply' = "226")
       => ~short]_vars

\* readme.md: an ABOR is answered, so shutting the connection down for it does
\* not end the session.
AbortKeepsSession == [][pc' = "sigpipe" /\ pc # "sigpipe" => data_fd # "shut"]_vars
=============================================================================
