----------------------------- MODULE SessionProofs -----------------------------
(***************************************************************************)
(* Theorems about the FTP process of one client, for any accounts, any     *)
(* lines the client sends and any length of its files.                     *)
(***************************************************************************)
EXTENDS Session, TLAPS

\* The handlers that end with Answer and touch neither the login nor a mode.
Plain == NotLoggedIn \/ PassRefused \/ Rest \/ Rnfr \/ Rnto \/ FileCommand \/ Other

\* The steps that end the process and change nothing but pc.
Ending ==
  \/ ClientLeaves \/ AlarmFires \/ PassEnds \/ RestCrashes \/ SiteCrashes
  \/ Quit \/ EstablishEnds \/ WriteBreaks \/ DataTimeout

\* The ends of a transfer that stays in the session.
Concluding ==
  NotPrepared \/ EstablishFails \/ List \/ OpenFails \/ StartFails \/ Finish

\* The steps within a transfer that leave the data connection alone.
Moving ==
  \/ OpenFile \/ LockFile \/ Start \/ SendChunk \/ SendFails \/ AfterSend
  \/ SendDone \/ RecvChunk \/ RecvEof \/ AfterStore

\* Every step is of one of these kinds, or one of the few with effects of
\* their own.
LEMMA Kinds ==
  Next <=> \/ Client
           \/ Plain \/ Ending \/ Concluding \/ Moving
           \/ ReadLine \/ User \/ PassAccepted \/ Port \/ Pasv \/ Begin \/ Established
BY DEF Next, Loop, Transfer, Plain, Ending, Concluding, Moving
-----------------------------------------------------------------------------
\* The client reaches the session through its control connection and through
\* the handler, which finds nothing to do without a data connection and leaves
\* a transfer where it is but for an interrupted sendfile().
LEMMA ClientFrame ==
  ASSUME Client
  PROVE  /\ pc \notin Ends
         /\ UNCHANGED <<login, modes, restart_position, rnfr_name, alarm, running, file, reply>>
         /\ pc' = pc \/ (pc = "send" /\ data_fd = "open" /\ pc' = "sent")
         /\ data_fd = None => UNCHANGED <<data_fd, received_abor>>
         /\ data_fd' \in {data_fd, "shut"}
         /\ received_abor' \in {received_abor, TRUE}
         /\ in_handler' = in_handler \/ in_handler' \in BOOLEAN
         /\ left' = left \/ (left > 0 /\ left' = left - 1)
         /\ short' \in {short, TRUE}
<1>1. ASSUME NEW l \in Lines, SendLine(l)
      PROVE  UNCHANGED <<pc, login, modes, data_fd, restart_position, rnfr_name, received_abor,
                         in_handler, alarm, running, file, left, short, reply>>
  BY <1>1 DEF SendLine, xfer
<1>2. ASSUME Interrupts
      PROVE  /\ pc' = pc \/ (pc = "send" /\ data_fd = "open" /\ pc' = "sent")
             /\ left' = left \/ (left > 0 /\ left' = left - 1)
             /\ short' \in {short, TRUE}
  BY <1>2 DEF Interrupts
<1>3. ASSUME NEW lines, HandlerReads(lines)
      PROVE  data_fd' \in {data_fd, "shut"} /\ received_abor' \in {received_abor, TRUE}
  BY <1>3 DEF HandlerReads
<1>4. ASSUME NEW l \in Lines, Urgent(l)
      PROVE  /\ Interrupts
             /\ data_fd' \in {data_fd, "shut"} /\ received_abor' \in {received_abor, TRUE}
             /\ data_fd = None => UNCHANGED <<data_fd, received_abor>>
             /\ UNCHANGED <<login, modes, restart_position, rnfr_name, in_handler, alarm,
                            running, file, reply>>
  BY <1>4, <1>3 DEF Urgent
<1>5. ASSUME UrgentPart
      PROVE  /\ Interrupts /\ data_fd # None
             /\ data_fd' \in {data_fd, "shut"} /\ received_abor' \in {received_abor, TRUE}
             /\ in_handler' = in_handler \/ in_handler' \in BOOLEAN
             /\ UNCHANGED <<login, modes, restart_position, rnfr_name, alarm, running, file,
                            reply>>
  BY <1>5, <1>3 DEF UrgentPart
<1>6. ASSUME NEW l \in Lines, CompleteLine(l)
      PROVE  /\ data_fd # None
             /\ data_fd' \in {data_fd, "shut"} /\ received_abor' \in {received_abor, TRUE}
             /\ in_handler' \in BOOLEAN
             /\ UNCHANGED <<pc, login, modes, restart_position, rnfr_name, alarm, running, file,
                            left, short, reply>>
  BY <1>6, <1>3 DEF CompleteLine, xfer
<1>7. pc \notin Ends
  BY DEF Client, SendLine, Urgent, UrgentPart, CompleteLine
<1> QED
  BY <1>1, <1>2, <1>4, <1>5, <1>6, <1>7 DEF Client
-----------------------------------------------------------------------------
\* The account of the session is one that exists.
Accounts == uid \in Users \cup {None} /\ proved \subseteq Users

\* Only USER and an accepted PASS change the login.
LEMMA LoginFrame ==
  ASSUME [Next]_vars, ~User, ~PassAccepted PROVE UNCHANGED login
<1>1. CASE Plain
  BY <1>1 DEF Plain, NotLoggedIn, PassRefused, Rest, Rnfr, Rnto,
     FileCommand, Other, login
<1>2. CASE Ending
  BY <1>2 DEF Ending, ClientLeaves, AlarmFires, PassEnds, RestCrashes,
     SiteCrashes, Quit, EstablishEnds, WriteBreaks, DataTimeout, End
<1>3. CASE Concluding
  BY <1>3 DEF Concluding, NotPrepared, EstablishFails, List, OpenFails, StartFails,
     Finish, Conclude
<1>4. CASE Moving
  BY <1>4 DEF Moving, OpenFile, LockFile, Start, SendChunk, SendFails, AfterSend,
     SendDone, RecvChunk, RecvEof, AfterStore, Step
<1>5. CASE ReadLine \/ Port \/ Pasv \/ Begin \/ Established
  BY <1>5 DEF ReadLine, Port, Pasv, Begin, Established, Step, login
<1>6. CASE Client
  BY <1>6, ClientFrame DEF modes
<1>7. CASE UNCHANGED vars
  BY <1>7 DEF vars
<1> QED
  BY <1>1, <1>2, <1>3, <1>4, <1>5, <1>6, <1>7, Kinds

\* The process acts for the account whose password it has been given, and as
\* root before (handle_user, handle_pass, set_permissions).
THEOREM LoginSound == Spec => []PermissionsMatchLogin
<1> DEFINE LInv == Accounts /\ PermissionsMatchLogin
<1> USE ConstantsAssumption DEF Accounts, PermissionsMatchLogin
<1>1. Init => LInv
  BY DEF Init
<1>2. ASSUME LInv, [Next]_vars PROVE LInv'
  <2>1. CASE User
    BY <1>2, <2>1 DEF User
  <2>2. CASE PassAccepted
    BY <1>2, <2>2 DEF PassAccepted, PassOk
  <2>3. CASE ~User /\ ~PassAccepted
    BY <1>2, <2>3, LoginFrame DEF login
  <2> QED
    BY <2>1, <2>2, <2>3
<1> QED
  BY <1>1, <1>2, PTL DEF Spec
-----------------------------------------------------------------------------
\* Before the login the process is between commands, with no data connection.
NoTransferBeforeLogin ==
  ~logged_in => pc \in Idle \cup Ends /\ data_fd = None

\* Before the login only USER and PASS are executed, and SIGURG finds no data
\* connection: no command and no urgent line leaves a trace in the session.
THEOREM GateHolds == Spec => []NothingBeforeLogin
<1> DEFINE GInv == NothingBeforeLogin /\ NoTransferBeforeLogin
<1> USE DEF NothingBeforeLogin, NoTransferBeforeLogin, Idle, Ends
<1>1. Init => GInv
  BY DEF Init
<1>2. ASSUME GInv, [Next]_vars PROVE GInv'
  <2> USE <1>2
  <2>1. CASE User
    BY <2>1 DEF User, Command, Answer, modes, xfer
  <2>2. CASE PassAccepted
    BY <2>2 DEF PassAccepted
  <2> SUFFICES ASSUME ~User, ~PassAccepted, ~logged_in PROVE GInv'
    BY <2>1, <2>2, LoginFrame DEF login
  <2>3. CASE Plain
    BY <2>3 DEF Plain, NotLoggedIn, PassRefused, Rest, Rnfr, Rnto,
       FileCommand, Other, Command,
       MayRun, Answer, modes, xfer
  <2>4. CASE Ending
    BY <2>4 DEF Ending, ClientLeaves, AlarmFires, PassEnds, RestCrashes,
       SiteCrashes, Quit, EstablishEnds, WriteBreaks, DataTimeout, End, modes, xfer
  <2>5. CASE Concluding \/ Moving
    <3>1. MayRun => cmd \notin Transfers
      BY DEF MayRun, Transfers, Downloads, Uploads, Listings
    <3> QED
      BY <2>5, <3>1 DEF Concluding, NotPrepared, EstablishFails, List, OpenFails,
         StartFails, Finish, Moving, OpenFile, LockFile, Start, SendChunk, SendFails,
         AfterSend, SendDone, RecvChunk, RecvEof, AfterStore, Step, Command
  <2>6. CASE ReadLine \/ Port \/ Pasv \/ Begin \/ Established
    <3>1. MayRun => cmd \notin Transfers \cup {"PORT", "PASV"}
      BY DEF MayRun, Transfers, Downloads, Uploads, Listings
    <3> QED
      BY <2>6, <3>1 DEF ReadLine, Port, Pasv, Begin, Established, Step, Command,
         modes, xfer
  <2>7. CASE Client
    BY <2>7, ClientFrame DEF modes, xfer
  <2>8. CASE UNCHANGED vars
    BY <2>8 DEF vars, login, modes, xfer
  <2> QED
    BY <2>3, <2>4, <2>5, <2>6, <2>7, <2>8, Kinds
<1> QED
  BY <1>1, <1>2, PTL DEF Spec
-----------------------------------------------------------------------------
\* Before the connection is established the handler holds nothing; before
\* open() it holds no file.
HeldByStage ==
  /\ pc \in Idle \cup {"establish"} => data_fd = None /\ file = None
  /\ pc \in {"list", "open"} => file = None

\* However a command ends, failures included, the session holds no data
\* connection and no open file afterwards (handle_retr, upload_auxiliary).
THEOREM NothingLeftHeld == Spec => []NothingHeldBetweenCommands
<1> USE DEF HeldByStage, Idle, Ends
<1>1. Init => HeldByStage
  BY DEF Init
<1>2. ASSUME HeldByStage, [Next]_vars PROVE HeldByStage'
  <2> USE <1>2
  <2>1. CASE Plain \/ User \/ PassAccepted
    BY <2>1 DEF Plain, NotLoggedIn, User, PassAccepted, PassRefused, Rest, Rnfr, Rnto,
       FileCommand, Other, Command, Answer, xfer
  <2>2. CASE Ending
    BY <2>2 DEF Ending, ClientLeaves, AlarmFires, PassEnds, RestCrashes,
       SiteCrashes, Quit, EstablishEnds, WriteBreaks, DataTimeout, End
  <2>3. CASE Concluding
    BY <2>3 DEF Concluding, NotPrepared, EstablishFails, List, OpenFails,
       StartFails, Finish, Conclude, ResetDataFd
  <2>4. CASE Moving
    BY <2>4 DEF Moving, OpenFile, LockFile, Start, SendChunk, SendFails,
       AfterSend, SendDone, RecvChunk, RecvEof, AfterStore, Step
  <2>5. CASE ReadLine \/ Port \/ Pasv \/ Begin
    BY <2>5 DEF ReadLine, Port, Pasv, Begin, Command, Answer, xfer
  <2>6. CASE Established
    BY <2>6 DEF Established, Step, xfer
  <2>7. CASE Client
    BY <2>7, ClientFrame DEF modes, xfer
  <2>8. CASE UNCHANGED vars
    BY <2>8 DEF vars, xfer
  <2> QED
    BY <2>1, <2>2, <2>3, <2>4, <2>5, <2>6, <2>7, <2>8, Kinds
<1>3. HeldByStage => NothingHeldBetweenCommands
  BY DEF NothingHeldBetweenCommands
<1> QED
  BY <1>1, <1>2, <1>3, PTL DEF Spec
-----------------------------------------------------------------------------
\* The alarm is set only between commands, or the process is gone.
AlarmBetweenCommands == alarm => pc \in Idle \cup Ends

\* The alarm of an idle control connection never ends a transfer: alarm(0)
\* precedes each handler and alarm(n) each read of the loop.
THEOREM TransfersOutliveAlarm == Spec => AlarmSparesTransfers
<1> USE DEF AlarmBetweenCommands, Idle, Ends
<1>1. Init => AlarmBetweenCommands
  BY DEF Init
<1>2. ASSUME AlarmBetweenCommands, [Next]_vars PROVE AlarmBetweenCommands'
  <2> USE <1>2
  <2>1. CASE Plain \/ User \/ PassAccepted
    BY <2>1 DEF Plain, NotLoggedIn, User, PassAccepted, PassRefused, Rest, Rnfr, Rnto,
       FileCommand, Other, Answer
  <2>2. CASE Ending
    BY <2>2 DEF Ending, ClientLeaves, AlarmFires, PassEnds, RestCrashes,
       SiteCrashes, Quit, EstablishEnds, WriteBreaks, DataTimeout, End
  <2>3. CASE Concluding
    BY <2>3 DEF Concluding, NotPrepared, EstablishFails, List, OpenFails,
       StartFails, Finish, Conclude
  <2>4. CASE Moving \/ Established
    BY <2>4 DEF Moving, OpenFile, LockFile, Start, SendChunk, SendFails,
       AfterSend, SendDone, RecvChunk, RecvEof, AfterStore, Established, Step
  <2>5. CASE ReadLine \/ Port \/ Pasv \/ Begin
    BY <2>5 DEF ReadLine, Port, Pasv, Begin, Answer
  <2>6. CASE Client
    BY <2>6, ClientFrame DEF modes
  <2>7. CASE UNCHANGED vars
    BY <2>7 DEF vars
  <2> QED
    BY <2>1, <2>2, <2>3, <2>4, <2>5, <2>6, <2>7, Kinds
<1>3. ASSUME AlarmBetweenCommands, [Next]_vars
      PROVE  [pc' = "timed_out" => pc \in Idle]_vars
  <2> SUFFICES ASSUME Next, pc' = "timed_out" PROVE pc \in Idle
    BY <1>3
  <2> USE <1>3
  <2>1. CASE Ending
    BY <2>1 DEF Ending, ClientLeaves, AlarmFires, PassEnds, RestCrashes,
       SiteCrashes, Quit, EstablishEnds, WriteBreaks, DataTimeout, End
  <2>2. CASE Plain \/ User \/ PassAccepted \/ Port \/ Pasv \/ ReadLine \/ Begin
    BY <2>2 DEF Plain, NotLoggedIn, User, PassAccepted, PassRefused, Rest, Rnfr, Rnto,
       FileCommand, Other, Answer, Port, Pasv, ReadLine, Begin
  <2>3. CASE Concluding
    BY <2>3 DEF Concluding, NotPrepared, EstablishFails, List, OpenFails,
       StartFails, Finish, Conclude
  <2>4. CASE Moving \/ Established
    BY <2>4 DEF Moving, OpenFile, LockFile, Start, SendChunk, SendFails,
       AfterSend, SendDone, RecvChunk, RecvEof, AfterStore, Established, Step
  <2>5. CASE Client
    BY <2>5, ClientFrame DEF modes
  <2> QED
    BY <2>1, <2>2, <2>3, <2>4, <2>5, Kinds
<1> QED
  BY <1>1, <1>2, <1>3, PTL DEF Spec, AlarmSparesTransfers

-----------------------------------------------------------------------------
\* The buffered lines and the command taken from them.
LineTypes ==
  /\ ctrl \in Seq(Lines)
  /\ cmd \in {l.cmd : l \in Lines} \cup {None} /\ arg \in Args

\* What the session knows of its client.
AccountTypes ==
  /\ logged_in \in BOOLEAN
  /\ uid \in Users \cup {None} /\ euid \in Users \cup {Root} /\ proved \subseteq Users
  /\ rnfr_name \in Args

\* The step of the loop, the reply and the alarm.
LoopTypes ==
  /\ pc \in Idle \cup Stages \cup Ends
  /\ alarm \in BOOLEAN /\ in_handler \in BOOLEAN

\* The data connection, and the reply that ends its use.
ChannelTypes ==
  /\ active_port \in BOOLEAN /\ active_pasv \in BOOLEAN /\ received_abor \in BOOLEAN
  /\ data_fd \in {None, "open", "shut"}
  /\ reply \in Codes \cup {None}

\* The running transfer.
TransferTypes ==
  /\ restart_position \in Int
  /\ file \in Args
  /\ running \in Transfers \cup {None}
  /\ short \in BOOLEAN
  /\ left \in 0..MaxChunks

\* These parts are the type invariant.
LEMMA Parts == TypeOK <=> LineTypes /\ AccountTypes /\ LoopTypes /\ ChannelTypes /\ TransferTypes
BY DEF TypeOK, LineTypes, AccountTypes, LoopTypes, ChannelTypes, TransferTypes

\* An argument is one that the client sent, or empty.
LEMMA ArgTypes == None \in Args /\ \A l \in Lines : l.arg \in Args
BY DEF Args

\* A line keeps its parts on its way from the buffer to cmd and arg.
LEMMA LineStep ==
  ASSUME LineTypes, [Next]_vars PROVE LineTypes'
<1>1. CASE Plain \/ User \/ PassAccepted
  BY <1>1 DEF Plain, NotLoggedIn, PassRefused, Rest, Rnfr, Rnto,
     FileCommand, Other, Answer,
     User, PassAccepted, LineTypes, command
<1>2. CASE Ending
  BY <1>2 DEF Ending, ClientLeaves, AlarmFires, PassEnds, RestCrashes,
     SiteCrashes, Quit, EstablishEnds, WriteBreaks, DataTimeout, End, LineTypes, command
<1>3. CASE Concluding
  BY <1>3 DEF Concluding, NotPrepared, EstablishFails, List, OpenFails,
     StartFails, Finish, Conclude, LineTypes, command
<1>4. CASE Moving \/ Established
  BY <1>4 DEF Moving, OpenFile, LockFile, Start, SendChunk, SendFails, AfterSend,
     SendDone, RecvChunk, RecvEof, AfterStore, Established, Step, LineTypes, command
<1>5. CASE Port \/ Pasv \/ Begin
  BY <1>5 DEF Port, Pasv, Begin, Answer, LineTypes, command
<1>6. ASSUME NEW l \in Lines, Parse(l)
      PROVE  cmd' \in {k.cmd : k \in Lines} \cup {None} /\ arg' \in Args
  BY <1>6, ArgTypes DEF Parse, LineTypes
<1>7. CASE ReadLine
  <2>1. Head(ctrl) \in Lines /\ Tail(ctrl) \in Seq(Lines)
    BY <1>7 DEF ReadLine, LineTypes
  <2> QED
    BY <1>7, <2>1, <1>6 DEF ReadLine, LineTypes
<1>8. ASSUME NEW lines \in Seq(Lines), lines # <<>>, HandlerReads(lines)
      PROVE  LineTypes'
  <2>1. Head(lines) \in Lines /\ Tail(lines) \in Seq(Lines)
    BY <1>8
  <2>2. ctrl' = Tail(lines) /\ Parse(Head(lines))
    BY <1>8 DEF HandlerReads
  <2> QED
    BY <2>1, <2>2, <1>6 DEF LineTypes
<1>9. CASE Client
  <2>1. ASSUME NEW l \in Lines, SendLine(l) PROVE LineTypes'
    BY <2>1 DEF SendLine, LineTypes, command
  <2>2. ASSUME NEW l \in Lines, Urgent(l) PROVE LineTypes'
    <3>1. Append(ctrl, l) \in Seq(Lines) /\ Append(ctrl, l) # <<>>
      BY DEF LineTypes
    <3>2. CASE data_fd = None
      BY <2>2, <3>1, <3>2 DEF Urgent, LineTypes, command
    <3>3. CASE data_fd # None
      <4>1. HandlerReads(Append(ctrl, l))
        BY <2>2, <3>3 DEF Urgent
      <4> QED
        BY <3>1, <4>1, <1>8
    <3> QED
      BY <3>2, <3>3
  <2>3. CASE UrgentPart
    <3>1. CASE ctrl = <<>>
      BY <2>3, <3>1 DEF UrgentPart, LineTypes, command
    <3>2. CASE ctrl # <<>>
      <4>1. HandlerReads(ctrl)
        BY <2>3, <3>2 DEF UrgentPart
      <4> QED
        BY <3>2, <4>1, <1>8 DEF LineTypes
    <3> QED
      BY <3>1, <3>2
  <2>4. ASSUME NEW l \in Lines, CompleteLine(l) PROVE LineTypes'
    <3>1. <<l>> \in Seq(Lines) /\ <<l>> # <<>>
      OBVIOUS
    <3>2. HandlerReads(<<l>>)
      BY <2>4 DEF CompleteLine
    <3> QED
      BY <3>1, <3>2, <1>8
  <2> QED
    BY <1>9, <2>1, <2>2, <2>3, <2>4 DEF Client
<1>10. CASE UNCHANGED vars
  BY <1>10 DEF vars, command, LineTypes
<1> QED
  BY <1>1, <1>2, <1>3, <1>4, <1>5, <1>7, <1>9, <1>10, Kinds

\* uid, euid and the names the session keeps come from cmd's argument.
LEMMA AccountStep ==
  ASSUME LineTypes, AccountTypes, [Next]_vars PROVE AccountTypes'
<1> USE DEF AccountTypes, login
<1>1. CASE Plain \/ User \/ PassAccepted
  BY <1>1, ArgTypes DEF Plain, NotLoggedIn, PassRefused, Rest, Rnfr, Rnto,
     FileCommand, Other,
     User, PassAccepted, PassOk, LineTypes
<1>2. CASE Ending
  BY <1>2 DEF Ending, ClientLeaves, AlarmFires, PassEnds, RestCrashes,
     SiteCrashes, Quit, EstablishEnds, WriteBreaks, DataTimeout, End
<1>3. CASE Concluding
  BY <1>3 DEF Concluding, NotPrepared, EstablishFails, List, OpenFails,
     StartFails, Finish, Conclude
<1>4. CASE Moving \/ Established
  BY <1>4 DEF Moving, OpenFile, LockFile, Start, SendChunk, SendFails, AfterSend,
     SendDone, RecvChunk, RecvEof, AfterStore, Established, Step
<1>5. CASE ReadLine \/ Port \/ Pasv \/ Begin
  BY <1>5 DEF ReadLine, Port, Pasv, Begin, Answer
<1>6. CASE Client
  BY <1>6, ClientFrame DEF modes
<1>7. CASE UNCHANGED vars
  BY <1>7 DEF vars
<1> QED
  BY <1>1, <1>2, <1>3, <1>4, <1>5, <1>6, <1>7, Kinds

\* Every handler goes back to the loop, to a stage of a transfer or ends.
LEMMA LoopStep ==
  ASSUME LoopTypes, [Next]_vars PROVE LoopTypes'
<1> USE DEF LoopTypes, Idle, Stages, Ends
<1>1. CASE Plain \/ User \/ PassAccepted
  BY <1>1 DEF Plain, NotLoggedIn, PassRefused, Rest, Rnfr, Rnto,
     FileCommand, Other, User,
     PassAccepted, Answer
<1>2. CASE Ending
  BY <1>2 DEF Ending, ClientLeaves, AlarmFires, PassEnds, RestCrashes,
     SiteCrashes, Quit, EstablishEnds, WriteBreaks, DataTimeout, End
<1>3. CASE Concluding
  BY <1>3 DEF Concluding, NotPrepared, EstablishFails, List, OpenFails,
     StartFails, Finish, Conclude
<1>4. CASE Moving \/ Established
  BY <1>4 DEF Moving, OpenFile, LockFile, Start, SendChunk, SendFails, AfterSend,
     SendDone, RecvChunk, RecvEof, AfterStore, Established, Step
<1>5. CASE ReadLine \/ Port \/ Pasv \/ Begin
  BY <1>5 DEF ReadLine, Port, Pasv, Begin, Answer
<1>6. CASE Client
  BY <1>6, ClientFrame DEF modes
<1>7. CASE UNCHANGED vars
  BY <1>7 DEF vars
<1> QED
  BY <1>1, <1>2, <1>3, <1>4, <1>5, <1>6, <1>7, Kinds

\* The data connection is opened, shut and reset; each command is answered.
LEMMA ChannelStep ==
  ASSUME LineTypes, ChannelTypes, [Next]_vars PROVE ChannelTypes'
<1> USE DEF ChannelTypes, Codes, modes
<1>1. CASE Plain \/ User \/ PassAccepted
  BY <1>1 DEF Plain, NotLoggedIn, PassRefused, Rest, Rnfr, Rnto,
     FileCommand, Other, User,
     PassAccepted, Answer
<1>2. CASE Ending
  BY <1>2 DEF Ending, ClientLeaves, AlarmFires, PassEnds, RestCrashes,
     SiteCrashes, Quit, EstablishEnds, WriteBreaks, DataTimeout, End
<1>3. CASE Concluding
  BY <1>3, ArgTypes DEF Concluding, NotPrepared, EstablishFails, List, OpenFails,
     StartFails, Finish, Conclude, ResetDataFd
<1>4. CASE Moving \/ Established
  BY <1>4 DEF Moving, OpenFile, LockFile, Start, SendChunk, SendFails, AfterSend,
     SendDone, RecvChunk, RecvEof, AfterStore, Established, Step, LineTypes
<1>5. CASE ReadLine \/ Port \/ Pasv \/ Begin
  BY <1>5 DEF ReadLine, Port, Pasv, Begin, Answer
<1>6. CASE Client
  BY <1>6, ClientFrame DEF modes
<1>7. CASE UNCHANGED vars
  BY <1>7 DEF vars
<1> QED
  BY <1>1, <1>2, <1>3, <1>4, <1>5, <1>6, <1>7, Kinds

\* The rest of a transfer is taken from the file and only counts down to zero.
LEMMA TransferStep ==
  ASSUME LineTypes, TransferTypes, [Next]_vars PROVE TransferTypes'
<1> USE ConstantsAssumption DEF TransferTypes, xfer
<1>1. CASE Plain \/ User \/ PassAccepted
  BY <1>1 DEF Plain, NotLoggedIn, PassRefused, Rest, Rnfr, Rnto,
     FileCommand, Other, User,
     PassAccepted, Answer
<1>2. CASE Ending
  BY <1>2 DEF Ending, ClientLeaves, AlarmFires, PassEnds, RestCrashes,
     SiteCrashes, Quit, EstablishEnds, WriteBreaks, DataTimeout, End
<1>3. CASE Concluding
  BY <1>3, ArgTypes DEF Concluding, NotPrepared, EstablishFails, List, OpenFails,
     StartFails, Finish, Conclude, ResetDataFd
<1>4. CASE Moving \/ Established
  <2>1. CASE OpenFile
    BY <2>1 DEF OpenFile, Step, LineTypes
  <2>2. CASE Start
    <3>1. left' \in 0..MaxChunks
      BY <2>2 DEF Start
    <3> QED
      BY <2>2, <3>1 DEF Start, Step
  <2>3. CASE SendChunk
    <3>1. left' \in 0..MaxChunks
      BY <2>3 DEF SendChunk
    <3> QED
      BY <2>3, <3>1 DEF SendChunk, Step
  <2>4. CASE RecvEof
    BY <2>4, data_fd = "shut" \/ data_fd # "shut" DEF RecvEof, Step
  <2>5. CASE LockFile \/ SendFails \/ AfterSend \/ SendDone \/ RecvChunk \/ AfterStore
             \/ Established
    BY <2>5 DEF LockFile, SendFails, AfterSend, SendDone, RecvChunk, AfterStore,
       Established, Step
  <2> QED
    BY <1>4, <2>1, <2>2, <2>3, <2>4, <2>5 DEF Moving
<1>5. CASE ReadLine \/ Port \/ Pasv \/ Begin
  BY <1>5 DEF ReadLine, Port, Pasv, Begin, Answer
<1>6. CASE Client
  <2>1. left' \in 0..MaxChunks
    BY <1>6, ClientFrame
  <2>2. running' = running /\ file' = file /\ restart_position' = restart_position
    BY <1>6, ClientFrame
  <2>3. short' \in BOOLEAN
    BY <1>6, ClientFrame
  <2> QED
    BY <2>1, <2>2, <2>3
<1>7. CASE UNCHANGED vars
  BY <1>7 DEF vars
<1> QED
  BY <1>1, <1>2, <1>3, <1>4, <1>5, <1>6, <1>7, Kinds

\* Every variable of the session keeps its type; the rest of a transfer, in
\* particular, never goes below zero (handle_retr).
THEOREM SessionTypes == Spec => []TypeOK
<1>1. ASSUME Init PROVE TypeOK
  <2>1. LineTypes
    BY <1>1, ArgTypes DEF Init, LineTypes
  <2>2. AccountTypes
    BY <1>1, ArgTypes DEF Init, AccountTypes
  <2>3. LoopTypes /\ ChannelTypes
    BY <1>1 DEF Init, LoopTypes, ChannelTypes, Idle
  <2>4. TransferTypes
    <3>1. file \in Args
      BY <1>1, ArgTypes DEF Init
    <3>2. left \in 0..MaxChunks
      BY <1>1, ConstantsAssumption DEF Init
    <3>3. restart_position \in Int /\ running \in Transfers \cup {None}
      BY <1>1 DEF Init
    <3>4. short \in BOOLEAN
      BY <1>1 DEF Init
    <3> QED
      BY <3>1, <3>2, <3>3, <3>4 DEF TransferTypes
  <2> QED
    BY <2>1, <2>2, <2>3, <2>4, Parts
<1>2. ASSUME TypeOK, [Next]_vars PROVE TypeOK'
  <2>1. LineTypes' /\ AccountTypes' /\ LoopTypes' /\ ChannelTypes' /\ TransferTypes'
    BY <1>2, Parts, LineStep, AccountStep, LoopStep, ChannelStep, TransferStep
  <2> QED
    BY <2>1 DEF TypeOK, LineTypes, AccountTypes, LoopTypes, ChannelTypes, TransferTypes
<1> QED
  BY <1>1, <1>2, PTL DEF Spec
=============================================================================
