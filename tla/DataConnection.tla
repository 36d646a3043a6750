---------------------------- MODULE DataConnection ----------------------------
(***************************************************************************)
(* One session's two processes and the socketpair between them: the FTP    *)
(* process asks for a data connection (handle_port, handle_pasv,           *)
(* establish_transfer), the nobody process provides it (connect_in_actv,   *)
(* listen_in_pasv, accept_in_pasv) and passes the descriptor.              *)
(*                                                                         *)
(* Each write() is a step of its own, because the peer may be gone by the  *)
(* next one: nothing ignores SIGPIPE, so that a write to a dead peer kills *)
(* the writer.  A stream of the socketpair is a sequence of tokens.  The   *)
(* four bytes of send_buf()'s length, 16, are two tokens: the byte 16 and  *)
(* the zeros.  get_char() on a closed stream returns an uninitialised      *)
(* byte: any value.                                                        *)
(***************************************************************************)
EXTENDS Naturals, Sequences

CONSTANTS
  Addrs,    \* client addresses that PORT can name
  Ports,    \* ports that the kernel can give a listening socket
  None,     \* -1, no descriptor
  AcceptTimeout,  \* config.accept_timeout > 0
  Crashes   \* either process may be killed from outside at any time

ASSUME ConstantsAssumption ==
  /\ None \notin Ports \cup Addrs
  /\ AcceptTimeout \in BOOLEAN
  /\ Crashes \in BOOLEAN

VARIABLES
  ftp_pc,          \* where the FTP process is
  active_port, port_addr, active_pasv, data_fd,  \* its Session
  told_port,       \* the port of the last 227 reply, None when it was garbage
  nobody_pc,       \* where the nobody process is
  pasv_listen_fd,  \* its variable: the last listening socket, maybe closed
  listeners,       \* its open listening sockets, named by their ports, for as
                   \* long as it lives: the kernel closes a dead process's
  cmd,             \* the byte its loop has read
  sock,            \* data_fd or conn_fd of the handler it is in
  to_nobody, to_ftp

session == <<active_port, port_addr, active_pasv, data_fd, told_port>>
helper == <<nobody_pc, pasv_listen_fd, listeners, cmd, sock>>
vars == <<ftp_pc, session, helper, to_nobody, to_ftp>>

Endpoints == [mode : {"port"}, at : Addrs] \cup [mode : {"pasv"}, at : Ports \cup {None}]
Active(a) == [mode |-> "port", at |-> a]
Passive(p) == [mode |-> "pasv", at |-> p]

\* What get_char() can return: the commands, a 0, any other byte.
Bytes == {"connect", "listen", "accept", "zeros", "byte16"}

Token(kind) == [kind |-> kind, value |-> None]
Carry(kind, v) == [kind |-> kind, value |-> v]
Starts(stream, kind) == stream # <<>> /\ Head(stream).kind = kind

FtpAlive == ftp_pc # "dead"
NobodyAlive == nobody_pc \notin {"exited", "failed"}

Init ==
  /\ ftp_pc = "idle"
  /\ active_port = FALSE /\ port_addr = None /\ active_pasv = FALSE
  /\ data_fd = None /\ told_port = None
  /\ nobody_pc = "get_char"
  /\ pasv_listen_fd = None /\ listeners = {} /\ cmd = None /\ sock = None
  /\ to_nobody = <<>> /\ to_ftp = <<>>
-----------------------------------------------------------------------------
(***************************************************************************)
(* The FTP process.                                                        *)
(***************************************************************************)
FtpWrites(from, tokens, then) ==
  /\ ftp_pc = from
  /\ IF NobodyAlive
       THEN ftp_pc' = then /\ to_nobody' = to_nobody \o tokens
       ELSE ftp_pc' = "dead" /\ UNCHANGED to_nobody

HandlePort(a) ==
  /\ ftp_pc = "idle"
  /\ port_addr' = a
  /\ active_port' = TRUE
  /\ UNCHANGED <<ftp_pc, active_pasv, data_fd, told_port, helper, to_nobody, to_ftp>>

\* handle_pasv(): ask for a port, then read it and tell it to the client.
AskPort ==
  /\ FtpWrites("idle", <<Token("listen")>>, "await_port")
  /\ UNCHANGED <<session, helper, to_ftp>>

ReadPort ==
  /\ ftp_pc = "await_port"
  /\ \/ /\ Starts(to_ftp, "port")
        /\ told_port' = Head(to_ftp).value
        /\ to_ftp' = Tail(to_ftp)
     \/ /\ to_ftp = <<>> /\ ~NobodyAlive    \* read_n()'s result is ignored
        /\ told_port' = None
        /\ UNCHANGED to_ftp
  /\ active_pasv' = TRUE
  /\ ftp_pc' = "idle"
  /\ UNCHANGED <<active_port, port_addr, data_fd, helper, to_nobody>>

\* mutant: one of the two flags survives the transfer
BugResetDataFd ==
  /\ data_fd' = None
  /\ active_pasv' = FALSE
  /\ UNCHANGED <<active_port, port_addr, told_port>>

ResetDataFd ==
  /\ data_fd' = None
  /\ active_pasv' = FALSE
  /\ active_port' = FALSE
  /\ UNCHANGED <<port_addr, told_port>>

\* establish_transfer() with neither or both of PORT and PASV.
RefuseTransfer ==
  /\ ftp_pc = "idle"
  /\ active_port = active_pasv
  /\ ResetDataFd
  /\ UNCHANGED <<ftp_pc, helper, to_nobody, to_ftp>>

\* mutant: establish_transfer() does not ask for a PORT first
BugAskConnect ==
  /\ ~active_pasv
  /\ FtpWrites("idle", <<Token("connect")>>, "send_len")
  /\ UNCHANGED <<session, helper, to_ftp>>

AskConnect ==
  /\ active_port /\ ~active_pasv
  /\ FtpWrites("idle", <<Token("connect")>>, "send_len")
  /\ UNCHANGED <<session, helper, to_ftp>>

SendLen ==
  /\ FtpWrites("send_len", <<Token("byte16"), Token("zeros")>>, "send_addr")
  /\ UNCHANGED <<session, helper, to_ftp>>

SendAddr ==
  /\ FtpWrites("send_addr", <<Carry("addr", port_addr)>>, "await_result")
  /\ UNCHANGED <<session, helper, to_ftp>>

AskAccept ==
  /\ active_pasv /\ ~active_port
  /\ FtpWrites("idle", <<Token("accept")>>, "await_result")
  /\ UNCHANGED <<session, helper, to_ftp>>

\* mutant: result_bad is not tested for
BugActOnResult(res) ==
  \/ res = "zero" /\ ftp_pc' = "dead" /\ UNCHANGED session
  \/ res = "ok" /\ ftp_pc' = "await_fd" /\ UNCHANGED session
  \/ res \in {"bad", "other"} /\ ftp_pc' = "transfer" /\ UNCHANGED session

\* What establish_transfer() does with the byte get_char() returned.
ActOnResult(res) ==
  \/ res = "zero" /\ ftp_pc' = "dead" /\ UNCHANGED session
  \/ res = "bad" /\ ftp_pc' = "idle" /\ ResetDataFd
  \/ res = "ok" /\ ftp_pc' = "await_fd" /\ UNCHANGED session
  \/ res = "other" /\ ftp_pc' = "transfer" /\ UNCHANGED session

\* mutant: the nobody process's end of the socketpair was not closed in the FTP
\* process, so that a read never finds the end of the stream
BugReadResult ==
  /\ ftp_pc = "await_result"
  /\ \E res \in {"zero", "bad", "ok", "other"} :
       Starts(to_ftp, res) /\ to_ftp' = Tail(to_ftp) /\ ActOnResult(res)
  /\ UNCHANGED <<helper, to_nobody>>

ReadResult ==
  /\ ftp_pc = "await_result"
  /\ \E res \in {"zero", "bad", "ok", "other"} :
       /\ \/ Starts(to_ftp, res) /\ to_ftp' = Tail(to_ftp)
          \/ to_ftp = <<>> /\ ~NobodyAlive /\ UNCHANGED to_ftp
       /\ ActOnResult(res)
  /\ UNCHANGED <<helper, to_nobody>>

\* recv_fd() exits when there is no descriptor to receive.
ReadFd ==
  /\ ftp_pc = "await_fd"
  /\ \/ /\ Starts(to_ftp, "fd")
        /\ data_fd' = Head(to_ftp).value
        /\ to_ftp' = Tail(to_ftp)
        /\ ftp_pc' = "transfer"
     \/ /\ to_ftp = <<>> /\ ~NobodyAlive
        /\ ftp_pc' = "dead"
        /\ UNCHANGED <<data_fd, to_ftp>>
  /\ UNCHANGED <<active_port, port_addr, active_pasv, told_port, helper, to_nobody>>

\* Every way out of a transfer that stays in the session resets the channel.
EndTransfer ==
  /\ ftp_pc = "transfer"
  /\ ResetDataFd
  /\ ftp_pc' = "idle"
  /\ UNCHANGED <<helper, to_nobody, to_ftp>>

\* QUIT, a lost client, a timeout; a kill.
FtpExits ==
  /\ FtpAlive
  /\ ftp_pc \in {"idle", "transfer"} \/ Crashes
  /\ ftp_pc' = "dead"
  /\ UNCHANGED <<session, helper, to_nobody, to_ftp>>
-----------------------------------------------------------------------------
(***************************************************************************)
(* The nobody process.                                                     *)
(***************************************************************************)
NobodyWrites(token, then) ==
  IF FtpAlive
    THEN nobody_pc' = then /\ to_ftp' = Append(to_ftp, token)
    ELSE nobody_pc' = "failed" /\ UNCHANGED to_ftp

\* get_char(): the uninitialised byte can be a command, a 0 or neither.
GetChar ==
  /\ nobody_pc = "get_char"
  /\ \/ /\ to_nobody # <<>>
        /\ cmd' = Head(to_nobody).kind
        /\ to_nobody' = Tail(to_nobody)
     \/ /\ to_nobody = <<>> /\ ~FtpAlive
        /\ cmd' \in Bytes
        /\ UNCHANGED to_nobody
  /\ nobody_pc' = "switch"
  /\ UNCHANGED <<ftp_pc, session, pasv_listen_fd, listeners, sock, to_ftp>>

\* The exit on 0 and the switch; an unknown command is reported and ignored.
Switch ==
  /\ nobody_pc = "switch"
  /\ nobody_pc' = CASE cmd = "zeros"   -> "exited"
                    [] cmd = "connect" -> "create"
                    [] cmd = "listen"  -> "listen"
                    [] cmd = "accept"  -> "accept"
                    [] OTHER           -> "get_char"
  /\ cmd' = None
  /\ UNCHANGED <<ftp_pc, session, pasv_listen_fd, listeners, sock, to_nobody, to_ftp>>

\* create_client(listen_address, 20): the address is still in the stream
\* when it fails.
CreateClient ==
  /\ nobody_pc = "create"
  /\ \/ nobody_pc' = "recv_addr" /\ UNCHANGED to_ftp
     \/ NobodyWrites(Token("bad"), "get_char")
  /\ UNCHANGED <<ftp_pc, session, cmd, pasv_listen_fd, listeners, sock, to_nobody>>

\* recv_buf(): the length, then the address; exits on a closed stream.
RecvAddr ==
  /\ nobody_pc = "recv_addr"
  /\ \/ /\ Len(to_nobody) >= 3
        /\ sock' = Active(to_nobody[3].value)
        /\ to_nobody' = Tail(Tail(Tail(to_nobody)))
        /\ nobody_pc' = "connect"
     \/ /\ Len(to_nobody) < 3 /\ ~FtpAlive
        /\ nobody_pc' = "failed"
        /\ UNCHANGED <<sock, to_nobody>>
  /\ UNCHANGED <<ftp_pc, session, cmd, pasv_listen_fd, listeners, to_ftp>>

\* mutant: no return after result_bad
BugConnectInActv ==
  /\ nobody_pc = "connect"
  /\ \E res \in {"ok", "bad"} : NobodyWrites(Token(res), "send_fd")
  /\ UNCHANGED <<ftp_pc, session, cmd, sock, pasv_listen_fd, listeners, to_nobody>>

\* connect_with_timeout(): connected, or refused, unreachable, timed out.
ConnectInActv ==
  /\ nobody_pc = "connect"
  /\ \/ NobodyWrites(Token("ok"), "send_fd") /\ UNCHANGED sock
     \/ NobodyWrites(Token("bad"), "get_char") /\ sock' = None
  /\ UNCHANGED <<ftp_pc, session, cmd, pasv_listen_fd, listeners, to_nobody>>

SendFd ==
  /\ nobody_pc = "send_fd"
  /\ NobodyWrites(Carry("fd", sock), "get_char")
  /\ sock' = None
  /\ UNCHANGED <<ftp_pc, session, cmd, pasv_listen_fd, listeners, to_nobody>>

\* mutant: a second PASV keeps the socket of the first
BugListenInPasv(p) ==
  /\ nobody_pc = "listen"
  /\ p \notin listeners
  /\ listeners' = listeners \cup {p}
  /\ pasv_listen_fd' = IF pasv_listen_fd \in listeners THEN pasv_listen_fd ELSE p
  /\ NobodyWrites(Carry("port", p), "get_char")
  /\ UNCHANGED <<ftp_pc, session, cmd, sock, to_nobody>>

\* create_server_or_exit(listen_address, 0), and its port for the client.
ListenInPasv(p) ==
  /\ nobody_pc = "listen"
  /\ p \notin listeners
  /\ listeners' = listeners \cup {p}
  /\ pasv_listen_fd' = p
  /\ NobodyWrites(Carry("port", p), "get_char")
  /\ UNCHANGED <<ftp_pc, session, cmd, sock, to_nobody>>

ListenFails ==
  /\ nobody_pc = "listen"
  /\ nobody_pc' = "failed"
  /\ UNCHANGED <<ftp_pc, session, cmd, pasv_listen_fd, listeners, sock, to_nobody, to_ftp>>

\* accept_with_timeout() returned a connection of the last listening socket.
AcceptInPasv ==
  /\ nobody_pc = "accept"
  /\ pasv_listen_fd \in listeners
  /\ sock' = Passive(pasv_listen_fd)
  /\ NobodyWrites(Token("ok"), "send_pasv_fd")
  /\ UNCHANGED <<ftp_pc, session, cmd, pasv_listen_fd, listeners, to_nobody>>

\* mutant: no answer after the timeout
BugAcceptFails ==
  /\ nobody_pc = "accept"
  /\ AcceptTimeout \/ pasv_listen_fd \notin listeners
  /\ nobody_pc' = "get_char"
  /\ UNCHANGED <<ftp_pc, session, cmd, pasv_listen_fd, listeners, sock, to_nobody, to_ftp>>

\* It timed out, or the descriptor is not a listening socket.
AcceptFails ==
  /\ nobody_pc = "accept"
  /\ AcceptTimeout \/ pasv_listen_fd \notin listeners
  /\ NobodyWrites(Token("bad"), "get_char")
  /\ UNCHANGED <<ftp_pc, session, cmd, pasv_listen_fd, listeners, sock, to_nobody>>

\* send_fd() of the accepted connection; its transfer may run at once.
SendPasvFd ==
  /\ nobody_pc = "send_pasv_fd"
  /\ NobodyWrites(Carry("fd", sock), "close_pasv")
  /\ sock' = None
  /\ UNCHANGED <<ftp_pc, session, cmd, pasv_listen_fd, listeners, to_nobody>>

\* mutant: only the connection is closed, the listening socket is not
BugClosePasv ==
  /\ nobody_pc = "close_pasv"
  /\ nobody_pc' = "get_char"
  /\ UNCHANGED <<ftp_pc, session, cmd, sock, pasv_listen_fd, listeners, to_nobody, to_ftp>>

\* Then the listening socket is closed; the variable keeps its number.
ClosePasv ==
  /\ nobody_pc = "close_pasv"
  /\ listeners' = listeners \ {pasv_listen_fd}
  /\ nobody_pc' = "get_char"
  /\ UNCHANGED <<ftp_pc, session, cmd, sock, pasv_listen_fd, to_nobody, to_ftp>>

NobodyKilled ==
  /\ Crashes /\ NobodyAlive
  /\ nobody_pc' = "failed"
  /\ UNCHANGED <<ftp_pc, session, cmd, pasv_listen_fd, listeners, sock, to_nobody, to_ftp>>
-----------------------------------------------------------------------------
FtpInside == ReadPort \/ SendLen \/ SendAddr \/ ReadResult \/ ReadFd

Ftp ==
  \/ FtpInside
  \/ \E a \in Addrs : HandlePort(a)
  \/ AskPort \/ RefuseTransfer \/ AskConnect \/ AskAccept
  \/ EndTransfer \/ FtpExits

Nobody ==
  \/ GetChar \/ Switch \/ CreateClient \/ RecvAddr \/ ConnectInActv \/ SendFd
  \/ \E p \in Ports : ListenInPasv(p)
  \/ ListenFails \/ AcceptInPasv \/ AcceptFails \/ SendPasvFd \/ ClosePasv

Next == Ftp \/ Nobody \/ NobodyKilled

Spec == Init /\ [][Next]_vars

\* A process that can go on is scheduled; no command of the client is fair.
FairSpec == Spec /\ WF_vars(FtpInside) /\ WF_vars(Nobody)
-----------------------------------------------------------------------------
FtpPoints == {"idle", "await_port", "send_len", "send_addr", "await_result",
              "await_fd", "transfer", "dead"}
NobodyPoints == {"get_char", "switch", "create", "recv_addr", "connect", "send_fd", "listen",
                 "accept", "send_pasv_fd", "close_pasv", "exited", "failed"}
Tokens ==
  [kind : Bytes \cup {"ok", "bad"}, value : {None}]
    \cup [kind : {"addr"}, value : Addrs] \cup [kind : {"port"}, value : Ports]
    \cup [kind : {"fd"}, value : Endpoints]

TypeOK ==
  /\ ftp_pc \in FtpPoints
  /\ active_port \in BOOLEAN /\ active_pasv \in BOOLEAN
  /\ port_addr \in Addrs \cup {None}
  /\ told_port \in Ports \cup {None}
  /\ data_fd \in Endpoints \cup {None}
  /\ nobody_pc \in NobodyPoints
  /\ pasv_listen_fd \in Ports \cup {None}
  /\ listeners \subseteq Ports
  /\ cmd \in Bytes \cup {None}
  /\ sock \in Endpoints \cup {None}
  /\ to_nobody \in Seq(Tokens) /\ to_ftp \in Seq(Tokens)

Establishing == ftp_pc \notin {"idle", "transfer", "dead"}

\* A transfer runs over a connection to what its own client asked for, the
\* address of the last PORT or the port of the last 227 reply; it runs without
\* a connection only when the helper is gone.
MatchedConnection ==
  ftp_pc = "transfer" =>
    \/ data_fd = IF active_port THEN Active(port_addr) ELSE Passive(told_port)
    \/ data_fd = None /\ ~NobodyAlive

\* No answer is left over when a command is finished: the next request of the
\* FTP process never reads the answer to an earlier one.
NoStaleAnswer == ftp_pc = "idle" => to_ftp = <<>>

\* The two processes never both wait for the other's next byte.
NoMutualWait ==
  ~ /\ ftp_pc \in {"await_port", "await_result", "await_fd"} /\ to_ftp = <<>>
    /\ \/ nobody_pc = "get_char" /\ to_nobody = <<>>
       \/ nobody_pc = "recv_addr" /\ Len(to_nobody) < 3

\* The listening socket in the nobody process's variable is, when it goes to
\* accept() for a living session, open and the one whose port the client was
\* told.  While a passive transfer runs, the socket its connection came from is
\* closed as soon as accept_in_pasv() has returned: the next client of the port
\* finds nobody listening, though one that comes between send_fd() and close()
\* still waits in its backlog.
AcceptsOnToldPort ==
  (nobody_pc = "accept" /\ FtpAlive) =>
    pasv_listen_fd \in listeners /\ pasv_listen_fd = told_port
ClosedAfterUse ==
  (/\ ftp_pc = "transfer" /\ data_fd # None /\ data_fd.mode = "pasv"
   /\ NobodyAlive /\ nobody_pc # "close_pasv") =>
    data_fd.at \notin listeners
ListenersMatch == AcceptsOnToldPort /\ ClosedAfterUse

\* With accept_timeout set, every PASV and every transfer command of a session
\* whose two processes live comes to its end, whatever the client does: the
\* session is back in its loop or transfers over the connection it asked for.
\* A process may be lost on the way, and a helper that reads an address as
\* commands exits of itself: then nothing is promised to the client.
Served == ftp_pc = "idle" \/ (ftp_pc = "transfer" /\ data_fd # None)
EveryRequestAnswered == Establishing ~> (Served \/ ~NobodyAlive \/ ~FtpAlive)

\* And whatever becomes of the nobody process, the FTP process is not left in
\* a read() for its answer: it goes on, with a refusal, a garbage answer or a
\* connection, or it ends, of a 0 read, in recv_fd() or by SIGPIPE.
NeverLeftWaiting == Establishing ~> ~Establishing

\* The pair of processes implements the data channel a session relies on.
Channel ==
  INSTANCE DataChannel WITH
    prepared <- IF ~FtpAlive THEN {} ELSE
                  {e \in {Active(port_addr)} : active_port}
                    \cup {e \in {Passive(told_port)} : active_pasv},
    pending <- ftp_pc \in {"send_len", "send_addr", "await_result", "await_fd"},
    channel <- IF ftp_pc = "transfer" THEN data_fd ELSE None,
    helper <- NobodyAlive
ChannelSpec == Channel!Spec
-----------------------------------------------------------------------------
(***************************************************************************)
(* What the code and its documentation say and the code does not do.       *)
(***************************************************************************)
\* The message of start_ftp_service(): when the nobody process reads a 0 it
\* exits because the FTP process has exited.
ExitsAfterFtp == nobody_pc = "exited" => ~FtpAlive
=============================================================================
