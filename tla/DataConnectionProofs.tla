------------------------- MODULE DataConnectionProofs -------------------------
(***************************************************************************)
(* Theorems about the FTP process and its nobody process, for any client   *)
(* addresses and ports, and whichever of the two dies at any step.         *)
(***************************************************************************)
EXTENDS DataConnection, SequenceTheorems, TLAPS

\* The endpoint of a transfer that one of PORT and PASV has prepared.
Wanted == IF active_port THEN Active(port_addr) ELSE Passive(told_port)

Length == <<Token("byte16"), Token("zeros")>>
Address(a) == <<Token("byte16"), Token("zeros"), Carry("addr", a)>>

\* The nobody process waits for a request; there is none.
Waiting == nobody_pc = "get_char" /\ to_nobody = <<>>

\* It has the listening socket of its last connection still to close.
Closing == nobody_pc = "close_pasv" /\ to_nobody = <<>>

\* It has request c before it, and has read nothing after it.
Asked(c, rest) ==
  \/ nobody_pc \in {"get_char", "close_pasv"} /\ to_nobody = <<Token(c)>> \o rest
  \/ nobody_pc = "switch" /\ cmd = c /\ to_nobody = rest
  \/ nobody_pc = c /\ c # "connect" /\ to_nobody = rest
  \/ nobody_pc \in {"create", "recv_addr"} /\ c = "connect" /\ to_nobody = rest

\* It reads a length as commands: the zeros in it will make it exit.
Doomed ==
  \/ /\ nobody_pc = "get_char" /\ Len(to_nobody) >= 2
     /\ to_nobody[1].kind = "byte16" /\ to_nobody[2].kind = "zeros"
  \/ nobody_pc = "get_char" /\ Starts(to_nobody, "zeros")
  \/ nobody_pc = "switch" /\ cmd = "byte16" /\ Starts(to_nobody, "zeros")
  \/ nobody_pc = "switch" /\ cmd = "zeros"

Refused == to_ftp \in {<<>>, <<Token("bad")>>}

IdlePhase ==
  /\ data_fd = None /\ to_ftp = <<>>
  /\ Waiting \/ (Closing /\ ~active_pasv) \/ Doomed \/ ~NobodyAlive
  /\ (active_pasv /\ NobodyAlive) => (pasv_listen_fd \in listeners /\ pasv_listen_fd = told_port)

PortPhase ==
  /\ data_fd = None
  /\ \/ Asked("listen", <<>>) /\ to_ftp = <<>>
     \/ /\ Waiting /\ to_ftp = <<Carry("port", pasv_listen_fd)>>
        /\ pasv_listen_fd \in listeners
     \/ Doomed /\ to_ftp = <<>>
     \/ ~NobodyAlive /\ (to_ftp = <<>> \/ \E p \in Ports : to_ftp = <<Carry("port", p)>>)

LenPhase ==
  /\ data_fd = None /\ active_port /\ ~active_pasv
  /\ \/ Asked("connect", <<>>) /\ to_ftp = <<>>
     \/ Waiting /\ to_ftp = <<Token("bad")>>
     \/ Doomed /\ to_ftp = <<>>
     \/ ~NobodyAlive /\ Refused

AddrPhase ==
  /\ data_fd = None /\ active_port /\ ~active_pasv
  /\ \/ Asked("connect", Length) /\ to_ftp = <<>>
     \/ Doomed /\ Refused
     \/ ~NobodyAlive /\ Refused

\* The nobody process has the connection, and has it told or not.
Connected ==
  /\ nobody_pc \in {"send_fd", "send_pasv_fd"} /\ to_nobody = <<>>
  /\ sock = Wanted
  /\ nobody_pc = "send_fd" <=> active_port
  /\ nobody_pc = "send_pasv_fd" => pasv_listen_fd = told_port

\* The listening socket of a connection that has been passed on is closed, or is
\* closed next.
Passed ==
  active_pasv =>
    \/ told_port \notin listeners
    \/ nobody_pc = "close_pasv" /\ pasv_listen_fd = told_port

\* The nobody process has passed the connection on.
Rested == (Waiting \/ Closing) /\ Passed

ResultPhase ==
  /\ data_fd = None /\ active_port # active_pasv
  /\ \/ active_port /\ Asked("connect", Address(port_addr)) /\ to_ftp = <<>>
     \/ /\ active_port /\ to_ftp = <<>>
        /\ nobody_pc = "connect" /\ to_nobody = <<>> /\ sock = Active(port_addr)
     \/ /\ active_pasv /\ Asked("accept", <<>>) /\ to_ftp = <<>>
        /\ nobody_pc # "close_pasv"
        /\ pasv_listen_fd \in listeners /\ pasv_listen_fd = told_port
     \/ Connected /\ to_ftp = <<Token("ok")>>
     \/ Rested /\ to_ftp = <<Token("ok"), Carry("fd", Wanted)>>
     \/ Waiting /\ to_ftp = <<Token("bad")>>
     \/ Doomed /\ Refused
     \/ /\ ~NobodyAlive
        /\ \/ Refused
           \/ to_ftp = <<Token("ok")>>
           \/ to_ftp = <<Token("ok"), Carry("fd", Wanted)>>

FdPhase ==
  /\ data_fd = None /\ active_port # active_pasv
  /\ \/ Connected /\ to_ftp = <<>>
     \/ Rested /\ to_ftp = <<Carry("fd", Wanted)>>
     \/ ~NobodyAlive /\ to_ftp \in {<<>>, <<Carry("fd", Wanted)>>}

TransferPhase ==
  /\ to_ftp = <<>> /\ active_port # active_pasv
  /\ \/ data_fd = Wanted /\ (Rested \/ ~NobodyAlive)
     \/ data_fd = None /\ ~NobodyAlive

\* What a dead FTP process may have left unread.
DeadPhase ==
  \/ ~NobodyAlive \/ Doomed \/ to_nobody = <<>>
  \/ Asked("listen", <<>>) \/ Asked("accept", <<>>)
  \/ Asked("connect", <<>>) \/ Asked("connect", Length)
  \/ \E a \in Addrs : Asked("connect", Address(a))

Conversation ==
  /\ active_port => port_addr \in Addrs
  /\ ftp_pc = "idle" => IdlePhase
  /\ ftp_pc = "await_port" => PortPhase
  /\ ftp_pc = "send_len" => LenPhase
  /\ ftp_pc = "send_addr" => AddrPhase
  /\ ftp_pc = "await_result" => ResultPhase
  /\ ftp_pc = "await_fd" => FdPhase
  /\ ftp_pc = "transfer" => TransferPhase
  /\ ftp_pc = "dead" => DeadPhase
-----------------------------------------------------------------------------
(***************************************************************************)
(* Tokens and streams.                                                     *)
(***************************************************************************)
LEMMA TokenTypes ==
  /\ \A k \in Bytes \cup {"ok", "bad"} : Token(k) \in Tokens
  /\ \A a \in Addrs : Carry("addr", a) \in Tokens
  /\ \A p \in Ports : Carry("port", p) \in Tokens
  /\ \A e \in Endpoints : Carry("fd", e) \in Tokens
  /\ \A a \in Addrs : Active(a) \in Endpoints
  /\ \A p \in Ports \cup {None} : Passive(p) \in Endpoints
BY DEF Tokens, Token, Carry, Endpoints, Active, Passive

LEMMA Carries ==
  ASSUME NEW t \in Tokens
  PROVE  /\ t.kind \in Bytes \cup {"ok", "bad", "addr", "port", "fd"}
         /\ t.kind = "port" => t.value \in Ports
         /\ t.kind = "fd" => t.value \in Endpoints
BY DEF Tokens, Bytes

LEMMA Requests ==
  /\ <<>> \in Seq(Tokens) /\ Length \in Seq(Tokens)
  /\ \A a \in Addrs : Address(a) \in Seq(Tokens)
BY TokenTypes DEF Length, Address, Bytes

\* A request is read byte by byte, and what follows it stays.
LEMMA FirstToken ==
  ASSUME NEW t \in Tokens, NEW rest \in Seq(Tokens)
  PROVE  /\ <<t>> \o rest \in Seq(Tokens)
         /\ <<t>> \o rest # <<>>
         /\ Head(<<t>> \o rest) = t
         /\ Tail(<<t>> \o rest) = rest
<1> DEFINE s == <<t>> \o rest
<1>1. /\ s \in Seq(Tokens) /\ Len(s) = Len(rest) + 1
      /\ s[1] = t /\ \A i \in 1 .. Len(rest) : s[i + 1] = rest[i]
  BY ConcatProperties
<1>2. s # <<>> /\ Head(s) = t
  BY <1>1
<1>3. /\ Tail(s) \in Seq(Tokens) /\ Len(Tail(s)) = Len(rest)
      /\ \A i \in 1 .. Len(rest) : Tail(s)[i] = rest[i]
  <2> HIDE DEF s
  <2> QED  BY <1>1, <1>2, HeadTailProperties
<1>4. Tail(s) = rest
  <2> HIDE DEF s
  <2> QED  BY <1>3, SeqEqual
<1> QED  BY <1>1, <1>2, <1>4

\* What more is written joins what follows the request.
LEMMA MoreTokens ==
  ASSUME NEW t \in Tokens, NEW rest \in Seq(Tokens), NEW more \in Seq(Tokens)
  PROVE  (<<t>> \o rest) \o more = <<t>> \o (rest \o more)
<1>1. <<t>> \in Seq(Tokens)
  OBVIOUS
<1> QED  BY <1>1, ConcatAssociative

LEMMA TwoTokens ==
  ASSUME NEW s \in Seq(Tokens), Len(s) >= 2
  PROVE  Head(s) = s[1] /\ Tail(s) # <<>> /\ Head(Tail(s)) = s[2]
<1>1. s # <<>> /\ Head(s) = s[1]
  OBVIOUS
<1>2. PICK r \in Seq(Tokens) : r = Tail(s) /\ Len(r) = Len(s) - 1 /\ r[1] = s[2]
  <2>1. /\ Tail(s) \in Seq(Tokens) /\ Len(Tail(s)) = Len(s) - 1
        /\ \A i \in 1 .. Len(Tail(s)) : Tail(s)[i] = s[i + 1]
    BY <1>1, HeadTailProperties
  <2>2. 1 \in 1 .. Len(Tail(s)) /\ 1 + 1 = 2
    BY <2>1
  <2>3. Tail(s)[1] = s[1 + 1]
    BY <2>1, <2>2
  <2> QED  BY <2>1, <2>2, <2>3
<1>3. r # <<>> /\ Head(r) = r[1]
  BY <1>2
<1> QED  BY <1>1, <1>2, <1>3

LEMMA AddressParts ==
  ASSUME NEW a \in Addrs
  PROVE  /\ Length \o <<Carry("addr", a)>> = Address(a)
         /\ Len(Address(a)) = 3 /\ Address(a)[3].value = a
         /\ Tail(Tail(Tail(Address(a)))) = <<>>
         /\ Len(Length) = 2
<1>1. Length \o <<Carry("addr", a)>> = Address(a)
  <2> DEFINE s == Length \o <<Carry("addr", a)>>
  <2>1. <<Carry("addr", a)>> \in Seq(Tokens)
    BY TokenTypes
  <2>2. /\ s \in Seq(Tokens)
        /\ Len(s) = Len(Length) + Len(<<Carry("addr", a)>>)
        /\ \A i \in 1 .. Len(Length) : s[i] = Length[i]
        /\ \A i \in 1 .. Len(<<Carry("addr", a)>>) :
             s[Len(Length) + i] = <<Carry("addr", a)>>[i]
    BY <2>1, Requests, ConcatProperties
  <2>3. /\ Len(Length) = 2 /\ Len(<<Carry("addr", a)>>) = 1
        /\ Length[1] = Token("byte16") /\ Length[2] = Token("zeros")
    BY DEF Length
  <2>4. Len(s) = 3 /\ s[1] = Token("byte16") /\ s[2] = Token("zeros")
        /\ s[3] = Carry("addr", a)
    <3> HIDE DEF s
    <3> QED  BY <2>2, <2>3
  <2>5. /\ Address(a) \in Seq(Tokens) /\ Len(Address(a)) = 3
        /\ Address(a)[1] = Token("byte16") /\ Address(a)[2] = Token("zeros")
        /\ Address(a)[3] = Carry("addr", a)
    BY Requests DEF Address
  <2> HIDE DEF s
  <2>6. s = Address(a)
    BY <2>2, <2>4, <2>5, SeqEqual
  <2> QED  BY <2>6 DEF s
<1>2. Len(Address(a)) = 3 /\ Address(a)[3].value = a
  BY DEF Address, Carry
<1>3. Tail(Tail(Tail(Address(a)))) = <<>>
  BY DEF Address
<1>4. Len(Length) = 2
  BY DEF Length
<1> QED  BY <1>1, <1>2, <1>3, <1>4
-----------------------------------------------------------------------------
(***************************************************************************)
(* What a step does to what the nobody process has before it.              *)
(***************************************************************************)
Commands == {"connect", "listen", "accept"}

\* The FTP process writes more after its request.
LEMMA AskedMore ==
  ASSUME NEW c \in Commands, NEW rest \in Seq(Tokens), NEW more \in Seq(Tokens),
         Asked(c, rest), to_nobody' = to_nobody \o more, UNCHANGED helper
  PROVE  Asked(c, rest \o more)'
<1>1. Token(c) \in Tokens
  BY TokenTypes DEF Commands, Bytes
<1>2. (<<Token(c)>> \o rest) \o more = <<Token(c)>> \o (rest \o more)
  BY <1>1, MoreTokens
<1> QED  BY <1>2 DEF Asked, helper

\* It asks a nobody process that waits.
LEMMA AskedFirst ==
  ASSUME NEW c \in Commands, Waiting \/ Closing, to_nobody' = to_nobody \o <<Token(c)>>,
         UNCHANGED helper
  PROVE  Asked(c, <<>>)' /\ nobody_pc' = nobody_pc
<1>1. Token(c) \in Tokens
  BY TokenTypes DEF Commands, Bytes
<1>2. <<>> \o <<Token(c)>> = <<Token(c)>> \o <<>>
  BY <1>1, ConcatEmptySeq
<1> QED  BY <1>2 DEF Asked, Waiting, Closing, helper

LEMMA DoomedMore ==
  ASSUME TypeOK, Doomed, NEW more \in Seq(Tokens), to_nobody' = to_nobody \o more,
         UNCHANGED helper
  PROVE  Doomed'
<1>1. /\ to_nobody' \in Seq(Tokens) /\ Len(to_nobody') = Len(to_nobody) + Len(more)
      /\ \A i \in 1 .. Len(to_nobody) : to_nobody'[i] = to_nobody[i]
      /\ Len(to_nobody) \in Nat /\ Len(more) \in Nat
  BY ConcatProperties DEF TypeOK
<1>2. to_nobody # <<>> => /\ to_nobody' # <<>> /\ Head(to_nobody') = Head(to_nobody)
  BY <1>1 DEF TypeOK
<1> QED  BY <1>1, <1>2 DEF Doomed, Starts, helper

\* The length of an address is no command.
LEMMA LengthDooms ==
  ASSUME Waiting, to_nobody' = to_nobody \o Length, UNCHANGED helper
  PROVE  Doomed'
<1>1. to_nobody' = Length
  BY Requests, ConcatEmptySeq DEF Waiting
<1> QED  BY <1>1 DEF Doomed, Waiting, Length, Token, helper

\* The nobody process reads its request.
LEMMA AskedRead ==
  ASSUME NEW c \in Commands, NEW rest \in Seq(Tokens), Asked(c, rest),
         GetChar \/ Switch \/ ClosePasv
  PROVE  Asked(c, rest)' /\ NobodyAlive'
<1>1. Token(c) \in Tokens /\ Token(c).kind = c
  BY TokenTypes DEF Commands, Bytes, Token
<1>2. CASE GetChar
  <2>1. to_nobody = <<Token(c)>> \o rest
    BY <1>2 DEF GetChar, Asked, Commands
  <2>2. to_nobody # <<>> /\ Head(to_nobody) = Token(c) /\ Tail(to_nobody) = rest
    BY <1>1, <2>1, FirstToken
  <2> QED  BY <1>1, <1>2, <2>2 DEF GetChar, Asked, NobodyAlive
<1>3. CASE Switch
  <2>1. cmd = c /\ to_nobody = rest
    BY <1>3 DEF Switch, Asked, Commands
  <2> QED  BY <1>3, <2>1 DEF Switch, Asked, Commands, NobodyAlive
<1>4. CASE ClosePasv
  BY <1>4 DEF ClosePasv, Asked, Commands, NobodyAlive
<1> QED  BY <1>2, <1>3, <1>4

LEMMA DoomedRead ==
  ASSUME TypeOK, Doomed, GetChar \/ Switch
  PROVE  Doomed' \/ ~NobodyAlive'
<1>1. CASE GetChar
  <2>1. CASE Starts(to_nobody, "zeros")
    BY <1>1, <2>1 DEF GetChar, Doomed, Starts
  <2>2. CASE ~Starts(to_nobody, "zeros")
    <3>1. /\ Len(to_nobody) >= 2 /\ to_nobody[1].kind = "byte16"
          /\ to_nobody[2].kind = "zeros" /\ to_nobody # <<>>
      BY <1>1, <2>2 DEF GetChar, Doomed, TypeOK
    <3>2. /\ Head(to_nobody) = to_nobody[1] /\ Tail(to_nobody) # <<>>
          /\ Head(Tail(to_nobody)) = to_nobody[2]
      BY <3>1, TwoTokens DEF TypeOK
    <3> QED  BY <1>1, <3>1, <3>2 DEF GetChar, Doomed, Starts
  <2> QED  BY <2>1, <2>2
<1>2. CASE Switch
  BY <1>2 DEF Switch, Doomed, Starts, NobodyAlive
<1> QED  BY <1>1, <1>2

\* There is nothing to read for one that waits for a living session.
LEMMA WaitingBlocks ==
  ASSUME Waiting, FtpAlive
  PROVE  ~Nobody
BY DEF Waiting, Nobody, GetChar, Switch, CreateClient, RecvAddr, ConnectInActv, SendFd,
   ListenInPasv, ListenFails, AcceptInPasv, AcceptFails, SendPasvFd, ClosePasv

\* In every phase the nobody process finds what a dead session may leave.
LEMMA Legible ==
  ASSUME TypeOK, Conversation
  PROVE  DeadPhase
<1>1. Waiting \/ Closing \/ Rested \/ Connected => to_nobody = <<>>
  BY DEF Waiting, Closing, Rested, Connected
<1> QED
  BY <1>1 DEF TypeOK, FtpPoints, Conversation, IdlePhase, PortPhase, LenPhase, AddrPhase,
     ResultPhase, FdPhase, TransferPhase, DeadPhase
-----------------------------------------------------------------------------
(***************************************************************************)
(* Types.                                                                  *)
(***************************************************************************)
\* What get_char() reads is a command or a byte of a length.
LEMMA GetCharReads ==
  ASSUME TypeOK, Conversation, nobody_pc = "get_char", to_nobody # <<>>
  PROVE  Head(to_nobody).kind \in Bytes
<1>1. ASSUME NEW c \in Commands, NEW rest \in Seq(Tokens), Asked(c, rest)
      PROVE  Head(to_nobody).kind \in Bytes
  <2>1. to_nobody = <<Token(c)>> \o rest
    BY <1>1 DEF Asked, Commands
  <2>2. Token(c) \in Tokens
    BY TokenTypes DEF Commands, Bytes
  <2>3. Head(to_nobody) = Token(c)
    BY <2>1, <2>2, FirstToken
  <2> QED  BY <2>3 DEF Token, Bytes, Commands
<1>2. CASE Doomed
  BY <1>2 DEF Doomed, Starts, Bytes, TypeOK
<1> QED
  BY <1>1, <1>2, Legible, Requests DEF DeadPhase, Commands, NobodyAlive

\* recv_buf() reads the address that PORT gave.
LEMMA RecvAddrReads ==
  ASSUME TypeOK, Conversation, nobody_pc = "recv_addr", Len(to_nobody) >= 3
  PROVE  \E a \in Addrs : to_nobody = Address(a)
<1>1. to_nobody # <<>> /\ to_nobody # Length
  <2>1. Len(Length) = 2 /\ Len(<<>>) = 0
    BY DEF Length
  <2> QED  BY <2>1
<1>2. ~Doomed /\ NobodyAlive
  BY DEF Doomed, NobodyAlive
<1>3. /\ ~Asked("listen", <<>>) /\ ~Asked("accept", <<>>)
      /\ \A rest : Asked("connect", rest) <=> to_nobody = rest
  BY DEF Asked
<1> QED  BY <1>1, <1>2, <1>3, Legible DEF DeadPhase

\* The type invariant with a name for the set of streams.
Streams == Seq(Tokens)

ProcessTypes ==
  /\ ftp_pc \in FtpPoints
  /\ active_port \in BOOLEAN /\ active_pasv \in BOOLEAN
  /\ port_addr \in Addrs \cup {None}
  /\ told_port \in Ports \cup {None}
  /\ data_fd \in Endpoints \cup {None}
  /\ nobody_pc \in NobodyPoints
  /\ pasv_listen_fd \in Ports \cup {None}
  /\ listeners \subseteq Ports
  /\ cmd \in Bytes \cup {None}
  /\ sock \in Endpoints \cup {None}

LEMMA Typing ==
  /\ TypeOK <=> (ProcessTypes /\ to_nobody \in Streams /\ to_ftp \in Streams)
  /\ TypeOK' <=> (ProcessTypes' /\ to_nobody' \in Streams /\ to_ftp' \in Streams)
BY DEF TypeOK, ProcessTypes, Streams

LEMMA StreamsClosed ==
  /\ <<>> \in Streams /\ Length \in Streams
  /\ \A t \in Tokens : <<t>> \in Streams
  /\ \A s \in Streams : s # <<>> => Tail(s) \in Streams /\ Head(s) \in Tokens
  /\ \A s, t \in Streams : s \o t \in Streams
  /\ \A s \in Streams, t \in Tokens : Append(s, t) \in Streams
BY Requests, ConcatProperties DEF Streams

LEMMA FtpTypeStep ==
  ASSUME TypeOK, Conversation, Ftp
  PROVE  TypeOK'
<1> USE Typing, StreamsClosed, TokenTypes
<1>1. ASSUME NEW a \in Addrs, HandlePort(a)
      PROVE  TypeOK'
  BY <1>1 DEF HandlePort, ProcessTypes, helper
<1>2. ASSUME AskPort \/ AskConnect \/ AskAccept
      PROVE  TypeOK'
  BY <1>2 DEF AskPort, AskConnect, AskAccept, FtpWrites, ProcessTypes, session, helper,
     FtpPoints, Bytes
<1>3. CASE SendLen
  BY <1>3 DEF SendLen, Length, FtpWrites, ProcessTypes, session, helper, FtpPoints
<1>4. CASE SendAddr
  <2>1. port_addr \in Addrs
    BY <1>4 DEF SendAddr, FtpWrites, Conversation, AddrPhase
  <2> QED  BY <1>4, <2>1 DEF SendAddr, FtpWrites, ProcessTypes, session, helper, FtpPoints
<1>5. CASE ReadPort
  <2>1. Starts(to_ftp, "port") =>
          Head(to_ftp).value \in Ports /\ Tail(to_ftp) \in Streams
    BY Carries DEF Starts
  <2> QED  BY <1>5, <2>1 DEF ReadPort, ProcessTypes, helper, FtpPoints
<1>6. CASE ReadResult
  <2>1. to_ftp' \in Streams
    BY <1>6 DEF ReadResult, Starts
  <2> QED  BY <1>6, <2>1 DEF ReadResult, ActOnResult, ResetDataFd, ProcessTypes,
              session, helper, FtpPoints
<1>7. CASE ReadFd
  <2>1. Starts(to_ftp, "fd") =>
          Head(to_ftp).value \in Endpoints /\ Tail(to_ftp) \in Streams
    BY Carries DEF Starts
  <2> QED  BY <1>7, <2>1 DEF ReadFd, ProcessTypes, helper, FtpPoints
<1>8. ASSUME RefuseTransfer \/ EndTransfer
      PROVE  TypeOK'
  BY <1>8 DEF RefuseTransfer, EndTransfer, ResetDataFd, ProcessTypes, helper, FtpPoints
<1>9. CASE FtpExits
  BY <1>9 DEF FtpExits, ProcessTypes, session, helper, FtpPoints
<1> QED
  BY <1>1, <1>2, <1>3, <1>4, <1>5, <1>6, <1>7, <1>8, <1>9 DEF Ftp, FtpInside

LEMMA NobodyTypeStep ==
  ASSUME TypeOK, Conversation, Nobody \/ NobodyKilled
  PROVE  TypeOK'
<1> USE Typing, StreamsClosed, TokenTypes
<1>1. CASE GetChar
  BY <1>1, GetCharReads DEF GetChar, ProcessTypes, session, NobodyPoints
<1>2. CASE Switch
  BY <1>2 DEF Switch, ProcessTypes, session, NobodyPoints
<1>3. CASE CreateClient
  BY <1>3 DEF CreateClient, NobodyWrites, ProcessTypes, session, NobodyPoints
<1>4. CASE RecvAddr
  <2>1. ASSUME Len(to_nobody) >= 3
        PROVE  /\ Active(to_nobody[3].value) \in Endpoints
               /\ Tail(Tail(Tail(to_nobody))) \in Streams
    BY <1>4, <2>1, RecvAddrReads, AddressParts DEF RecvAddr
  <2> QED  BY <1>4, <2>1 DEF RecvAddr, ProcessTypes, session, NobodyPoints
<1>5. CASE ConnectInActv
  BY <1>5 DEF ConnectInActv, NobodyWrites, ProcessTypes, session, NobodyPoints
<1>6. ASSUME SendFd \/ SendPasvFd
      PROVE  TypeOK'
  <2>1. FtpAlive => sock \in Endpoints
    BY <1>6 DEF SendFd, SendPasvFd, FtpAlive, TypeOK, FtpPoints, Conversation, IdlePhase,
       PortPhase, LenPhase, AddrPhase, ResultPhase, FdPhase, TransferPhase, Waiting,
       Closing, Rested, Doomed, Asked, Connected, NobodyAlive, Wanted, Active, Passive
  <2> QED  BY <1>6, <2>1 DEF SendFd, SendPasvFd, NobodyWrites, ProcessTypes, session,
              NobodyPoints
<1>7. ASSUME NEW p \in Ports, ListenInPasv(p)
      PROVE  TypeOK'
  BY <1>7 DEF ListenInPasv, NobodyWrites, ProcessTypes, session, NobodyPoints
<1>8. ASSUME ListenFails \/ NobodyKilled
      PROVE  TypeOK'
  BY <1>8 DEF ListenFails, NobodyKilled, ProcessTypes, session, NobodyPoints
<1>9. ASSUME AcceptInPasv \/ AcceptFails
      PROVE  TypeOK'
  BY <1>9 DEF AcceptInPasv, AcceptFails, NobodyWrites, ProcessTypes, session, NobodyPoints
<1>10. CASE ClosePasv
  BY <1>10 DEF ClosePasv, ProcessTypes, session, NobodyPoints
<1> QED
  BY <1>1, <1>2, <1>3, <1>4, <1>5, <1>6, <1>7, <1>8, <1>9, <1>10 DEF Nobody

LEMMA TypeStep ==
  ASSUME TypeOK, Conversation, [Next]_vars
  PROVE  TypeOK'
<1>1. CASE UNCHANGED vars
  BY <1>1, Typing DEF vars, ProcessTypes, session, helper
<1> QED  BY <1>1, FtpTypeStep, NobodyTypeStep DEF Next
-----------------------------------------------------------------------------
(***************************************************************************)
(* The conversation of the two processes goes from phase to phase.         *)
(***************************************************************************)
LEMMA AliveWhen ==
  /\ Waiting \/ Closing \/ Rested \/ Doomed \/ Connected => NobodyAlive
  /\ \A c \in Commands : \A rest : Asked(c, rest) => NobodyAlive
  /\ FtpAlive <=> ftp_pc # "dead"
BY DEF Waiting, Closing, Rested, Doomed, Connected, Asked, Commands, NobodyAlive, FtpAlive

\* A step of the FTP process that writes nothing leaves the nobody process as
\* it is.
LEMMA HelperKept ==
  ASSUME UNCHANGED <<helper, to_nobody>>
  PROVE  /\ Waiting' <=> Waiting
         /\ Closing' <=> Closing
         /\ Doomed' <=> Doomed
         /\ NobodyAlive' <=> NobodyAlive
         /\ DeadPhase' <=> DeadPhase
BY DEF helper, Waiting, Closing, Doomed, NobodyAlive, DeadPhase, Asked

LEMMA FtpWritesNothing ==
  ASSUME TypeOK, Conversation,
         \/ \E a \in Addrs : HandlePort(a)
         \/ RefuseTransfer \/ EndTransfer \/ FtpExits
  PROVE  Conversation'
<1>1. ASSUME NEW a \in Addrs, HandlePort(a)
      PROVE  Conversation'
  <2>1. IdlePhase /\ UNCHANGED <<helper, to_nobody>>
    BY <1>1 DEF HandlePort, Conversation
  <2>2. IdlePhase'
    BY <1>1, <2>1, HelperKept DEF HandlePort, IdlePhase, helper
  <2> QED  BY <1>1, <2>2 DEF HandlePort, Conversation
<1>2. CASE RefuseTransfer
  <2>1. IdlePhase /\ UNCHANGED <<helper, to_nobody>>
    BY <1>2 DEF RefuseTransfer, Conversation
  <2>2. IdlePhase'
    BY <1>2, <2>1, HelperKept DEF RefuseTransfer, ResetDataFd, IdlePhase
  <2> QED  BY <1>2, <2>2 DEF RefuseTransfer, ResetDataFd, Conversation
<1>3. CASE EndTransfer
  <2>1. TransferPhase /\ UNCHANGED <<helper, to_nobody>>
    BY <1>3 DEF EndTransfer, Conversation
  <2>2. IdlePhase'
    BY <1>3, <2>1, HelperKept DEF EndTransfer, ResetDataFd, IdlePhase, TransferPhase, Rested
  <2> QED  BY <1>3, <2>2 DEF EndTransfer, ResetDataFd, Conversation
<1>4. CASE FtpExits
  <2>1. DeadPhase'
    BY <1>4, Legible, HelperKept DEF FtpExits
  <2> QED  BY <1>4, <2>1 DEF FtpExits, Conversation, session
<1> QED  BY <1>1, <1>2, <1>3, <1>4

\* A write to a dead nobody process ends the FTP process.
LEMMA WriteKills ==
  ASSUME TypeOK, Conversation, ~NobodyAlive, ftp_pc' = "dead",
         UNCHANGED <<session, helper, to_nobody>>
  PROVE  Conversation'
BY Legible, HelperKept DEF Conversation, session

\* A request, its length and its address are written one by one.
LEMMA FtpAsks ==
  ASSUME TypeOK, Conversation, AskPort \/ AskConnect \/ AskAccept \/ SendLen \/ SendAddr
  PROVE  Conversation'
<1>0. CASE ~NobodyAlive
  BY <1>0, WriteKills
  DEF AskPort, AskConnect, AskAccept, SendLen, SendAddr, FtpWrites
<1> SUFFICES ASSUME NobodyAlive PROVE Conversation'
  BY <1>0
<1>1. ASSUME NEW c \in Commands, IdlePhase, to_nobody' = to_nobody \o <<Token(c)>>,
             UNCHANGED helper
      PROVE  (Asked(c, <<>>)' /\ (active_pasv => nobody_pc' # "close_pasv")) \/ Doomed'
  <2>1. <<Token(c)>> \in Seq(Tokens)
    BY TokenTypes DEF Commands, Bytes
  <2> QED  BY <1>1, <2>1, AskedFirst, DoomedMore DEF IdlePhase, Waiting
<1>2. CASE AskPort
  <2>1. /\ IdlePhase /\ ftp_pc' = "await_port"
        /\ to_nobody' = to_nobody \o <<Token("listen")>>
        /\ UNCHANGED <<session, helper, to_ftp>>
    BY <1>2 DEF AskPort, FtpWrites, Conversation
  <2>2. PortPhase'
    BY <1>1, <2>1 DEF IdlePhase, PortPhase, Commands, session
  <2> QED  BY <2>1, <2>2 DEF Conversation, session
<1>3. CASE AskConnect
  <2>1. /\ IdlePhase /\ ftp_pc' = "send_len" /\ active_port /\ ~active_pasv
        /\ to_nobody' = to_nobody \o <<Token("connect")>>
        /\ UNCHANGED <<session, helper, to_ftp>>
    BY <1>3 DEF AskConnect, FtpWrites, Conversation
  <2>2. LenPhase'
    BY <1>1, <2>1 DEF IdlePhase, LenPhase, Commands, session
  <2> QED  BY <2>1, <2>2 DEF Conversation, session
<1>4. CASE AskAccept
  <2>1. /\ IdlePhase /\ ftp_pc' = "await_result" /\ active_pasv /\ ~active_port
        /\ to_nobody' = to_nobody \o <<Token("accept")>>
        /\ UNCHANGED <<session, helper, to_ftp>>
    BY <1>4 DEF AskAccept, FtpWrites, Conversation
  <2>2. ResultPhase'
    BY <1>1, <2>1 DEF IdlePhase, ResultPhase, Refused, Commands, session, helper
  <2> QED  BY <2>1, <2>2 DEF Conversation, session
<1>5. CASE SendLen
  <2>1. /\ LenPhase /\ ftp_pc' = "send_addr"
        /\ to_nobody' = to_nobody \o Length
        /\ UNCHANGED <<session, helper, to_ftp>>
    BY <1>5 DEF SendLen, FtpWrites, Conversation, Length
  <2>2. Asked("connect", <<>>) => Asked("connect", Length)'
    <3>1. <<>> \o Length = Length
      BY Requests, ConcatEmptySeq
    <3> QED  BY <2>1, <3>1, AskedMore, Requests DEF Commands
  <2>3. Waiting \/ Doomed => Doomed'
    BY <2>1, LengthDooms, DoomedMore, Requests
  <2>4. AddrPhase'
    BY <2>1, <2>2, <2>3 DEF LenPhase, AddrPhase, Refused, session
  <2> QED  BY <2>1, <2>4 DEF Conversation, session
<1>6. CASE SendAddr
  <2>1. /\ AddrPhase /\ ftp_pc' = "await_result"
        /\ to_nobody' = to_nobody \o <<Carry("addr", port_addr)>>
        /\ UNCHANGED <<session, helper, to_ftp>>
    BY <1>6 DEF SendAddr, FtpWrites, Conversation
  <2>2. PICK a \in Addrs : a = port_addr
    BY <2>1 DEF AddrPhase, Conversation
  <2>3. <<Carry("addr", a)>> \in Seq(Tokens) /\ Length \in Seq(Tokens)
    BY TokenTypes, Requests
  <2>4. Asked("connect", Length) => Asked("connect", Address(a))'
    BY <2>1, <2>2, <2>3, AskedMore, AddressParts DEF Commands
  <2>5. Doomed => Doomed'
    BY <2>1, <2>2, <2>3, DoomedMore
  <2>6. port_addr' = a
    BY <2>1, <2>2 DEF session
  <2>7. Asked("connect", Address(a))' => Asked("connect", Address(port_addr))'
    BY <2>6 DEF Asked, Address
  <2>8. /\ data_fd' = None /\ active_port' /\ ~active_pasv'
        /\ to_ftp' = to_ftp
    BY <2>1 DEF AddrPhase, session
  <2>9. \/ Asked("connect", Address(port_addr))' /\ to_ftp' = <<>>
        \/ Doomed' /\ Refused'
    BY <2>1, <2>4, <2>5, <2>7 DEF AddrPhase, Refused
  <2>10. ResultPhase'
    BY <2>8, <2>9 DEF ResultPhase
  <2> QED  BY <2>1, <2>10 DEF Conversation, session
<1> QED  BY <1>2, <1>3, <1>4, <1>5, <1>6

\* The answers are read, or missed when the nobody process is gone.
LEMMA FtpReads ==
  ASSUME TypeOK, Conversation, ReadPort \/ ReadResult \/ ReadFd
  PROVE  Conversation'
<1>0. /\ UNCHANGED <<helper, to_nobody>>
      /\ \A x, y : <<x>> # <<>> /\ <<x, y>> # <<>> /\ Head(<<x>>) = x /\ Head(<<x, y>>) = x
      /\ \A x, y : Tail(<<x>>) = <<>> /\ Tail(<<x, y>>) = <<y>>
  BY DEF ReadPort, ReadResult, ReadFd
<1>1. CASE ReadPort
  <2>1. PortPhase /\ ftp_pc' = "idle"
    BY <1>1 DEF ReadPort, Conversation
  <2>2. CASE Starts(to_ftp, "port")
    <3>1. PICK p : /\ to_ftp = <<Carry("port", p)>>
                   /\ ~NobodyAlive \/ (Waiting /\ p = pasv_listen_fd /\ p \in listeners)
      BY <2>1, <2>2 DEF PortPhase, Starts
    <3>2. told_port' = p /\ to_ftp' = <<>>
      BY <1>0, <1>1, <3>1, AliveWhen DEF ReadPort, Carry
    <3>3. IdlePhase'
      BY <1>0, <1>1, <2>1, <3>1, <3>2, HelperKept
      DEF ReadPort, IdlePhase, PortPhase, helper
    <3> QED  BY <1>1, <2>1, <3>3 DEF ReadPort, Conversation
  <2>3. CASE ~Starts(to_ftp, "port")
    <3>1. to_ftp = <<>> /\ ~NobodyAlive /\ UNCHANGED to_ftp
      BY <1>1, <2>3 DEF ReadPort
    <3>2. IdlePhase'
      BY <1>0, <1>1, <2>1, <3>1, HelperKept DEF ReadPort, IdlePhase, PortPhase
    <3> QED  BY <1>1, <2>1, <3>2 DEF ReadPort, Conversation
  <2> QED  BY <2>2, <2>3
<1>2. CASE ReadResult
  <2>1. ResultPhase
    BY <1>2 DEF ReadResult, Conversation
  <2>2. PICK res \in {"zero", "bad", "ok", "other"} :
          /\ \/ Starts(to_ftp, res) /\ to_ftp' = Tail(to_ftp)
             \/ to_ftp = <<>> /\ ~NobodyAlive /\ UNCHANGED to_ftp
          /\ ActOnResult(res)
    BY <1>2 DEF ReadResult
  <2>3. CASE to_ftp = <<>>
    <3>1. ~NobodyAlive /\ to_ftp' = <<>>
      BY <2>2, <2>3 DEF Starts
    <3>2. CASE ftp_pc' = "dead"
      BY <1>0, <2>2, <3>1, <3>2, WriteKills DEF ActOnResult
    <3>3. CASE ftp_pc' = "idle"
      <4>1. ResetDataFd
        BY <2>2, <3>3 DEF ActOnResult
      <4>2. IdlePhase'
        BY <1>0, <3>1, <4>1, HelperKept DEF IdlePhase, ResetDataFd
      <4> QED  BY <3>3, <4>1, <4>2 DEF Conversation, ResetDataFd
    <3>4. CASE ftp_pc' \in {"await_fd", "transfer"}
      <4>1. UNCHANGED session
        BY <2>2, <3>4 DEF ActOnResult
      <4>2. FdPhase' /\ TransferPhase'
        BY <1>0, <2>1, <3>1, <4>1, HelperKept
        DEF FdPhase, TransferPhase, ResultPhase, session
      <4> QED  BY <3>4, <4>1, <4>2 DEF Conversation, session
    <3> QED  BY <2>2, <3>2, <3>3, <3>4 DEF ActOnResult
  <2>4. CASE to_ftp = <<Token("bad")>>
    <3>1. ftp_pc' = "idle" /\ ResetDataFd /\ to_ftp' = <<>>
      BY <1>0, <2>2, <2>4 DEF Starts, Token, ActOnResult
    <3>2. Waiting \/ Doomed \/ ~NobodyAlive
      BY <1>0, <2>1, <2>4 DEF ResultPhase, Token
    <3>3. IdlePhase'
      BY <1>0, <3>1, <3>2, HelperKept DEF IdlePhase, ResetDataFd
    <3> QED  BY <3>1, <3>3 DEF Conversation, ResetDataFd
  <2>5. CASE to_ftp # <<>> /\ to_ftp # <<Token("bad")>>
    <3>1. \/ to_ftp = <<Token("ok")>> /\ (Connected \/ ~NobodyAlive)
          \/ /\ to_ftp = <<Token("ok"), Carry("fd", Wanted)>>
             /\ Rested \/ ~NobodyAlive
      BY <2>1, <2>5 DEF ResultPhase, Refused
    <3>2. Starts(to_ftp, res) /\ res = "ok" /\ to_ftp' = Tail(to_ftp)
      BY <1>0, <2>2, <3>1 DEF Starts, Token
    <3>3. ftp_pc' = "await_fd" /\ UNCHANGED session
      BY <2>2, <3>2 DEF ActOnResult
    <3>4. \/ to_ftp' = <<>> /\ (Connected \/ ~NobodyAlive)
          \/ to_ftp' = <<Carry("fd", Wanted)>> /\ (Rested \/ ~NobodyAlive)
      BY <1>0, <3>1, <3>2
    <3>5. Wanted' = Wanted /\ (Rested => Rested') /\ (Connected => Connected')
      BY <1>0, <3>3, HelperKept DEF Wanted, Rested, Passed, Connected, session, helper
    <3>6. FdPhase'
      BY <1>0, <2>1, <3>3, <3>4, <3>5, HelperKept DEF FdPhase, ResultPhase, session
    <3> QED  BY <3>3, <3>6 DEF Conversation, session
  <2> QED  BY <2>3, <2>4, <2>5
<1>3. CASE ReadFd
  <2>1. FdPhase
    BY <1>3 DEF ReadFd, Conversation
  <2>2. CASE Starts(to_ftp, "fd")
    <3>1. to_ftp = <<Carry("fd", Wanted)>> /\ (Rested \/ ~NobodyAlive)
      BY <2>1, <2>2 DEF FdPhase, Starts
    <3>2. /\ data_fd' = Wanted /\ to_ftp' = <<>> /\ ftp_pc' = "transfer"
          /\ UNCHANGED <<active_port, port_addr, active_pasv, told_port>>
      BY <1>0, <1>3, <3>1 DEF ReadFd, Carry
    <3>3. TransferPhase'
      BY <1>0, <2>1, <3>1, <3>2, HelperKept
      DEF TransferPhase, FdPhase, Wanted, Rested, Passed, helper
    <3> QED  BY <3>2, <3>3 DEF Conversation
  <2>3. CASE ~Starts(to_ftp, "fd")
    BY <1>0, <1>3, <2>3, WriteKills DEF ReadFd, session
  <2> QED  BY <2>2, <2>3
<1> QED  BY <1>1, <1>2, <1>3
-----------------------------------------------------------------------------
(***************************************************************************)
(* The steps of the nobody process.                                        *)
(***************************************************************************)
\* Whatever the phase is, the FTP process can be left alone.
LEMMA NobodyLost ==
  ASSUME TypeOK, Conversation, ~NobodyAlive',
         UNCHANGED <<ftp_pc, session, listeners, to_ftp>>
  PROVE  Conversation'
<1>1. IdlePhase => IdlePhase'
  BY DEF IdlePhase, session
<1>2. PortPhase => PortPhase'
  BY DEF PortPhase, TypeOK, session
<1>3. LenPhase => LenPhase'
  BY DEF LenPhase, Refused, session
<1>4. AddrPhase => AddrPhase'
  BY DEF AddrPhase, Refused, session
<1>5. Wanted' = Wanted /\ Refused' = Refused
  BY DEF Wanted, Refused, session
<1>6. ResultPhase => ResultPhase'
  BY <1>5 DEF ResultPhase, Refused, session
<1>7. FdPhase => FdPhase'
  BY <1>5 DEF FdPhase, session
<1>8. TransferPhase => TransferPhase'
  BY <1>5 DEF TransferPhase, session
<1>9. DeadPhase'
  BY DEF DeadPhase
<1> QED
  BY <1>1, <1>2, <1>3, <1>4, <1>6, <1>7, <1>8, <1>9 DEF Conversation, session

\* For a living session it reads its request and nothing else.
LEMMA NobodyReads ==
  ASSUME TypeOK, Conversation, FtpAlive, GetChar \/ Switch
  PROVE  Conversation'
<1>0. /\ UNCHANGED <<ftp_pc, session, pasv_listen_fd, listeners, sock, to_ftp>>
      /\ nobody_pc \in {"get_char", "switch"} /\ NobodyAlive /\ ftp_pc # "dead"
      /\ nobody_pc' # "close_pasv"
  BY DEF GetChar, Switch, NobodyAlive, FtpAlive
<1>1. CASE ~NobodyAlive'
  BY <1>0, <1>1, NobodyLost
<1> SUFFICES ASSUME NobodyAlive' PROVE Conversation'
  BY <1>1
<1>2. /\ ~Waiting /\ ~Closing /\ ~Rested /\ ~Connected
      /\ nobody_pc # "connect" /\ (Doomed => Doomed')
  BY <1>0, WaitingBlocks, DoomedRead DEF Closing, Rested, Connected, Nobody
<1>3. /\ \A c \in Commands : Asked(c, <<>>) => Asked(c, <<>>)'
      /\ Asked("connect", Length) => Asked("connect", Length)'
  BY AskedRead, Requests DEF Commands
<1>4. active_port /\ Asked("connect", Address(port_addr))
        => Asked("connect", Address(port_addr))'
  <2> SUFFICES ASSUME active_port, Asked("connect", Address(port_addr))
               PROVE  Asked("connect", Address(port_addr))'
    OBVIOUS
  <2>1. PICK a \in Addrs : a = port_addr
    BY DEF Conversation
  <2>2. Asked("connect", Address(a))' /\ port_addr' = a
    BY <1>0, <2>1, AskedRead, Requests DEF Commands, session
  <2> QED  BY <2>2 DEF Asked, Address
<1>5. IdlePhase => IdlePhase'
  BY <1>0, <1>2 DEF IdlePhase, session
<1>6. PortPhase => PortPhase'
  BY <1>0, <1>2, <1>3 DEF PortPhase, session, Commands
<1>7. LenPhase => LenPhase'
  BY <1>0, <1>2, <1>3 DEF LenPhase, session, Commands
<1>8. AddrPhase => AddrPhase'
  BY <1>0, <1>2, <1>3 DEF AddrPhase, Refused, session
<1>9. ResultPhase => ResultPhase'
  <2>1. ASSUME ResultPhase
        PROVE  \/ active_port /\ Asked("connect", Address(port_addr)) /\ to_ftp = <<>>
               \/ /\ active_pasv /\ Asked("accept", <<>>) /\ to_ftp = <<>>
                  /\ pasv_listen_fd \in listeners /\ pasv_listen_fd = told_port
               \/ Doomed /\ Refused
    BY <1>0, <1>2, <2>1 DEF ResultPhase
  <2>2. /\ Refused => Refused'
        /\ Asked("accept", <<>>) => Asked("accept", <<>>)'
    BY <1>0, <1>3 DEF Refused, Commands
  <2> QED  BY <1>0, <1>2, <1>4, <2>1, <2>2 DEF ResultPhase, session
<1>10. ~FdPhase /\ ~TransferPhase
  BY <1>0, <1>2 DEF FdPhase, TransferPhase
<1> QED
  BY <1>0, <1>5, <1>6, <1>7, <1>8, <1>9, <1>10 DEF Conversation, session

\* Where it stands says what the living session has asked for.
LEMMA NobodyServes ==
  ASSUME TypeOK, Conversation, FtpAlive
  PROVE  /\ nobody_pc \in {"create", "recv_addr"} =>
              /\ data_fd = None /\ active_port /\ ~active_pasv /\ to_ftp = <<>>
              /\ \/ ftp_pc = "send_len" /\ to_nobody = <<>>
                 \/ ftp_pc = "send_addr" /\ to_nobody = Length
                 \/ ftp_pc = "await_result" /\ to_nobody = Address(port_addr)
         /\ nobody_pc = "connect" =>
              /\ ftp_pc = "await_result" /\ ResultPhase /\ active_port
              /\ to_ftp = <<>> /\ to_nobody = <<>> /\ sock = Active(port_addr)
         /\ nobody_pc = "listen" =>
              /\ ftp_pc = "await_port" /\ data_fd = None
              /\ to_ftp = <<>> /\ to_nobody = <<>>
         /\ nobody_pc = "accept" =>
              /\ ftp_pc = "await_result" /\ ResultPhase /\ active_pasv
              /\ to_ftp = <<>> /\ to_nobody = <<>>
              /\ pasv_listen_fd \in listeners /\ pasv_listen_fd = told_port
         /\ nobody_pc \in {"send_fd", "send_pasv_fd"} =>
              /\ Connected /\ data_fd = None /\ active_port # active_pasv
              /\ \/ ftp_pc = "await_result" /\ to_ftp = <<Token("ok")>>
                 \/ ftp_pc = "await_fd" /\ to_ftp = <<>>
<1> DEFINE At(points) == nobody_pc \in points
<1>1. ~At({"get_char", "switch", "close_pasv", "exited", "failed"}) =>
        ~Waiting /\ ~Closing /\ ~Rested /\ ~Doomed /\ NobodyAlive
  BY DEF Waiting, Closing, Rested, Doomed, NobodyAlive
<1>2. /\ nobody_pc \in {"create", "recv_addr"} =>
           \A c \in Commands : \A rest : Asked(c, rest) => c = "connect" /\ to_nobody = rest
      /\ nobody_pc \in {"connect", "send_fd", "send_pasv_fd"} =>
           \A c \in Commands : \A rest : ~Asked(c, rest)
      /\ nobody_pc \in {"listen", "accept"} =>
           \A c \in Commands : \A rest : Asked(c, rest) => c = nobody_pc /\ to_nobody = rest
  BY DEF Asked, Commands
<1>3. Connected => nobody_pc \in {"send_fd", "send_pasv_fd"}
  BY DEF Connected
<1>4. nobody_pc \notin {"get_char", "switch", "close_pasv", "exited", "failed"} =>
        ftp_pc \notin {"idle", "transfer", "dead"}
  BY <1>1 DEF FtpAlive, Conversation, IdlePhase, TransferPhase
<1>5. ASSUME ftp_pc = "await_port"
      PROVE  /\ PortPhase
             /\ ~At({"get_char", "switch", "close_pasv", "exited", "failed"}) =>
                  Asked("listen", <<>>) /\ to_ftp = <<>> /\ data_fd = None
  BY <1>1, <1>5 DEF Conversation, PortPhase
<1>6. ASSUME ftp_pc = "send_len", ~At({"get_char", "switch", "close_pasv", "exited", "failed"})
      PROVE  /\ Asked("connect", <<>>) /\ to_ftp = <<>> /\ data_fd = None
             /\ active_port /\ ~active_pasv
  BY <1>1, <1>6 DEF Conversation, LenPhase
<1>7. ASSUME ftp_pc = "send_addr", ~At({"get_char", "switch", "close_pasv", "exited", "failed"})
      PROVE  /\ Asked("connect", Length) /\ to_ftp = <<>> /\ data_fd = None
             /\ active_port /\ ~active_pasv
  BY <1>1, <1>7 DEF Conversation, AddrPhase
<1>8. ASSUME ftp_pc = "await_result", ~At({"get_char", "switch", "close_pasv", "exited", "failed"})
      PROVE  /\ ResultPhase /\ data_fd = None /\ active_port # active_pasv
             /\ \/ active_port /\ Asked("connect", Address(port_addr)) /\ to_ftp = <<>>
                \/ /\ active_port /\ to_ftp = <<>>
                   /\ nobody_pc = "connect" /\ to_nobody = <<>> /\ sock = Active(port_addr)
                \/ /\ active_pasv /\ Asked("accept", <<>>) /\ to_ftp = <<>>
                   /\ pasv_listen_fd \in listeners /\ pasv_listen_fd = told_port
                \/ Connected /\ to_ftp = <<Token("ok")>>
  BY <1>1, <1>8 DEF Conversation, ResultPhase
<1>9. ASSUME ftp_pc = "await_fd", ~At({"get_char", "switch", "close_pasv", "exited", "failed"})
      PROVE  /\ data_fd = None /\ active_port # active_pasv
             /\ Connected /\ to_ftp = <<>>
  BY <1>1, <1>9 DEF Conversation, FdPhase
<1>10. ftp_pc \in FtpPoints /\ active_port \in BOOLEAN /\ active_pasv \in BOOLEAN
  BY DEF TypeOK
<1>11. CASE nobody_pc \in {"create", "recv_addr"}
  BY <1>2, <1>3, <1>4, <1>5, <1>6, <1>7, <1>8, <1>9, <1>10, <1>11 DEF FtpPoints, Commands
<1>12. CASE nobody_pc = "connect"
  BY <1>2, <1>3, <1>4, <1>5, <1>6, <1>7, <1>8, <1>9, <1>10, <1>12 DEF FtpPoints, Commands
<1>13. CASE nobody_pc \in {"listen", "accept"}
  BY <1>2, <1>3, <1>4, <1>5, <1>6, <1>7, <1>8, <1>9, <1>10, <1>13 DEF FtpPoints, Commands
<1>14. CASE nobody_pc \in {"send_fd", "send_pasv_fd"}
  BY <1>2, <1>4, <1>5, <1>6, <1>7, <1>8, <1>9, <1>10, <1>14 DEF FtpPoints, Commands
<1> QED  BY <1>11, <1>12, <1>13, <1>14

\* An answer joins the ones not read yet.
LEMMA Answer ==
  /\ \A t : Append(<<>>, t) = <<t>>
  /\ \A t, u : Append(<<t>>, u) = <<t, u>>
<1>1. \A t : Append(<<>>, t) = <<t>>
  OBVIOUS
<1>2. ASSUME NEW t, NEW u
      PROVE  Append(<<t>>, u) = <<t, u>>
  <2> DEFINE S == {t, u}
             s == Append(<<t>>, u)
  <2>1. <<t>> \in Seq(S) /\ <<t, u>> \in Seq(S) /\ u \in S
    OBVIOUS
  <2>2. /\ s \in Seq(S) /\ Len(s) = Len(<<t>>) + 1
        /\ \A i \in 1 .. Len(<<t>>) : s[i] = <<t>>[i]
        /\ s[Len(<<t>>) + 1] = u
    <3> HIDE DEF S
    <3> QED  BY <2>1, AppendProperties
  <2> HIDE DEF s, S
  <2>3. Len(<<t>>) = 1 /\ Len(<<t, u>>) = 2 /\ <<t>>[1] = t
        /\ <<t, u>>[1] = t /\ <<t, u>>[2] = u
    OBVIOUS
  <2>4. Len(s) = 2 /\ s[1] = t /\ s[2] = u
    BY <2>2, <2>3
  <2>5. s = <<t, u>>
    BY <2>1, <2>2, <2>3, <2>4, SeqEqual
  <2> QED  BY <2>5 DEF s
<1> QED  BY <1>1, <1>2

\* Once the nobody process has nothing before it, an answer ends its part.
LEMMA NobodyAnswers ==
  ASSUME TypeOK, Conversation, FtpAlive,
         CreateClient \/ RecvAddr \/ ConnectInActv \/ AcceptInPasv \/ AcceptFails
  PROVE  Conversation'
<1>0. /\ UNCHANGED <<ftp_pc, session, pasv_listen_fd, listeners>> /\ ftp_pc # "dead"
      /\ active_port \in BOOLEAN /\ active_pasv \in BOOLEAN
  BY DEF TypeOK, CreateClient, RecvAddr, ConnectInActv, AcceptInPasv, AcceptFails, FtpAlive
<1>1. active_port' /\ ~active_pasv' => active_port' # active_pasv'
  BY <1>0 DEF session
<1>2. CASE CreateClient /\ nobody_pc' = "recv_addr"
  <2>1. /\ nobody_pc = "create" /\ UNCHANGED <<to_nobody, to_ftp>>
        /\ \A c, rest : Asked(c, rest) /\ c \in Commands => Asked(c, rest)'
    BY <1>2, <1>0 DEF CreateClient, NobodyWrites, FtpAlive, Asked, Commands
  <2>2. ftp_pc = "send_len" => LenPhase'
    BY <1>0, <1>2, <2>1, NobodyServes DEF LenPhase, Asked, session
  <2>3. ftp_pc = "send_addr" => AddrPhase'
    BY <1>0, <1>2, <2>1, NobodyServes DEF AddrPhase, Asked, session
  <2>4. ftp_pc = "await_result" => ResultPhase'
    <3>1. to_nobody = Address(port_addr) /\ port_addr' = port_addr =>
            Asked("connect", Address(port_addr))'
      BY <1>2, <2>1 DEF Asked, Address
    <3>2. ftp_pc = "await_result" =>
            /\ Asked("connect", Address(port_addr))' /\ to_ftp' = <<>>
            /\ data_fd' = None /\ active_port' /\ ~active_pasv'
      BY <1>0, <2>1, <3>1, NobodyServes DEF session
    <3> QED  BY <1>1, <3>2 DEF ResultPhase
  <2> QED  BY <1>0, <2>1, <2>2, <2>3, <2>4, NobodyServes DEF Conversation, session
<1>3. CASE CreateClient /\ nobody_pc' # "recv_addr"
  <2>1. /\ nobody_pc = "create" /\ nobody_pc' = "get_char"
        /\ to_nobody' = to_nobody /\ to_ftp' = <<Token("bad")>>
    BY <1>0, <1>3, Answer, NobodyServes DEF CreateClient, NobodyWrites
  <2>2. ftp_pc = "send_len" => LenPhase'
    BY <1>0, <2>1, NobodyServes DEF LenPhase, Waiting, session
  <2>3. to_nobody = Length => Doomed'
    BY <2>1 DEF Doomed, Length, Token
  <2>4. to_nobody = Address(port_addr) => Doomed'
    BY <2>1 DEF Doomed, Address, Token, Carry
  <2>5. ftp_pc = "send_addr" => AddrPhase'
    BY <1>0, <2>1, <2>3, NobodyServes DEF AddrPhase, Refused, session
  <2>6. ftp_pc = "await_result" => ResultPhase'
    <3>1. ftp_pc = "await_result" =>
            /\ Doomed' /\ Refused'
            /\ data_fd' = None /\ active_port' /\ ~active_pasv'
      BY <1>0, <2>1, <2>4, NobodyServes DEF Refused, session
    <3> QED  BY <1>1, <3>1 DEF ResultPhase
  <2> QED  BY <1>0, <2>1, <2>2, <2>5, <2>6, NobodyServes DEF Conversation, session
<1>4. CASE RecvAddr
  <2>1. /\ nobody_pc = "recv_addr" /\ Len(to_nobody) >= 3 /\ nobody_pc' = "connect"
        /\ sock' = Active(to_nobody[3].value)
        /\ to_nobody' = Tail(Tail(Tail(to_nobody))) /\ to_ftp' = to_ftp
    BY <1>4 DEF RecvAddr
  <2>2. PICK a \in Addrs : to_nobody = Address(a)
    BY <2>1, RecvAddrReads
  <2>3. to_nobody' = <<>> /\ sock' = Active(a)
    BY <2>1, <2>2, AddressParts
  <2>4. /\ ftp_pc = "await_result" /\ to_nobody = Address(port_addr)
        /\ data_fd = None /\ active_port /\ ~active_pasv /\ to_ftp = <<>>
    <3>1. Len(<<>>) = 0 /\ Len(Length) = 2 /\ Len(Address(a)) = 3
      BY AddressParts
    <3>2. to_nobody # <<>> /\ to_nobody # Length
      BY <2>2, <3>1
    <3> QED  BY <2>1, <3>2, NobodyServes
  <2>5. a = port_addr
    BY <2>2, <2>4, AddressParts DEF Conversation
  <2>6. ResultPhase'
    BY <1>0, <2>1, <2>3, <2>4, <2>5 DEF ResultPhase, session, Active
  <2> QED  BY <1>0, <2>4, <2>6 DEF Conversation, session
<1>5. CASE ConnectInActv
  <2>1. /\ ftp_pc = "await_result" /\ active_port /\ ~active_pasv /\ data_fd = None
        /\ to_nobody' = <<>> /\ sock = Active(port_addr)
        /\ \/ nobody_pc' = "send_fd" /\ sock' = sock /\ to_ftp' = <<Token("ok")>>
           \/ nobody_pc' = "get_char" /\ to_ftp' = <<Token("bad")>>
    BY <1>0, <1>5, Answer, NobodyServes DEF ConnectInActv, NobodyWrites, ResultPhase, TypeOK
  <2>2. nobody_pc' = "send_fd" => Connected'
    BY <1>0, <2>1 DEF Connected, Wanted, Active, session
  <2>3. ResultPhase'
    BY <1>0, <2>1, <2>2 DEF ResultPhase, Waiting, session
  <2> QED  BY <1>0, <2>1, <2>3 DEF Conversation, session
<1>6. CASE AcceptInPasv
  <2>1. /\ ftp_pc = "await_result" /\ active_pasv /\ ~active_port /\ data_fd = None
        /\ to_nobody' = <<>> /\ pasv_listen_fd = told_port
        /\ sock' = Passive(pasv_listen_fd) /\ nobody_pc' = "send_pasv_fd"
        /\ to_ftp' = <<Token("ok")>>
    BY <1>0, <1>6, Answer, NobodyServes DEF AcceptInPasv, NobodyWrites, ResultPhase, TypeOK
  <2>2. Connected'
    BY <1>0, <2>1 DEF Connected, Wanted, Passive, session
  <2>3. ResultPhase'
    BY <1>0, <2>1, <2>2 DEF ResultPhase, session
  <2> QED  BY <1>0, <2>1, <2>3 DEF Conversation, session
<1>7. CASE AcceptFails
  <2>1. /\ ftp_pc = "await_result" /\ active_pasv /\ ~active_port /\ data_fd = None
        /\ to_nobody' = <<>> /\ nobody_pc' = "get_char" /\ to_ftp' = <<Token("bad")>>
    BY <1>0, <1>7, Answer, NobodyServes DEF AcceptFails, NobodyWrites, ResultPhase, TypeOK
  <2>2. ResultPhase'
    BY <1>0, <2>1 DEF ResultPhase, Waiting, session
  <2> QED  BY <1>0, <2>1, <2>2 DEF Conversation, session
<1> QED  BY <1>2, <1>3, <1>4, <1>5, <1>6, <1>7

\* A port, a connection: the listening socket is the one of the answer.
LEMMA NobodyPasses ==
  ASSUME TypeOK, Conversation, FtpAlive,
         \/ \E p \in Ports : ListenInPasv(p)
         \/ SendFd \/ SendPasvFd
  PROVE  Conversation'
<1>0. UNCHANGED <<ftp_pc, session>> /\ ftp_pc # "dead"
  BY DEF ListenInPasv, SendFd, SendPasvFd, FtpAlive
<1>1. ASSUME NEW p \in Ports, ListenInPasv(p)
      PROVE  Conversation'
  <2>1. /\ ftp_pc = "await_port" /\ data_fd = None
        /\ to_nobody' = <<>> /\ nobody_pc' = "get_char"
        /\ pasv_listen_fd' = p /\ p \in listeners' /\ to_ftp' = <<Carry("port", p)>>
    BY <1>0, <1>1, Answer, NobodyServes DEF ListenInPasv, NobodyWrites
  <2>2. Carry("port", p) = Carry("port", pasv_listen_fd')
    BY <2>1
  <2>3. PortPhase'
    BY <1>0, <2>1, <2>2 DEF PortPhase, Waiting, session, Carry
  <2> QED  BY <1>0, <2>1, <2>3 DEF Conversation, session
<1>2. ASSUME SendFd \/ SendPasvFd
      PROVE  Conversation'
  <2>1. /\ Connected /\ data_fd = None /\ active_port # active_pasv
        /\ \/ ftp_pc = "await_result" /\ to_ftp = <<Token("ok")>>
           \/ ftp_pc = "await_fd" /\ to_ftp = <<>>
    BY <1>2, NobodyServes DEF SendFd, SendPasvFd
  <2>2. /\ to_nobody' = <<>> /\ to_ftp' = Append(to_ftp, Carry("fd", Wanted))
        /\ nobody_pc' = IF active_port THEN "get_char" ELSE "close_pasv"
    BY <1>2, <2>1 DEF SendFd, SendPasvFd, NobodyWrites, Connected
  <2>3. Rested'
    <3>1. active_pasv => /\ nobody_pc' = "close_pasv"
                         /\ pasv_listen_fd' = pasv_listen_fd /\ pasv_listen_fd = told_port
      BY <1>2, <2>1, <2>2 DEF SendFd, SendPasvFd, Connected, TypeOK
    <3>2. Passed'
      BY <1>0, <3>1 DEF Passed, session
    <3> QED  BY <2>2, <3>2 DEF Rested, Waiting, Closing
  <2>4. Wanted' = Wanted
    BY <1>0 DEF Wanted, session
  <2>5. ftp_pc = "await_result" => to_ftp' = <<Token("ok"), Carry("fd", Wanted)>>
    BY <2>1, <2>2, Answer
  <2>6. ftp_pc = "await_fd" => to_ftp' = <<Carry("fd", Wanted)>>
    BY <2>1, <2>2, Answer
  <2>7. ftp_pc = "await_result" => ResultPhase'
    BY <1>0, <2>1, <2>2, <2>3, <2>4, <2>5 DEF ResultPhase, session
  <2>8. ftp_pc = "await_fd" => FdPhase'
    BY <1>0, <2>1, <2>2, <2>3, <2>4, <2>6 DEF FdPhase, session
  <2> QED  BY <1>0, <2>1, <2>7, <2>8 DEF Conversation, session
<1> QED  BY <1>1, <1>2

\* The listening socket of the last transfer is closed, which may have ended
\* long before: no request has been answered in between.
LEMMA NobodyCloses ==
  ASSUME TypeOK, Conversation, FtpAlive, ClosePasv
  PROVE  Conversation'
<1>0. /\ UNCHANGED <<ftp_pc, session, pasv_listen_fd, to_nobody, to_ftp>> /\ ftp_pc # "dead"
      /\ nobody_pc = "close_pasv" /\ nobody_pc' = "get_char"
      /\ listeners' = listeners \ {pasv_listen_fd}
  BY DEF ClosePasv, FtpAlive
<1>1. ~Waiting /\ ~Doomed /\ ~Connected /\ NobodyAlive
  BY <1>0 DEF Waiting, Doomed, Connected, NobodyAlive
<1>2. (Closing => Waiting') /\ (Rested => Rested')
  BY <1>0, <1>1 DEF Closing, Waiting, Rested, Passed, session
<1>3. /\ \A c \in Commands : Asked(c, <<>>) => Asked(c, <<>>)'
      /\ Asked("connect", Length) => Asked("connect", Length)'
  BY AskedRead, Requests DEF Commands
<1>4. Asked("connect", Address(port_addr)) => Asked("connect", Address(port_addr))'
  BY <1>0 DEF Asked, Address, session
<1>5. IdlePhase => IdlePhase'
  BY <1>0, <1>1, <1>2 DEF IdlePhase, session
<1>6. PortPhase => PortPhase'
  BY <1>0, <1>1, <1>3 DEF PortPhase, Commands, session
<1>7. LenPhase => LenPhase'
  BY <1>0, <1>1, <1>3 DEF LenPhase, Commands, session
<1>8. AddrPhase => AddrPhase'
  BY <1>0, <1>1, <1>3 DEF AddrPhase, session
<1>9. Wanted' = Wanted
  BY <1>0 DEF Wanted, session
<1>10. ResultPhase => ResultPhase'
  <2>1. ASSUME ResultPhase
        PROVE  \/ active_port /\ Asked("connect", Address(port_addr)) /\ to_ftp = <<>>
               \/ Rested /\ to_ftp = <<Token("ok"), Carry("fd", Wanted)>>
    BY <1>0, <1>1, <2>1 DEF ResultPhase
  <2> QED  BY <1>0, <1>2, <1>4, <1>9, <2>1 DEF ResultPhase, session
<1>11. FdPhase => FdPhase'
  BY <1>0, <1>1, <1>2, <1>9 DEF FdPhase, session
<1>12. TransferPhase => TransferPhase'
  BY <1>0, <1>1, <1>2, <1>9 DEF TransferPhase, session
<1> QED
  BY <1>0, <1>5, <1>6, <1>7, <1>8, <1>10, <1>11, <1>12 DEF Conversation, session

\* For a dead session the nobody process reads what was left and goes.
LEMMA NobodyAlone ==
  ASSUME TypeOK, Conversation, ~FtpAlive, Nobody
  PROVE  Conversation'
<1>0. DeadPhase /\ ftp_pc' = "dead" /\ UNCHANGED session
  BY Legible DEF FtpAlive, Nobody, GetChar, Switch, CreateClient, RecvAddr, ConnectInActv,
     SendFd, ListenInPasv, ListenFails, AcceptInPasv, AcceptFails, SendPasvFd, ClosePasv
<1>1. ASSUME GetChar \/ Switch \/ ClosePasv
      PROVE  DeadPhase'
  <2>1. to_nobody = <<>> => to_nobody' = <<>>
    BY <1>1 DEF GetChar, Switch, ClosePasv
  <2>2. NobodyAlive
    BY <1>1 DEF GetChar, Switch, ClosePasv, NobodyAlive
  <2>3. ASSUME NEW a \in Addrs, Asked("connect", Address(a))
        PROVE  Asked("connect", Address(a))'
    BY <1>1, <2>3, AskedRead, Requests DEF Commands
  <2>4. /\ \A c \in Commands : Asked(c, <<>>) => Asked(c, <<>>)'
        /\ Asked("connect", Length) => Asked("connect", Length)'
    BY <1>1, AskedRead, Requests DEF Commands
  <2>5. Doomed => Doomed' \/ ~NobodyAlive'
    BY <1>1, DoomedRead DEF ClosePasv, Doomed
  <2> QED  BY <1>0, <2>1, <2>2, <2>3, <2>4, <2>5 DEF DeadPhase, Commands
<1>2. ASSUME CreateClient, nobody_pc' = "recv_addr"
      PROVE  DeadPhase'
  <2>1. nobody_pc = "create" /\ to_nobody' = to_nobody
    BY <1>2 DEF CreateClient
  <2>2. ~Doomed /\ NobodyAlive /\ ~Asked("listen", <<>>) /\ ~Asked("accept", <<>>)
    BY <2>1 DEF Doomed, NobodyAlive, Asked
  <2>3. \A rest : Asked("connect", rest) => Asked("connect", rest)'
    BY <1>2, <2>1 DEF Asked
  <2> QED  BY <1>0, <2>1, <2>2, <2>3 DEF DeadPhase
<1>3. ASSUME RecvAddr, Len(to_nobody) >= 3
      PROVE  DeadPhase'
  <2>1. ~(Len(to_nobody) < 3)
    <3>1. Len(to_nobody) \in Nat
      BY DEF TypeOK
    <3> QED  BY <1>3, <3>1
  <2>2. nobody_pc = "recv_addr" /\ to_nobody' = Tail(Tail(Tail(to_nobody)))
    BY <1>3, <2>1 DEF RecvAddr
  <2> QED  BY <1>3, <2>2, RecvAddrReads, AddressParts DEF DeadPhase
<1>4. ASSUME ~NobodyAlive'
      PROVE  DeadPhase'
  BY <1>4 DEF DeadPhase
<1>5. DeadPhase'
  BY <1>1, <1>2, <1>3, <1>4
  DEF Nobody, CreateClient, RecvAddr, ConnectInActv, SendFd, ListenInPasv, ListenFails,
      AcceptInPasv, AcceptFails, SendPasvFd, ClosePasv, NobodyWrites, FtpAlive, NobodyAlive
<1> QED  BY <1>0, <1>5 DEF Conversation, session

LEMMA NobodyStep ==
  ASSUME TypeOK, Conversation, Nobody \/ NobodyKilled
  PROVE  Conversation'
<1>1. ASSUME NobodyKilled \/ ListenFails
      PROVE  Conversation'
  <2>1. ~NobodyAlive' /\ UNCHANGED <<ftp_pc, session, listeners, to_ftp>>
    BY <1>1 DEF NobodyKilled, ListenFails, NobodyAlive
  <2> QED  BY <2>1, NobodyLost
<1> QED
  BY <1>1, NobodyAlone, NobodyReads, NobodyAnswers, NobodyPasses, NobodyCloses DEF Nobody
-----------------------------------------------------------------------------
(***************************************************************************)
(* What the conversation guarantees.                                       *)
(***************************************************************************)
IInv == TypeOK /\ Conversation

\* At every instant the two processes are in matching places: what is in the
\* socketpair is what the one has asked and the other has not answered yet,
\* or the rest of a request whose helper has failed.
THEOREM ConversationHolds == Spec => []IInv
<1>1. Init => IInv
  <2> SUFFICES ASSUME Init PROVE IInv
    OBVIOUS
  <2>1. TypeOK
    BY Requests DEF Init, TypeOK, FtpPoints, NobodyPoints
  <2>2. Conversation
    BY DEF Init, Conversation, IdlePhase, Waiting
  <2> QED  BY <2>1, <2>2 DEF IInv
<1>2. IInv /\ [Next]_vars => IInv'
  <2> SUFFICES ASSUME IInv, [Next]_vars PROVE IInv'
    OBVIOUS
  <2>1. TypeOK /\ Conversation /\ TypeOK'
    BY TypeStep DEF IInv
  <2>2. CASE UNCHANGED vars
    BY <2>1, <2>2 DEF IInv, vars, session, helper, Conversation, IdlePhase, PortPhase,
       LenPhase, AddrPhase, ResultPhase, FdPhase, TransferPhase, DeadPhase, Waiting, Closing, Rested,
       Asked, Doomed, Starts, Refused, Connected, Passed, Wanted, NobodyAlive
  <2>3. CASE Ftp
    BY <2>1, <2>3, FtpWritesNothing, FtpAsks, FtpReads DEF IInv, Ftp, FtpInside
  <2>4. CASE Nobody \/ NobodyKilled
    BY <2>1, <2>4, NobodyStep DEF IInv
  <2> QED  BY <2>2, <2>3, <2>4 DEF Next
<1> QED  BY <1>1, <1>2, PTL DEF Spec

\* Every variable keeps its type: only tokens travel between the processes,
\* and the descriptor that arrives leads to an endpoint.
THEOREM ConnectionTypes == Spec => []TypeOK
<1>1. IInv => TypeOK
  BY DEF IInv
<1> QED  BY <1>1, ConversationHolds, PTL

\* establish_transfer() never transfers over a connection to an address or a
\* port that the client of this command did not ask for.
THEOREM ConnectionMatches == Spec => []MatchedConnection
<1>1. IInv => MatchedConnection
  BY DEF IInv, Conversation, TransferPhase, Wanted, MatchedConnection
<1> QED  BY <1>1, ConversationHolds, PTL

\* Nothing is left in the FTP process's end of the socketpair when it goes
\* back to its command loop.
THEOREM AnswersInOrder == Spec => []NoStaleAnswer
<1>1. IInv => NoStaleAnswer
  BY DEF IInv, Conversation, IdlePhase, NoStaleAnswer
<1> QED  BY <1>1, ConversationHolds, PTL

\* Whenever accept_in_pasv() is called for a living session, the variable holds
\* an open socket and the port its client was told; and the one a running
\* passive transfer came from is closed once the call has returned.
THEOREM ListenersFollowTheSession == Spec => []ListenersMatch
<1>1. IInv => AcceptsOnToldPort
  BY NobodyServes DEF IInv, AcceptsOnToldPort
<1>2. IInv => ClosedAfterUse
  <2> SUFFICES ASSUME IInv, ftp_pc = "transfer", data_fd # None, data_fd.mode = "pasv",
                      NobodyAlive, nobody_pc # "close_pasv"
               PROVE  data_fd.at \notin listeners
    BY DEF ClosedAfterUse
  <2>1. data_fd = Wanted /\ Passed /\ active_port # active_pasv
    BY DEF IInv, Conversation, TransferPhase, Rested
  <2>2. ~active_port /\ data_fd.at = told_port
    BY <2>1 DEF Wanted, Active, Passive, IInv, TypeOK
  <2> QED  BY <2>1, <2>2 DEF Passed, IInv, TypeOK
<1>3. IInv => ListenersMatch
  BY <1>1, <1>2 DEF ListenersMatch
<1> QED  BY <1>3, ConversationHolds, PTL

\* When the FTP process is in read() on the socketpair, the nobody process has
\* something to read or something to say, or is gone.
THEOREM NeverBothWaiting == Spec => []NoMutualWait
<1>1. ASSUME IInv, FtpAlive, nobody_pc = "recv_addr"
      PROVE  ftp_pc = "await_result" => Len(to_nobody) = 3
  BY <1>1, NobodyServes, AddressParts DEF IInv, Conversation
<1>2. ASSUME IInv, nobody_pc = "get_char", to_nobody = <<>>
      PROVE  \A c \in Commands : \A rest \in Seq(Tokens) : ~Asked(c, rest)
  <2> SUFFICES ASSUME NEW c \in Commands, NEW rest \in Seq(Tokens), Asked(c, rest)
               PROVE  FALSE
    OBVIOUS
  <2>1. to_nobody = <<Token(c)>> \o rest
    BY <1>2 DEF Asked, Commands
  <2>2. Token(c) \in Tokens
    BY TokenTypes DEF Commands, Bytes
  <2> QED  BY <1>2, <2>1, <2>2, FirstToken
<1>3. ASSUME IInv, nobody_pc = "get_char", to_nobody = <<>>
      PROVE  ~Doomed /\ ~Connected /\ NobodyAlive
  BY <1>3 DEF Doomed, Starts, Connected, NobodyAlive
<1>4. IInv => NoMutualWait
  <2> SUFFICES ASSUME IInv, ftp_pc \in {"await_port", "await_result", "await_fd"},
                      to_ftp = <<>>
               PROVE  /\ ~(nobody_pc = "get_char" /\ to_nobody = <<>>)
                      /\ ~(nobody_pc = "recv_addr" /\ Len(to_nobody) < 3)
    BY DEF NoMutualWait
  <2>1. ASSUME nobody_pc = "recv_addr" PROVE ~(Len(to_nobody) < 3)
    <3>1. ftp_pc = "await_result"
      BY <2>1, NobodyServes DEF IInv, FtpAlive
    <3> QED  BY <1>1, <2>1, <3>1 DEF FtpAlive
  <2>2. ASSUME nobody_pc = "get_char", to_nobody = <<>> PROVE FALSE
    <3>1. /\ ~Asked("listen", <<>>) /\ ~Asked("accept", <<>>)
          /\ active_port => ~Asked("connect", Address(port_addr))
          /\ ~Doomed /\ ~Connected /\ NobodyAlive
      BY <1>2, <1>3, <2>2, Requests DEF Commands, IInv, Conversation
    <3> QED  BY <2>2, <3>1 DEF IInv, Conversation, PortPhase, ResultPhase, FdPhase
  <2> QED  BY <2>1, <2>2
<1> QED  BY <1>4, ConversationHolds, PTL
-----------------------------------------------------------------------------
(***************************************************************************)
(* The two processes implement DataChannel.                                *)
(***************************************************************************)
Prepared ==
  IF ~FtpAlive THEN {} ELSE
    {e \in {Active(port_addr)} : active_port} \cup {e \in {Passive(told_port)} : active_pasv}
Pending == ftp_pc \in {"send_len", "send_addr", "await_result", "await_fd"}
OverChannel == IF ftp_pc = "transfer" THEN data_fd ELSE None

\* The nobody process shows the FTP process nothing but its end.
LEMMA NobodyImplements ==
  ASSUME TypeOK, Nobody \/ NobodyKilled
  PROVE  Channel!Next \/ UNCHANGED Channel!vars
<1>1. UNCHANGED <<ftp_pc, session>> /\ NobodyAlive
  BY DEF Nobody, NobodyKilled, GetChar, Switch, CreateClient, RecvAddr, ConnectInActv, SendFd,
     ListenInPasv, ListenFails, AcceptInPasv, AcceptFails, SendPasvFd, ClosePasv, NobodyAlive
<1>2. UNCHANGED <<Prepared, Pending, OverChannel>>
  BY <1>1 DEF Prepared, Pending, OverChannel, FtpAlive, session
<1>3. CASE NobodyAlive'
  BY <1>1, <1>2, <1>3 DEF Channel!vars, Prepared, Pending, OverChannel
<1>4. CASE ~NobodyAlive'
  BY <1>1, <1>2, <1>4 DEF Channel!Next, Channel!LoseHelper, Prepared, Pending, OverChannel
<1> QED  BY <1>3, <1>4

\* A session that ends or leaves a transfer has nothing prepared.
LEMMA Closes ==
  ASSUME NobodyAlive' <=> NobodyAlive,
         ftp_pc' = "dead" \/ (ftp_pc' = "idle" /\ ResetDataFd)
  PROVE  Channel!Next
<1>1. Prepared' = {} /\ ~Pending' /\ OverChannel' = None
  BY DEF Prepared, Pending, OverChannel, ResetDataFd, FtpAlive
<1>2. Channel!Close
  BY <1>1 DEF Channel!Close, Prepared, Pending, OverChannel
<1> QED  BY <1>2 DEF Channel!Next

LEMMA FtpImplements ==
  ASSUME IInv, IInv', Ftp
  PROVE  Channel!Next \/ UNCHANGED Channel!vars
<1>0. TypeOK /\ Conversation /\ TypeOK' /\ NobodyAlive' = NobodyAlive /\ FtpAlive
  BY DEF IInv, Ftp, FtpInside, HandlePort, AskPort, ReadPort, RefuseTransfer, AskConnect,
     SendLen, SendAddr, AskAccept, ReadResult, ReadFd, EndTransfer, FtpExits, FtpWrites,
     helper, NobodyAlive, FtpAlive
<1>1. ASSUME \/ ftp_pc' = "dead" \/ RefuseTransfer \/ EndTransfer
      PROVE  Channel!Next
  BY <1>0, <1>1, Closes DEF RefuseTransfer, EndTransfer
<1>2. ASSUME NEW a \in Addrs, HandlePort(a)
      PROVE  Channel!Next
  <2>1. Active(a) \in Endpoints
    BY TokenTypes
  <2>2. Channel!Prepare(Active(a))
    BY <1>0, <1>2 DEF HandlePort, Channel!Prepare, Active, Passive, FtpAlive, TypeOK
  <2> QED  BY <2>1, <2>2 DEF Channel!Next
<1>3. CASE ReadPort
  <2>1. Passive(told_port') \in Endpoints
    BY <1>0, TokenTypes DEF TypeOK
  <2>2. Channel!Prepare(Passive(told_port'))
    BY <1>0, <1>3 DEF ReadPort, Channel!Prepare, Active, Passive, FtpAlive
  <2> QED  BY <2>1, <2>2 DEF Channel!Next
<1>4. ASSUME AskPort \/ SendLen \/ SendAddr, ftp_pc' # "dead"
      PROVE  UNCHANGED Channel!vars
  BY <1>0, <1>4 DEF AskPort, SendLen, SendAddr, FtpWrites, Channel!vars, FtpAlive, session
<1>5. ASSUME AskConnect \/ AskAccept, ftp_pc' # "dead"
      PROVE  Channel!Next
  <2>1. Channel!Ask
    BY <1>0, <1>5 DEF AskConnect, AskAccept, FtpWrites, Channel!Ask, FtpAlive, session
  <2> QED  BY <2>1 DEF Channel!Next
<1>6. ASSUME ReadResult, ftp_pc' # "dead"
      PROVE  Channel!Next \/ UNCHANGED Channel!vars
  <2>1. PICK res \in {"zero", "bad", "ok", "other"} :
          /\ Starts(to_ftp, res) \/ (to_ftp = <<>> /\ ~NobodyAlive)
          /\ ActOnResult(res)
    BY <1>6 DEF ReadResult
  <2>2. CASE res = "bad"
    BY <1>0, <2>1, <2>2, Closes DEF ActOnResult
  <2>3. CASE res = "ok"
    BY <1>0, <1>6, <2>1, <2>3 DEF ReadResult, ActOnResult, Channel!vars, FtpAlive, session
  <2>4. CASE res = "other"
    <3>1. ResultPhase /\ ftp_pc' = "transfer" /\ UNCHANGED session /\ ftp_pc = "await_result"
      BY <1>0, <1>6, <2>1, <2>4 DEF ReadResult, ActOnResult, Conversation
    <3>2. ~Starts(to_ftp, "other")
      BY <3>1 DEF ResultPhase, Refused, Starts, Token
    <3>3. ~NobodyAlive /\ data_fd' = None
      BY <2>1, <2>4, <3>1, <3>2 DEF ResultPhase, session
    <3>4. Channel!Connect(None)
      BY <1>0, <3>1, <3>3 DEF Channel!Connect, FtpAlive, session
    <3> QED  BY <3>4 DEF Channel!Next
  <2> QED  BY <1>6, <2>1, <2>2, <2>3, <2>4 DEF ActOnResult
<1>7. ASSUME ReadFd, ftp_pc' # "dead"
      PROVE  Channel!Next
  <2>1. /\ ftp_pc = "await_fd" /\ ftp_pc' = "transfer"
        /\ Starts(to_ftp, "fd") /\ data_fd' = Head(to_ftp).value
        /\ UNCHANGED <<active_port, port_addr, active_pasv, told_port>>
    BY <1>7 DEF ReadFd
  <2>2. data_fd' = Wanted /\ active_port # active_pasv
    BY <1>0, <2>1 DEF Conversation, FdPhase, Starts, Carry
  <2>3. Prepared = {Wanted} /\ Wanted \in Endpoints
    BY <1>0, <2>2, TokenTypes DEF Prepared, Wanted, TypeOK, Conversation
  <2>4. Channel!Connect(Wanted)
    BY <1>0, <2>1, <2>2, <2>3 DEF Channel!Connect, Prepared, FtpAlive
  <2> QED  BY <2>3, <2>4 DEF Channel!Next
<1> QED
  BY <1>1, <1>2, <1>3, <1>4, <1>5, <1>6, <1>7 DEF Ftp, FtpInside, FtpExits

\* Whichever process dies and whenever, the pair gives a session what the
\* abstract channel promises: the endpoint it prepared or a refusal.
THEOREM ChannelImplemented == Spec => ChannelSpec
<1>1. Init => Channel!Init
  BY DEF Init, Channel!Init, FtpAlive, NobodyAlive
<1>2. IInv /\ IInv' /\ [Next]_vars => [Channel!Next]_Channel!vars
  <2> SUFFICES ASSUME IInv, IInv', [Next]_vars
               PROVE  Channel!Next \/ UNCHANGED Channel!vars
    OBVIOUS
  <2>1. CASE UNCHANGED vars
    BY <2>1 DEF vars, session, helper, Channel!vars, FtpAlive, NobodyAlive
  <2> QED  BY <2>1, FtpImplements, NobodyImplements DEF Next, IInv
<1> QED  BY <1>1, <1>2, ConversationHolds, PTL DEF Spec, ChannelSpec, Channel!Spec
=============================================================================
