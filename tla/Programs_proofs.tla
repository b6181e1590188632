--------------------------- MODULE Programs_proofs ---------------------------
(***************************************************************************)
(* Proofs about a session of the programs of Lectures 1 and 2, for any     *)
(* number of clients of any kind: what EchoLoops_proofs shows of the epoll *)
(* server against arbitrary clients carries over to the repository's own   *)
(* clients, and the two servers of Lecture 1 answer as they should.        *)
(***************************************************************************)
EXTENDS Programs, EchoLoops_proofs

\* One program at a time is listening on the port.
OneServer ==
  /\ pc # "down" => syncPc = "off"
  /\ pc = "down" => events = <<>>

\* The TCP server of Lecture 1 works on an open connection, and owes something.
SyncBusy ==
  /\ syncPc \in {"recv", "send", "close"} => SyncConn # NoConn
  /\ syncPc = "send" => syncOwed > 0

(***************************************************************************)
(* What the loop of EchoEpoll keeps true, with no descriptors beside its   *)
(* own.  The server of Lecture 1 does not keep it: it closes a connection  *)
(* it has not read to the end, and sends more than it read.                *)
(***************************************************************************)
ServerInv == syncPc = "off" => EpollInv({}) /\ Accounted(Conns, {})

TcpInv ==
  /\ NetInv /\ EchoTypeOK /\ EpollLists
  /\ ServerInv /\ OneServer /\ ClientsTypeOK /\ SyncTypeOK /\ SyncBusy
-----------------------------------------------------------------------------
LEMMA TcpStarts == SessionInit => TcpInv
<1> SUFFICES ASSUME SessionInit PROVE TcpInv
  OBVIOUS
<1>1. /\ NetInit /\ ClientsInit /\ pc \in {"wait", "down"} /\ cur = 1 /\ owed = 0
      /\ events = <<>> /\ interest = {} /\ syncPc \in {"accept", "off"} /\ syncOwed = 0
      /\ pc # "down" => syncPc = "off"
  BY DEF SessionInit
<1>2. events \in Seq(Fds \cup {ListenFd}) /\ DOMAIN events = {}
  BY <1>1, EmptySeq
<1>3. NetInv
  BY <1>1, NetStarts
<1>4. ServeInv
  <2>1. EchoTypeOK
    BY <1>1, SocketsAssumption DEF EchoTypeOK, Fds
  <2>2. Busy /\ ReadToTheEnd
    BY <1>1 DEF NetInit, Busy, ReadToTheEnd, Working
  <2> QED
    BY <1>3, <2>1, <2>2 DEF ServeInv
<1>5. EpollInv({}) /\ Accounted(Conns, {})
  <2>1. OpenBeside({}) = {} /\ Beside({})
    BY <1>1 DEF NetInit, OpenBeside, Beside, Working
  <2>2. EpollLists /\ Interest({}) /\ Batch /\ NoBlindRead
    BY <1>1, <1>2, <2>1 DEF EpollLists, Interest, Batch, NoBlindRead
  <2>3. ASSUME NEW c \in Conns PROVE told[c] = 0 /\ rcvd[c] = 0 /\ Pending(c) = 0
    BY <1>1 DEF NetInit, Pending
  <2>4. 0 + 0 <= 0 /\ ~(0 + 0 < 0)
    OBVIOUS
  <2>5. Accounted(Conns, {})
    BY <2>3, <2>4, Zenon DEF Accounted
  <2> QED
    BY <1>4, <2>1, <2>2, <2>5 DEF EpollInv
<1>6. OneServer /\ ClientsTypeOK /\ SyncTypeOK /\ SyncBusy
  BY <1>1 DEF OneServer, ClientsInit, ClientsTypeOK, SyncTypeOK, SyncBusy
<1> QED
  BY <1>5, <1>6 DEF TcpInv, ServerInv, EpollInv, ServeInv

\* A client program does to the sockets what EchoServer lets clients do.
LEMMA ClientIsAClient ==
  ASSUME NEW c \in Conns, TcpClient(c)
  PROVE  /\ UNCHANGED <<echoVars, epollLoopVars, syncVars, udpVars, fdConn, rcvd, told>>
         /\ \/ UNCHANGED netVars
            \/ Connect(c) /\ (pc # "down" \/ syncPc # "off")
            \/ (\E n \in 1 .. MaxSay : Deliver(c, n)) \/ EndStream(c) \/ Reset(c) \/ Hear(c)
<1>1. /\ Client(c, Listening)
      /\ UNCHANGED <<echoVars, epollLoopVars, syncVars, udpVars>>
  BY DEF TcpClient
<1>2. Connect(c) => pc # "down" \/ syncPc # "off" \/ UNCHANGED netVars
  BY <1>1 DEF Listening, Client, Begin, Interrupted, ConnectTimeout, AnswerTimeout,
              Proceeds, Greet, Refused, ReadAnswer, AnswerEnds, Segment, Fin, Rst,
              Connect, Deliver, EndStream, Reset, Hear, Goes
<1>3. \/ UNCHANGED netVars
      \/ Connect(c)
      \/ (\E n \in 1 .. MaxSay : Deliver(c, n)) \/ EndStream(c) \/ Reset(c) \/ Hear(c)
  BY <1>1, SessionAssumption
     DEF Client, Begin, Interrupted, ConnectTimeout, AnswerTimeout, Proceeds,
         Greet, Refused, ReadAnswer, AnswerEnds, Segment, Fin, Rst
<1>4. UNCHANGED <<fdConn, rcvd, told>>
  BY <1>3 DEF netVars, Connect, Deliver, EndStream, Reset, Hear
<1> QED
  BY <1>1, <1>2, <1>3, <1>4

\* Where the epoll server is the one that was started, clients step as its clients do.
LEMMA ClientStepIsEpolls ==
  ASSUME syncPc = "off", NEW c \in Conns, TcpClient(c)
  PROVE  [EpollNext]_epollVars
<1>1. /\ UNCHANGED <<echoVars, epollLoopVars>>
      /\ \/ UNCHANGED netVars
         \/ Connect(c) /\ pc # "down"
         \/ (\E n \in 1 .. MaxSay : Deliver(c, n)) \/ EndStream(c) \/ Reset(c) \/ Hear(c)
  BY ClientIsAClient
<1>2. UNCHANGED epollVars \/ (ClientStep /\ UNCHANGED epollLoopVars)
  BY <1>1, SessionAssumption DEF epollVars, ClientStep, Ask, Say, Leave, Vanish
<1> QED
  BY <1>2 DEF EpollNext

\* Every step of the session that is taken while the epoll server runs is one of its own.
LEMMA StepIsEpolls ==
  ASSUME OneServer, pc # "down", [SessionNext]_sessionVars
  PROVE  [EpollNext]_epollVars
<1>1. ASSUME NEW c \in Conns, TcpClient(c) PROVE [EpollNext]_epollVars
  BY <1>1, ClientStepIsEpolls DEF OneServer
<1>2. CASE EpollTurn
  BY <1>2 DEF EpollTurn, EpollNext
<1>3. CASE TcpStep
  BY <1>3 DEF TcpStep, SyncStep, SyncAccept, SyncRecv, SyncSend, SyncClose, SyncExit,
              OneServer
<1>4. CASE Datagram
  BY <1>4 DEF Datagram
<1>5. CASE UNCHANGED sessionVars
  BY <1>5 DEF sessionVars
<1> QED
  BY <1>1, <1>2, <1>3, <1>4, <1>5 DEF SessionNext, SessionIdle

LEMMA EpollKeepsServer ==
  ASSUME syncPc = "off", syncPc' = "off", ServerInv, [EpollNext]_epollVars
  PROVE  ServerInv' /\ NetInv' /\ EchoTypeOK' /\ EpollLists'
<1>1. EpollInv({}) /\ Accounted(Conns, {})
  BY DEF ServerInv
<1>2. EpollInv({})' /\ Accounted(Conns, {})'
  BY <1>1, EpollNextInv, EpollAccounts
<1> QED
  BY <1>2 DEF ServerInv, EpollInv, ServeInv

LEMMA ClientKeepsTcp ==
  ASSUME TcpInv, NEW c \in Conns, TcpClient(c)
  PROVE  TcpInv' /\ UNCHANGED <<pc, syncPc, syncOwed>>
<1>1. /\ UNCHANGED <<echoVars, epollLoopVars, syncVars, fdConn>>
      /\ \/ UNCHANGED netVars
         \/ Connect(c)
         \/ (\E n \in 1 .. MaxSay : Deliver(c, n)) \/ EndStream(c) \/ Reset(c) \/ Hear(c)
  BY ClientIsAClient
<1>2. NetInv'
  <2>1. NetInv /\ 1 .. MaxSay \subseteq Nat
    BY EchoAssumption DEF TcpInv
  <2> QED
    BY <1>1, <2>1, NetStutters, ConnectKeeps, ArrivalKeeps
<1>3. ServerInv' /\ EchoTypeOK' /\ EpollLists'
  <2>1. CASE syncPc = "off"
    BY <1>1, <2>1, ClientStepIsEpolls, EpollKeepsServer DEF TcpInv, syncVars
  <2>2. CASE syncPc # "off"
    BY <1>1, <2>2
       DEF TcpInv, ServerInv, EchoTypeOK, EpollLists, echoVars, epollLoopVars, syncVars
  <2> QED
    BY <2>1, <2>2
<1>4. ClientsTypeOK'
  BY DEF TcpInv, ClientsTypeOK, TcpClient, Client, Begin, Interrupted, ConnectTimeout,
         AnswerTimeout, Proceeds, Greet, Refused, ReadAnswer, AnswerEnds, Segment, Fin,
         Rst, Goes
<1>5. OneServer' /\ SyncTypeOK' /\ SyncBusy'
  BY <1>1
     DEF TcpInv, OneServer, SyncTypeOK, SyncBusy, SyncConn, echoVars, epollLoopVars,
         syncVars
<1> QED
  BY <1>1, <1>2, <1>3, <1>4, <1>5 DEF TcpInv, echoVars, syncVars

LEMMA EpollKeepsTcp ==
  ASSUME TcpInv, EpollTurn
  PROVE  TcpInv'
<1>1. /\ EpollStep /\ UNCHANGED <<at, syncPc, syncOwed>>
  BY DEF EpollTurn, tcpVars, syncVars
<1>2. pc # "down" /\ (pc' = "down" => events' = <<>>)
  BY <1>1 DEF EpollStep, EpollWait, EpollAccept, EpollRead, EpollEcho, ReadThenSend,
              EpollSent, SendOn, SendLost, EpollHangUp, ReadEnd, EpollFails,
              EpollAcceptFailed, ReadError, BrokenPipe, AfterEvent
<1>3. ServerInv' /\ NetInv' /\ EchoTypeOK' /\ EpollLists'
  BY <1>1, <1>2, EpollKeepsServer DEF TcpInv, OneServer, EpollNext
<1>4. OneServer' /\ ClientsTypeOK' /\ SyncTypeOK' /\ SyncBusy'
  BY <1>1, <1>2 DEF TcpInv, OneServer, ClientsTypeOK, SyncTypeOK, SyncBusy
<1> QED
  BY <1>3, <1>4 DEF TcpInv

\* A step of the TCP server of Lecture 1, on the one descriptor it uses.
LEMMA SyncKeepsTcp ==
  ASSUME TcpInv, TcpStep
  PROVE  TcpInv'
<1>1. /\ SyncStep /\ UNCHANGED <<echoVars, epollLoopVars, at>>
  BY DEF TcpStep, SyncStep, SyncAccept, SyncRecv, SyncSend, SyncClose, SyncExit
<1>2. syncPc # "off" /\ pc = "down" /\ events = <<>>
  BY <1>1 DEF TcpInv, OneServer, SyncStep, SyncAccept, SyncRecv, SyncSend, SyncClose,
              SyncExit
<1>3. /\ NetInv /\ client_fd \in Fds /\ syncOwed \in Nat
      /\ syncPc \in {"recv", "send", "close"} =>
           /\ SyncConn \in Conns /\ phase[SyncConn] = "open" /\ fdConn[client_fd] # NoConn
           /\ sent[SyncConn] \in Nat /\ rcvd[SyncConn] \in Nat /\ told[SyncConn] \in Nat
           /\ heard[SyncConn] \in Nat
  BY SocketsAssumption
     DEF TcpInv, NetInv, NetTypeOK, TableSound, SyncTypeOK, SyncBusy, SyncConn, client_fd,
         Fds
<1>4. NetInv' /\ SyncTypeOK' /\ SyncBusy' /\ syncPc' # "off"
  <2>1. CASE SyncAccept
    <3>1. NetInv' /\ fdConn'[client_fd] \in Conns
      BY <1>3, <2>1, AcceptKeeps DEF SyncAccept
    <3> QED
      BY <2>1, <3>1, ConnectionsAssumption
         DEF SyncAccept, TcpInv, SyncTypeOK, SyncBusy, SyncConn
  <2>2. CASE SyncRecv
    <3>1. syncPc = "recv" /\ syncPc' = "send" /\ fdConn' = fdConn
      BY <2>2 DEF SyncRecv, RecvData, RecvEnd
    <3>2. NetInv'
      BY <1>3, <2>2, <3>1, RecvKeeps DEF SyncRecv
    <3>3. syncOwed' \in Nat /\ syncOwed' > 0
      <4>1. CASE RecvData(SyncConn) /\ syncOwed' = Greeting + Received(SyncConn) - rcvd[SyncConn]
        BY <1>3, <3>1, <4>1, SocketsAssumption DEF RecvData, Received, Least, Greeting
      <4>2. CASE RecvEnd(SyncConn) /\ syncOwed' = Greeting
        BY <4>2 DEF Greeting
      <4> QED
        BY <2>2, <4>1, <4>2 DEF SyncRecv
    <3> QED
      BY <1>3, <3>1, <3>2, <3>3 DEF TcpInv, SyncTypeOK, SyncBusy, SyncConn
  <2>3. CASE SyncSend
    <3>1. /\ syncPc = "send" /\ syncPc' \in {"send", "close"} /\ fdConn' = fdConn
          /\ syncOwed > 0 /\ (syncPc' = "send" => syncOwed' # 0)
      BY <2>3 DEF SyncSend, SendSome, SendFails, TcpInv, SyncBusy
    <3>2. NetInv' /\ syncOwed' \in Nat
      <4>1. CASE /\ SendSome(SyncConn, syncOwed)
                 /\ syncOwed' = syncOwed - (told'[SyncConn] - told[SyncConn])
        <5> DEFINE size == told[SyncConn] + syncOwed
        <5>1. size \in Nat /\ told[SyncConn] < size /\ size - told[SyncConn] = syncOwed
          BY <1>3, <3>1
        <5>2. SendSome(SyncConn, size - told[SyncConn])
          BY <4>1, <5>1
        <5> HIDE DEF size
        <5>3. NetInv' /\ told'[SyncConn] <= size
          BY <1>3, <3>1, <5>1, <5>2, SendKeeps
        <5>4. told'[SyncConn] \in Nat
          BY <1>3, <3>1, <5>3 DEF NetInv, NetTypeOK
        <5> QED
          BY <1>3, <3>1, <4>1, <5>3, <5>4 DEF size
      <4>2. CASE SendFails(SyncConn) /\ syncOwed' = 0
        BY <1>3, <3>1, <4>2, SendFailsKeeps
      <4> QED
        BY <2>3, <4>1, <4>2 DEF SyncSend
    <3> QED
      BY <1>3, <3>1, <3>2 DEF TcpInv, SyncTypeOK, SyncBusy, SyncConn
  <2>4. CASE SyncClose
    BY <1>3, <2>4, CloseKeeps DEF SyncClose, TcpInv, SyncTypeOK, SyncBusy
  <2>5. CASE SyncExit
    BY <1>3, <2>5, CloseAllKeeps DEF SyncExit, TcpInv, SyncTypeOK, SyncBusy
  <2> QED
    BY <1>1, <2>1, <2>2, <2>3, <2>4, <2>5 DEF SyncStep
<1>5. ServerInv' /\ EchoTypeOK' /\ EpollLists'
  BY <1>1, <1>4
     DEF TcpInv, ServerInv, EchoTypeOK, EpollLists, echoVars, epollLoopVars
<1>6. OneServer' /\ ClientsTypeOK'
  BY <1>1, <1>2 DEF TcpInv, OneServer, ClientsTypeOK, echoVars, epollLoopVars
<1> QED
  BY <1>4, <1>5, <1>6 DEF TcpInv

LEMMA StutterKeepsTcp ==
  ASSUME TcpInv, UNCHANGED <<epollVars, tcpVars>>
  PROVE  TcpInv'
<1>1. ServerInv' /\ NetInv' /\ EchoTypeOK' /\ EpollLists'
  <2>1. CASE syncPc = "off"
    BY <2>1, EpollKeepsServer DEF TcpInv, epollVars, tcpVars, syncVars
  <2>2. CASE syncPc # "off"
    BY <2>2, NetStutters
       DEF TcpInv, ServerInv, EchoTypeOK, EpollLists, epollVars, echoVars, epollLoopVars,
           tcpVars, syncVars
  <2> QED
    BY <2>1, <2>2
<1>2. OneServer' /\ ClientsTypeOK' /\ SyncTypeOK' /\ SyncBusy'
  BY DEF TcpInv, OneServer, ClientsTypeOK, SyncTypeOK, SyncBusy, SyncConn, epollVars,
         netVars, echoVars, epollLoopVars, tcpVars, syncVars
<1> QED
  BY <1>1, <1>2 DEF TcpInv

LEMMA NextTcpInv == TcpInv /\ [SessionNext]_sessionVars => TcpInv'
<1> SUFFICES ASSUME TcpInv, [SessionNext]_sessionVars PROVE TcpInv'
  OBVIOUS
<1>1. CASE \E c \in Conns : TcpClient(c)
  BY <1>1, ClientKeepsTcp
<1>2. CASE EpollTurn
  BY <1>2, EpollKeepsTcp
<1>3. CASE TcpStep
  BY <1>3, SyncKeepsTcp
<1>4. CASE Datagram \/ UNCHANGED sessionVars
  BY <1>4, StutterKeepsTcp DEF Datagram, sessionVars
<1> QED
  BY <1>1, <1>2, <1>3, <1>4 DEF SessionNext, SessionIdle

LEMMA TcpInvHolds == SessionSpec => []TcpInv
BY TcpStarts, NextTcpInv, PTL DEF SessionSpec
-----------------------------------------------------------------------------
(* Who resets the connections of the epoll server. *)

(***************************************************************************)
(* A connection the epoll server still holds is reset only by a client     *)
(* that ended with a part of its echo unread: what was sent back was read, *)
(* what was read was sent, and the kernel of a client that has heard all   *)
(* it was told ends the stream instead.                                    *)
(***************************************************************************)
LeftEarly ==
  pc # "down" =>
    \A c \in Conns :
      /\ rcvd[c] <= sent[c]
      /\ phase[c] = "new" => peer[c] = "live"
      /\ phase[c] \in {"queued", "open"} /\ peer[c] \in {"rst", "gone"} =>
           at[c] = "done" /\ heard[c] < sent[c]

LEMMA NetTypes ==
  ASSUME TcpInv
  PROVE  /\ phase \in [Conns -> Phases] /\ peer \in [Conns -> Peers] /\ sent \in [Conns -> Nat]
         /\ rcvd \in [Conns -> Nat] /\ told \in [Conns -> Nat] /\ heard \in [Conns -> Nat]
         /\ at \in [Conns -> {"start", "connect", "await", "done"}]
BY DEF TcpInv, NetInv, NetTypeOK, ClientsTypeOK

LEMMA ClientKeepsLeft ==
  ASSUME TcpInv, LeftEarly, pc # "down", NEW c \in Conns, TcpClient(c)
  PROVE  LeftEarly'
<1>1. Client(c, Listening) /\ UNCHANGED <<pc, rcvd, told>>
  BY ClientIsAClient DEF TcpClient, echoVars
<1>2. CASE Begin(c) \/ Refused(c) \/ ConnectTimeout(c) \/ AnswerTimeout(c) \/ AnswerEnds(c)
  BY <1>1, <1>2, NetTypes
     DEF Begin, Refused, ConnectTimeout, AnswerTimeout, AnswerEnds, Goes, netVars, LeftEarly
<1>3. CASE Greet(c)
  BY <1>1, <1>3, NetTypes DEF Greet, Goes, Connect, LeftEarly
<1>4. CASE Interrupted(c) \/ Fin(c)
  BY <1>1, <1>4, NetTypes DEF Interrupted, Fin, Goes, EndStream, LeftEarly
<1>5. CASE ReadAnswer(c)
  BY <1>1, <1>5, NetTypes DEF ReadAnswer, Goes, Hear, LeftEarly
<1>6. CASE Segment(c)
  BY <1>1, <1>6, NetTypes, ClientsAssumption DEF Segment, Deliver, LeftEarly
<1>7. CASE Rst(c)
  <2>1. /\ at[c] = "done" /\ told[c] > heard[c] /\ peer[c] \in {"live", "fin"}
        /\ peer' = [peer EXCEPT ![c] = peer'[c]]
        /\ UNCHANGED <<phase, sent, heard, at>>
    BY <1>7, NetTypes DEF Rst, Reset
  <2>2. told[c] + Pending(c) = rcvd[c] /\ Pending(c) \in Nat /\ rcvd[c] <= sent[c]
    BY <2>1, AccountedInFull
       DEF TcpInv, OneServer, ServerInv, EpollInv, EchoTypeOK, Pending, LeftEarly
  <2>3. heard[c] < sent[c]
    BY <2>1, <2>2, NetTypes
  <2>4. phase[c] # "new"
    BY <1>7 DEF Rst, Reset
  <2> QED
    BY <1>1, <2>1, <2>3, <2>4, NetTypes DEF LeftEarly
<1> QED
  BY <1>1, <1>2, <1>3, <1>4, <1>5, <1>6, <1>7 DEF Client, Proceeds

LEMMA EpollKeepsLeft ==
  ASSUME TcpInv, LeftEarly, EpollTurn, pc' # "down"
  PROVE  LeftEarly'
<1>1. EpollStep /\ at' = at
  BY DEF EpollTurn, tcpVars
<1>2. CASE EpollWait \/ EpollRead
  BY <1>1, <1>2 DEF EpollWait, EpollRead, netVars, LeftEarly
<1>3. CASE EpollAccept
  <2>1. pc # "down" /\ UNCHANGED <<sent, rcvd, peer, heard>>
    BY <1>3 DEF EpollAccept, Accepted
  <2>2. /\ phase' = [phase EXCEPT ![Head(backlog)] = "open"]
        /\ Head(backlog) \in Conns /\ phase[Head(backlog)] = "queued"
    <3>1. backlog \in Seq(Conns) /\ backlog # <<>>
      BY <1>3 DEF EpollAccept, Accepted, TcpInv, NetInv, NetTypeOK
    <3>2. Head(backlog) = backlog[1] /\ 1 \in DOMAIN backlog /\ Head(backlog) \in Conns
      BY <3>1, LenProperties, HeadTailProperties, EmptySeq
    <3> QED
      BY <1>3, <3>1, <3>2
         DEF EpollAccept, Accepted, TcpInv, NetInv, QueueSound
  <2> QED
    BY <1>1, <2>1, <2>2, NetTypes DEF LeftEarly
<1>4. CASE EpollEcho
  <2>1. pc = "read" /\ RecvData(Conn)
    BY <1>4 DEF EpollEcho, ReadThenSend
  <2>2. Conn \in Conns /\ Received(Conn) <= sent[Conn]
    BY <2>1, ServedIsOpen, SocketsAssumption
       DEF Working, TcpInv, OneServer, ServerInv, EpollInv, Received, Least
  <2> QED
    BY <1>1, <2>1, <2>2, NetTypes DEF RecvData, LeftEarly
<1>5. CASE EpollSent
  <2>1. pc = "send" /\ UNCHANGED <<phase, sent, rcvd, heard>>
    BY <1>5 DEF EpollSent, SendOn, SendLost, SendSome, SendFails
  <2>2. phase[Conn] = "open" /\ Conn \in Conns
    BY <2>1, ServedIsOpen DEF Working, TcpInv, OneServer, ServerInv, EpollInv
  <2>3. peer' = peer \/ (peer[Conn] = "rst" /\ peer' = [peer EXCEPT ![Conn] = "gone"])
    BY <1>5 DEF EpollSent, SendOn, SendLost, SendSome, SendFails
  <2> QED
    BY <1>1, <2>1, <2>2, <2>3, NetTypes DEF LeftEarly
<1>6. CASE EpollHangUp
  <2>1. /\ pc = "read" /\ sent[Conn] = rcvd[Conn]
        /\ phase' = [phase EXCEPT ![Conn] = "closed"] /\ UNCHANGED <<sent, rcvd, heard>>
        /\ peer' = [peer EXCEPT ![Conn] = IF Abandoned(Conn) THEN "gone" ELSE @]
    BY <1>6 DEF EpollHangUp, ReadEnd, CloseFd, Conn
  <2> QED
    BY <1>1, <2>1, NetTypes DEF LeftEarly
<1>7. CASE EpollFails
  BY <1>7 DEF EpollFails, EpollAcceptFailed, EndProcess
<1> QED
  BY <1>1, <1>2, <1>3, <1>4, <1>5, <1>6, <1>7 DEF EpollStep

LEMMA NextLeftEarly == TcpInv /\ LeftEarly /\ [SessionNext]_sessionVars => LeftEarly'
<1> SUFFICES ASSUME TcpInv, LeftEarly, [SessionNext]_sessionVars, pc' # "down"
             PROVE  LeftEarly'
  BY DEF LeftEarly
<1>1. CASE \E c \in Conns : TcpClient(c)
  BY <1>1, ClientKeepsLeft, ClientIsAClient DEF echoVars
<1>2. CASE EpollTurn
  BY <1>2, EpollKeepsLeft
<1>3. CASE TcpStep
  BY <1>3
     DEF TcpStep, echoVars, TcpInv, OneServer, SyncStep, SyncAccept, SyncRecv, SyncSend,
         SyncClose, SyncExit
<1>4. CASE UNCHANGED <<epollVars, tcpVars>>
  BY <1>4 DEF epollVars, netVars, echoVars, tcpVars, LeftEarly
<1> QED
  BY <1>1, <1>2, <1>3, <1>4 DEF SessionNext, SessionIdle, Datagram, sessionVars

LEMMA LeftEarlyHolds == SessionSpec => []LeftEarly
<1>1. SessionInit => LeftEarly
  <2> SUFFICES ASSUME SessionInit, NEW c \in Conns
               PROVE  rcvd[c] <= sent[c] /\ peer[c] = "live"
    BY Zenon DEF LeftEarly
  <2>1. rcvd[c] = 0 /\ sent[c] = 0 /\ peer[c] = "live"
    BY DEF SessionInit, NetInit
  <2>2. 0 <= 0
    OBVIOUS
  <2> QED
    BY <2>1, <2>2, Zenon
<1> QED
  BY <1>1, TcpInvHolds, NextLeftEarly, PTL DEF SessionSpec

\* Only an accept on a full table or a call on a reset connection ends the epoll server.
LEMMA EndIsExcused ==
  ASSUME ~AddMayFail, TcpInv, LeftEarly, [SessionNext]_sessionVars, pc # "down",
  pc' = "down"
  PROVE  \/ pc \in {"read", "send"} /\ at[Conn] = "done" /\ heard[Conn] < sent[Conn]
         \/ pc = "scan" /\ Head(events) = ListenFd /\ TableFull
<1>1. CASE \E c \in Conns : TcpClient(c)
  BY <1>1, ClientIsAClient DEF echoVars
<1>2. CASE EpollTurn
  <2>1. AfterEvent(Tail(events)) # "down" /\ AfterEvent(events) # "down"
    BY DEF AfterEvent
  <2>2. EpollFails
    <3>1. ~EpollWait /\ ~EpollAccept /\ ~EpollRead /\ ~EpollEcho /\ ~EpollHangUp
      BY <2>1 DEF EpollWait, EpollAccept, EpollRead, EpollEcho, ReadThenSend, EpollHangUp
    <3>2. ~EpollSent
      BY <2>1 DEF EpollSent, SendOn, SendLost
    <3> QED
      BY <1>2, <3>1, <3>2 DEF EpollTurn, EpollStep
  <2>3. CASE EpollAcceptFailed
    BY <2>3 DEF EpollAcceptFailed
  <2>4. CASE ReadError \/ BrokenPipe
    <3>1. pc \in Working /\ peer[Conn] \in {"rst", "gone"}
      BY <2>4 DEF ReadError, BrokenPipe, Working
    <3>2. Conn \in Conns /\ phase[Conn] = "open"
      BY <3>1, ServedIsOpen DEF TcpInv, OneServer, ServerInv, EpollInv
    <3> QED
      BY <3>1, <3>2 DEF LeftEarly, Working
  <2> QED
    BY <2>2, <2>3, <2>4 DEF EpollFails
<1>3. CASE TcpStep
  BY <1>3 DEF TcpStep, echoVars
<1>4. CASE UNCHANGED <<epollVars, tcpVars>>
  BY <1>4 DEF epollVars, echoVars
<1> QED
  BY <1>1, <1>2, <1>3, <1>4 DEF SessionNext, SessionIdle, Datagram, sessionVars
-----------------------------------------------------------------------------
(* The UDP server and its clients. *)

\* Who was read from had asked, and only the server's one answer is ever on its way.
OneDatagram ==
  /\ \A c \in UdpClients : toServer[c] > 0 => client[c] # "start"
  /\ server \in {"sendto", "down"} => client[from] # "start"
  /\ \A c \in UdpClients :
       client[c] = "done" \/ toClient[c] > 0 => server = "down" /\ c = from

UdpInv == UdpTypeOK /\ OneDatagram

LEMMA UdpStarts == SessionInit => UdpInv
<1> SUFFICES ASSUME NEW used \in BOOLEAN, UdpInit(used) PROVE UdpInv
  BY DEF SessionInit
<1>1. from \in UdpClients
  BY UdpAssumption DEF UdpInit
<1>2. /\ client = [c \in UdpClients |-> "start"]
      /\ toServer = [c \in UdpClients |-> 0] /\ toClient = [c \in UdpClients |-> 0]
      /\ server \in {"unbound", "off"} /\ lost = FALSE
  BY DEF UdpInit
<1>3. 0 \in 0 .. MaxCopies
  BY UdpAssumption
<1>4. UdpTypeOK
  BY <1>1, <1>2, <1>3 DEF UdpTypeOK
<1>5. OneDatagram
  BY <1>2 DEF OneDatagram
<1> QED
  BY <1>4, <1>5 DEF UdpInv

LEMMA UdpStepKeeps ==
  ASSUME UdpInv, UdpStep
  PROVE  UdpInv'
<1> USE DEF UdpInv, UdpTypeOK
<1>1. CASE \E c \in UdpClients : SendTo(c)
  <2>1. PICK c \in UdpClients : SendTo(c)
    BY <1>1
  <2>2. toServer' = toServer \/ toServer' = [toServer EXCEPT ![c] = 1]
    BY <2>1 DEF SendTo
  <2>3. /\ client[c] = "start" /\ client' = [client EXCEPT ![c] = "await"]
        /\ UNCHANGED <<toClient, server, from>> /\ lost' \in BOOLEAN
    BY <2>1 DEF SendTo
  <2>4. 1 \in 0 .. MaxCopies
    BY UdpAssumption
  <2> QED
    BY <2>2, <2>3, <2>4 DEF OneDatagram
<1>2. CASE ServerRecv
  BY <1>2, UdpAssumption DEF ServerRecv, OneDatagram
<1>3. CASE ServerSend
  <2>1. toClient[from] = 0 /\ \A c \in UdpClients : client[c] # "done" /\ toClient[c] = 0
    BY <1>3 DEF ServerSend, OneDatagram
  <2> QED
    BY <1>3, <2>1, UdpAssumption DEF ServerSend, OneDatagram
<1>4. CASE \E c \in UdpClients : RecvFrom(c)
  BY <1>4, UdpAssumption DEF RecvFrom, OneDatagram
<1>5. CASE Lose
  BY <1>5, UdpAssumption DEF Lose, OneDatagram
<1>6. CASE Duplicate
  BY <1>6, UdpAssumption DEF Duplicate, OneDatagram
<1>7. CASE ServerStart
  BY <1>7 DEF ServerStart, OneDatagram
<1> QED
  BY <1>1, <1>2, <1>3, <1>4, <1>5, <1>6, <1>7 DEF UdpStep, UdpProgram

LEMMA NextUdpInv == UdpInv /\ [SessionNext]_sessionVars => UdpInv'
<1> SUFFICES ASSUME UdpInv, [SessionNext]_sessionVars PROVE UdpInv'
  OBVIOUS
<1>1. CASE Datagram
  BY <1>1, UdpStepKeeps DEF Datagram
<1>2. CASE UNCHANGED udpVars
  BY <1>2 DEF UdpInv, UdpTypeOK, OneDatagram, udpVars
<1> QED
  BY <1>1, <1>2 DEF SessionNext, TcpClient, EpollTurn, TcpStep, SessionIdle, sessionVars

LEMMA UdpInvHolds == SessionSpec => []UdpInv
BY UdpStarts, NextUdpInv, PTL DEF SessionSpec
-----------------------------------------------------------------------------
(* The answer of the TCP server of Lecture 1. *)

\* A connection is made after connect, and nobody ends it while its client waits.
AtHome ==
  \A c \in Conns :
    /\ at[c] \in {"start", "connect"} => phase[c] = "new"
    /\ at[c] # "done" /\ phase[c] # "closed" => peer[c] = "live"

Sizes ==
  \A c \in Conns :
    /\ rcvd[c] <= sent[c] /\ sent[c] <= Message
    /\ phase[c] \in {"new", "queued"} => rcvd[c] = 0

\* No descriptor but client_fd is ever used, and that one for one connection.
OneFd ==
  /\ \A f \in Fds : f # client_fd => fdConn[f] = NoConn
  /\ syncPc \in {"accept", "shut", "down"} => fdConn[client_fd] = NoConn

\* What the response still lacks is what the server owes, unless nobody can get it.
Paid ==
  /\ syncPc = "recv" => told[SyncConn] = 0 /\ rcvd[SyncConn] = 0
  /\ syncPc = "send" => told[SyncConn] + syncOwed = Greeting + rcvd[SyncConn]
  /\ syncPc = "close" => told[SyncConn] = Greeting + rcvd[SyncConn] \/ peer[SyncConn] = "gone"

\* Who was read in full is not reset, and can still read the whole answer.
ClosedAnswered ==
  \A c \in Conns :
    phase[c] = "closed" /\ at[c] = "await" /\ rcvd[c] = Message
      => told[c] = Greeting + Message /\ peer[c] # "gone"

\* Who ended without an answer will not be read any more either.
DoneUnheard ==
  \A c \in Conns :
    at[c] = "done" /\ heard[c] = 0 /\ Kind[c] # "poll" =>
      /\ rcvd[c] < Message
      /\ phase[c] \in {"new", "closed"} \/ (sent[c] = 0 /\ peer[c] # "live")

AnswerInv == AtHome /\ Sizes /\ OneFd /\ Paid /\ ClosedAnswered /\ DoneUnheard

WholeInv == syncPc # "off" => AnswerInv

LEMMA WholeStarts == SessionInit => WholeInv
<1> SUFFICES ASSUME SessionInit PROVE AnswerInv
  BY DEF WholeInv
<1>1. /\ NetInit /\ ClientsInit /\ syncPc \in {"accept", "off"}
      /\ Message \in Nat
  BY ClientsAssumption DEF SessionInit
<1>2. client_fd \in Fds
  BY SocketsAssumption DEF client_fd, Fds
<1> QED
  BY <1>1, <1>2
     DEF ClientsInit, NetInit, AnswerInv, AtHome, Sizes, OneFd, Paid,
         ClosedAnswered, DoneUnheard

LEMMA ClientKeepsWhole ==
  ASSUME TcpInv, AnswerInv, NEW c \in Conns, TcpClient(c), syncPc # "off"
  PROVE  AnswerInv'
<1>1. /\ Client(c, Listening) /\ SyncConn' = SyncConn
      /\ UNCHANGED <<fdConn, rcvd, told, syncPc, syncOwed>>
  BY ClientIsAClient DEF TcpClient, syncVars, SyncConn
<1>2. /\ phase \in [Conns -> Phases] /\ peer \in [Conns -> Peers] /\ sent \in [Conns -> Nat]
      /\ rcvd \in [Conns -> Nat] /\ told \in [Conns -> Nat] /\ heard \in [Conns -> Nat]
      /\ at \in [Conns -> {"start", "connect", "await", "done"}] /\ Message \in Nat \ {0}
      /\ syncPc \in {"recv", "send", "close"} =>
           SyncConn \in Conns /\ phase[SyncConn] = "open"
      /\ Greeting = 1
  BY ClientsAssumption, SocketsAssumption
     DEF TcpInv, NetInv, NetTypeOK, ClientsTypeOK,
         SyncBusy, SyncConn, TableSound, client_fd, Fds, Greeting
<1>3. OneFd'
  BY <1>1 DEF AnswerInv, OneFd
<1>4. CASE Begin(c)
  BY <1>1, <1>2, <1>3, <1>4
     DEF Begin, Goes, netVars, AnswerInv, AtHome, Sizes, Paid, ClosedAnswered,
         DoneUnheard
<1>5. CASE Greet(c)
  BY <1>1, <1>2, <1>3, <1>5
     DEF Greet, Goes, Connect, AnswerInv, AtHome, Sizes, Paid, ClosedAnswered,
         DoneUnheard
<1>6. CASE Refused(c) \/ ConnectTimeout(c) \/ AnswerTimeout(c)
  BY <1>1, <1>2, <1>3, <1>6
     DEF Refused, ConnectTimeout, AnswerTimeout, Goes, netVars, AnswerInv, AtHome, Sizes,
         Paid, ClosedAnswered, DoneUnheard
<1>7. CASE Interrupted(c)
  BY <1>1, <1>2, <1>3, <1>7
     DEF Interrupted, Goes, EndStream, AnswerInv, AtHome, Sizes, Paid,
         ClosedAnswered, DoneUnheard
<1>8. CASE ReadAnswer(c)
  <2>1. PICK n \in heard[c] + 1 .. told[c] : heard' = [heard EXCEPT ![c] = n]
    BY <1>8 DEF ReadAnswer, Hear
  <2>2. n \in Nat /\ n > 0
    BY <1>2, <2>1
  <2>3. at' = [at EXCEPT ![c] = "done"] /\ at[c] = "await" /\ UNCHANGED <<phase, sent, peer>>
    BY <1>8 DEF ReadAnswer, Goes, Hear
  <2> QED
    BY <1>1, <1>2, <1>3, <2>1, <2>2, <2>3
       DEF AnswerInv, AtHome, Sizes, Paid, ClosedAnswered, DoneUnheard
<1>9. CASE AnswerEnds(c)
  BY <1>1, <1>2, <1>3, <1>9
     DEF AnswerEnds, Goes, netVars, AnswerInv, AtHome, Sizes, Paid,
         ClosedAnswered, DoneUnheard
<1>10. CASE Segment(c)
  BY <1>1, <1>2, <1>3, <1>10
     DEF Segment, Deliver, AnswerInv, AtHome, Sizes, Paid, ClosedAnswered,
         DoneUnheard
<1>11. CASE Fin(c) \/ Rst(c)
  BY <1>1, <1>2, <1>3, <1>11
     DEF Fin, Rst, EndStream, Reset, AnswerInv, AtHome, Sizes, Paid,
         ClosedAnswered, DoneUnheard
<1> QED
  BY <1>1, <1>4, <1>5, <1>6, <1>7, <1>8, <1>9, <1>10, <1>11 DEF Client, Proceeds

LEMMA SyncKeepsWhole ==
  ASSUME TcpInv, AnswerInv, TcpStep
  PROVE  AnswerInv'
<1>1. SyncStep /\ UNCHANGED at
  BY DEF TcpStep, SyncStep, SyncAccept, SyncRecv, SyncSend, SyncClose, SyncExit
<1>2. /\ phase \in [Conns -> Phases] /\ peer \in [Conns -> Peers] /\ sent \in [Conns -> Nat]
      /\ rcvd \in [Conns -> Nat] /\ told \in [Conns -> Nat] /\ heard \in [Conns -> Nat]
      /\ fdConn \in [Fds -> Conns \cup {NoConn}] /\ client_fd \in Fds
      /\ Message \in Nat \ {0} /\ syncOwed \in Nat /\ Greeting = 1
      /\ syncPc \in {"recv", "send", "close"} =>
           /\ SyncConn \in Conns /\ phase[SyncConn] = "open" /\ SyncConn = fdConn[client_fd]
  BY ClientsAssumption, SocketsAssumption
     DEF TcpInv, NetInv, NetTypeOK, SyncBusy, SyncTypeOK, SyncConn, TableSound, client_fd,
         Fds, Greeting
<1>3. CASE SyncAccept
  <2>1. /\ backlog \in Seq(Conns) /\ backlog # <<>> /\ Head(backlog) \in Conns
        /\ phase[Head(backlog)] = "queued"
    <3>1. backlog \in Seq(Conns) /\ backlog # <<>>
      BY <1>3 DEF SyncAccept, Accepted, TcpInv, NetInv, NetTypeOK
    <3>2. Head(backlog) = backlog[1] /\ 1 \in DOMAIN backlog /\ Head(backlog) \in Conns
      BY <3>1, LenProperties, HeadTailProperties, EmptySeq
    <3> QED
      BY <3>1, <3>2 DEF TcpInv, NetInv, QueueSound
  <2>2. /\ syncPc' = "recv" /\ UNCHANGED <<sent, rcvd, peer, told, heard>>
        /\ phase' = [phase EXCEPT ![Head(backlog)] = "open"]
        /\ \A f \in Fds : f # client_fd => fdConn'[f] = fdConn[f]
        /\ SyncConn' = Head(backlog)
    BY <1>2, <1>3 DEF SyncAccept, Accepted, SyncConn
  <2>3. Paid'
    <3>1. told[Head(backlog)] = 0 /\ rcvd[Head(backlog)] = 0
      BY <2>1 DEF TcpInv, NetInv, Untold, AnswerInv, Sizes
    <3> QED
      BY <2>2, <3>1 DEF Paid
  <2> QED
    BY <1>1, <1>2, <2>1, <2>2, <2>3
       DEF AnswerInv, AtHome, Sizes, OneFd, ClosedAnswered, DoneUnheard
<1>4. CASE SyncRecv
  <2>1. /\ syncPc = "recv" /\ syncPc' = "send" /\ SyncConn' = SyncConn
        /\ UNCHANGED <<phase, fdConn, sent, told, heard>>
        /\ told[SyncConn] = 0 /\ rcvd[SyncConn] = 0
    BY <1>4 DEF SyncRecv, RecvData, RecvEnd, SyncConn, AnswerInv, Paid
  <2>2. CASE /\ RecvData(SyncConn)
             /\ syncOwed' = Greeting + Received(SyncConn) - rcvd[SyncConn]
    <3>1. /\ sent[SyncConn] > rcvd[SyncConn] /\ peer' = peer
          /\ rcvd' = [rcvd EXCEPT ![SyncConn] = Received(SyncConn)]
      BY <2>2 DEF RecvData
    <3>2. Received(SyncConn) \in Nat /\ Received(SyncConn) <= sent[SyncConn]
      BY <1>2, <2>1, SocketsAssumption DEF Received, Least
    <3>3. Paid'
      <4>1. syncOwed' = Greeting + Received(SyncConn)
        BY <1>2, <2>1, <2>2, <3>2
      <4> QED
        BY <1>2, <2>1, <3>1, <3>2, <4>1 DEF Paid
    <3> QED
      BY <1>1, <1>2, <2>1, <3>1, <3>2, <3>3
         DEF AnswerInv, AtHome, Sizes, OneFd, ClosedAnswered, DoneUnheard
  <2>3. CASE RecvEnd(SyncConn) /\ syncOwed' = Greeting
    <3>1. Paid'
      BY <1>2, <2>1, <2>3 DEF RecvEnd, Paid
    <3> QED
      BY <1>1, <1>2, <2>1, <2>3, <3>1
         DEF RecvEnd, AnswerInv, AtHome, Sizes, OneFd, ClosedAnswered, DoneUnheard
  <2> QED
    BY <1>4, <2>2, <2>3 DEF SyncRecv
<1>5. CASE SyncSend
  <2>1. /\ syncPc = "send" /\ syncPc' \in {"send", "close"} /\ syncOwed > 0
        /\ UNCHANGED <<phase, fdConn, sent, rcvd, heard>> /\ SyncConn' = SyncConn
    BY <1>5 DEF SyncSend, SendSome, SendFails, SyncConn, TcpInv, SyncBusy
  <2>2. CASE /\ SendSome(SyncConn, syncOwed)
             /\ syncOwed' = syncOwed - (told'[SyncConn] - told[SyncConn])
    <3> DEFINE more == Least(syncOwed, SendRoom - (told[SyncConn] - heard[SyncConn]))
    <3>1. more \in Int
      BY <1>2, <2>1, SocketsAssumption DEF Least
    <3>2. peer' = peer /\ told' = [told EXCEPT ![SyncConn] = told[SyncConn] + more]
      BY <2>2 DEF SendSome
    <3> HIDE DEF more
    <3>3. told'[SyncConn] = told[SyncConn] + more /\ syncOwed' = syncOwed - more
      BY <1>2, <2>1, <2>2, <3>1, <3>2
    <3>4. told[SyncConn] + syncOwed = Greeting + rcvd[SyncConn]
      BY <2>1 DEF AnswerInv, Paid
    <3>5. told'[SyncConn] + syncOwed' = Greeting + rcvd'[SyncConn]
      BY <1>2, <2>1, <3>1, <3>3, <3>4
    <3>6. syncPc' = "close" => syncOwed' = 0
      BY <1>5 DEF SyncSend
    <3>7. Paid'
      BY <1>2, <2>1, <3>1, <3>3, <3>5, <3>6 DEF Paid
    <3> QED
      BY <1>1, <1>2, <2>1, <3>2, <3>7
         DEF AnswerInv, AtHome, Sizes, OneFd, ClosedAnswered, DoneUnheard
  <2>3. CASE SendFails(SyncConn) /\ syncOwed' = 0
    <3>1. Paid'
      BY <1>2, <1>5, <2>1, <2>3 DEF SyncSend, SendFails, Paid
    <3> QED
      BY <1>1, <1>2, <2>1, <2>3, <3>1
         DEF SendFails, AnswerInv, AtHome, Sizes, OneFd, ClosedAnswered, DoneUnheard
  <2> QED
    BY <1>5, <2>2, <2>3 DEF SyncSend
<1>6. CASE SyncClose
  <2>1. /\ syncPc = "close" /\ syncPc' = "shut" /\ UNCHANGED <<sent, rcvd, told, heard>>
        /\ fdConn' = [fdConn EXCEPT ![client_fd] = NoConn]
        /\ phase' = [phase EXCEPT ![SyncConn] = "closed"]
        /\ peer' = [peer EXCEPT ![SyncConn] = IF Abandoned(SyncConn) THEN "gone" ELSE @]
    BY <1>6 DEF SyncClose, CloseFd, SyncConn
  <2>2. AtHome' /\ Sizes' /\ OneFd' /\ Paid' /\ DoneUnheard'
    BY <1>1, <1>2, <2>1
       DEF AnswerInv, AtHome, Sizes, OneFd, Paid, DoneUnheard
  <2>3. ClosedAnswered'
    <3> SUFFICES ASSUME NEW c \in Conns, phase'[c] = "closed", at[c] = "await",
                        rcvd[c] = Message
                 PROVE  told[c] = Greeting + Message /\ peer'[c] # "gone"
      BY <1>1, <2>1 DEF ClosedAnswered
    <3>1. CASE c = SyncConn
      <4>1. peer[c] = "live" /\ told[c] = Greeting + Message
        BY <1>2, <2>1, <3>1 DEF AnswerInv, AtHome, Paid
      <4>2. ~Abandoned(c)
        BY <1>2 DEF Abandoned, AnswerInv, Sizes
      <4> QED
        BY <1>2, <2>1, <3>1, <4>1, <4>2
    <3>2. CASE c # SyncConn
      BY <1>2, <2>1, <3>2 DEF AnswerInv, ClosedAnswered
    <3> QED
      BY <3>1, <3>2
  <2> QED
    BY <2>2, <2>3 DEF AnswerInv
<1>7. CASE SyncExit
  <2>1. /\ syncPc' = "down" /\ UNCHANGED <<sent, rcvd, told, heard>>
        /\ fdConn' = [f \in Fds |-> NoConn]
        /\ phase' = [c \in Conns |-> IF phase[c] = "new" THEN "new" ELSE "closed"]
        /\ peer' = [c \in Conns |->
                      IF phase[c] = "queued" \/ (phase[c] = "open" /\ Abandoned(c))
                      THEN "gone" ELSE peer[c]]
    BY <1>7 DEF SyncExit, CloseAll
  <2>2. AtHome' /\ Sizes' /\ OneFd' /\ Paid' /\ DoneUnheard'
    BY <1>1, <1>2, <2>1
       DEF AnswerInv, AtHome, Sizes, OneFd, Paid, DoneUnheard
  <2>3. ASSUME NEW c \in Conns, phase[c] = "open" PROVE at[c] = "done"
    <3>1. fdConn[client_fd] = c
      BY <2>3, ConnectionsAssumption
         DEF TcpInv, NetInv, OpenHeld, AnswerInv, OneFd
    <3>2. syncPc = "send" /\ peer[c] = "gone"
      BY <1>7, <3>1, ConnectionsAssumption DEF SyncExit, SyncConn, AnswerInv, OneFd
    <3> QED
      BY <2>3, <3>2 DEF AnswerInv, AtHome
  <2>4. ClosedAnswered'
    BY <1>1, <1>2, <2>1, <2>3 DEF AnswerInv, ClosedAnswered, Sizes, Phases
  <2> QED
    BY <2>2, <2>4 DEF AnswerInv
<1> QED
  BY <1>1, <1>3, <1>4, <1>5, <1>6, <1>7 DEF SyncStep

LEMMA NextWholeInv == TcpInv /\ WholeInv /\ [SessionNext]_sessionVars => WholeInv'
<1> SUFFICES ASSUME TcpInv, WholeInv, [SessionNext]_sessionVars, syncPc' # "off"
             PROVE  AnswerInv'
  BY DEF WholeInv
<1>1. CASE \E c \in Conns : TcpClient(c)
  BY <1>1, ClientKeepsWhole, ClientIsAClient DEF WholeInv, syncVars
<1>2. CASE EpollTurn
  BY <1>2
     DEF EpollTurn, tcpVars, syncVars, TcpInv, OneServer, EpollStep, EpollWait, EpollAccept,
         EpollRead, EpollEcho, ReadThenSend, EpollSent, SendOn, SendLost, EpollHangUp,
         ReadEnd, EpollFails, EpollAcceptFailed, ReadError, BrokenPipe
<1>3. CASE TcpStep
  <2>1. syncPc # "off"
    BY <1>3
       DEF TcpStep, SyncStep, SyncAccept, SyncRecv, SyncSend, SyncClose, SyncExit
  <2> QED
    BY <1>3, <2>1, SyncKeepsWhole DEF WholeInv
<1>4. CASE UNCHANGED <<epollVars, tcpVars>>
  BY <1>4
     DEF epollVars, netVars, tcpVars, syncVars, WholeInv, AnswerInv, AtHome, Sizes, OneFd,
         Paid, ClosedAnswered, DoneUnheard, SyncConn
<1> QED
  BY <1>1, <1>2, <1>3, <1>4 DEF SessionNext, SessionIdle, Datagram, sessionVars

LEMMA WholeInvHolds == SessionSpec => []WholeInv
BY TcpInvHolds, WholeStarts, NextWholeInv, PTL DEF SessionSpec
-----------------------------------------------------------------------------
(***************************************************************************)
(* Every variable of the session keeps its type, with whatever clients: in *)
(* particular neither TCP server ever owes a negative number of units, and *)
(* the one descriptor of the Lecture 1 server is the one it was given.     *)
(***************************************************************************)
THEOREM SessionTypeCorrect == SessionSpec => []SessionTypeOK
<1>1. TcpInv /\ UdpInv => SessionTypeOK
  BY DEF TcpInv, UdpInv, NetInv, EpollLists, SessionTypeOK, EpollTypeOK
<1> QED
  BY <1>1, TcpInvHolds, UdpInvHolds, PTL

(***************************************************************************)
(* The repository's clients do to the epoll server only what EchoEpoll     *)
(* allows clients: while it runs, every step of a session is a step of     *)
(* EchoEpoll.                                                              *)
(***************************************************************************)
THEOREM SessionImplementsEchoEpoll == SessionSpec => ImplementsEchoEpoll
<1>1. TcpInv /\ [SessionNext]_sessionVars => [pc # "down" => EpollNext]_epollVars
  BY StepIsEpolls DEF TcpInv
<1> QED
  BY <1>1, TcpInvHolds, PTL DEF SessionSpec, ImplementsEchoEpoll

(***************************************************************************)
(* Serving the repository's clients, the epoll server never sleeps in a    *)
(* read, watches exactly the open connections, and has sent back all of a  *)
(* stream whose connection is closed and was not reset, also when it has   *)
(* ended itself.                                                           *)
(***************************************************************************)
THEOREM SessionServed ==
  SessionSpec => [](NoBlindRead /\ InterestExact /\ (syncPc = "off" => EchoedInFull))
<1>1. TcpInv => NoBlindRead /\ InterestExact /\ (syncPc = "off" => EchoedInFull)
  <2> SUFFICES ASSUME TcpInv
               PROVE  NoBlindRead /\ InterestExact /\ (syncPc = "off" => EchoedInFull)
    OBVIOUS
  <2>1. CASE syncPc = "off"
    BY <2>1, InvEchoes DEF TcpInv, ServerInv, EpollInv, Interest, OpenBeside, InterestExact
  <2>2. CASE syncPc # "off"
    BY <2>2 DEF TcpInv, OneServer, NoBlindRead, InterestExact
  <2> QED
    BY <2>1, <2>2
<1> QED
  BY <1>1, TcpInvHolds, PTL

(***************************************************************************)
(* Against the repository's clients the epoll server ends only in a read   *)
(* or a send on the connection of a client that closed with echo still     *)
(* unread, or in an accept when the descriptors have run out: no other     *)
(* client, and nothing a client does while it runs, ends it.  That         *)
(* epoll_ctl finds room for a new descriptor is assumed.                   *)
(***************************************************************************)
THEOREM SessionSurvives ==
  ASSUME ~AddMayFail
  PROVE  SessionSpec => ServerSurvives
<1>1. TcpInv /\ LeftEarly /\ [SessionNext]_sessionVars
        => [pc # "down" /\ pc' = "down" =>
              \/ pc \in {"read", "send"} /\ at[Conn] = "done" /\ heard[Conn] < sent[Conn]
              \/ pc = "scan" /\ Head(events) = ListenFd /\ TableFull]_pc
  BY EndIsExcused
<1> QED
  BY <1>1, TcpInvHolds, LeftEarlyHolds, PTL DEF SessionSpec, ServerSurvives

(***************************************************************************)
(* The TCP server of Lecture 1 destroys no answer to a message it read in  *)
(* full: by the time the connection of a client that still waits is        *)
(* closed, the kernel holds the whole response for it, however short its   *)
(* sends were, and no reset follows, although the server returns right     *)
(* after and resets everybody else; and no such client ends empty-handed   *)
(* but by a timeout of its own.                                            *)
(***************************************************************************)
THEOREM WholeIsAnswered == SessionSpec => []WholeMessageAnswered
<1>1. TcpInv /\ WholeInv => WholeMessageAnswered
  <2> SUFFICES ASSUME TcpInv, WholeInv, syncPc # "off", NEW c \in Conns, rcvd[c] = Message
               PROVE  /\ at[c] = "await" /\ phase[c] = "closed" =>
                           told[c] = Greeting + Message /\ peer[c] # "gone"
                      /\ at[c] = "done" /\ Kind[c] # "poll" => heard[c] > 0
    BY DEF WholeMessageAnswered
  <2>1. heard[c] \in Nat /\ Message \in Nat
    BY NetTypes, ClientsAssumption
  <2> QED
    BY <2>1 DEF WholeInv, AnswerInv, ClosedAnswered, DoneUnheard
<1> QED
  BY <1>1, TcpInvHolds, WholeInvHolds, PTL

(***************************************************************************)
(* The UDP server answers one datagram and one only: a client that has or  *)
(* will get an answer is the one the server read from, however the network *)
(* loses, copies and reorders datagrams.                                   *)
(***************************************************************************)
THEOREM UdpAnswersOnce == SessionSpec => []OneAnswer
<1>1. UdpInv => OneAnswer
  BY DEF UdpInv, OneDatagram, OneAnswer
<1> QED
  BY <1>1, UdpInvHolds, PTL
=============================================================================
