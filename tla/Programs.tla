------------------------------ MODULE Programs ------------------------------
(***************************************************************************)
(* A session with the programs of the first two lectures: one of the       *)
(* servers is started on port 8080 and client programs run against it,     *)
(* the TCP ones against the epoll server of Lecture 2 or the server of     *)
(* Lecture 1, the UDP ones against the UDP server.  In EchoEpoll clients   *)
(* do what they like; here they are the repository's own.                  *)
(***************************************************************************)
EXTENDS EchoEpoll, SyncTcp, SyncUdp

ASSUME SessionAssumption == MayReset /\ MaxSay = Message

tcpVars     == <<at, syncVars>>
sessionVars == <<epollVars, tcpVars, udpVars>>

SessionTypeOK == EpollTypeOK /\ ClientsTypeOK /\ SyncTypeOK /\ UdpTypeOK

\* The servers that did not get the port are not there.
SessionInit ==
  \E serving \in {"epoll", "sync", "udp"} :
    /\ NetInit /\ ClientsInit
    /\ pc = IF serving = "epoll" THEN "wait" ELSE "down"
    /\ cur = 1 /\ owed = 0 /\ events = <<>> /\ interest = {}
    /\ syncPc = IF serving = "sync" THEN "accept" ELSE "off"
    /\ syncOwed = 0
    /\ UdpInit(serving = "udp")

Listening == pc # "down" \/ syncPc \notin {"off", "down"}

TcpClient(c) ==
  server = "off" /\ Client(c, Listening) /\ UNCHANGED <<echoVars, epollLoopVars, syncVars, udpVars>>

EpollTurn == EpollStep /\ UNCHANGED <<tcpVars, udpVars>>
TcpStep   == SyncStep /\ UNCHANGED <<echoVars, epollLoopVars, udpVars>>
Datagram  == UdpStep /\ UNCHANGED <<epollVars, tcpVars>>

SessionIdle == (AllDone \/ server # "off") /\ UNCHANGED sessionVars

SessionNext == (\E c \in Conns : TcpClient(c)) \/ EpollTurn \/ TcpStep \/ Datagram \/ SessionIdle

\* The servers and the programs run; nobody has to start a client, to lose
\* patience, or to type.  Every client takes finitely many steps.
SessionFairness ==
  /\ WF_sessionVars(EpollTurn)
  /\ WF_sessionVars(TcpStep)
  /\ WF_sessionVars(\E c \in Conns : TcpClient(c) /\ Proceeds(c, Listening))
  /\ WF_sessionVars(Datagram /\ UdpProgram)

SessionSpec == SessionInit /\ [][SessionNext]_sessionVars /\ SessionFairness
-----------------------------------------------------------------------------
(***************************************************************************)
(* What the client programs do to the epoll server is among what EchoEpoll *)
(* lets clients do, so its theorems hold in this session.                  *)
(***************************************************************************)
ImplementsEchoEpoll == [][pc # "down" => EpollNext]_epollVars

(***************************************************************************)
(* The epoll server outlives its clients.  It ends in a read or a send, on *)
(* the connection of a client that left without having read its whole      *)
(* echo, whose reset made that call fail; or in an accept, because every   *)
(* descriptor was taken.                                                   *)
(***************************************************************************)
ServerSurvives ==
  [][pc # "down" /\ pc' = "down" =>
       \/ pc \in {"read", "send"} /\ at[Conn] = "done" /\ heard[Conn] < sent[Conn]
       \/ pc = "scan" /\ Head(events) = ListenFd /\ TableFull]_pc
=============================================================================
