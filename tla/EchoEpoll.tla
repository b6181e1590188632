----------------------------- MODULE EchoEpoll -----------------------------
(***************************************************************************)
(* The epoll echo server of Lecture 2 (server_epoll of Lecture 3 is the    *)
(* same loop).  It keeps no list of its clients: closing a descriptor is   *)
(* what takes it out of the epoll instance.                                *)
(***************************************************************************)
EXTENDS EchoServer, FiniteSets, Functions

CONSTANTS
  MaxEvents,       \* MAX_EVENTS
  AddMayFail       \* the kernel may run out of memory or of watches: epoll_ctl fails

ASSUME EpollAssumption == MaxEvents \in Nat \ {0} /\ AddMayFail \in BOOLEAN

VARIABLES
  events,     \* what is left of the batch epoll_wait returned, events[n] first
  interest    \* the client sockets in the epoll instance

epollLoopVars == <<events, interest>>
epollVars     == <<netVars, echoVars, epollLoopVars>>

EpollTypeOK ==
  /\ NetTypeOK
  /\ EchoTypeOK
  /\ events \in Seq(Fds \cup {ListenFd})
  /\ interest \subseteq Fds

EpollInit == EchoInit /\ events = <<>> /\ interest = {}

Ready == {f \in interest : FdReady(f)}
           \cup (IF backlog # <<>> THEN {ListenFd} ELSE {})

EpollWait ==
  /\ pc = "wait"
  /\ Ready # {}
  /\ events' \in Injection(1 .. Least(MaxEvents, Cardinality(Ready)), Ready)
  /\ pc' = "scan"
  /\ UNCHANGED <<netVars, cur, owed, interest>>

AfterEvent(rest) == IF rest = <<>> THEN "wait" ELSE "scan"

\* Mutant: the new client read from at once.
EpollAcceptServed ==
  /\ pc = "scan"
  /\ Head(events) = ListenFd
  /\ \E f \in Fds :
       /\ Accepted(f)
       /\ interest' = interest \cup {f}
       /\ events' = Append(Tail(events), f)
  /\ UNCHANGED echoVars

\* Mutant: EPOLL_CTL_ADD left out.
EpollAcceptUnwatched ==
  /\ pc = "scan"
  /\ Head(events) = ListenFd
  /\ \E f \in Fds : Accepted(f)
  /\ events' = Tail(events)
  /\ pc' = AfterEvent(Tail(events))
  /\ UNCHANGED <<cur, owed, interest>>

EpollAccept ==
  /\ pc = "scan"
  /\ Head(events) = ListenFd
  /\ \E f \in Fds : Accepted(f) /\ interest' = interest \cup {f}
  /\ events' = Tail(events)
  /\ pc' = AfterEvent(Tail(events))
  /\ UNCHANGED <<cur, owed>>

\* accept fails for want of a descriptor, or epoll_ctl for the new one: exit.
EpollAcceptFailed ==
  /\ pc = "scan"
  /\ Head(events) = ListenFd
  /\ TableFull \/ AddMayFail
  /\ EndProcess

EpollRead ==
  /\ pc = "scan"
  /\ Head(events) # ListenFd
  /\ cur' = Head(events)
  /\ events' = Tail(events)
  /\ pc' = "read"
  /\ UNCHANGED <<netVars, owed, interest>>

EpollEcho ==
  /\ ReadThenSend(Received(Conn) - rcvd[Conn])
  /\ UNCHANGED epollLoopVars

EpollSent ==
  /\ SendOn(AfterEvent(events)) \/ SendLost(AfterEvent(events))
  /\ UNCHANGED epollLoopVars

\* Mutant: exit for an end of stream as well.
EpollHangUpExit == ReadEnd /\ EndProcess /\ events' = <<>> /\ interest' = {}

EpollHangUp ==
  /\ ReadEnd
  /\ CloseFd(cur)
  /\ interest' = interest \ {cur}
  /\ pc' = AfterEvent(events)
  /\ UNCHANGED <<cur, owed, events>>

EpollFails == EpollAcceptFailed \/ ((ReadError \/ BrokenPipe) /\ EndProcess)

EpollStep ==
  \/ EpollWait \/ EpollAccept \/ EpollRead \/ EpollEcho \/ EpollSent \/ EpollHangUp
  \/ EpollFails /\ events' = <<>> /\ interest' = {}

EpollIdle == (pc = "down" \/ (pc = "wait" /\ AllServed)) /\ UNCHANGED epollVars

EpollNext ==
  \/ ClientStep /\ UNCHANGED epollLoopVars
  \/ EpollStep
  \/ EpollIdle

EpollSpec == EpollInit /\ [][EpollNext]_epollVars

\* The server keeps running and clients read; none has to send anything, or leave.
EpollFairness ==
  /\ WF_epollVars(EpollStep)
  /\ \A c \in Conns : WF_epollVars(Hear(c) /\ UNCHANGED <<echoVars, epollLoopVars>>)

EpollFairSpec == EpollSpec /\ EpollFairness
-----------------------------------------------------------------------------
(***************************************************************************)
(* The epoll instance watches exactly the open connections, although       *)
(* nothing but accept and close ever tells it so.                          *)
(***************************************************************************)
InterestExact == pc # "down" => interest = {f \in Fds : fdConn[f] # NoConn}
=============================================================================
