---------------------------- MODULE StorageEpoll ----------------------------
(* runEpoll: the storage server's loop over epoll_wait.                    *)
EXTENDS StorageHandler, FiniteSets, Functions

CONSTANT MaxEvents   \* the size of the events array

ASSUME EpollAssumption == MaxEvents \in Nat \ {0}

VARIABLES
  interest,   \* the client descriptors registered with epollFd
  events      \* what is left of the batch epoll_wait returned, events[i] first

loopVars == <<interest, events>>
vars     == <<netVars, handlerVars, loopVars>>

TypeOK ==
  /\ NetTypeOK
  /\ HandlerTypeOK
  /\ interest \subseteq Fds
  /\ events \in Seq(Fds \cup {ListenFd})

Init ==
  /\ NetInit
  /\ HandlerInit
  /\ interest = {}
  /\ events = <<>>

\* Level-triggered: a descriptor is ready for as long as its condition holds.
Ready == {f \in interest : FdReady(f)}
           \cup (IF backlog # <<>> THEN {ListenFd} ELSE {})

\* The kernel reports each ready descriptor once, in any order, as many as fit.
EpollWait ==
  /\ pc = "wait"
  /\ Ready # {}
  /\ events' \in Injection(1 .. Least(MaxEvents, Cardinality(Ready)), Ready)
  /\ pc' = "scan"
  /\ UNCHANGED <<netVars, storeVars, req, cur, clientSockets, kills, interest>>

AfterEvent(rest) == IF rest = <<>> THEN "wait" ELSE "scan"

\* Mutants: the new client served with the batch; EPOLL_CTL_ADD left out.
EpollAcceptServed ==
  /\ pc = "scan"
  /\ Head(events) = ListenFd
  /\ \/ \E f \in Fds :
          /\ AcceptClient(f)
          /\ interest' = interest \cup {f}
          /\ events' = Append(Tail(events), f)
     \/ /\ AcceptFails
        /\ events' = Tail(events)
        /\ UNCHANGED <<netVars, storeVars, req, clientSockets, kills, interest>>
  /\ pc' = AfterEvent(events')
  /\ UNCHANGED cur

EpollAcceptUnwatched ==
  /\ pc = "scan"
  /\ Head(events) = ListenFd
  /\ \/ \E f \in Fds : AcceptClient(f)
     \/ AcceptFails /\ UNCHANGED <<netVars, storeVars, req, clientSockets, kills>>
  /\ events' = Tail(events)
  /\ pc' = AfterEvent(Tail(events))
  /\ UNCHANGED <<cur, interest>>

EpollAccept ==
  /\ pc = "scan"
  /\ Head(events) = ListenFd
  /\ \/ \E f \in Fds : AcceptClient(f) /\ interest' = interest \cup {f}
     \/ /\ AcceptFails
        /\ UNCHANGED <<netVars, storeVars, req, clientSockets, kills, interest>>
  /\ events' = Tail(events)
  /\ pc' = AfterEvent(Tail(events))
  /\ UNCHANGED cur

EpollServe ==
  /\ pc = "scan"
  /\ Head(events) # ListenFd
  /\ cur' = Head(events)
  /\ events' = Tail(events)
  /\ pc' = "recv"
  /\ UNCHANGED <<netVars, storeVars, req, clientSockets, kills, interest>>

EpollClose ==
  /\ \E k \in DOMAIN clientSockets : IsFirst(k) /\ Released(k)
  /\ interest' = interest \ {cur}
  /\ pc' = AfterEvent(events)
  /\ UNCHANGED events

LoopStep == EpollWait \/ EpollAccept \/ EpollServe \/ EpollClose

\* The epoll instance and the batch go with the process.
LoopReset == interest' = {} /\ events' = <<>>

ServerStep ==
  \/ LoopStep
  \/ HandlerStep /\ UNCHANGED loopVars
  \/ ServerFails /\ LoopReset

Start == Restart /\ UNCHANGED loopVars

Idle == pc = "wait" /\ AllServed /\ UNCHANGED vars

Next ==
  \/ ClientStep /\ UNCHANGED loopVars
  \/ ServerStep
  \/ Kill /\ LoopReset
  \/ Start
  \/ Idle

Spec == Init /\ [][Next]_vars

(***************************************************************************)
(* The server keeps running, and every client that connects goes on to     *)
(* send the whole of its request, unless it ended its stream or vanished,  *)
(* and reads what it is sent.  None has to end its stream.  A client has   *)
(* only so many units to send and to read, so that fairness to all of them *)
(* together lets none of them down.                                        *)
(***************************************************************************)
Fairness ==
  /\ WF_vars(ServerStep)
  /\ WF_vars((\E c \in Conns : Say(c) \/ Hear(c)) /\ UNCHANGED <<handlerVars, loopVars>>)

FairSpec == Spec /\ Fairness
-----------------------------------------------------------------------------
(***************************************************************************)
(* The loop calls recv only on a socket that has something for it: a first *)
(* recv never blocks the clients behind it, although other clients come    *)
(* and go, and descriptors are closed and reused, between epoll_wait       *)
(* and the recv it led to.                                                 *)
(***************************************************************************)
NoBlindRecv == pc = "recv" => FdReady(cur)

\* Exactly the open client sockets are registered with epollFd.
InterestExact == interest = {f \in Fds : fdConn[f] # NoConn}
=============================================================================
