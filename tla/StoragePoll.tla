---------------------------- MODULE StoragePoll ----------------------------
(* runPoll: the storage server's loop over poll.  New clients are appended *)
(* to pollFds_, and served ones erased, while the scan is under way.       *)
EXTENDS StorageHandler

VARIABLES
  pollFds,   \* pollFds_: descriptors and whether poll reported them
  i          \* the position in pollFds_ of the scan

loopVars == <<pollFds, i>>
vars     == <<netVars, handlerVars, loopVars>>

PollFd(f, revents) == [fd |-> f, revents |-> revents]

TypeOK ==
  /\ NetTypeOK
  /\ HandlerTypeOK
  /\ pollFds \in Seq([fd : Fds \cup {ListenFd}, revents : BOOLEAN])
  /\ i \in Nat \ {0}

Init ==
  /\ NetInit
  /\ HandlerInit
  /\ pollFds = <<PollFd(ListenFd, FALSE)>>
  /\ i = 1

ReadyNow(f) == IF f = ListenFd THEN backlog # <<>> ELSE FdReady(f)

Poll ==
  /\ pc = "wait"
  /\ \E k \in DOMAIN pollFds : ReadyNow(pollFds[k].fd)
  /\ pollFds' = [k \in DOMAIN pollFds |->
                   PollFd(pollFds[k].fd, ReadyNow(pollFds[k].fd))]
  /\ i' = 1
  /\ pc' = "scan"
  /\ UNCHANGED <<netVars, storeVars, req, cur, clientSockets, kills>>

PollSkip ==
  /\ pc = "scan"
  /\ i \in DOMAIN pollFds
  /\ ~pollFds[i].revents
  /\ i' = i + 1
  /\ UNCHANGED <<netVars, handlerVars, pollFds>>

\* Mutant: the new entry's revents not zeroed.
PollAcceptDirty ==
  /\ pc = "scan"
  /\ i \in DOMAIN pollFds
  /\ pollFds[i] = PollFd(ListenFd, TRUE)
  /\ \/ \E f \in Fds :
          /\ AcceptClient(f)
          /\ pollFds' = Append(pollFds, PollFd(f, TRUE))
     \/ /\ AcceptFails
        /\ UNCHANGED <<netVars, storeVars, req, clientSockets, kills, pollFds>>
  /\ i' = i + 1
  /\ UNCHANGED <<pc, cur>>

PollAccept ==
  /\ pc = "scan"
  /\ i \in DOMAIN pollFds
  /\ pollFds[i] = PollFd(ListenFd, TRUE)
  /\ \/ \E f \in Fds :
          /\ AcceptClient(f)
          /\ pollFds' = Append(pollFds, PollFd(f, FALSE))
     \/ /\ AcceptFails
        /\ UNCHANGED <<netVars, storeVars, req, clientSockets, kills, pollFds>>
  /\ i' = i + 1
  /\ UNCHANGED <<pc, cur>>

PollServe ==
  /\ pc = "scan"
  /\ i \in DOMAIN pollFds
  /\ pollFds[i].revents
  /\ pollFds[i].fd # ListenFd
  /\ cur' = pollFds[i].fd
  /\ pc' = "recv"
  /\ UNCHANGED <<netVars, storeVars, req, clientSockets, kills, loopVars>>

\* Mutant: the position in clientSockets_ taken for the one in pollFds_.
PollCloseShifted ==
  /\ \E k \in DOMAIN clientSockets :
       /\ IsFirst(k)
       /\ Released(k)
       /\ pollFds' = SubSeq(pollFds, 1, k - 1) \o SubSeq(pollFds, k + 1, Len(pollFds))
  /\ pc' = "scan"
  /\ UNCHANGED i

\* closeClient, and pollFds_.erase(begin() + i): the next entry moves to i.
PollClose ==
  /\ \E k \in DOMAIN clientSockets : IsFirst(k) /\ Released(k)
  /\ pollFds' = SubSeq(pollFds, 1, i - 1) \o SubSeq(pollFds, i + 1, Len(pollFds))
  /\ pc' = "scan"
  /\ UNCHANGED i

PollScanned ==
  /\ pc = "scan"
  /\ i > Len(pollFds)
  /\ pc' = "wait"
  /\ UNCHANGED <<netVars, storeVars, req, cur, clientSockets, kills, loopVars>>

LoopStep == Poll \/ PollSkip \/ PollAccept \/ PollServe \/ PollClose \/ PollScanned

LoopReset == pollFds' = <<PollFd(ListenFd, FALSE)>> /\ i' = 1

ServerStep ==
  \/ LoopStep
  \/ HandlerStep /\ UNCHANGED loopVars
  \/ ServerFails /\ LoopReset

Start == Restart /\ UNCHANGED loopVars

Idle == pc = "wait" /\ AllServed /\ UNCHANGED vars

Next ==
  \/ ClientStep /\ UNCHANGED loopVars
  \/ ServerStep
  \/ Kill /\ LoopReset
  \/ Start
  \/ Idle

Spec == Init /\ [][Next]_vars

(***************************************************************************)
(* The server keeps running, and every client that connects goes on to     *)
(* send the whole of its request, unless it ended its stream or vanished,  *)
(* and reads what it is sent.  None has to end its stream.  A client has   *)
(* only so many units to send and to read, so that fairness to all of them *)
(* together lets none of them down.                                        *)
(***************************************************************************)
Fairness ==
  /\ WF_vars(ServerStep)
  /\ WF_vars((\E c \in Conns : Say(c) \/ Hear(c)) /\ UNCHANGED <<handlerVars, loopVars>>)

FairSpec == Spec /\ Fairness
-----------------------------------------------------------------------------
(***************************************************************************)
(* The loop calls recv only on a socket that has something for it: a first *)
(* recv never blocks the clients behind it, although other clients come    *)
(* and go, and descriptors are closed and reused, between poll            *)
(* and the recv it led to.                                                 *)
(***************************************************************************)
NoBlindRecv == pc = "recv" => FdReady(cur)

(***************************************************************************)
(* pollFds_ and clientSockets_, changed by separate calls and with         *)
(* different searches, stay the same list behind the listener's entry.     *)
(***************************************************************************)
SameOrder ==
  /\ Len(pollFds) = Len(clientSockets) + 1
  /\ pollFds[1].fd = ListenFd
  /\ \A k \in DOMAIN clientSockets : pollFds[k + 1].fd = clientSockets[k]
=============================================================================
