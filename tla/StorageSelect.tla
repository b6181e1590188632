--------------------------- MODULE StorageSelect ---------------------------
(* runSelect: the storage server's loop over select, which rebuilds its    *)
(* fd_set from clientSockets_ in every turn and accepts before it scans.   *)
EXTENDS StorageHandler

VARIABLES
  readFds,   \* the descriptors select left in the set
  i          \* the position in clientSockets_ of the scan

loopVars == <<readFds, i>>
vars     == <<netVars, handlerVars, loopVars>>

TypeOK ==
  /\ NetTypeOK
  /\ HandlerTypeOK
  /\ readFds \subseteq Fds \cup {ListenFd}
  /\ i \in Nat \ {0}

Init ==
  /\ NetInit
  /\ HandlerInit
  /\ readFds = {}
  /\ i = 1

Watched == {clientSockets[k] : k \in DOMAIN clientSockets}

Ready == {f \in Watched : FdReady(f)}
           \cup (IF backlog # <<>> THEN {ListenFd} ELSE {})

SelectWait ==
  /\ pc = "wait"
  /\ Ready # {}
  /\ readFds' = Ready
  /\ i' = 1
  /\ pc' = IF ListenFd \in Ready THEN "accept" ELSE "scan"
  /\ UNCHANGED <<netVars, storeVars, req, cur, clientSockets, kills>>

\* Mutant: the new client put into the set that is about to be scanned.
SelectAcceptScanned ==
  /\ pc = "accept"
  /\ \/ \E f \in Fds : AcceptClient(f) /\ readFds' = readFds \cup {f}
     \/ /\ AcceptFails
        /\ UNCHANGED <<netVars, storeVars, req, clientSockets, kills, readFds>>
  /\ pc' = "scan"
  /\ UNCHANGED <<cur, i>>

SelectAccept ==
  /\ pc = "accept"
  /\ \/ \E f \in Fds : AcceptClient(f)
     \/ AcceptFails /\ UNCHANGED <<netVars, storeVars, req, clientSockets, kills>>
  /\ pc' = "scan"
  /\ UNCHANGED <<cur, loopVars>>

SelectSkip ==
  /\ pc = "scan"
  /\ i \in DOMAIN clientSockets
  /\ clientSockets[i] \notin readFds
  /\ i' = i + 1
  /\ UNCHANGED <<netVars, handlerVars, readFds>>

SelectServe ==
  /\ pc = "scan"
  /\ i \in DOMAIN clientSockets
  /\ clientSockets[i] \in readFds
  /\ cur' = clientSockets[i]
  /\ pc' = "recv"
  /\ UNCHANGED <<netVars, storeVars, req, clientSockets, kills, loopVars>>

\* close, and clientSockets_.erase(begin() + i): the next one moves to i.
SelectClose ==
  /\ Released(i)
  /\ pc' = "scan"
  /\ UNCHANGED loopVars

SelectScanned ==
  /\ pc = "scan"
  /\ i > Len(clientSockets)
  /\ pc' = "wait"
  /\ readFds' = {}   \* dead until the next turn, which zeroes it first
  /\ UNCHANGED <<netVars, storeVars, req, cur, clientSockets, kills, i>>

LoopStep ==
  SelectWait \/ SelectAccept \/ SelectSkip \/ SelectServe \/ SelectClose \/ SelectScanned

LoopReset == readFds' = {} /\ i' = 1

ServerStep ==
  \/ LoopStep
  \/ HandlerStep /\ UNCHANGED loopVars
  \/ ServerFails /\ LoopReset

Start == Restart /\ UNCHANGED loopVars

Idle == pc = "wait" /\ AllServed /\ UNCHANGED vars

Next ==
  \/ ClientStep /\ UNCHANGED loopVars
  \/ ServerStep
  \/ Kill /\ LoopReset
  \/ Start
  \/ Idle

Spec == Init /\ [][Next]_vars

(***************************************************************************)
(* The server keeps running, and every client that connects goes on to     *)
(* send the whole of its request, unless it ended its stream or vanished,  *)
(* and reads what it is sent.  None has to end its stream.  A client has   *)
(* only so many units to send and to read, so that fairness to all of them *)
(* together lets none of them down.                                        *)
(***************************************************************************)
Fairness ==
  /\ WF_vars(ServerStep)
  /\ WF_vars((\E c \in Conns : Say(c) \/ Hear(c)) /\ UNCHANGED <<handlerVars, loopVars>>)

FairSpec == Spec /\ Fairness
-----------------------------------------------------------------------------
(***************************************************************************)
(* The loop calls recv only on a socket that has something for it: a first *)
(* recv never blocks the clients behind it, although other clients come    *)
(* and go, and descriptors are closed and reused, between select          *)
(* and the recv it led to.                                                 *)
(***************************************************************************)
NoBlindRecv == pc = "recv" => FdReady(cur)
=============================================================================
