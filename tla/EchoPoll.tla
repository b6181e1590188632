------------------------------ MODULE EchoPoll ------------------------------
(***************************************************************************)
(* The poll echo server of Lecture 2 (server_poll of Lecture 3 is the same *)
(* loop).  The entry pushed for a new client has an uninitialised revents, *)
(* which the scan reads before poll ever wrote it; and an erased entry's   *)
(* successor moves to i, which the loop then increments.                   *)
(***************************************************************************)
EXTENDS EchoServer

CONSTANT StackRevents   \* the values the uninitialised field may turn out to have

ASSUME StackAssumption == StackRevents \subseteq BOOLEAN /\ StackRevents # {}

VARIABLES
  fds,   \* fds: descriptors and whether revents has POLLIN
  i      \* the position in fds of the scan

pollLoopVars == <<fds, i>>
pollVars     == <<netVars, echoVars, pollLoopVars>>

PollFd(f, revents) == [fd |-> f, revents |-> revents]

PollTypeOK ==
  /\ NetTypeOK
  /\ EchoTypeOK
  /\ fds \in Seq([fd : Fds \cup {ListenFd}, revents : BOOLEAN])
  /\ i \in Nat \ {0}

PollInit ==
  /\ EchoInit
  /\ fds = <<PollFd(ListenFd, FALSE)>>
  /\ i = 1

ReadyNow(f) == IF f = ListenFd THEN backlog # <<>> ELSE FdReady(f)

PollWait ==
  /\ pc = "wait"
  /\ \E k \in DOMAIN fds : ReadyNow(fds[k].fd)
  /\ fds' = [k \in DOMAIN fds |-> PollFd(fds[k].fd, ReadyNow(fds[k].fd))]
  /\ i' = 1
  /\ pc' = "scan"
  /\ UNCHANGED <<netVars, cur, owed>>

PollSkip ==
  /\ pc = "scan"
  /\ i \in DOMAIN fds
  /\ ~fds[i].revents
  /\ i' = i + 1
  /\ UNCHANGED <<netVars, echoVars, fds>>

\* Mutant: POLLIN stored in revents instead of events.
PollAcceptReady ==
  /\ pc = "scan"
  /\ i \in DOMAIN fds
  /\ fds[i] = PollFd(ListenFd, TRUE)
  /\ \E f \in Fds : Accepted(f) /\ fds' = Append(fds, PollFd(f, TRUE))
  /\ i' = i + 1
  /\ UNCHANGED echoVars

PollAccept ==
  /\ pc = "scan"
  /\ i \in DOMAIN fds
  /\ fds[i] = PollFd(ListenFd, TRUE)
  /\ \E f \in Fds, garbage \in StackRevents :
       /\ Accepted(f)
       /\ fds' = Append(fds, PollFd(f, garbage))
  /\ i' = i + 1
  /\ UNCHANGED echoVars

\* accept fails for want of a descriptor, and the loop is left.
PollAcceptFails ==
  /\ pc = "scan"
  /\ i \in DOMAIN fds
  /\ fds[i] = PollFd(ListenFd, TRUE)
  /\ TableFull

PollRead ==
  /\ pc = "scan"
  /\ i \in DOMAIN fds
  /\ fds[i].revents
  /\ fds[i].fd # ListenFd
  /\ cur' = fds[i].fd
  /\ pc' = "read"
  /\ UNCHANGED <<netVars, owed, pollLoopVars>>

PollEcho ==
  /\ ReadThenSend(Received(Conn) - rcvd[Conn])
  /\ UNCHANGED pollLoopVars

PollSent ==
  /\ SendOn("scan") \/ SendLost("scan")
  /\ IF pc' = "scan" THEN i' = i + 1 ELSE i' = i
  /\ UNCHANGED fds

\* Mutant: closed and not erased.
PollHangUpKept ==
  /\ ReadEnd
  /\ CloseFd(cur)
  /\ i' = i + 1
  /\ pc' = "scan"
  /\ UNCHANGED <<cur, owed, fds>>

\* close and erase, and the i++ of the for statement.
PollHangUp ==
  /\ ReadEnd
  /\ CloseFd(cur)
  /\ fds' = SubSeq(fds, 1, i - 1) \o SubSeq(fds, i + 1, Len(fds))
  /\ i' = i + 1
  /\ pc' = "scan"
  /\ UNCHANGED <<cur, owed>>

PollScanned ==
  /\ pc = "scan"
  /\ i > Len(fds)
  /\ pc' = "wait"
  /\ UNCHANGED <<netVars, cur, owed, pollLoopVars>>

PollTurn ==
  \/ PollWait \/ PollSkip \/ PollAccept \/ PollRead \/ PollEcho \/ PollSent
  \/ PollHangUp \/ PollScanned

\* SIGPIPE.
PollKilled == (ReadError \/ BrokenPipe) /\ EndProcess

\* return -1, from main.
PollFails == PollKilled \/ (PollAcceptFails /\ EndProcess)

PollStep == PollTurn \/ (PollFails /\ UNCHANGED pollLoopVars)

PollIdle == (pc = "down" \/ (pc = "wait" /\ AllServed)) /\ UNCHANGED pollVars

PollNext ==
  \/ ClientStep /\ UNCHANGED pollLoopVars
  \/ PollStep
  \/ PollIdle

PollSpec == PollInit /\ [][PollNext]_pollVars

\* The server keeps running and clients read; none has to send anything, or leave.
PollFairness ==
  /\ WF_pollVars(PollStep)
  /\ \A c \in Conns : WF_pollVars(Hear(c) /\ UNCHANGED <<echoVars, pollLoopVars>>)

PollFairSpec == PollSpec /\ PollFairness
-----------------------------------------------------------------------------
(***************************************************************************)
(* fds lists the listener and the open client sockets, each once, although *)
(* the scan goes on through a list it appends to and erases from.          *)
(***************************************************************************)
FdsExact ==
  pc # "down" =>
    /\ fds[1].fd = ListenFd
    /\ \A j, k \in DOMAIN fds : fds[j].fd = fds[k].fd => j = k
    /\ {fds[k].fd : k \in DOMAIN fds} = {ListenFd} \cup {f \in Fds : fdConn[f] # NoConn}
=============================================================================
