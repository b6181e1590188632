----------------------------- MODULE TCPServer -----------------------------
(***************************************************************************)
(* The TCPServer class of Lecture 3: a socket that its user binds, listens *)
(* on, accepts from as often as wanted (server_accept) and then hands to   *)
(* one of three loops.  server_poll and server_epoll are the loops of      *)
(* Lecture 2.  sever_select is one of its own: it serves the clients that  *)
(* server_accept put into clientSockets_, never adds those it accepts      *)
(* itself, and sets the slot of a client that left to 0, which the next    *)
(* FD_SET takes for the process's standard input.                          *)
(*                                                                         *)
(* Standard input is a connection that is open from the start, behind the  *)
(* first descriptor; what is typed is sent on it.  The writes at           *)
(* buffer_[valread] with valread -1 or BUFFER_SIZE hit a zero byte of      *)
(* serverType_ and the padding after buffer_: they change nothing.         *)
(***************************************************************************)
EXTENDS EchoPoll, EchoEpoll

CONSTANT StdinConn

ASSUME StdinAssumption == StdinConn \in Conns

Stdin   == 1     \* the model's number of descriptor 0
Clients == Conns \ {StdinConn}

VARIABLES
  mode,            \* the member function that runs, or what was left of it
  clientSockets,   \* clientSockets_
  selectFds,       \* selectFdsSet_ after select
  index            \* the index of sever_select's scan

severVars == <<selectFds, index>>
vars == <<netVars, echoVars, mode, clientSockets, severVars, pollLoopVars, epollLoopVars>>

TypeOK ==
  /\ PollTypeOK
  /\ EpollTypeOK
  /\ mode \in {"setup", "select", "poll", "epoll", "returned"}
  /\ clientSockets \in Seq(Fds)
  /\ selectFds \subseteq Fds \cup {ListenFd}
  /\ index \in Nat \ {0}

Init ==
  /\ phase = [c \in Conns |-> IF c = StdinConn THEN "open" ELSE "new"]
  /\ fdConn = [f \in Fds |-> IF f = Stdin THEN StdinConn ELSE NoConn]
  /\ backlog = <<>>
  /\ sent = [c \in Conns |-> 0] /\ rcvd = sent /\ told = sent /\ heard = sent
  /\ peer = [c \in Conns |-> "live"]
  /\ pc = "wait" /\ cur = Stdin /\ owed = 0
  /\ mode = "setup"
  /\ clientSockets = <<>>
  /\ selectFds = {} /\ index = 1
  /\ fds = <<>> /\ i = 1
  /\ events = <<>> /\ interest = {}
-----------------------------------------------------------------------------
(* Before the loop. *)

\* Mutant: the listening socket remembered.
ServerAcceptListener ==
  /\ mode = "setup" /\ pc = "wait"
  /\ \E f \in Fds : Accepted(f) /\ clientSockets' = Append(clientSockets, ListenFd)
  /\ UNCHANGED <<echoVars, mode, severVars, pollLoopVars, epollLoopVars>>

\* A blocking accept; when it fails it returns -1 and has changed nothing.
ServerAccept ==
  /\ mode = "setup" /\ pc = "wait"
  /\ \E f \in Fds : Accepted(f) /\ clientSockets' = Append(clientSockets, f)
  /\ UNCHANGED <<echoVars, mode, severVars, pollLoopVars, epollLoopVars>>

Start(m) ==
  /\ mode = "setup" /\ pc = "wait"
  /\ mode' = m
  /\ UNCHANGED <<netVars, echoVars, clientSockets, severVars, epollLoopVars>>

\* Mutant: the sockets accepted before given to poll.
StartPollTracked ==
  Start("poll") /\ fds' = [k \in 1 .. Len(clientSockets) + 1 |->
    PollFd(IF k = 1 THEN ListenFd ELSE clientSockets[k - 1], FALSE)] /\ UNCHANGED i

StartPoll == Start("poll") /\ fds' = <<PollFd(ListenFd, FALSE)>> /\ UNCHANGED i

StartSelectOrEpoll == (Start("select") \/ Start("epoll")) /\ UNCHANGED pollLoopVars

\* main returns, without a loop or after one, and the destructor closes the
\* listening socket.  No main in the repository calls a second loop.
Return ==
  /\ mode \in {"setup", "returned"} /\ pc = "wait"
  /\ EndProcess
  /\ UNCHANGED <<mode, clientSockets, severVars, pollLoopVars, epollLoopVars>>
-----------------------------------------------------------------------------
(* sever_select *)

Kept == Range(clientSockets)

\* Every watched descriptor is open; otherwise select fails with EBADF,
\* which is only reported, and leaves the sets as they were filled.
AllOpen == \A f \in Kept : fdConn[f] # NoConn

SeverWait ==
  /\ pc = "wait"
  /\ selectFds' = IF AllOpen
                  THEN {f \in Kept : FdReady(f)}
                         \cup (IF backlog # <<>> THEN {ListenFd} ELSE {})
                  ELSE Kept \cup {ListenFd}
  /\ selectFds' # {}
  /\ index' = 1
  /\ pc' = IF ListenFd \in selectFds' THEN "accept" ELSE "scan"
  /\ UNCHANGED <<netVars, cur, owed, clientSockets>>

\* Mutant: the new socket stored, and read from in the same scan.
SeverAcceptStored ==
  /\ pc = "accept"
  /\ \E f \in Fds :
       /\ Accepted(f)
       /\ clientSockets' = Append(clientSockets, f)
       /\ selectFds' = selectFds \cup {f}
  /\ pc' = "scan"
  /\ UNCHANGED <<cur, owed, index>>

\* std::find looks for new_socket itself: found or not, clientSockets_ stays.
SeverAccept ==
  /\ pc = "accept"
  /\ \E f \in Fds : Accepted(f)
  /\ pc' = "scan"
  /\ UNCHANGED <<cur, owed, clientSockets, severVars>>

\* The listener does not block: without a connection accept fails as well.
SeverAcceptFails ==
  /\ pc = "accept"
  /\ backlog = <<>> \/ TableFull
  /\ EndProcess

Scanning == pc = "scan" /\ index \in DOMAIN clientSockets

\* Not in the set, or closed in this scan: then read and send fail with EBADF.
SeverSkip ==
  /\ Scanning
  /\ clientSockets[index] \notin selectFds \/ fdConn[clientSockets[index]] = NoConn
  /\ index' = index + 1
  /\ UNCHANGED <<netVars, echoVars, clientSockets, selectFds>>

SeverRead ==
  /\ Scanning
  /\ clientSockets[index] \in selectFds
  /\ fdConn[clientSockets[index]] # NoConn
  /\ cur' = clientSockets[index]
  /\ pc' = "read"
  /\ UNCHANGED <<netVars, owed, clientSockets, severVars>>

SeverEcho ==
  /\ pc = "read" /\ Conn # StdinConn
  /\ ReadThenSend(Received(Conn) - rcvd[Conn])
  /\ UNCHANGED <<clientSockets, severVars>>

\* send fails on what is not a socket, and nobody asks.
SeverReadStdin ==
  /\ pc = "read" /\ Conn = StdinConn
  /\ RecvData(Conn)
  /\ pc' = "scan"
  /\ index' = index + 1
  /\ UNCHANGED <<cur, owed, clientSockets, selectFds>>

SeverSent ==
  /\ SendOn("scan") \/ SendLost("scan")
  /\ index' = IF pc' = "scan" THEN index + 1 ELSE index
  /\ UNCHANGED <<clientSockets, selectFds>>

\* Mutant: closed and the slot not marked.
SeverHangUpKept ==
  /\ ReadEnd
  /\ CloseFd(cur)
  /\ index' = index + 1
  /\ pc' = "scan"
  /\ UNCHANGED <<cur, owed, selectFds, clientSockets>>

\* close(sd), and the slot set to 0, which is a descriptor too.
SeverHangUp ==
  /\ ReadEnd
  /\ CloseFd(cur)
  /\ clientSockets' = [clientSockets EXCEPT ![index] = Stdin]
  /\ index' = index + 1
  /\ pc' = "scan"
  /\ UNCHANGED <<cur, owed, selectFds>>

SeverScanned ==
  /\ pc = "scan"
  /\ index > Len(clientSockets)
  /\ pc' = "wait"
  /\ UNCHANGED <<netVars, cur, owed, clientSockets, severVars>>

SeverFails == SeverAcceptFails \/ ((ReadError \/ BrokenPipe) /\ EndProcess)

SeverStep ==
  \/ SeverWait \/ SeverAccept \/ SeverSkip \/ SeverRead \/ SeverEcho
  \/ SeverReadStdin \/ SeverSent \/ SeverHangUp \/ SeverScanned
  \/ SeverFails /\ UNCHANGED <<clientSockets, severVars>>
-----------------------------------------------------------------------------
\* server_poll is the loop of EchoPoll, but it is not main that it returns from:
\* when accept fails, or poll for want of memory, everything stays open.
PollReturns ==
  /\ PollAcceptFails \/ (pc = "wait" /\ AddMayFail)
  /\ mode' = "returned"
  /\ pc' = "wait"
  /\ UNCHANGED <<netVars, cur, owed, pollLoopVars>>

ServerPoll ==
  \/ (PollTurn \/ (PollKilled /\ UNCHANGED pollLoopVars)) /\ UNCHANGED mode
  \/ PollReturns

ServerStep ==
  \/ /\ mode = "select" /\ SeverStep
     /\ UNCHANGED <<mode, pollLoopVars, epollLoopVars>>
  \/ /\ mode = "poll" /\ ServerPoll
     /\ UNCHANGED <<clientSockets, severVars, epollLoopVars>>
  \/ /\ mode = "epoll" /\ EpollStep
     /\ UNCHANGED <<mode, clientSockets, severVars, pollLoopVars>>

\* Clients of the server, and whoever types at its standard input.
Outside ==
  /\ \/ \E c \in Clients : Ask(c) \/ Say(c) \/ Leave(c) \/ Vanish(c) \/ Hear(c)
     \/ Say(StdinConn) \/ Leave(StdinConn)
  /\ UNCHANGED <<echoVars, mode, clientSockets, severVars, pollLoopVars, epollLoopVars>>

Idle ==
  /\ pc = "down" \/ (pc = "wait" /\ backlog = <<>>)
  /\ UNCHANGED vars

Next ==
  \/ ServerAccept \/ StartPoll \/ StartSelectOrEpoll \/ Return
  \/ ServerStep
  \/ Outside
  \/ Idle

Spec == Init /\ [][Next]_vars

\* A loop that was entered keeps running, and clients read what they are sent.
Fairness ==
  /\ WF_vars(ServerStep)
  /\ \A c \in Clients : WF_vars(Outside /\ Hear(c))

FairSpec == Spec /\ Fairness
-----------------------------------------------------------------------------
SlotsAtZero == {k \in DOMAIN clientSockets : clientSockets[k] = Stdin}

Tracked(c) == \E k \in DOMAIN clientSockets : fdConn[clientSockets[k]] = c

(***************************************************************************)
(* A read never blocks; in sever_select only as long as standard input is  *)
(* open and at most one client has left.  Two slots at 0 read one typed    *)
(* line twice, and the second read waits for the user at the terminal.     *)
(***************************************************************************)
BlocksOnlyAfterLeavers ==
  pc = "read" /\ (mode = "select" => fdConn[Stdin] = StdinConn /\ Cardinality(SlotsAtZero) <= 1)
    => FdReady(cur)

(***************************************************************************)
(* What a loop watches: poll and epoll the connections server_accept did   *)
(* not take, each once; select those it did take, until they leave.        *)
(***************************************************************************)
LoopWatches ==
  pc # "down" =>
    LET open  == {f \in Fds \ {Stdin} : fdConn[f] # NoConn}
    IN /\ mode = "poll" =>
            /\ {fds[k].fd : k \in DOMAIN fds} = {ListenFd} \cup (open \ Kept)
            /\ \A j, k \in DOMAIN fds : fds[j].fd = fds[k].fd => j = k
       /\ mode = "epoll" => interest = open \ Kept
       /\ Kept \subseteq open \cup {Stdin}
       /\ \A j, k \in DOMAIN clientSockets :
            clientSockets[j] = clientSockets[k] => j = k \/ clientSockets[j] = Stdin

(***************************************************************************)
(* Who speaks is eventually sent back all of it: in select the clients     *)
(* accepted before, until one of them leaves; in poll and epoll the others,*)
(* until server_poll gives up, its poll or accept having failed.           *)
(***************************************************************************)
EveryoneServed ==
  \A c \in Clients :
    sent[c] > 0 /\ mode \notin {"setup", "returned"} /\ (Tracked(c) <=> mode = "select")
      ~> \/ told[c] = sent[c]
         \/ peer[c] \notin {"live", "fin"} \/ pc = "down" \/ mode = "returned"
         \/ mode = "select" /\ SlotsAtZero # {}
=============================================================================
