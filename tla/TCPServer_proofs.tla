--------------------------- MODULE TCPServer_proofs ---------------------------
(***************************************************************************)
(* Proofs about the TCPServer class, for any number of clients, slots and  *)
(* descriptors.  What the class adds to the loops of Lecture 2 is what     *)
(* lies beside them: the descriptors server_accept took before, and        *)
(* standard input.  server_poll and server_epoll leave those alone, so the *)
(* invariants of EchoLoops_proofs hold of them as they are, for the set of *)
(* descriptors Beyond.  sever_select gets an invariant of its own.         *)
(***************************************************************************)
EXTENDS TCPServer, EchoLoops_proofs

\* What poll and epoll are never told of.
Beyond == {Stdin} \cup Kept

SlotLists ==
  /\ clientSockets \in Seq(Fds)
  /\ selectFds \subseteq Fds \cup {ListenFd}
  /\ index \in Nat \ {0}

\* server_accept stored each socket once; only the 0 of those that left repeats.
KeptOnce ==
  \A j, k \in DOMAIN clientSockets :
    clientSockets[j] = clientSockets[k] => j = k \/ clientSockets[j] = Stdin

\* Standard input is there from the start and is not opened again.
StdinOnce == phase[StdinConn] \in {"open", "closed"}

\* Before the loop, every open descriptor is one the class knows of.
SetupInv ==
  /\ ServeInv /\ StdinOnce
  /\ pc \in {"wait", "down"}
  /\ pc # "down" => Beside(Beyond) /\ NoneBeside(Beyond)

\* A slot that is not 0 holds a socket sever_select has not closed.
KeptOpen == pc # "down" => \A f \in Kept : f # Stdin => fdConn[f] # NoConn

AtIndex == pc \in Working => index \in DOMAIN clientSockets /\ clientSockets[index] = cur

\* Standard input is open, and the scan comes across it once at most.
Alone == fdConn[Stdin] = StdinConn /\ \A j, k \in SlotsAtZero : j = k

\* The scan has still to come to slot k.
Ahead(k) ==
  pc = "accept" \/ (pc = "scan" /\ k >= index) \/ (pc \in Working /\ k > index)

(***************************************************************************)
(* What select reported of the slots ahead holds until the scan is there,  *)
(* for as long as no two slots stand for the same descriptor.              *)
(***************************************************************************)
SetTrue ==
  Alone =>
    /\ NoBlindRead
    /\ \A k \in DOMAIN clientSockets :
         clientSockets[k] \in selectFds /\ Ahead(k) => FdReady(clientSockets[k])

SeverInv == ServeInv /\ StdinOnce /\ KeptOpen /\ AtIndex /\ SetTrue

ClassInv ==
  /\ mode \in {"setup", "select", "poll", "epoll", "returned"}
  /\ SlotLists /\ KeptOnce /\ PollLists /\ EpollLists
  /\ mode # "epoll" => events = <<>> /\ interest = {}
  /\ mode = "setup" => SetupInv
  /\ mode = "select" => SeverInv
  /\ mode \in {"poll", "returned"} => PollInv(Beyond)
  /\ mode = "epoll" => EpollInv(Beyond)
-----------------------------------------------------------------------------
LEMMA StdinTyped == Stdin \in Fds /\ StdinConn \in Conns
BY StdinAssumption, SocketsAssumption DEF Stdin, Fds

LEMMA SlotsTyped ==
  ASSUME SlotLists
  PROVE  /\ Len(clientSockets) \in Nat /\ DOMAIN clientSockets = 1 .. Len(clientSockets)
         /\ index \in Nat \ {0}
         /\ \A k \in DOMAIN clientSockets : k \in Nat /\ clientSockets[k] \in Fds
         /\ \A f : f \in Kept <=> \E k \in DOMAIN clientSockets : f = clientSockets[k]
         /\ Kept \subseteq Fds
<1>1. /\ Len(clientSockets) \in Nat /\ DOMAIN clientSockets = 1 .. Len(clientSockets)
      /\ index \in Nat \ {0}
  BY LenProperties DEF SlotLists
<1>2. \A k \in DOMAIN clientSockets : k \in Nat /\ clientSockets[k] \in Fds
  BY <1>1, ElementOfSeq DEF SlotLists
<1>3. \A f : f \in Kept <=> \E k \in DOMAIN clientSockets : f = clientSockets[k]
  BY DEF Kept, Range
<1> QED
  BY <1>1, <1>2, <1>3

LEMMA SlotsStutter ==
  ASSUME UNCHANGED clientSockets
  PROVE  Kept' = Kept /\ Beyond' = Beyond /\ SlotsAtZero' = SlotsAtZero
BY DEF Kept, Range, Beyond, SlotsAtZero

\* An accepted connection was waiting: it is not the one behind standard input.
LEMMA StdinStaysClosed ==
  ASSUME ServeInv, StdinOnce, NEW f \in Fds, Accepted(f)
  PROVE  /\ StdinOnce'
         /\ fdConn'[Stdin] = StdinConn => fdConn[Stdin] = StdinConn
<1>1. /\ backlog # <<>> /\ backlog \in Seq(Conns)
      /\ phase' = [phase EXCEPT ![Head(backlog)] = "open"]
      /\ fdConn' = [fdConn EXCEPT ![f] = Head(backlog)]
      /\ fdConn \in [Fds -> Conns \cup {NoConn}] /\ phase \in [Conns -> Phases]
  BY DEF Accepted, ServeInv, NetInv, NetTypeOK
<1>2. 1 \in DOMAIN backlog /\ Head(backlog) = backlog[1] /\ Head(backlog) \in Conns
  <2>1. Len(backlog) \in Nat \ {0} /\ DOMAIN backlog = 1 .. Len(backlog)
    BY <1>1, LenProperties, EmptySeq
  <2> QED
    BY <1>1, <2>1, HeadTailProperties
<1>3. phase[Head(backlog)] = "queued"
  BY <1>2 DEF ServeInv, NetInv, QueueSound
<1>4. Head(backlog) # StdinConn
  BY <1>3 DEF StdinOnce
<1> QED
  BY <1>1, <1>2, <1>4, StdinTyped DEF StdinOnce

\* A read that returned data returned at least one unit.
LEMMA ReceivedMore ==
  ASSUME ServeInv, pc \in Working, RecvData(Conn)
  PROVE  Received(Conn) - rcvd[Conn] \in Nat
<1>1. Conn \in Conns /\ sent[Conn] \in Nat /\ rcvd[Conn] \in Nat /\ sent[Conn] > rcvd[Conn]
  BY ServedIsOpen DEF RecvData
<1> QED
  BY <1>1, SocketsAssumption DEF Received, Least

\* Closing descriptors does not open standard input either.
LEMMA StdinStaysOnce ==
  ASSUME StdinOnce, NetTypeOK, NEW c \in Conns,
         \/ UNCHANGED phase
         \/ phase' = [phase EXCEPT ![c] = "closed"]
         \/ phase[c] = "new" /\ phase' = [phase EXCEPT ![c] = "queued"]
  PROVE  StdinOnce'
BY StdinTyped DEF StdinOnce, NetTypeOK
-----------------------------------------------------------------------------
(* A loop's invariant is about a fixed set of descriptors beside it, which *)
(* is what Beyond is once no more sockets are accepted for it.             *)

LEMMA PollEntersLater ==
  ASSUME NEW E
  PROVE  (ServeInv /\ pc = "wait" /\ Beside(E) /\ NoneBeside(E)
            /\ fds = <<PollFd(ListenFd, FALSE)>> /\ i \in Nat \ {0}
          => PollInv(E))'
<1>1. ServeInv /\ pc = "wait" /\ Beside(E) /\ NoneBeside(E)
        /\ fds = <<PollFd(ListenFd, FALSE)>> /\ i \in Nat \ {0}
      => PollInv(E)
  BY PollEnters
<1> QED
  BY <1>1, PTL

LEMMA EpollEntersLater ==
  ASSUME NEW E
  PROVE  (ServeInv /\ pc = "wait" /\ Beside(E) /\ NoneBeside(E)
            /\ events = <<>> /\ interest = {}
          => EpollInv(E))'
<1>1. ServeInv /\ pc = "wait" /\ Beside(E) /\ NoneBeside(E)
        /\ events = <<>> /\ interest = {}
      => EpollInv(E)
  BY EpollEnters
<1> QED
  BY <1>1, PTL

LEMMA PollBeyond ==
  ASSUME NEW E, E = Beyond
  PROVE  PollInv(Beyond) <=> PollInv(E)
BY DEF PollInv, Beside, Listed, OpenBeside

LEMMA EpollBeyond ==
  ASSUME NEW E, E = Beyond
  PROVE  EpollInv(Beyond) <=> EpollInv(E)
BY DEF EpollInv, Beside, Interest, OpenBeside

LEMMA PollStaysBeyond ==
  ASSUME NEW E, E = Beyond, UNCHANGED clientSockets, PollInv(E)'
  PROVE  PollInv(Beyond)'
<1>1. E = Beyond'
  BY SlotsStutter
<1> QED
  BY <1>1 DEF PollInv, Beside, Listed, OpenBeside

LEMMA EpollStaysBeyond ==
  ASSUME NEW E, E = Beyond, UNCHANGED clientSockets, EpollInv(E)'
  PROVE  EpollInv(Beyond)'
<1>1. E = Beyond'
  BY SlotsStutter
<1> QED
  BY <1>1 DEF EpollInv, Beside, Interest, OpenBeside
-----------------------------------------------------------------------------
(* Before the loop. *)

LEMMA ClassStarts == Init => ClassInv
<1> SUFFICES ASSUME Init PROVE ClassInv
  OBVIOUS
<1>1. /\ pc = "wait" /\ cur = Stdin /\ owed = 0 /\ mode = "setup" /\ clientSockets = <<>>
      /\ selectFds = {} /\ index = 1 /\ fds = <<>> /\ i = 1 /\ events = <<>> /\ interest = {}
  BY DEF Init
<1>2. /\ phase = [c \in Conns |-> IF c = StdinConn THEN "open" ELSE "new"]
      /\ fdConn = [f \in Fds |-> IF f = Stdin THEN StdinConn ELSE NoConn]
      /\ backlog = <<>> /\ sent = [c \in Conns |-> 0] /\ rcvd = sent /\ told = sent
      /\ heard = sent /\ peer = [c \in Conns |-> "live"]
  BY DEF Init
<1>3. \A T : <<>> \in Seq(T) /\ DOMAIN <<>> = {}
  BY EmptySeq
<1>4. Stdin \in Fds /\ StdinConn \in Conns /\ NoConn \notin Conns
  BY StdinTyped, ConnectionsAssumption
<1>5. ServeInv
  <2>1. NetTypeOK
    BY <1>2, <1>3, <1>4 DEF NetTypeOK, Phases, Peers
  <2>2. QueueSound
    BY <1>2, <1>3 DEF QueueSound
  <2>3. TableSound /\ OpenHeld /\ Untold
    BY <1>2, <1>4 DEF TableSound, OpenHeld, Untold
  <2>4. EchoTypeOK /\ Busy /\ ReadToTheEnd
    BY <1>1, <1>2, <1>4 DEF EchoTypeOK, Busy, ReadToTheEnd, Working
  <2> QED
    BY <2>1, <2>2, <2>3, <2>4 DEF ServeInv, NetInv
<1>6. SlotLists /\ KeptOnce /\ PollLists /\ EpollLists
  BY <1>1, <1>3 DEF SlotLists, KeptOnce, PollLists, EpollLists
<1>7. Kept = {}
  BY <1>1, <1>3 DEF Kept, Range
<1>8. SetupInv
  BY <1>1, <1>2, <1>4, <1>5, <1>7
     DEF SetupInv, StdinOnce, Beside, NoneBeside, Beyond, Working
<1> QED
  BY <1>1, <1>6, <1>8 DEF ClassInv

\* server_accept: the new socket was free before, so no slot has it.
LEMMA ServerAcceptKeeps ==
  ASSUME ClassInv, ServerAccept
  PROVE  ClassInv'
<1>1. PICK f \in Fds : Accepted(f) /\ clientSockets' = Append(clientSockets, f)
  BY DEF ServerAccept
<1>2. /\ mode = "setup" /\ pc = "wait"
      /\ UNCHANGED <<pc, cur, owed, mode, selectFds, index, fds, i, events, interest>>
  BY DEF ServerAccept, echoVars, severVars, pollLoopVars, epollLoopVars
<1>3. /\ ServeInv /\ StdinOnce /\ Beside(Beyond) /\ NoneBeside(Beyond)
      /\ SlotLists /\ KeptOnce /\ PollLists /\ EpollLists /\ events = <<>> /\ interest = {}
  BY <1>2 DEF ClassInv, SetupInv
<1>4. /\ ServeInv' /\ fdConn[f] = NoConn /\ fdConn'[f] # NoConn
      /\ \A g \in Fds : g # f => fdConn'[g] = fdConn[g]
  BY <1>1, <1>2, <1>3, AcceptedKeeps DEF Working
<1>5. /\ clientSockets' \in Seq(Fds) /\ Len(clientSockets) \in Nat
      /\ Len(clientSockets') = Len(clientSockets) + 1
      /\ DOMAIN clientSockets = 1 .. Len(clientSockets)
      /\ \A k \in 1 .. Len(clientSockets) : clientSockets'[k] = clientSockets[k]
      /\ clientSockets'[Len(clientSockets) + 1] = f
  BY <1>1, <1>3, Appended, LenProperties DEF SlotLists
<1>6. DOMAIN clientSockets' = DOMAIN clientSockets \cup {Len(clientSockets) + 1}
  <2>1. DOMAIN clientSockets' = 1 .. Len(clientSockets) + 1
    BY <1>5, LenProperties
  <2> QED
    BY <1>5, <2>1
<1>7. Kept' = Kept \cup {f} /\ f \notin Beyond
  <2>1. f \notin Beyond
    BY <1>2, <1>3, <1>4 DEF Beside
  <2> QED
    BY <1>5, <1>6, <2>1 DEF Kept, Range
<1>8. SlotLists' /\ KeptOnce'
  <2>1. \A k \in DOMAIN clientSockets : clientSockets[k] # f
    BY <1>7 DEF Beyond, Kept, Range
  <2> QED
    BY <1>2, <1>3, <1>5, <1>6, <2>1 DEF SlotLists, KeptOnce
<1>9. Beside(Beyond)' /\ NoneBeside(Beyond)'
  <2>1. Beyond' = Beyond \cup {f}
    BY <1>7 DEF Beyond
  <2> QED
    BY <1>2, <1>3, <1>4, <2>1 DEF Beside, NoneBeside, Working
<1>10. SetupInv'
  BY <1>1, <1>2, <1>3, <1>4, <1>9, StdinStaysClosed DEF SetupInv
<1> QED
  BY <1>2, <1>3, <1>8, <1>10 DEF ClassInv, PollLists, EpollLists

\* A loop is entered with nothing watched but what was open before.
LEMMA StartKeeps ==
  ASSUME ClassInv, StartPoll \/ StartSelectOrEpoll
  PROVE  ClassInv'
<1>1. /\ mode = "setup" /\ pc = "wait" /\ mode' \in {"select", "poll", "epoll"}
      /\ UNCHANGED <<netVars, echoVars, fdConn, pc, cur, clientSockets, selectFds, index>>
      /\ UNCHANGED <<events, interest>>
      /\ IF mode' = "poll" THEN fds' = <<PollFd(ListenFd, FALSE)>> /\ i' = i
                           ELSE UNCHANGED <<fds, i>>
  BY DEF StartPoll, StartSelectOrEpoll, Start, echoVars, netVars, severVars, epollLoopVars,
         pollLoopVars
<1>2. /\ ServeInv /\ StdinOnce /\ Beside(Beyond) /\ NoneBeside(Beyond)
      /\ SlotLists /\ KeptOnce /\ PollLists /\ EpollLists /\ events = <<>> /\ interest = {}
  BY <1>1 DEF ClassInv, SetupInv
<1>3. Kept' = Kept /\ Beyond' = Beyond /\ ServeInv'
  BY <1>1, <1>2, SlotsStutter, EchoStutters
<1>4. SlotLists' /\ KeptOnce' /\ EpollLists' /\ Beside(Beyond)' /\ NoneBeside(Beyond)'
  BY <1>1, <1>2, <1>3 DEF SlotLists, KeptOnce, EpollLists, Beside, NoneBeside
<1>5. CASE mode' = "select"
  <2>1. KeptOpen' /\ StdinOnce' /\ AtIndex' /\ SetTrue'
    BY <1>1, <1>2, <1>3
       DEF KeptOpen, Beside, Beyond, StdinOnce, AtIndex, SetTrue, Ahead, NoBlindRead,
           Working, netVars
  <2> QED
    BY <1>1, <1>2, <1>3, <1>4, <1>5, <2>1 DEF ClassInv, SeverInv, PollLists
<1>6. CASE mode' = "poll"
  <2>1. PollInv(Beyond)'
    <3> SUFFICES ASSUME NEW E, E = Beyond PROVE PollInv(E)'
      BY <1>1, PollStaysBeyond
    <3>1. Beside(E)' /\ NoneBeside(E)'
      BY <1>1, <1>2 DEF Beside, NoneBeside
    <3>2. (fds = <<PollFd(ListenFd, FALSE)>>)' /\ (i \in Nat \ {0})'
      BY <1>1, <1>2, <1>6 DEF PollLists, PollFd, ListenFd
    <3> QED
      BY <1>1, <1>3, <3>1, <3>2, PollEntersLater
  <2> QED
    BY <1>1, <1>2, <1>4, <1>6, <2>1 DEF ClassInv, PollInv
<1>7. CASE mode' = "epoll"
  <2>1. EpollInv(Beyond)'
    <3> SUFFICES ASSUME NEW E, E = Beyond PROVE EpollInv(E)'
      BY <1>1, EpollStaysBeyond
    <3>1. Beside(E)' /\ NoneBeside(E)'
      BY <1>1, <1>2 DEF Beside, NoneBeside
    <3> QED
      BY <1>1, <1>2, <1>3, <3>1, EpollEntersLater
  <2> QED
    BY <1>1, <1>2, <1>4, <1>7, <2>1 DEF ClassInv, PollLists
<1> QED
  BY <1>1, <1>5, <1>6, <1>7

\* main returns: nothing but closing happens.
LEMMA ReturnKeeps ==
  ASSUME ClassInv, Return
  PROVE  ClassInv'
<1>1. /\ mode \in {"setup", "returned"} /\ pc = "wait" /\ EndProcess
      /\ UNCHANGED <<mode, clientSockets, selectFds, index, fds, i, events, interest>>
  BY DEF Return, severVars, pollLoopVars, epollLoopVars
<1>2. SlotLists' /\ KeptOnce' /\ PollLists' /\ EpollLists'
  BY <1>1 DEF ClassInv, SlotLists, KeptOnce, PollLists, EpollLists
<1>3. CASE mode = "setup"
  <2>1. ServeInv' /\ pc' = "down"
    BY <1>1, <1>3, EndKeeps DEF ClassInv, SetupInv
  <2>2. StdinOnce'
    BY <1>1, <1>3, StdinTyped DEF ClassInv, SetupInv, StdinOnce, EndProcess, CloseAll
  <2> QED
    BY <1>1, <1>2, <1>3, <2>1, <2>2 DEF ClassInv, SetupInv
<1>4. CASE mode = "returned"
  <2>1. PollInv(Beyond)'
    <3> SUFFICES ASSUME NEW E, E = Beyond PROVE PollInv(E)'
      BY <1>1, PollStaysBeyond
    <3>1. PollInv(E)
      BY <1>4, PollBeyond DEF ClassInv
    <3> QED
      BY <1>1, <3>1, PollEndKeeps DEF pollLoopVars
  <2> QED
    BY <1>1, <1>2, <1>4, <2>1 DEF ClassInv
<1> QED
  BY <1>1, <1>3, <1>4
-----------------------------------------------------------------------------
(* sever_select. *)

\* While standard input has one slot, no slot but the current one is being served.
LEMMA ServedOnce ==
  ASSUME SlotLists, KeptOnce, AtIndex, Alone, pc \in Working
  PROVE  /\ index \in DOMAIN clientSockets /\ clientSockets[index] = cur
         /\ \A k \in DOMAIN clientSockets : k # index => clientSockets[k] # cur
<1>1. index \in DOMAIN clientSockets /\ clientSockets[index] = cur
  BY DEF AtIndex
<1>2. ASSUME NEW k \in DOMAIN clientSockets, k # index PROVE clientSockets[k] # cur
  BY <1>1, <1>2 DEF KeptOnce, Alone, SlotsAtZero
<1> QED
  BY <1>1, <1>2

LEMMA SeverWaitKeeps ==
  ASSUME SlotLists, KeptOnce, SeverInv, SeverWait
  PROVE  SlotLists' /\ KeptOnce' /\ SeverInv'
<1>1. /\ pc = "wait" /\ pc' \in {"accept", "scan"} /\ index' = 1
      /\ UNCHANGED <<netVars, fdConn, phase, cur, owed, clientSockets>>
      /\ selectFds' = IF AllOpen
                      THEN {f \in Kept : FdReady(f)}
                             \cup (IF backlog # <<>> THEN {ListenFd} ELSE {})
                      ELSE Kept \cup {ListenFd}
  BY DEF SeverWait, netVars
<1>2. ServeInv'
  BY <1>1, TurnKeeps DEF SeverInv, ServeInv, EchoTypeOK
<1>3. SlotLists' /\ KeptOnce'
  BY <1>1, SlotsTyped DEF SlotLists, KeptOnce
<1>4. StdinOnce' /\ KeptOpen' /\ AtIndex'
  BY <1>1, SlotsStutter DEF SeverInv, StdinOnce, KeptOpen, AtIndex, Working
<1>5. SetTrue'
  <2> SUFFICES ASSUME fdConn[Stdin] = StdinConn,
                      NEW k \in DOMAIN clientSockets, clientSockets[k] \in selectFds'
               PROVE  FdReady(clientSockets[k])'
    BY <1>1 DEF SetTrue, Alone, NoBlindRead, netVars
  <2>1. AllOpen
    <3>1. fdConn[Stdin] # NoConn
      BY StdinTyped, ConnectionsAssumption
    <3> QED
      BY <1>1, <3>1 DEF AllOpen, SeverInv, KeptOpen
  <2>2. clientSockets[k] # ListenFd
    BY SlotsTyped DEF Fds, ListenFd
  <2>3. FdReady(clientSockets[k])
    BY <1>1, <2>1, <2>2
  <2> QED
    BY <1>1, <2>3 DEF FdReady, Readable, netVars
<1> QED
  BY <1>2, <1>3, <1>4, <1>5 DEF SeverInv

\* accept, and the new socket forgotten: what is ready stays ready.
LEMMA SeverAcceptKeeps ==
  ASSUME SlotLists, KeptOnce, SeverInv, SeverAccept
  PROVE  SlotLists' /\ KeptOnce' /\ SeverInv'
<1>1. /\ pc = "accept" /\ pc' = "scan" /\ pc \notin Working /\ pc' \notin Working
      /\ UNCHANGED <<cur, owed, clientSockets, selectFds, index>>
  BY DEF SeverAccept, severVars, Working
<1>2. PICK f \in Fds : Accepted(f)
  BY DEF SeverAccept
<1>3. /\ ServeInv' /\ fdConn'[f] # NoConn
      /\ \A g \in Fds : g # f => fdConn'[g] = fdConn[g]
      /\ \A g \in Fds : FdReady(g) => FdReady(g)'
  BY <1>1, <1>2, AcceptedKeeps DEF SeverInv
<1>4. StdinOnce' /\ (fdConn'[Stdin] = StdinConn => fdConn[Stdin] = StdinConn)
  BY <1>2, StdinStaysClosed DEF SeverInv
<1>5. SlotLists' /\ KeptOnce' /\ Kept' = Kept /\ SlotsAtZero' = SlotsAtZero
  BY <1>1, SlotsStutter DEF SlotLists, KeptOnce
<1>6. KeptOpen' /\ AtIndex'
  BY <1>1, <1>3, <1>5, SlotsTyped DEF SeverInv, KeptOpen, AtIndex
<1>7. SetTrue'
  BY <1>1, <1>3, <1>4, <1>5, SlotsTyped DEF SeverInv, SetTrue, Alone, Ahead, NoBlindRead
<1> QED
  BY <1>3, <1>4, <1>5, <1>6, <1>7 DEF SeverInv

\* The scan passes over a slot, takes one up or comes to the end.
LEMMA SeverScanKeeps ==
  ASSUME SlotLists, KeptOnce, SeverInv, SeverSkip \/ SeverRead \/ SeverScanned
  PROVE  SlotLists' /\ KeptOnce' /\ SeverInv'
<1>1. /\ pc = "scan" /\ pc \notin Working
      /\ UNCHANGED <<netVars, fdConn, phase, owed, clientSockets, selectFds>>
  BY DEF SeverSkip, SeverRead, SeverScanned, Scanning, echoVars, severVars, netVars, Working
<1>2. Kept' = Kept /\ SlotsAtZero' = SlotsAtZero
  BY <1>1, SlotsStutter
<1>3. \A f : FdReady(f) => FdReady(f)'
  BY <1>1 DEF FdReady, Readable, netVars
<1>4. \/ /\ pc' = "scan" /\ cur' = cur /\ index' = index + 1
      \/ /\ pc' = "wait" /\ cur' = cur /\ index' = index
      \/ /\ pc' = "read" /\ index' = index /\ index \in DOMAIN clientSockets
         /\ cur' = clientSockets[index] /\ cur' \in selectFds /\ fdConn[cur'] # NoConn
  BY DEF SeverSkip, SeverRead, SeverScanned, Scanning, echoVars, severVars
<1>5. ServeInv'
  BY <1>1, <1>4, SlotsTyped, TurnKeeps DEF SeverInv, ServeInv, EchoTypeOK
<1>6. SlotLists' /\ KeptOnce' /\ StdinOnce' /\ KeptOpen' /\ AtIndex'
  BY <1>1, <1>2, <1>4, SlotsTyped
     DEF SlotLists, KeptOnce, SeverInv, StdinOnce, KeptOpen, AtIndex, Working
<1>7. SetTrue'
  <2> SUFFICES ASSUME Alone
               PROVE  /\ NoBlindRead'
                      /\ \A k \in DOMAIN clientSockets :
                           clientSockets[k] \in selectFds /\ Ahead(k)'
                             => FdReady(clientSockets[k])'
    BY <1>1, <1>2 DEF SetTrue, Alone
  <2>1. \A k \in DOMAIN clientSockets :
          clientSockets[k] \in selectFds /\ k >= index => FdReady(clientSockets[k])
    BY <1>1 DEF SeverInv, SetTrue, Ahead
  <2>2. \A k \in DOMAIN clientSockets : Ahead(k)' => k >= index
    BY <1>4, SlotsTyped DEF Ahead, Working
  <2>3. NoBlindRead'
    <3> SUFFICES ASSUME pc' = "read" PROVE FdReady(cur)'
      BY DEF NoBlindRead
    <3>1. FdReady(cur')
      BY <1>4, <2>1, SlotsTyped
    <3> QED
      BY <1>1, <3>1 DEF FdReady, Readable, netVars
  <2>4. ASSUME NEW k \in DOMAIN clientSockets, clientSockets[k] \in selectFds, Ahead(k)'
        PROVE  FdReady(clientSockets[k])'
    <3>1. FdReady(clientSockets[k])
      BY <2>1, <2>2, <2>4
    <3> QED
      BY <1>1, <3>1 DEF FdReady, Readable, netVars
  <2> QED
    BY <2>3, <2>4
<1> QED
  BY <1>5, <1>6, <1>7 DEF SeverInv

\* read and send: the sockets in the slots ahead are not the one being served.
LEMMA SeverServesKeep ==
  ASSUME SlotLists, KeptOnce, SeverInv, SeverEcho \/ SeverReadStdin \/ SeverSent
  PROVE  SlotLists' /\ KeptOnce' /\ SeverInv'
<1>1. /\ pc \in Working /\ pc' \in {"send", "scan"} /\ UNCHANGED <<cur, clientSockets, selectFds>>
      /\ index' = IF pc' = "scan" THEN index + 1 ELSE index
  BY DEF SeverEcho, SeverReadStdin, SeverSent, ReadThenSend, SendOn, SendLost, Working, severVars
<1>2. /\ ServeInv' /\ UNCHANGED fdConn
      /\ \A f \in Fds \ {cur} : FdReady(f) => FdReady(f)'
  <2>1. CASE SeverEcho \/ SeverReadStdin
    <3>1. RecvData(Conn) /\ pc = "read" /\ UNCHANGED cur
      BY <2>1 DEF SeverEcho, SeverReadStdin, ReadThenSend
    <3>2. owed' \in Nat
      <4>1. Received(Conn) - rcvd[Conn] \in Nat
        BY <3>1, ReceivedMore DEF SeverInv, Working
      <4> QED
        BY <2>1, <4>1
           DEF SeverEcho, SeverReadStdin, ReadThenSend, SeverInv, ServeInv, EchoTypeOK
    <3> QED
      BY <1>1, <3>1, <3>2, RecvServes DEF SeverInv
  <2>2. CASE SeverSent
    BY <2>2, SendServes DEF SeverSent, SeverInv
  <2> QED
    BY <2>1, <2>2
<1>3. UNCHANGED phase
  BY DEF SeverEcho, SeverReadStdin, SeverSent, ReadThenSend, RecvData, SendOn, SendLost,
         SendSome, SendFails
<1>4. Kept' = Kept /\ SlotsAtZero' = SlotsAtZero
  BY <1>1, SlotsStutter
<1>5. SlotLists' /\ KeptOnce' /\ StdinOnce' /\ KeptOpen' /\ AtIndex'
  BY <1>1, <1>2, <1>3, <1>4, SlotsTyped
     DEF SlotLists, KeptOnce, SeverInv, StdinOnce, KeptOpen, AtIndex, Working
<1>6. SetTrue'
  <2> SUFFICES ASSUME Alone, NEW k \in DOMAIN clientSockets, clientSockets[k] \in selectFds,
                      Ahead(k)'
               PROVE  FdReady(clientSockets[k])'
    BY <1>1, <1>2, <1>4 DEF SetTrue, Alone, NoBlindRead
  <2>1. k > index
    BY <1>1, SlotsTyped DEF Ahead, Working
  <2>2. clientSockets[k] \in Fds \ {cur} /\ FdReady(clientSockets[k])
    BY <1>1, <2>1, ServedOnce, SlotsTyped DEF SeverInv, SetTrue, Ahead, Working
  <2> QED
    BY <1>1, <1>2, <2>2 DEF FdReady, Readable
<1> QED
  BY <1>2, <1>5, <1>6 DEF SeverInv

\* A client left: its slot becomes another one at 0.
LEMMA SeverHangUpKeeps ==
  ASSUME SlotLists, KeptOnce, SeverInv, SeverHangUp
  PROVE  SlotLists' /\ KeptOnce' /\ SeverInv'
<1>1. /\ ReadEnd /\ CloseFd(cur) /\ index' = index + 1 /\ pc' = "scan"
      /\ clientSockets' = [clientSockets EXCEPT ![index] = Stdin]
      /\ UNCHANGED <<cur, owed, selectFds>> /\ pc = "read" /\ pc \in Working
  BY DEF SeverHangUp, ReadEnd, Working
<1>2. /\ ServeInv' /\ fdConn' = [fdConn EXCEPT ![cur] = NoConn]
      /\ \A f \in Fds \ {cur} : FdReady(f) => FdReady(f)'
  BY <1>1, HangUpKeeps DEF SeverInv
<1>3. /\ cur \in Fds /\ index \in DOMAIN clientSockets /\ clientSockets[index] = cur
      /\ fdConn \in [Fds -> Conns \cup {NoConn}] /\ Conn \in Conns
  BY <1>1, ServedIsOpen DEF SeverInv, AtIndex, ServeInv, NetInv, NetTypeOK
<1>4. /\ clientSockets' \in Seq(Fds) /\ DOMAIN clientSockets' = DOMAIN clientSockets
      /\ \A k \in DOMAIN clientSockets :
           clientSockets'[k] = IF k = index THEN Stdin ELSE clientSockets[k]
  <2>1. DOMAIN clientSockets = 1 .. Len(clientSockets) /\ clientSockets \in Seq(Fds)
    BY SlotsTyped DEF SlotLists
  <2> QED
    BY <1>1, <1>3, <2>1, StdinTyped, ExceptSeq
<1>5. SlotLists' /\ KeptOnce'
  BY <1>1, <1>3, <1>4, SlotsTyped DEF SlotLists, KeptOnce
<1>6. StdinOnce'
  <2>1. phase' = [phase EXCEPT ![Conn] = "closed"]
    BY <1>1 DEF CloseFd, Conn
  <2> QED
    BY <1>3, <2>1, StdinStaysOnce DEF SeverInv, ServeInv, NetInv
<1>7. KeptOpen'
  <2> SUFFICES ASSUME NEW k \in DOMAIN clientSockets, clientSockets'[k] # Stdin
               PROVE  fdConn'[clientSockets'[k]] # NoConn
    BY <1>4 DEF KeptOpen, Kept, Range
  <2>1. k # index /\ clientSockets'[k] = clientSockets[k] /\ clientSockets[k] # Stdin
    BY <1>4
  <2>2. clientSockets[k] # cur
    BY <1>3, <2>1 DEF KeptOnce
  <2>3. fdConn[clientSockets[k]] # NoConn /\ clientSockets[k] \in Fds
    BY <1>1, <2>1, SlotsTyped DEF SeverInv, KeptOpen
  <2> QED
    BY <1>2, <1>3, <2>1, <2>2, <2>3
<1>8. AtIndex'
  BY <1>1 DEF AtIndex, Working
<1>9. SetTrue'
  <2> SUFFICES ASSUME Alone', NEW k \in DOMAIN clientSockets,
                      clientSockets'[k] \in selectFds, Ahead(k)'
               PROVE  FdReady(clientSockets[k])'
    BY <1>1, <1>4 DEF SetTrue, NoBlindRead
  <2>1. cur # Stdin /\ Alone
    <3>1. fdConn'[Stdin] = StdinConn /\ NoConn # StdinConn
      BY StdinTyped, ConnectionsAssumption DEF Alone
    <3>2. cur # Stdin /\ fdConn[Stdin] = StdinConn
      BY <1>2, <1>3, <3>1, StdinTyped
    <3>3. \A j \in SlotsAtZero : j \in SlotsAtZero'
      BY <1>3, <1>4, <3>2 DEF SlotsAtZero
    <3> QED
      BY <3>2, <3>3 DEF Alone
  <2>2. k > index /\ k # index
    BY <1>1, SlotsTyped DEF Ahead, Working
  <2>3. clientSockets'[k] = clientSockets[k] /\ clientSockets[k] \in Fds \ {cur}
    BY <1>1, <1>4, <2>1, <2>2, ServedOnce, SlotsTyped DEF SeverInv
  <2>4. FdReady(clientSockets[k])
    BY <1>1, <2>1, <2>2, <2>3 DEF SeverInv, SetTrue, Ahead
  <2> QED
    BY <1>2, <2>3, <2>4 DEF FdReady, Readable
<1> QED
  BY <1>2, <1>5, <1>6, <1>7, <1>8, <1>9 DEF SeverInv

LEMMA SeverFailsKeeps ==
  ASSUME SlotLists, KeptOnce, SeverInv, SeverFails, UNCHANGED <<clientSockets, severVars>>
  PROVE  SlotLists' /\ KeptOnce' /\ SeverInv'
<1>1. EndProcess
  BY DEF SeverFails, SeverAcceptFails
<1>2. ServeInv' /\ pc' = "down"
  BY <1>1, EndKeeps DEF SeverInv
<1>3. StdinOnce'
  BY <1>1, StdinTyped DEF SeverInv, StdinOnce, EndProcess, CloseAll
<1>4. SlotLists' /\ KeptOnce'
  BY DEF SlotLists, KeptOnce, severVars
<1>5. KeptOpen' /\ AtIndex' /\ SetTrue'
  BY <1>2 DEF KeptOpen, AtIndex, SetTrue, Ahead, NoBlindRead, Working
<1> QED
  BY <1>2, <1>3, <1>4, <1>5 DEF SeverInv

LEMMA SeverStepKeeps ==
  ASSUME SlotLists, KeptOnce, SeverInv, SeverStep
  PROVE  SlotLists' /\ KeptOnce' /\ SeverInv'
BY SeverWaitKeeps, SeverAcceptKeeps, SeverScanKeeps, SeverServesKeep, SeverHangUpKeeps,
   SeverFailsKeeps DEF SeverStep
-----------------------------------------------------------------------------
(* The class as a whole. *)

LEMMA ServerStepKeeps ==
  ASSUME ClassInv, ServerStep
  PROVE  ClassInv'
<1>1. CASE mode = "select" /\ SeverStep
  <2>1. UNCHANGED <<mode, fds, i, events, interest>>
    BY <1>1 DEF ServerStep, pollLoopVars, epollLoopVars
  <2>2. SlotLists' /\ KeptOnce' /\ SeverInv'
    BY <1>1, SeverStepKeeps DEF ClassInv
  <2> QED
    BY <1>1, <2>1, <2>2 DEF ClassInv, PollLists, EpollLists
<1>2. CASE mode = "poll" /\ ServerPoll
  <2>1. /\ UNCHANGED <<clientSockets, selectFds, index, events, interest>>
        /\ mode' \in {"poll", "returned"}
    BY <1>2 DEF ServerStep, ServerPoll, PollReturns, severVars, epollLoopVars
  <2>2. PollInv(Beyond)'
    <3> SUFFICES ASSUME NEW E, E = Beyond PROVE PollInv(E)'
      BY <2>1, PollStaysBeyond
    <3>1. PollInv(E)
      BY <1>2, PollBeyond DEF ClassInv
    <3>2. CASE PollReturns
      <4>1. /\ pc \in {"wait", "scan"} /\ pc' = "wait"
            /\ UNCHANGED <<netVars, cur, owed, pollLoopVars>>
        BY <3>2 DEF PollReturns, PollAcceptFails
      <4> QED
        BY <3>1, <4>1, PollLeavesKeeps
    <3>3. CASE PollStep
      BY <3>1, <3>3, PollStepKeeps
    <3> QED
      BY <1>2, <3>2, <3>3 DEF ServerPoll, PollStep, PollFails
  <2> QED
    BY <1>2, <2>1, <2>2 DEF ClassInv, SlotLists, KeptOnce, EpollLists, PollInv
<1>3. CASE mode = "epoll" /\ EpollStep
  <2>1. UNCHANGED <<mode, clientSockets, selectFds, index, fds, i>>
    BY <1>3 DEF ServerStep, severVars, pollLoopVars
  <2>2. EpollInv(Beyond)'
    <3> SUFFICES ASSUME NEW E, E = Beyond PROVE EpollInv(E)'
      BY <2>1, EpollStaysBeyond
    <3>1. EpollInv(E)
      BY <1>3, EpollBeyond DEF ClassInv
    <3> QED
      BY <1>3, <3>1, EpollStepKeeps
  <2> QED
    BY <1>3, <2>1, <2>2 DEF ClassInv, SlotLists, KeptOnce, PollLists, EpollInv
<1> QED
  BY <1>1, <1>2, <1>3 DEF ServerStep

\* Clients, and whoever types, move none of the server's own variables.
LEMMA OutsideKeeps ==
  ASSUME ClassInv, Outside
  PROVE  ClassInv'
<1>1. /\ ClientStep
      /\ UNCHANGED <<mode, clientSockets, selectFds, index, fds, i, events, interest>>
      /\ UNCHANGED <<severVars, pollLoopVars, epollLoopVars>>
  BY StdinTyped
     DEF Outside, ClientStep, Clients, severVars, pollLoopVars, epollLoopVars
<1>2. SlotLists' /\ KeptOnce' /\ PollLists' /\ EpollLists' /\ Kept' = Kept
      /\ Beyond' = Beyond /\ SlotsAtZero' = SlotsAtZero
  BY <1>1, SlotsStutter DEF ClassInv, SlotLists, KeptOnce, PollLists, EpollLists
<1>3. ASSUME ServeInv, StdinOnce
      PROVE  /\ ServeInv' /\ StdinOnce' /\ UNCHANGED <<fdConn, pc, cur, owed>>
             /\ \A f \in Fds : FdReady(f) => FdReady(f)'
  <2>1. /\ ServeInv' /\ UNCHANGED <<fdConn, pc, cur, owed>>
        /\ \A f \in Fds : FdReady(f) => FdReady(f)'
    BY <1>1, <1>3, ClientsKeep DEF echoVars
  <2>2. PICK c \in Conns :
          UNCHANGED phase \/ (phase[c] = "new" /\ phase' = [phase EXCEPT ![c] = "queued"])
    BY <1>1 DEF ClientStep, Ask, Say, Leave, Vanish, Connect, Deliver, EndStream, Reset, Hear
  <2>3. StdinOnce'
    BY <1>3, <2>2, StdinStaysOnce DEF ServeInv, NetInv
  <2> QED
    BY <2>1, <2>3
<1>4. ASSUME mode = "setup" PROVE SetupInv'
  BY <1>2, <1>3, <1>4 DEF ClassInv, SetupInv, Beside, NoneBeside
<1>5. ASSUME mode = "select" PROVE SeverInv'
  <2>1. SeverInv
    BY <1>5 DEF ClassInv
  <2>2. /\ ServeInv' /\ StdinOnce' /\ UNCHANGED <<fdConn, pc, cur, owed>>
        /\ \A f \in Fds : FdReady(f) => FdReady(f)'
    BY <1>3, <2>1 DEF SeverInv
  <2>3. KeptOpen' /\ AtIndex'
    BY <1>1, <1>2, <2>1, <2>2 DEF SeverInv, KeptOpen, AtIndex
  <2>4. SetTrue'
    <3>1. cur \in Fds /\ \A k \in DOMAIN clientSockets : clientSockets[k] \in Fds
      BY <2>1, SlotsTyped DEF ClassInv, SeverInv, ServeInv, EchoTypeOK
    <3> QED
      BY <1>1, <1>2, <2>1, <2>2, <3>1
         DEF SeverInv, SetTrue, Alone, Ahead, NoBlindRead, FdReady, Readable
  <2> QED
    BY <2>2, <2>3, <2>4 DEF SeverInv
<1>6. ASSUME mode \in {"poll", "returned"} PROVE PollInv(Beyond)'
  <2> SUFFICES ASSUME NEW E, E = Beyond PROVE PollInv(E)'
    BY <1>1, PollStaysBeyond
  <2>1. PollInv(E)
    BY <1>6, PollBeyond DEF ClassInv
  <2> QED
    BY <1>1, <2>1, PollClientsKeep
<1>7. ASSUME mode = "epoll" PROVE EpollInv(Beyond)'
  <2> SUFFICES ASSUME NEW E, E = Beyond PROVE EpollInv(E)'
    BY <1>1, EpollStaysBeyond
  <2>1. EpollInv(E)
    BY <1>7, EpollBeyond DEF ClassInv
  <2> QED
    BY <1>1, <2>1, EpollClientsKeep
<1> QED
  BY <1>1, <1>2, <1>4, <1>5, <1>6, <1>7 DEF ClassInv

LEMMA ClassStutters ==
  ASSUME ClassInv, UNCHANGED vars
  PROVE  ClassInv'
<1>1. /\ UNCHANGED <<netVars, echoVars, mode, clientSockets, selectFds, index, fds, i>>
      /\ UNCHANGED <<events, interest, phase, fdConn, sent, rcvd, peer, pc, cur, owed>>
      /\ UNCHANGED <<pollVars, epollVars>>
  BY DEF vars, severVars, pollLoopVars, epollLoopVars, pollVars, epollVars, netVars, echoVars
<1>2. SlotLists' /\ KeptOnce' /\ PollLists' /\ EpollLists' /\ Kept' = Kept
      /\ Beyond' = Beyond /\ SlotsAtZero' = SlotsAtZero
  BY <1>1, SlotsStutter DEF ClassInv, SlotLists, KeptOnce, PollLists, EpollLists
<1>3. ServeInv => ServeInv'
  BY <1>1, EchoStutters
<1>4. mode = "setup" => SetupInv'
  BY <1>1, <1>2, <1>3 DEF ClassInv, SetupInv, StdinOnce, Beside, NoneBeside
<1>5. mode = "select" => SeverInv'
  BY <1>1, <1>2, <1>3
     DEF ClassInv, SeverInv, StdinOnce, KeptOpen, AtIndex, SetTrue, Alone, Ahead,
         NoBlindRead, FdReady, Readable
<1>6. ASSUME mode \in {"poll", "returned"} PROVE PollInv(Beyond)'
  <2> SUFFICES ASSUME NEW E, E = Beyond PROVE PollInv(E)'
    BY <1>1, PollStaysBeyond
  <2> QED
    BY <1>1, <1>6, PollBeyond, PollStutters DEF ClassInv
<1>7. ASSUME mode = "epoll" PROVE EpollInv(Beyond)'
  <2> SUFFICES ASSUME NEW E, E = Beyond PROVE EpollInv(E)'
    BY <1>1, EpollStaysBeyond
  <2> QED
    BY <1>1, <1>7, EpollBeyond, EpollStutters DEF ClassInv
<1> QED
  BY <1>1, <1>2, <1>4, <1>5, <1>6, <1>7 DEF ClassInv

LEMMA ClassInvHolds == Spec => []ClassInv
<1>1. ClassInv /\ [Next]_vars => ClassInv'
  BY ServerAcceptKeeps, StartKeeps, ReturnKeeps, ServerStepKeeps, OutsideKeeps, ClassStutters
     DEF Next, Idle
<1> QED
  BY <1>1, ClassStarts, PTL DEF Spec

LEMMA ServedInClass == ClassInv => ServeInv
BY DEF ClassInv, SetupInv, SeverInv, PollInv, EpollInv

(***************************************************************************)
(* Every variable of a TCPServer object keeps its type, whichever member   *)
(* functions its user calls: clientSockets_ holds numbers of descriptors   *)
(* only, the 0 that sever_select puts there among them.                    *)
(***************************************************************************)
THEOREM ClassTypeCorrect == Spec => []TypeOK
<1>1. ClassInv => TypeOK
  BY ServedInClass
     DEF ClassInv, ServeInv, NetInv, SlotLists, PollLists, PollEntries, EpollLists, TypeOK,
         PollTypeOK, EpollTypeOK
<1> QED
  BY <1>1, ClassInvHolds, PTL

(***************************************************************************)
(* What server_accept took before is never watched by poll or epoll, and   *)
(* all that they accept themselves is, once; sever_select keeps a slot for *)
(* each socket it has not closed, and no two slots share one but the 0.    *)
(***************************************************************************)
THEOREM LoopsWatchTheirOwn == Spec => []LoopWatches
<1>1. ClassInv => LoopWatches
  <2> SUFFICES ASSUME ClassInv, pc # "down" PROVE LoopWatches
    BY DEF LoopWatches
  <2> DEFINE open == {f \in Fds \ {Stdin} : fdConn[f] # NoConn}
  <2>1. open \ Kept = OpenBeside(Beyond)
    BY DEF OpenBeside, Beyond
  <2>2. Kept \subseteq open \cup {Stdin}
    <3>1. ASSUME NEW f \in Kept, f # Stdin PROVE f \in Fds /\ fdConn[f] # NoConn
      BY <3>1, SlotsTyped
         DEF ClassInv, SetupInv, SeverInv, KeptOpen, PollInv, EpollInv, Beside, Beyond
    <3> QED
      BY <3>1
  <2>3. ASSUME mode = "poll"
        PROVE  /\ {fds[k].fd : k \in DOMAIN fds} = {ListenFd} \cup (open \ Kept)
               /\ \A j, k \in DOMAIN fds : fds[j].fd = fds[k].fd => j = k
    BY <2>1, <2>3 DEF ClassInv, PollInv, Listed
  <2>4. ASSUME mode = "epoll" PROVE interest = open \ Kept
    BY <2>1, <2>4 DEF ClassInv, EpollInv, Interest
  <2> QED
    BY <2>2, <2>3, <2>4 DEF ClassInv, KeptOnce, LoopWatches
<1> QED
  BY <1>1, ClassInvHolds, PTL

\* A set of slots with at most one element has no two.
LEMMA OneSlotAtZero ==
  ASSUME SlotLists, Cardinality(SlotsAtZero) <= 1, NEW j \in SlotsAtZero, NEW k \in SlotsAtZero
  PROVE  j = k
<1>1. IsFiniteSet(SlotsAtZero)
  <2>1. IsFiniteSet(1 .. Len(clientSockets))
    BY SlotsTyped, FS_Interval
  <2> QED
    BY <2>1, SlotsTyped, FS_Subset DEF SlotsAtZero
<1>2. SUFFICES ASSUME j # k PROVE FALSE
  OBVIOUS
<1>3. Cardinality({j} \cup {k}) = 2
  <2>1. IsFiniteSet({j}) /\ Cardinality({j}) = 1
    BY FS_Singleton
  <2> QED
    BY <1>2, <2>1, FS_AddElement
<1>4. Cardinality({j} \cup {k}) <= Cardinality(SlotsAtZero)
  BY <1>1, FS_Subset
<1>5. Cardinality(SlotsAtZero) \in Nat
  BY <1>1, FS_CardinalityType
<1> QED
  BY <1>3, <1>4, <1>5

(***************************************************************************)
(* No read of the three loops blocks, except that of sever_select once     *)
(* standard input was closed or two clients have left: up to then what     *)
(* select reported of a slot is true when the scan reads from it, although *)
(* it accepts and closes in between.  The poll loop has this only if the   *)
(* uninitialised revents of a new entry reads as 0.                        *)
(***************************************************************************)
THEOREM ReadsWaitOnlyAfterLeavers ==
  ASSUME StackRevents = {FALSE}
  PROVE  Spec => []BlocksOnlyAfterLeavers
<1>1. ClassInv => BlocksOnlyAfterLeavers
  <2> SUFFICES ASSUME ClassInv, pc = "read",
                      mode = "select" => fdConn[Stdin] = StdinConn
                                           /\ Cardinality(SlotsAtZero) <= 1
               PROVE  FdReady(cur)
    BY DEF BlocksOnlyAfterLeavers
  <2>1. CASE mode = "select"
    <3>1. Alone
      BY <2>1, OneSlotAtZero DEF ClassInv, Alone
    <3> QED
      BY <2>1, <3>1 DEF ClassInv, SeverInv, SetTrue, NoBlindRead
  <2>2. CASE mode \in {"poll", "epoll", "returned"}
    BY <2>2 DEF ClassInv, PollInv, EpollInv, Clean, NoBlindRead
  <2>3. CASE mode = "setup"
    BY <2>3 DEF ClassInv, SetupInv
  <2> QED
    BY <2>1, <2>2, <2>3 DEF ClassInv
<1> QED
  BY <1>1, ClassInvHolds, PTL
-----------------------------------------------------------------------------
(* What is read from a client is handed back; what is typed is not. *)

LEMMA SeverAccounts ==
  ASSUME SlotLists, SeverInv, Accounted(Clients, {}), SeverStep
  PROVE  Accounted(Clients, {})'
<1> ServeInv /\ Clients \in SUBSET Conns
  BY DEF SeverInv, Clients
<1>1. CASE SeverWait \/ SeverSkip \/ SeverRead \/ SeverScanned
  <2>1. /\ pc \in {"wait", "scan"} /\ pc' \in {"accept", "scan", "read", "wait"}
        /\ UNCHANGED netVars
    BY <1>1 DEF SeverWait, SeverSkip, SeverRead, SeverScanned, Scanning, echoVars
  <2> QED
    BY <2>1, QuietAccounts DEF netVars
<1>2. CASE SeverAccept
  <2>1. pc = "accept" /\ pc' = "scan" /\ UNCHANGED <<rcvd, told, peer>>
    BY <1>2 DEF SeverAccept, Accepted
  <2> QED
    BY <2>1, QuietAccounts
<1>3. CASE SeverEcho
  <2> DEFINE n == Received(Conn) - rcvd[Conn]
  <2>1. ReadThenSend(n)
    BY <1>3 DEF SeverEcho
  <2>2. n \in Nat
    BY <2>1, ReceivedMore DEF ReadThenSend, Working
  <2>3. n <= n /\ ~(n < n)
    BY <2>2
  <2> QED
    BY <2>1, <2>2, <2>3, ReadAccounts
<1>4. CASE SeverReadStdin
  <2>1. /\ pc = "read" /\ pc' = "scan" /\ UNCHANGED <<told, peer>>
        /\ \A c \in Clients : rcvd'[c] = rcvd[c]
    BY <1>4 DEF SeverReadStdin, RecvData, Clients, ServeInv, NetInv, NetTypeOK
  <2>2. ASSUME NEW c \in Clients PROVE Pending(c)' = Pending(c)
    BY <2>1 DEF Pending
  <2> QED
    BY <2>1, <2>2 DEF Accounted
<1>5. CASE SeverSent
  BY <1>5, SendAccounts DEF SeverSent
<1>6. CASE SeverHangUp
  <2>1. pc = "read" /\ pc' = "scan" /\ UNCHANGED <<rcvd, told>>
        /\ \A c \in Conns : peer'[c] = peer[c]
    BY <1>6, HangUpKeeps DEF SeverHangUp
  <2> QED
    BY <2>1, QuietAccounts
<1>7. CASE SeverFails
  <2>1. EndProcess /\ (pc # "send" \/ peer[Conn] = "gone")
    BY <1>7 DEF SeverFails, SeverAcceptFails, ReadError, BrokenPipe
  <2> QED
    BY <2>1, EndKeeps DEF AccountsKept
<1> QED
  BY <1>1, <1>2, <1>3, <1>4, <1>5, <1>6, <1>7 DEF SeverStep

LEMMA ClassAccounts ==
  ASSUME ClassInv, Accounted(Clients, {}), [Next]_vars
  PROVE  Accounted(Clients, {})'
<1> ServeInv /\ Clients \in SUBSET Conns
  BY ServedInClass DEF Clients
<1>1. CASE ServerAccept
  <2>1. pc = "wait" /\ pc' = "wait" /\ UNCHANGED <<rcvd, told, peer>>
    BY <1>1 DEF ServerAccept, Accepted, echoVars
  <2> QED
    BY <2>1, QuietAccounts
<1>2. CASE StartPoll \/ StartSelectOrEpoll
  BY <1>2, StutterAccounts DEF StartPoll, StartSelectOrEpoll, Start
<1>3. CASE Return
  BY <1>3, EndKeeps DEF Return, AccountsKept
<1>4. CASE ServerStep
  <2>1. CASE mode = "select" /\ SeverStep
    BY <2>1, SeverAccounts DEF ClassInv
  <2>2. CASE mode = "poll" /\ ServerPoll
    <3> SUFFICES ASSUME NEW E, E = Beyond PROVE Accounted(Clients, {})'
      OBVIOUS
    <3>1. PollInv(E)
      BY <2>2, PollBeyond DEF ClassInv
    <3>2. CASE PollReturns
      <4>1. pc # "send" /\ pc' # "send" /\ UNCHANGED <<rcvd, told, peer>>
        BY <3>2 DEF PollReturns, PollAcceptFails, netVars
      <4> QED
        BY <4>1, QuietAccounts
    <3>3. CASE PollStep
      BY <3>1, <3>3, PollAccounts DEF PollNext
    <3> QED
      BY <2>2, <3>2, <3>3 DEF ServerPoll, PollStep, PollFails
  <2>3. CASE mode = "epoll" /\ EpollStep
    <3> SUFFICES ASSUME NEW E, E = Beyond PROVE Accounted(Clients, {})'
      OBVIOUS
    <3>1. EpollInv(E)
      BY <2>3, EpollBeyond DEF ClassInv
    <3> QED
      BY <2>3, <3>1, EpollAccounts DEF EpollNext
  <2> QED
    BY <1>4, <2>1, <2>2, <2>3 DEF ServerStep
<1>5. CASE Outside
  <2>1. ClientStep
    BY <1>5, StdinTyped DEF Outside, ClientStep, Clients
  <2> QED
    BY <2>1, ClientsKeep, QuietAccounts DEF echoVars
<1>6. CASE UNCHANGED vars
  BY <1>6, StutterAccounts DEF vars
<1> QED
  BY <1>1, <1>2, <1>3, <1>4, <1>5, <1>6 DEF Next, Idle

LEMMA ClassAccountsHold == Spec => [](ClassInv /\ Accounted(Clients, {}))
<1>1. Init => Accounted(Clients, {})
  <2> SUFFICES ASSUME Init, NEW c \in Clients
               PROVE  told[c] + Pending(c) = 0 /\ rcvd[c] = 0
    BY DEF Accounted
  <2> QED
    BY DEF Init, Pending, Clients
<1>2. ClassInv /\ Accounted(Clients, {}) /\ [Next]_vars => Accounted(Clients, {})'
  BY ClassAccounts
<1> QED
  BY <1>1, <1>2, ClassInvHolds, PTL DEF Spec

\* A client whose connection was closed orderly was sent back all it had sent.
EchoedToClients ==
  \A c \in Clients :
    phase[c] = "closed" /\ peer[c] \in {"live", "fin"} => told[c] = sent[c]

(***************************************************************************)
(* Whichever loop serves a client, it is sent back all it sent before the  *)
(* connection is closed, unless it was reset: the full reads of            *)
(* sever_select, its slots at 0 and what is typed at standard input lose   *)
(* nothing of a client's.                                                  *)
(***************************************************************************)
THEOREM ClassEchoesWhole == Spec => []EchoedToClients
<1>1. ClassInv /\ Accounted(Clients, {}) => EchoedToClients
  <2> SUFFICES ASSUME ClassInv, Accounted(Clients, {}), NEW c \in Clients,
                      phase[c] = "closed", peer[c] \in {"live", "fin"}
               PROVE  told[c] = sent[c]
    BY DEF EchoedToClients
  <2>1. ServeInv /\ c \in Conns /\ Clients \in SUBSET Conns
    BY ServedInClass DEF Clients
  <2>2. sent[c] = rcvd[c] /\ told[c] + Pending(c) = rcvd[c]
    BY <2>1, AccountedInFull DEF ServeInv, ReadToTheEnd
  <2> QED
    BY <2>1, <2>2, ClosedIsSettled
<1> QED
  BY <1>1, ClassAccountsHold, PTL
=============================================================================
