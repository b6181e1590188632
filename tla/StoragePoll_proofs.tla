-------------------------- MODULE StoragePoll_proofs --------------------------
(* Proofs about runPoll, for any number of clients and descriptors. *)
EXTENDS StoragePoll, StorageHandler_proofs

\* The socket being served is the one at the scan's position.
AtPosition == pc \in HandlerLabels => i \in DOMAIN pollFds /\ pollFds[i].fd = cur

(***************************************************************************)
(* What poll reported of the sockets the scan has still to reach holds     *)
(* until it gets there; entries appended in this turn report nothing.      *)
(***************************************************************************)
Reported ==
  \A k \in DOMAIN pollFds :
    /\ pollFds[k].revents
    /\ pollFds[k].fd # ListenFd
    /\ (pc = "scan" /\ k >= i) \/ (pc \in HandlerLabels /\ k > i)
    => FdReady(pollFds[k].fd)

Entries == [fd : Fds \cup {ListenFd}, revents : BOOLEAN]

LoopTypeOK == pollFds \in Seq(Entries) /\ i \in Nat \ {0}

IInv == HandlerInv /\ LoopTypeOK /\ SameOrder /\ AtPosition /\ Reported /\ NoBlindRecv
-----------------------------------------------------------------------------
LEMMA ListTyped ==
  ASSUME HandlerInv, LoopTypeOK, SameOrder
  PROVE  /\ cur \in Fds /\ ListenFd \notin Fds
         /\ clientSockets \in Seq(Fds)
         /\ Len(clientSockets) \in Nat
         /\ DOMAIN clientSockets = 1 .. Len(clientSockets)
         /\ DOMAIN pollFds = 1 .. Len(clientSockets) + 1
         /\ \A k \in DOMAIN clientSockets : clientSockets[k] \in Fds
         /\ \A k \in DOMAIN pollFds : pollFds[k] \in Entries
<1>1. cur \in Fds /\ clientSockets \in Seq(Fds) /\ ListenFd \notin Fds
  BY DEF HandlerInv, HandlerTypeOK, Fds, ListenFd
<1>2. /\ Len(clientSockets) \in Nat
      /\ DOMAIN clientSockets = 1 .. Len(clientSockets)
      /\ \A k \in DOMAIN clientSockets : clientSockets[k] \in Fds
  BY <1>1, LenProperties, ElementOfSeq
<1>3. /\ DOMAIN pollFds = 1 .. Len(clientSockets) + 1
      /\ \A k \in DOMAIN pollFds : pollFds[k] \in Entries
  BY LenProperties, ElementOfSeq DEF LoopTypeOK, SameOrder
<1> QED
  BY <1>1, <1>2, <1>3

\* A descriptor stands at one place only: behind the entry clientSockets_ has it at.
LEMMA OnePlace ==
  ASSUME HandlerInv, LoopTypeOK, SameOrder,
         NEW j \in DOMAIN pollFds, NEW k \in DOMAIN pollFds,
         pollFds[j].fd = pollFds[k].fd, pollFds[j].fd # ListenFd
  PROVE  j = k /\ j - 1 \in DOMAIN clientSockets /\ clientSockets[j - 1] = pollFds[j].fd
<1>1. j # 1 /\ k # 1
  BY DEF SameOrder
<1>2. j - 1 \in DOMAIN clientSockets /\ k - 1 \in DOMAIN clientSockets
  BY <1>1, ListTyped
<1>3. j \in Int /\ k \in Int /\ (j - 1) + 1 = j /\ (k - 1) + 1 = k
  BY ListTyped
<1>4. clientSockets[j - 1] = pollFds[j].fd /\ clientSockets[k - 1] = pollFds[k].fd
  BY <1>2, <1>3 DEF SameOrder
<1>5. j - 1 = k - 1
  BY <1>2, <1>4 DEF HandlerInv, Tracked
<1> QED
  BY <1>2, <1>3, <1>4, <1>5

LEMMA InitIInv == Init => IInv
<1> SUFFICES ASSUME Init PROVE IInv
  OBVIOUS
<1>1. HandlerInv /\ pc = "wait" /\ clientSockets = <<>> /\ i = 1
  BY HandlerStarts DEF Init, HandlerInit
<1>2. PollFd(ListenFd, FALSE) \in Entries /\ PollFd(ListenFd, FALSE).fd = ListenFd
  BY DEF PollFd, Entries
<1>3. /\ pollFds \in Seq(Entries) /\ Len(pollFds) = 1
      /\ pollFds[1] = PollFd(ListenFd, FALSE)
  BY <1>2, Singleton DEF Init
<1>4. Len(clientSockets) = 0 /\ DOMAIN clientSockets = {}
  BY <1>1, EmptySeq
<1>5. LoopTypeOK
  BY <1>1, <1>3 DEF LoopTypeOK
<1>6. SameOrder
  <2>1. Len(pollFds) = Len(clientSockets) + 1
    BY <1>3, <1>4
  <2>2. pollFds[1].fd = ListenFd
    BY <1>2, <1>3
  <2>3. \A k \in DOMAIN clientSockets : pollFds[k + 1].fd = clientSockets[k]
    BY <1>4
  <2> QED
    BY <2>1, <2>2, <2>3 DEF SameOrder
<1>7. AtPosition /\ Reported /\ NoBlindRecv
  BY <1>1 DEF AtPosition, Reported, NoBlindRecv, HandlerLabels
<1> QED
  BY <1>1, <1>5, <1>6, <1>7 DEF IInv

LEMMA PollKeeps ==
  ASSUME IInv, Poll
  PROVE  IInv'
<1> DEFINE entry(k) == PollFd(pollFds[k].fd, ReadyNow(pollFds[k].fd))
<1>1. /\ pc = "wait" /\ pc' = "scan" /\ i' = 1
      /\ pollFds' = [k \in DOMAIN pollFds |-> entry(k)]
      /\ UNCHANGED <<netVars, storeVars, req, cur, clientSockets, kills>>
  BY DEF Poll
<1>2. /\ cur \in Fds /\ Len(clientSockets) \in Nat
      /\ DOMAIN pollFds = 1 .. Len(clientSockets) + 1
      /\ DOMAIN clientSockets = 1 .. Len(clientSockets)
      /\ \A k \in DOMAIN pollFds : pollFds[k] \in Entries
  BY ListTyped DEF IInv
<1>3. HandlerInv'
  BY <1>1, <1>2, TurnKeeps DEF IInv, HandlerLabels, LoopLabels
<1>4. /\ \A k \in DOMAIN pollFds :
           /\ pollFds'[k] \in Entries
           /\ pollFds'[k].fd = pollFds[k].fd
           /\ pollFds'[k].revents /\ pollFds'[k].fd # ListenFd => FdReady(pollFds[k].fd)
      /\ DOMAIN pollFds' = DOMAIN pollFds
  BY <1>1, <1>2 DEF PollFd, Entries, ReadyNow, FdReady
<1>5. pollFds' \in Seq(Entries) /\ Len(pollFds') = Len(clientSockets) + 1
  <2>1. pollFds' \in [1 .. Len(clientSockets) + 1 -> Entries]
    BY <1>1, <1>2, <1>4
  <2>2. pollFds' \in Seq(Entries)
    BY <1>2, <2>1, SeqDef
  <2> QED
    BY <1>2, <1>4, <2>2, LenProperties
<1>6. SameOrder'
  BY <1>1, <1>2, <1>4, <1>5 DEF IInv, SameOrder
<1>7. \A f : FdReady(f) => FdReady(f)'
  BY <1>1 DEF FdReady, Readable, netVars
<1>8. LoopTypeOK' /\ AtPosition' /\ Reported' /\ NoBlindRecv'
  BY <1>1, <1>4, <1>5, <1>7
     DEF LoopTypeOK, AtPosition, Reported, NoBlindRecv, HandlerLabels
<1> QED
  BY <1>3, <1>6, <1>8 DEF IInv

LEMMA ScanKeeps ==
  ASSUME IInv, PollSkip \/ PollServe \/ PollScanned
  PROVE  IInv'
<1>1. /\ pc = "scan" /\ pc \notin HandlerLabels
      /\ UNCHANGED <<netVars, storeVars, req, clientSockets, kills, pollFds>>
  BY DEF PollSkip, PollServe, PollScanned, handlerVars, storeVars, loopVars, HandlerLabels
<1>2. /\ cur \in Fds /\ i \in Nat \ {0}
      /\ \A k \in DOMAIN pollFds : k \in Nat /\ pollFds[k] \in Entries
  BY ListTyped DEF IInv, LoopTypeOK
<1>3. \A f : FdReady(f) => FdReady(f)'
  BY <1>1 DEF FdReady, Readable, netVars
<1>4. SameOrder'
  BY <1>1 DEF IInv, SameOrder
<1>5. CASE PollSkip
  <2>1. pc' = "scan" /\ cur' = cur /\ i' = i + 1 /\ ~pollFds[i].revents
    BY <1>1, <1>5 DEF PollSkip, handlerVars
  <2>2. HandlerInv'
    BY <1>1, <1>2, <2>1, TurnKeeps DEF IInv, HandlerLabels, LoopLabels
  <2>3. LoopTypeOK' /\ AtPosition' /\ Reported' /\ NoBlindRecv'
    BY <1>1, <1>2, <1>3, <2>1
       DEF IInv, LoopTypeOK, AtPosition, Reported, NoBlindRecv, HandlerLabels
  <2> QED
    BY <1>4, <2>2, <2>3 DEF IInv
<1>6. CASE PollServe
  <2>1. /\ pc' = "recv" /\ cur' = pollFds[i].fd /\ i' = i /\ i \in DOMAIN pollFds
        /\ pollFds[i].revents /\ pollFds[i].fd # ListenFd /\ pollFds[i].fd \in Fds
    BY <1>2, <1>6 DEF PollServe, loopVars, Entries
  <2>2. FdReady(cur')
    BY <1>1, <1>2, <2>1 DEF IInv, Reported
  <2>3. HandlerInv'
    BY <1>1, <2>1, <2>2, TurnKeeps DEF IInv, HandlerLabels, FdReady
  <2>4. FdReady(cur)'
    BY <1>1, <2>2 DEF FdReady, Readable, netVars
  <2>5. LoopTypeOK' /\ AtPosition' /\ Reported' /\ NoBlindRecv'
    BY <1>1, <1>2, <1>3, <2>1, <2>4
       DEF IInv, LoopTypeOK, AtPosition, Reported, NoBlindRecv, HandlerLabels
  <2> QED
    BY <1>4, <2>3, <2>5 DEF IInv
<1>7. CASE PollScanned
  <2>1. pc' = "wait" /\ cur' = cur /\ i' = i
    BY <1>7 DEF PollScanned, loopVars
  <2>2. HandlerInv'
    BY <1>1, <1>2, <2>1, TurnKeeps DEF IInv, HandlerLabels, LoopLabels
  <2>3. LoopTypeOK' /\ AtPosition' /\ Reported' /\ NoBlindRecv'
    BY <1>1, <1>2, <2>1
       DEF IInv, LoopTypeOK, AtPosition, Reported, NoBlindRecv, HandlerLabels
  <2> QED
    BY <1>4, <2>2, <2>3 DEF IInv
<1> QED
  BY <1>5, <1>6, <1>7

\* accept: clientSockets_ and pollFds_ grow by the same descriptor.
LEMMA PollAcceptKeeps ==
  ASSUME IInv, PollAccept
  PROVE  IInv'
<1>1. /\ pc = "scan" /\ UNCHANGED <<pc, cur>> /\ i' = i + 1
      /\ i \in DOMAIN pollFds /\ pollFds[i].fd = ListenFd
  BY DEF PollAccept, PollFd
<1>2. /\ cur \in Fds /\ ListenFd \notin Fds /\ i \in Nat \ {0}
      /\ clientSockets \in Seq(Fds) /\ Len(clientSockets) \in Nat
      /\ DOMAIN clientSockets = 1 .. Len(clientSockets)
      /\ DOMAIN pollFds = 1 .. Len(clientSockets) + 1
      /\ \A k \in DOMAIN pollFds : pollFds[k] \in Entries
  BY ListTyped DEF IInv, LoopTypeOK
<1>3. pc \notin HandlerLabels /\ pc' \in LoopLabels /\ pc' \notin HandlerLabels /\ cur' \in Fds
  BY <1>1, <1>2 DEF HandlerLabels, LoopLabels
<1>4. CASE UNCHANGED <<netVars, storeVars, req, clientSockets, kills, pollFds>>
  <2>1. HandlerInv'
    BY <1>1, <1>2, <1>3, <1>4, TurnKeeps DEF IInv, HandlerLabels
  <2>2. \A f : FdReady(f) => FdReady(f)'
    BY <1>4 DEF FdReady, Readable, netVars
  <2>3. SameOrder'
    BY <1>4 DEF IInv, SameOrder
  <2>4. LoopTypeOK' /\ AtPosition' /\ Reported' /\ NoBlindRecv'
    BY <1>1, <1>2, <1>3, <1>4, <2>2
       DEF IInv, LoopTypeOK, AtPosition, Reported, NoBlindRecv, HandlerLabels
  <2> QED
    BY <2>1, <2>3, <2>4 DEF IInv
<1>5. ASSUME NEW f \in Fds, AcceptClient(f), pollFds' = Append(pollFds, PollFd(f, FALSE))
      PROVE  IInv'
  <2> DEFINE n == Len(clientSockets)
  <2>1. HandlerInv'
    BY <1>3, <1>5, AcceptClientKeeps DEF IInv
  <2>2. /\ Len(clientSockets') = n + 1 /\ DOMAIN clientSockets' = 1 .. n + 1
        /\ \A k \in 1 .. n : clientSockets'[k] = clientSockets[k]
        /\ clientSockets'[n + 1] = f
    BY <1>2, <1>5, AppendProperties, LenProperties DEF AcceptClient
  <2>3. PollFd(f, FALSE) \in Entries
    BY <1>5 DEF PollFd, Entries
  <2>4. /\ pollFds' \in Seq(Entries)
        /\ Len(pollFds') = n + 2 /\ DOMAIN pollFds' = 1 .. n + 2
        /\ \A k \in 1 .. n + 1 : pollFds'[k] = pollFds[k]
        /\ pollFds'[n + 2] = PollFd(f, FALSE)
    <3>1. pollFds \in Seq(Entries) /\ Len(pollFds) = n + 1 /\ (n + 1) + 1 = n + 2
      BY <1>2 DEF IInv, LoopTypeOK, SameOrder
    <3>2. /\ pollFds' \in Seq(Entries)
          /\ Len(pollFds') = Len(pollFds) + 1
          /\ \A k \in 1 .. Len(pollFds) : pollFds'[k] = pollFds[k]
          /\ pollFds'[Len(pollFds) + 1] = PollFd(f, FALSE)
      <4> DEFINE e == PollFd(f, FALSE)
      <4>1. pollFds' = Append(pollFds, e) /\ e \in Entries
        BY <1>5, <2>3
      <4> HIDE DEF e
      <4>2. /\ pollFds' \in Seq(Entries)
            /\ Len(pollFds') = Len(pollFds) + 1
            /\ \A k \in 1 .. Len(pollFds) : pollFds'[k] = pollFds[k]
            /\ pollFds'[Len(pollFds) + 1] = e
        BY <3>1, <4>1, Appended
      <4> QED
        BY <4>2 DEF e
    <3> QED
      BY <3>1, <3>2, LenProperties
  <2>5. SameOrder'
    <3>1. pollFds'[1] = pollFds[1]
      BY <1>2, <2>4
    <3>2. ASSUME NEW k \in DOMAIN clientSockets'
          PROVE  pollFds'[k + 1].fd = clientSockets'[k]
      <4>1. CASE k = n + 1
        BY <1>2, <2>2, <2>4, <4>1 DEF PollFd
      <4>2. CASE k # n + 1
        <5>1. k \in DOMAIN clientSockets /\ k + 1 \in 1 .. n + 1 /\ k \in 1 .. n
          BY <1>2, <2>2, <4>2
        <5> QED
          BY <2>2, <2>4, <5>1 DEF IInv, SameOrder
      <4> QED
        BY <4>1, <4>2
    <3>3. Len(pollFds') = Len(clientSockets') + 1
      BY <1>2, <2>2, <2>4
    <3> QED
      BY <3>1, <3>2, <3>3 DEF IInv, SameOrder
  <2>6. \A g \in Fds : FdReady(g) => FdReady(g)'
    BY <1>5, ReadyStaysForAccept DEF IInv, HandlerInv, AcceptClient
  <2>7. \A k \in DOMAIN pollFds' :
          \/ ~pollFds'[k].revents
          \/ /\ k \in DOMAIN pollFds /\ pollFds'[k] = pollFds[k] /\ k \in Nat
             /\ pollFds[k].fd \in Fds \cup {ListenFd}
    BY <1>2, <2>4 DEF PollFd, Entries
  <2>8. Reported'
    <3>1. \A k \in DOMAIN pollFds' :
            pollFds'[k].revents /\ pollFds'[k].fd # ListenFd /\ k >= i + 1
              => \E g \in Fds : g = pollFds'[k].fd /\ FdReady(g)
      BY <1>1, <1>2, <2>7 DEF IInv, Reported
    <3> QED
      BY <1>1, <1>3, <2>6, <3>1 DEF Reported, FdReady, Readable
  <2>9. LoopTypeOK' /\ AtPosition' /\ NoBlindRecv'
    BY <1>1, <1>2, <1>3, <2>4 DEF LoopTypeOK, AtPosition, NoBlindRecv
  <2> QED
    BY <2>1, <2>5, <2>8, <2>9 DEF IInv
<1> QED
  BY <1>4, <1>5 DEF PollAccept

\* closeClient finds in clientSockets_ the entry that is at i - 1.
LEMMA PollCloseKeeps ==
  ASSUME IInv, PollClose
  PROVE  IInv'
<1>1. PICK k \in DOMAIN clientSockets : clientSockets[k] = cur /\ Released(k)
  BY DEF PollClose, IsFirst
<1>2. /\ pc = "close" /\ pc \in HandlerLabels /\ pc' = "scan" /\ pc' \in LoopLabels
      /\ i' = i /\ pollFds' = Erased(pollFds, i)
  BY <1>1 DEF PollClose, Released, Erased, HandlerLabels, LoopLabels
<1>3. /\ cur \in Fds /\ ListenFd \notin Fds
      /\ clientSockets \in Seq(Fds) /\ Len(clientSockets) \in Nat
      /\ DOMAIN clientSockets = 1 .. Len(clientSockets)
      /\ DOMAIN pollFds = 1 .. Len(clientSockets) + 1
      /\ \A j \in DOMAIN pollFds : pollFds[j] \in Entries
  BY ListTyped DEF IInv
<1>4. /\ i \in DOMAIN pollFds /\ pollFds[i].fd = cur /\ i \in Nat \ {0}
  BY <1>2 DEF IInv, AtPosition, LoopTypeOK
<1>5. i = k + 1
  <2>1. i - 1 \in DOMAIN clientSockets /\ clientSockets[i - 1] = cur
    BY <1>3, <1>4, OnePlace DEF IInv
  <2>2. i - 1 = k
    BY <1>1, <2>1 DEF IInv, HandlerInv, Tracked
  <2> QED
    BY <1>4, <2>2
<1>6. /\ HandlerInv' /\ cur' = cur
      /\ \A f \in Fds \ {cur} : FdReady(f) => FdReady(f)'
  BY <1>1, <1>2, ReleasedKeeps DEF IInv
<1>7. /\ clientSockets' \in Seq(Fds)
      /\ Len(clientSockets') = Len(clientSockets) - 1
      /\ DOMAIN clientSockets' = 1 .. Len(clientSockets) - 1
      /\ \A j \in DOMAIN clientSockets' :
           clientSockets'[j] = IF j < k THEN clientSockets[j] ELSE clientSockets[j + 1]
  <2>1. clientSockets' = Erased(clientSockets, k)
    BY <1>1 DEF Released, Erased
  <2> QED
    BY <1>3, <2>1, EraseProperties
<1>8. /\ pollFds' \in Seq(Entries)
      /\ Len(pollFds') = Len(clientSockets)
      /\ DOMAIN pollFds' = 1 .. Len(clientSockets)
      /\ \A j \in DOMAIN pollFds' :
           pollFds'[j] = IF j < i THEN pollFds[j] ELSE pollFds[j + 1]
  <2>1. pollFds \in Seq(Entries) /\ Len(pollFds) - 1 = Len(clientSockets)
    BY <1>3 DEF IInv, LoopTypeOK, SameOrder
  <2> QED
    BY <1>2, <1>4, <2>1, EraseProperties
<1>9. SameOrder'
  <2>1. Len(pollFds') = Len(clientSockets') + 1
    BY <1>3, <1>7, <1>8
  <2>2. pollFds'[1].fd = ListenFd
    <3>1. 1 \in DOMAIN pollFds' /\ 1 < i
      BY <1>1, <1>3, <1>5, <1>8
    <3> QED
      BY <1>8, <3>1 DEF IInv, SameOrder
  <2>3. ASSUME NEW j \in DOMAIN clientSockets'
        PROVE  pollFds'[j + 1].fd = clientSockets'[j]
    <3>1. j \in Nat /\ j + 1 \in DOMAIN pollFds' /\ j \in DOMAIN clientSockets
          /\ j + 1 \in DOMAIN clientSockets
      BY <1>3, <1>7, <1>8
    <3>2. CASE j < k
      BY <1>1, <1>3, <1>5, <1>7, <1>8, <3>1, <3>2 DEF IInv, SameOrder
    <3>3. CASE ~(j < k)
      <4>1. ~(j + 1 < i)
        BY <1>1, <1>3, <1>5, <3>1, <3>3
      <4>2. pollFds'[j + 1] = pollFds[(j + 1) + 1] /\ clientSockets'[j] = clientSockets[j + 1]
        BY <1>7, <1>8, <3>1, <3>3, <4>1
      <4> QED
        BY <3>1, <4>2 DEF IInv, SameOrder
    <3> QED
      BY <3>2, <3>3
  <2> QED
    BY <2>1, <2>2, <2>3 DEF SameOrder
<1>10. \A j \in DOMAIN pollFds' : j >= i /\ pollFds'[j].fd # ListenFd =>
         /\ j + 1 \in DOMAIN pollFds /\ j + 1 > i /\ pollFds'[j] = pollFds[j + 1]
         /\ pollFds[j + 1].fd \in Fds \ {cur}
  <2> SUFFICES ASSUME NEW j \in DOMAIN pollFds', j >= i, pollFds'[j].fd # ListenFd
               PROVE  /\ j + 1 \in DOMAIN pollFds /\ j + 1 > i /\ pollFds'[j] = pollFds[j + 1]
                      /\ pollFds[j + 1].fd \in Fds \ {cur}
    OBVIOUS
  <2>1. j + 1 \in DOMAIN pollFds /\ j + 1 > i /\ j + 1 # i /\ pollFds'[j] = pollFds[j + 1]
    BY <1>3, <1>4, <1>8
  <2>2. pollFds[j + 1].fd \in Fds
    BY <1>3, <2>1 DEF Entries
  <2>3. pollFds[j + 1].fd # cur
    BY <1>3, <1>4, <2>1, OnePlace DEF IInv
  <2> QED
    BY <2>1, <2>2, <2>3
<1>11. LoopTypeOK' /\ AtPosition' /\ Reported' /\ NoBlindRecv'
  BY <1>2, <1>4, <1>6, <1>8, <1>10
     DEF IInv, LoopTypeOK, AtPosition, Reported, NoBlindRecv, HandlerLabels
<1> QED
  BY <1>6, <1>9, <1>11 DEF IInv

LEMMA HandlerStepIInv ==
  ASSUME IInv, HandlerStep, UNCHANGED loopVars
  PROVE  IInv'
<1>1. HandlerInv' /\ clientSockets' = clientSockets
  BY HandlerStepKeeps
     DEF IInv, HandlerStep, FirstRecv, MoreRecv, UnknownCommand, GetFile, DeleteFile, PutRefused,
         PutOpen, Write, Answer, Send, SendError
<1>2. /\ pc \in HandlerLabels /\ pc' \in HandlerLabels \ {"recv"}
      /\ cur' = cur /\ pollFds' = pollFds /\ i' = i
      /\ \A f \in Fds \ {cur} : FdReady(f) => FdReady(f)'
  BY HandlerStepLocal DEF IInv, loopVars
<1>3. /\ cur \in Fds /\ ListenFd \notin Fds /\ i \in DOMAIN pollFds /\ pollFds[i].fd = cur
      /\ \A k \in DOMAIN pollFds : k \in Nat /\ pollFds[k] \in Entries
  BY <1>2, ListTyped DEF IInv, AtPosition
<1>4. \A k \in DOMAIN pollFds : k > i => pollFds[k].fd # cur
  BY <1>3, OnePlace DEF IInv
<1>5. \A k \in DOMAIN pollFds : pollFds[k].fd # ListenFd => pollFds[k].fd \in Fds
  BY <1>3 DEF Entries
<1>6. pc # "scan" /\ pc' # "scan" /\ pc' # "recv"
  BY <1>2 DEF HandlerLabels
<1>7. LoopTypeOK' /\ SameOrder' /\ AtPosition' /\ Reported' /\ NoBlindRecv'
  BY <1>1, <1>2, <1>3, <1>4, <1>5, <1>6
     DEF IInv, LoopTypeOK, SameOrder, AtPosition, Reported, NoBlindRecv
<1> QED
  BY <1>1, <1>7 DEF IInv

LEMMA ClientStepIInv ==
  ASSUME IInv, ClientStep, UNCHANGED loopVars
  PROVE  IInv'
<1>1. /\ HandlerInv' /\ UNCHANGED <<fdConn, pc, cur, clientSockets, pollFds, i>>
      /\ \A f \in Fds : FdReady(f) => FdReady(f)'
  BY ClientsKeep DEF IInv, ClientStep, handlerVars, loopVars
<1>2. /\ cur \in Fds
      /\ \A k \in DOMAIN pollFds : pollFds[k].fd # ListenFd => pollFds[k].fd \in Fds
  BY ListTyped DEF IInv, Entries
<1>3. LoopTypeOK' /\ SameOrder' /\ AtPosition' /\ Reported' /\ NoBlindRecv'
  BY <1>1, <1>2 DEF IInv, LoopTypeOK, SameOrder, AtPosition, Reported, NoBlindRecv
<1> QED
  BY <1>1, <1>3 DEF IInv

LEMMA FailureIInv ==
  ASSUME IInv, ServerFails \/ Kill, LoopReset
  PROVE  IInv'
<1>1. HandlerInv' /\ pc' = "down" /\ clientSockets' = <<>>
  BY FailureKeeps DEF IInv, ServerFails, Throw, BrokenPipe, Kill, Stopped
<1>2. PollFd(ListenFd, FALSE) \in Entries /\ PollFd(ListenFd, FALSE).fd = ListenFd
  BY DEF PollFd, Entries
<1>3. /\ pollFds' \in Seq(Entries) /\ Len(pollFds') = 1 /\ i' = 1
      /\ pollFds'[1] = PollFd(ListenFd, FALSE)
  BY <1>2, Singleton DEF LoopReset
<1>4. Len(clientSockets') = 0 /\ DOMAIN clientSockets' = {}
  BY <1>1, EmptySeq
<1>5. LoopTypeOK'
  BY <1>3 DEF LoopTypeOK
<1>6. SameOrder'
  <2>1. Len(pollFds') = Len(clientSockets') + 1
    BY <1>3, <1>4
  <2>2. pollFds'[1].fd = ListenFd
    BY <1>2, <1>3
  <2>3. \A k \in DOMAIN clientSockets' : pollFds'[k + 1].fd = clientSockets'[k]
    BY <1>4
  <2> QED
    BY <2>1, <2>2, <2>3 DEF SameOrder
<1>7. AtPosition' /\ Reported' /\ NoBlindRecv'
  BY <1>1 DEF AtPosition, Reported, NoBlindRecv, HandlerLabels
<1> QED
  BY <1>1, <1>5, <1>6, <1>7 DEF IInv

LEMMA StartIInv ==
  ASSUME IInv, Start
  PROVE  IInv'
<1>1. HandlerInv'
  BY RestartKeeps DEF IInv, Start
<1>2. pc' = "wait" /\ UNCHANGED <<pollFds, i, clientSockets>>
  BY DEF Start, Restart, loopVars
<1>3. LoopTypeOK' /\ SameOrder' /\ AtPosition' /\ Reported' /\ NoBlindRecv'
  BY <1>2 DEF IInv, LoopTypeOK, SameOrder, AtPosition, Reported, NoBlindRecv, HandlerLabels
<1> QED
  BY <1>1, <1>3 DEF IInv

LEMMA StutterIInv ==
  ASSUME IInv, UNCHANGED vars
  PROVE  IInv'
<1>1. UNCHANGED <<netVars, handlerVars, pollFds, i>>
  BY DEF vars, loopVars
<1>2. HandlerInv'
  BY <1>1, NetStutters
     DEF netVars, handlerVars, IInv, HandlerInv, HandlerTypeOK, Busy, Fresh, Sending, Tracked, Conn
<1>3. \A f : FdReady(f) => FdReady(f)'
  BY <1>1 DEF FdReady, Readable, netVars
<1>4. LoopTypeOK' /\ SameOrder' /\ AtPosition' /\ Reported' /\ NoBlindRecv'
  BY <1>1, <1>3
     DEF IInv, LoopTypeOK, SameOrder, AtPosition, Reported, NoBlindRecv, netVars, handlerVars
<1> QED
  BY <1>2, <1>4 DEF IInv

LEMMA NextIInv == IInv /\ [Next]_vars => IInv'
<1> SUFFICES ASSUME IInv, [Next]_vars PROVE IInv'
  OBVIOUS
<1>1. CASE LoopStep
  BY <1>1, PollKeeps, ScanKeeps, PollAcceptKeeps, PollCloseKeeps DEF LoopStep
<1>2. CASE HandlerStep /\ UNCHANGED loopVars
  BY <1>2, HandlerStepIInv
<1>3. CASE (ServerFails \/ Kill) /\ LoopReset
  BY <1>3, FailureIInv
<1>4. CASE ClientStep /\ UNCHANGED loopVars
  BY <1>4, ClientStepIInv
<1>5. CASE Start
  BY <1>5, StartIInv
<1>6. CASE UNCHANGED vars
  BY <1>6, StutterIInv
<1> QED
  BY <1>1, <1>2, <1>3, <1>4, <1>5, <1>6 DEF Next, ServerStep, Idle

LEMMA InvariantHolds == Spec => []IInv
BY InitIInv, NextIInv, PTL DEF Spec
-----------------------------------------------------------------------------
(***************************************************************************)
(* Every variable of the poll server keeps its type, and the scan's index  *)
(* stays a position.                                                       *)
(***************************************************************************)
THEOREM TypeCorrect == Spec => []TypeOK
<1>1. IInv => TypeOK
  BY DEF IInv, HandlerInv, NetInv, LoopTypeOK, Entries, TypeOK
<1> QED
  BY <1>1, InvariantHolds, PTL

(***************************************************************************)
(* runPoll never starts a blocking recv that nothing will answer, although *)
(* the list it scans grows and shrinks under the scan.                     *)
(***************************************************************************)
THEOREM NeverBlindRecv == Spec => []NoBlindRecv
<1>1. IInv => NoBlindRecv
  BY DEF IInv
<1> QED
  BY <1>1, InvariantHolds, PTL

(***************************************************************************)
(* pollFds_, erased by position, and clientSockets_, erased by search,     *)
(* are the same list behind the listener's entry.                          *)
(***************************************************************************)
THEOREM ListsAgree == Spec => []SameOrder
<1>1. IInv => SameOrder
  BY DEF IInv
<1> QED
  BY <1>1, InvariantHolds, PTL

(***************************************************************************)
(* Under runPoll clientSockets_ lists exactly the open descriptors, each   *)
(* once, and every open connection has one.                                *)
(***************************************************************************)
THEOREM SocketsTracked == Spec => []TrackedExactly
<1>1. IInv => TrackedExactly
  BY HandlerInvTracks DEF IInv
<1> QED
  BY <1>1, InvariantHolds, PTL
-----------------------------------------------------------------------------
LEMMA NextAnswered == IInv /\ AnswerInv /\ [Next]_vars => AnswerInv'
<1> SUFFICES ASSUME IInv, AnswerInv, [Next]_vars PROVE AnswerInv'
  OBVIOUS
<1> HandlerInv
  BY DEF IInv
<1>1. CASE Poll \/ PollSkip \/ PollServe \/ PollScanned
  BY <1>1, TurnAnswered
     DEF Poll, PollSkip, PollServe, PollScanned, HandlerLabels, storeVars, handlerVars
<1>2. CASE PollAccept
  <2>1. pc \notin HandlerLabels /\ pc' # "close"
    BY <1>2 DEF PollAccept, HandlerLabels
  <2> QED
    BY <1>2, <2>1, AcceptAnswered, TurnAnswered DEF PollAccept, storeVars
<1>3. CASE PollClose
  <2>1. pc' \in LoopLabels
    BY <1>3 DEF PollClose, LoopLabels
  <2> QED
    BY <1>3, <2>1, ReleasedAnswered DEF PollClose
<1>4. CASE HandlerStep
  BY <1>4, HandlerStepAnswered
<1>5. CASE ServerFails \/ Kill
  BY <1>5, FailureAnswered
<1>6. CASE ClientStep
  BY <1>6, ClientsAnswered
<1>7. CASE Start
  BY <1>7, RestartAnswered DEF Start
<1>8. CASE UNCHANGED vars
  BY <1>8, StutterAnswered DEF vars
<1> QED
  BY <1>1, <1>2, <1>3, <1>4, <1>5, <1>6, <1>7, <1>8 DEF Next, ServerStep, LoopStep, Idle

LEMMA AnswerInvHolds == Spec => []AnswerInv
<1>1. Init => AnswerInv
  BY AnswerStarts DEF Init
<1> QED
  BY <1>1, InvariantHolds, NextAnswered, PTL DEF Spec

(***************************************************************************)
(* Under runPoll no client whose whole request arrived, and who stayed,    *)
(* has its connection closed before its whole response is on its way.      *)
(***************************************************************************)
THEOREM AnswersInFull == Spec => []AnsweredInFull
<1>1. AnswerInv => AnsweredInFull
  BY DEF AnswerInv
<1> QED
  BY <1>1, AnswerInvHolds, PTL
-----------------------------------------------------------------------------
LEMMA NextStore ==
  ASSUME WholeHeaders, IInv, AnswerInv, StoreInv, [Next]_vars
  PROVE  StoreInv'
<1> HandlerInv
  BY DEF IInv
<1>1. CASE Poll \/ PollSkip \/ PollServe \/ PollScanned
  BY <1>1, TurnStore
     DEF Poll, PollSkip, PollServe, PollScanned, HandlerLabels, storeVars, handlerVars
<1>2. CASE PollAccept
  <2>1. pc \notin HandlerLabels /\ pc' \notin {"more", "handle", "write"}
    BY <1>2 DEF PollAccept, HandlerLabels
  <2> QED
    BY <1>2, <2>1, AcceptStore, TurnStore DEF PollAccept, storeVars
<1>3. CASE PollClose
  <2>1. pc' \in LoopLabels
    BY <1>3 DEF PollClose, LoopLabels
  <2> QED
    BY <1>3, <2>1, ReleasedStore DEF PollClose
<1>4. CASE HandlerStep
  BY <1>4, HandlerStepStore
<1>5. CASE ServerFails \/ Kill
  BY <1>5, FailureStore
<1>6. CASE ClientStep
  BY <1>6, ClientsStore
<1>7. CASE Start
  BY <1>7, RestartStore DEF Start
<1>8. CASE UNCHANGED vars
  BY <1>8, StutterStore DEF vars
<1> QED
  BY <1>1, <1>2, <1>3, <1>4, <1>5, <1>6, <1>7, <1>8 DEF Next, ServerStep, LoopStep, Idle

LEMMA StoreInvHolds ==
  ASSUME WholeHeaders
  PROVE  Spec => []StoreInv
<1>1. Init => StoreInv
  BY StoreStarts DEF Init
<1>2. IInv /\ AnswerInv /\ StoreInv /\ [Next]_vars => StoreInv'
  BY NextStore
<1> QED
  BY <1>1, <1>2, InvariantHolds, AnswerInvHolds, PTL DEF Spec

\* Only a failure ends the process.
LEMMA EndIsFailure ==
  ASSUME [Next]_vars, pc # "down", pc' = "down"
  PROVE  ServerFails \/ Kill
BY DEF Next, ServerStep, LoopStep, Poll, PollSkip, PollAccept, PollServe, PollClose, PollScanned,
       HandlerStep, FirstRecv, MoreRecv, UnknownCommand, GetFile, DeleteFile, PutRefused,
       PutOpen, Write, Answer, Send, SendError, ClientStep, handlerVars, Start, Restart, Idle,
       vars

(***************************************************************************)
(* Under runPoll, when headers arrive in one piece and fit the buffer,     *)
(* the process only ends if it is killed or sends to a client that         *)
(* vanished: stoi never throws, and a client that ended its stream ends no *)
(* server.                                                                 *)
(***************************************************************************)
THEOREM SurvivesClients ==
  ASSUME WholeHeaders
  PROVE  Spec => ServerSurvives
<1>1. IInv /\ StoreInv /\ [Next]_vars
        => [pc # "down" /\ pc' = "down"
              => kills' # kills \/ peer[Conn] \notin {"live", "fin"}]_pc
  BY EndIsFailure, FailureExcused DEF IInv
<1> QED
  BY <1>1, InvariantHolds, StoreInvHolds, PTL DEF Spec, ServerSurvives
-----------------------------------------------------------------------------
\* The turns of the loop change nothing FileStore can see.
LEMMA NextMaps ==
  ASSUME WholeHeaders, PromptDisk, IInv, StoreInv, [Next]_vars
  PROVE  [Store!Next]_(Store!absVars)
<1> HandlerInv
  BY DEF IInv
<1>1. CASE LoopStep \/ Start
  <2>1. UNCHANGED <<sent, req, files, reply>> /\ pc # "write" /\ pc' # "write"
    BY <1>1
       DEF LoopStep, Start, Poll, PollSkip, PollAccept, PollServe, PollClose, PollScanned, Restart,
           AcceptClient, Accepted, Released, CloseFd, storeVars, netVars, handlerVars
  <2> QED
    BY <2>1, QuietMaps
<1>2. CASE HandlerStep
  BY <1>2, HandlerStepMaps
<1>3. CASE ServerFails \/ Kill
  BY <1>3, FailureMaps
<1>4. CASE ClientStep
  BY <1>4, ClientsMap
<1>5. CASE UNCHANGED vars
  BY <1>5 DEF vars, netVars, handlerVars, Store!absVars, Arrived, Conn
<1> QED
  BY <1>1, <1>2, <1>3, <1>4, <1>5 DEF Next, ServerStep, Idle

(***************************************************************************)
(* When headers arrive in one piece, and no error hides in the stream      *)
(* buffer, runPoll implements the store of FileStore: the requests of      *)
(* concurrent clients act one at a time and at most once, OK is said of a  *)
(* PUT only when its content is stored or its client cut it, and a crash   *)
(* damages no file but the one being written.                              *)
(***************************************************************************)
THEOREM ImplementsStore ==
  ASSUME WholeHeaders, PromptDisk
  PROVE  Spec => ImplementsFileStore
<1>1. Init => Store!Init
  BY StoreInitMaps DEF Init
<1>2. IInv /\ StoreInv /\ [Next]_vars => [Store!Next]_(Store!absVars)
  BY NextMaps
<1> QED
  BY <1>1, <1>2, InvariantHolds, StoreInvHolds, PTL DEF Spec, ImplementsFileStore, Store!Spec
=============================================================================
