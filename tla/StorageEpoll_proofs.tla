------------------------- MODULE StorageEpoll_proofs -------------------------
(* Proofs about runEpoll, for any number of clients, descriptors and events. *)
EXTENDS StorageEpoll, StorageHandler_proofs, FiniteSetTheorems

(***************************************************************************)
(* The batch epoll_wait returned stays good while it is worked through:    *)
(* every client descriptor in it is still ready and appears once, and the  *)
(* one being served is not among those that are left.  Level-triggered     *)
(* readiness, and descriptors that only the server's own thread closes,    *)
(* are what this rests on.                                                 *)
(***************************************************************************)
Batch ==
  /\ pc = "scan" => events # <<>>
  /\ \A k \in DOMAIN events :
       events[k] # ListenFd => FdReady(events[k]) /\ (pc \in HandlerLabels => events[k] # cur)
  /\ \A j, k \in DOMAIN events : events[j] = events[k] => j = k

LoopTypeOK == interest \subseteq Fds /\ events \in Seq(Fds \cup {ListenFd})

IInv == HandlerInv /\ LoopTypeOK /\ InterestExact /\ Batch /\ NoBlindRecv
-----------------------------------------------------------------------------
LEMMA EmptyBatch == events = <<>> => DOMAIN events = {}
BY EmptySeq

LEMMA InitIInv == Init => IInv
<1> SUFFICES ASSUME Init PROVE IInv
  OBVIOUS
<1>1. HandlerInv
  BY HandlerStarts DEF Init
<1>2. events \in Seq(Fds \cup {ListenFd}) /\ DOMAIN events = {}
  BY EmptySeq DEF Init
<1>3. LoopTypeOK /\ InterestExact /\ Batch /\ NoBlindRecv
  BY <1>2 DEF Init, NetInit, HandlerInit, LoopTypeOK, InterestExact, Batch, NoBlindRecv
<1> QED
  BY <1>1, <1>3 DEF IInv

\* The rest of a batch, after its first event.
LEMMA RestOfBatch ==
  ASSUME LoopTypeOK, Batch, pc = "scan", events' = Tail(events)
  PROVE  /\ Head(events) \in Fds \cup {ListenFd}
         /\ Head(events) # ListenFd => FdReady(Head(events))
         /\ events' \in Seq(Fds \cup {ListenFd})
         /\ \A k \in DOMAIN events' :
              /\ events'[k] \in Fds \cup {ListenFd}
              /\ events'[k] # Head(events)
              /\ events'[k] # ListenFd => FdReady(events'[k])
         /\ \A j, k \in DOMAIN events' : events'[j] = events'[k] => j = k
<1> DEFINE T == Fds \cup {ListenFd}
<1>1. events \in Seq(T) /\ events # <<>>
  BY DEF LoopTypeOK, Batch
<1>2. /\ Len(events) \in Nat \ {0} /\ DOMAIN events = 1 .. Len(events)
      /\ events' \in Seq(T) /\ DOMAIN events' = 1 .. Len(events) - 1
      /\ Head(events) = events[1] /\ Head(events) \in T
      /\ \A k \in 1 .. Len(events) - 1 : events'[k] = events[k + 1]
  BY <1>1, LenProperties, HeadTailProperties, EmptySeq
<1>3. \A k \in DOMAIN events' :
        k \in Int /\ k + 1 \in DOMAIN events /\ k + 1 # 1 /\ events'[k] = events[k + 1]
  BY <1>2
<1>4. 1 \in DOMAIN events
  BY <1>2
<1>5. \A k \in DOMAIN events' : events'[k] \in T
  BY <1>2, ElementOfSeq, LenProperties
<1> QED
  BY <1>2, <1>3, <1>4, <1>5 DEF Batch

LEMMA EpollWaitKeeps ==
  ASSUME IInv, EpollWait
  PROVE  IInv'
<1> DEFINE n == Least(MaxEvents, Cardinality(Ready))
<1>1. /\ Ready \subseteq Fds \cup {ListenFd} /\ Ready # {}
      /\ \A f \in Ready : f # ListenFd => FdReady(f)
  BY DEF EpollWait, Ready, IInv, LoopTypeOK
<1>2. n \in Nat \ {0}
  <2>1. IsFiniteSet(Fds \cup {ListenFd})
    <3>1. 1 \in Int /\ MaxFd \in Int
      BY SocketsAssumption
    <3>2. IsFiniteSet(Fds)
      BY <3>1, FS_Interval DEF Fds
    <3>3. IsFiniteSet({ListenFd})
      BY FS_Singleton
    <3> QED
      BY <3>2, <3>3, FS_Union
  <2>2. IsFiniteSet(Ready)
    BY <1>1, <2>1, FS_Subset
  <2>3. Cardinality(Ready) \in Nat \ {0}
    BY <1>1, <2>2, FS_CardinalityType, FS_EmptySet
  <2> QED
    BY <2>3, EpollAssumption DEF Least
<1>3. /\ events' \in [1 .. n -> Ready] /\ DOMAIN events' = 1 .. n
      /\ \A k \in DOMAIN events' : events'[k] \in Ready
      /\ \A j, k \in DOMAIN events' : events'[j] = events'[k] => j = k
  BY DEF EpollWait, Injection, IsInjective
<1> HIDE DEF n
<1>4. events' \in Seq(Fds \cup {ListenFd}) /\ events' # <<>>
  <2>1. events' \in Seq(Ready)
    BY <1>2, <1>3, SeqDef
  <2>2. 1 \in DOMAIN events'
    BY <1>2, <1>3
  <2> QED
    BY <1>1, <2>1, <2>2, SeqMonotonic, EmptySeq
<1>5. /\ pc' = "scan"
      /\ UNCHANGED <<netVars, storeVars, req, cur, clientSockets, kills, interest>>
  BY DEF EpollWait
<1>6. HandlerInv'
  <2>1. pc \notin HandlerLabels /\ cur \in Fds
    BY DEF EpollWait, HandlerLabels, IInv, HandlerInv, HandlerTypeOK
  <2> QED
    BY <1>5, <2>1, TurnKeeps DEF IInv, HandlerLabels, LoopLabels
<1>7. LoopTypeOK' /\ InterestExact' /\ NoBlindRecv'
  BY <1>4, <1>5 DEF IInv, LoopTypeOK, InterestExact, NoBlindRecv, netVars
<1>8. Batch'
  <2>1. \A f : FdReady(f) => FdReady(f)'
    BY <1>5 DEF FdReady, Readable, netVars
  <2> QED
    BY <1>1, <1>3, <1>4, <1>5, <2>1 DEF Batch, HandlerLabels
<1> QED
  BY <1>6, <1>7, <1>8 DEF IInv

LEMMA EpollServeKeeps ==
  ASSUME IInv, EpollServe
  PROVE  IInv'
<1>1. /\ pc = "scan" /\ pc' = "recv" /\ cur' = Head(events) /\ events' = Tail(events)
      /\ Head(events) # ListenFd
      /\ UNCHANGED <<netVars, storeVars, req, clientSockets, kills, interest>>
  BY DEF EpollServe
<1>2. /\ cur' \in Fds /\ FdReady(cur')
      /\ events' \in Seq(Fds \cup {ListenFd})
      /\ \A k \in DOMAIN events' :
           events'[k] # cur' /\ (events'[k] # ListenFd => FdReady(events'[k]))
      /\ \A j, k \in DOMAIN events' : events'[j] = events'[k] => j = k
  BY <1>1, RestOfBatch DEF IInv
<1>3. HandlerInv'
  BY <1>1, <1>2, TurnKeeps DEF IInv, HandlerLabels, LoopLabels, FdReady
<1>4. \A f : FdReady(f) => FdReady(f)'
  BY <1>1 DEF FdReady, Readable, netVars
<1>5. LoopTypeOK' /\ InterestExact' /\ NoBlindRecv' /\ Batch'
  <2>1. FdReady(cur)' 
    BY <1>1, <1>2 DEF FdReady, Readable, netVars
  <2> QED
    BY <1>1, <1>2, <1>4, <2>1 DEF IInv, LoopTypeOK, InterestExact, NoBlindRecv, Batch, netVars
<1> QED
  BY <1>3, <1>5 DEF IInv

LEMMA EpollAcceptKeeps ==
  ASSUME IInv, EpollAccept
  PROVE  IInv'
<1>1. /\ pc = "scan" /\ Head(events) = ListenFd
      /\ events' = Tail(events) /\ pc' = AfterEvent(events') /\ cur' = cur
  BY DEF EpollAccept
<1>2. /\ events' \in Seq(Fds \cup {ListenFd})
      /\ \A k \in DOMAIN events' :
           events'[k] # ListenFd => events'[k] \in Fds /\ FdReady(events'[k])
      /\ \A j, k \in DOMAIN events' : events'[j] = events'[k] => j = k
  BY <1>1, RestOfBatch DEF IInv
<1>3. pc \notin HandlerLabels /\ pc' \in LoopLabels /\ pc' \notin HandlerLabels /\ cur' \in Fds
  BY <1>1 DEF AfterEvent, LoopLabels, HandlerLabels, IInv, HandlerInv, HandlerTypeOK
<1>4. /\ HandlerInv' /\ interest' \subseteq Fds /\ InterestExact'
      /\ \A f \in Fds : FdReady(f) => FdReady(f)'
  <2>1. CASE UNCHANGED <<netVars, storeVars, req, clientSockets, kills, interest>>
    <3>1. HandlerInv'
      BY <1>1, <1>3, <2>1, TurnKeeps DEF IInv, LoopLabels, HandlerLabels
    <3> QED
      BY <2>1, <3>1 DEF IInv, LoopTypeOK, InterestExact, FdReady, Readable, netVars
  <2>2. ASSUME NEW f \in Fds, AcceptClient(f), interest' = interest \cup {f}
        PROVE  /\ HandlerInv' /\ interest' \subseteq Fds /\ InterestExact'
               /\ \A g \in Fds : FdReady(g) => FdReady(g)'
    <3>1. /\ HandlerInv' /\ fdConn'[f] # NoConn
          /\ \A g \in Fds : g # f => fdConn'[g] = fdConn[g]
      BY <1>3, <2>2, AcceptClientKeeps DEF IInv
    <3>2. \A g \in Fds : FdReady(g) => FdReady(g)'
      BY <2>2, ReadyStaysForAccept DEF IInv, HandlerInv, AcceptClient
    <3> QED
      BY <2>2, <3>1, <3>2 DEF IInv, LoopTypeOK, InterestExact
  <2> QED
    BY <2>1, <2>2 DEF EpollAccept
<1>5. LoopTypeOK' /\ NoBlindRecv' /\ Batch'
  BY <1>1, <1>2, <1>3, <1>4
     DEF LoopTypeOK, NoBlindRecv, Batch, AfterEvent, HandlerLabels
<1> QED
  BY <1>4, <1>5 DEF IInv

LEMMA EpollCloseKeeps ==
  ASSUME IInv, EpollClose
  PROVE  IInv'
<1>1. PICK i \in DOMAIN clientSockets : clientSockets[i] = cur /\ Released(i)
  BY DEF EpollClose, IsFirst
<1>2. /\ interest' = interest \ {cur} /\ events' = events
      /\ pc = "close" /\ pc \in HandlerLabels
      /\ pc' = AfterEvent(events) /\ pc' \in LoopLabels /\ pc' \notin HandlerLabels
  BY <1>1 DEF EpollClose, Released, AfterEvent, LoopLabels, HandlerLabels
<1>3. /\ HandlerInv' /\ fdConn' = [fdConn EXCEPT ![cur] = NoConn]
      /\ \A f \in Fds \ {cur} : FdReady(f) => FdReady(f)'
  BY <1>1, <1>2, ReleasedKeeps DEF IInv
<1>4. LoopTypeOK' /\ InterestExact' /\ NoBlindRecv'
  BY <1>2, <1>3
     DEF IInv, LoopTypeOK, InterestExact, NoBlindRecv, HandlerLabels, HandlerInv, NetInv,
         NetTypeOK
<1>5. Batch'
  <2>1. \A k \in DOMAIN events : events[k] # ListenFd =>
          events[k] \in Fds \ {cur} /\ FdReady(events[k])
    BY <1>2, ElementOfSeq, LenProperties DEF IInv, LoopTypeOK, Batch
  <2> QED
    BY <1>2, <1>3, <2>1 DEF IInv, Batch, AfterEvent
<1> QED
  BY <1>3, <1>4, <1>5 DEF IInv

LEMMA HandlerStepIInv ==
  ASSUME IInv, HandlerStep, UNCHANGED loopVars
  PROVE  IInv'
<1>1. HandlerInv'
  BY HandlerStepKeeps DEF IInv
<1>2. /\ pc \in HandlerLabels /\ pc' \in HandlerLabels \ {"recv"}
      /\ UNCHANGED <<fdConn, cur, interest, events>>
      /\ \A f \in Fds \ {cur} : FdReady(f) => FdReady(f)'
  BY HandlerStepLocal DEF IInv, loopVars
<1>3. \A k \in DOMAIN events : events[k] # ListenFd =>
        events[k] \in Fds \ {cur} /\ FdReady(events[k])
  BY <1>2, ElementOfSeq, LenProperties DEF IInv, LoopTypeOK, Batch
<1>4. LoopTypeOK' /\ InterestExact' /\ NoBlindRecv' /\ Batch'
  BY <1>2, <1>3 DEF IInv, LoopTypeOK, InterestExact, NoBlindRecv, Batch, HandlerLabels
<1> QED
  BY <1>1, <1>4 DEF IInv

LEMMA ClientStepIInv ==
  ASSUME IInv, ClientStep, UNCHANGED loopVars
  PROVE  IInv'
<1>1. /\ HandlerInv' /\ UNCHANGED <<fdConn, pc, cur, interest, events>>
      /\ \A f \in Fds : FdReady(f) => FdReady(f)'
  BY ClientsKeep DEF IInv, ClientStep, handlerVars, loopVars
<1>2. \A k \in DOMAIN events : events[k] # ListenFd => events[k] \in Fds
  BY ElementOfSeq, LenProperties DEF IInv, LoopTypeOK
<1>3. cur \in Fds
  BY DEF IInv, HandlerInv, HandlerTypeOK
<1>4. LoopTypeOK' /\ InterestExact' /\ NoBlindRecv' /\ Batch'
  BY <1>1, <1>2, <1>3 DEF IInv, LoopTypeOK, InterestExact, NoBlindRecv, Batch
<1> QED
  BY <1>1, <1>4 DEF IInv

LEMMA FailureIInv ==
  ASSUME IInv, ServerFails \/ Kill, LoopReset
  PROVE  IInv'
<1>1. HandlerInv' /\ pc' = "down" /\ \A f \in Fds : fdConn'[f] = NoConn
  BY FailureKeeps DEF IInv
<1>2. interest' = {} /\ events' \in Seq(Fds \cup {ListenFd}) /\ DOMAIN events' = {}
  BY EmptySeq DEF LoopReset
<1>3. LoopTypeOK' /\ InterestExact' /\ NoBlindRecv' /\ Batch'
  BY <1>1, <1>2 DEF LoopTypeOK, InterestExact, NoBlindRecv, Batch
<1> QED
  BY <1>1, <1>3 DEF IInv

LEMMA StartIInv ==
  ASSUME IInv, Start
  PROVE  IInv'
<1>1. HandlerInv'
  BY RestartKeeps DEF IInv, Start
<1>2. pc' = "wait" /\ UNCHANGED <<netVars, loopVars>>
  BY DEF Start, Restart
<1>3. LoopTypeOK' /\ InterestExact' /\ NoBlindRecv' /\ Batch'
  BY <1>2
     DEF IInv, LoopTypeOK, InterestExact, NoBlindRecv, Batch, HandlerLabels, netVars, loopVars,
         FdReady, Readable
<1> QED
  BY <1>1, <1>3 DEF IInv

LEMMA StutterIInv ==
  ASSUME IInv, UNCHANGED vars
  PROVE  IInv'
BY DEF IInv, vars, netVars, handlerVars, loopVars, HandlerInv, HandlerTypeOK, NetInv, NetTypeOK,
       QueueSound, TableSound, OpenHeld, Untold, Busy, Fresh, Sending, Tracked, Conn, LoopTypeOK,
       InterestExact, NoBlindRecv, Batch, FdReady, Readable

LEMMA NextIInv == IInv /\ [Next]_vars => IInv'
<1> SUFFICES ASSUME IInv, [Next]_vars PROVE IInv'
  OBVIOUS
<1>1. CASE LoopStep
  BY <1>1, EpollWaitKeeps, EpollAcceptKeeps, EpollServeKeeps, EpollCloseKeeps DEF LoopStep
<1>2. CASE HandlerStep /\ UNCHANGED loopVars
  BY <1>2, HandlerStepIInv
<1>3. CASE (ServerFails \/ Kill) /\ LoopReset
  BY <1>3, FailureIInv
<1>4. CASE ClientStep /\ UNCHANGED loopVars
  BY <1>4, ClientStepIInv
<1>5. CASE Start
  BY <1>5, StartIInv
<1>6. CASE UNCHANGED vars
  BY <1>6, StutterIInv
<1> QED
  BY <1>1, <1>2, <1>3, <1>4, <1>5, <1>6 DEF Next, ServerStep, Idle

LEMMA InvariantHolds == Spec => []IInv
BY InitIInv, NextIInv, PTL DEF Spec
-----------------------------------------------------------------------------
(***************************************************************************)
(* Every variable of the epoll server keeps its type: no index leaves its  *)
(* sequence, no send is asked for a negative rest, no descriptor outside   *)
(* the table is ever served.                                               *)
(***************************************************************************)
THEOREM TypeCorrect == Spec => []TypeOK
<1>1. IInv => TypeOK
  BY DEF IInv, HandlerInv, NetInv, LoopTypeOK, TypeOK
<1> QED
  BY <1>1, InvariantHolds, PTL

(***************************************************************************)
(* runEpoll never starts a blocking recv that nothing will answer: the     *)
(* readiness epoll_wait reported survives everything that happens before   *)
(* the descriptor's turn comes.                                            *)
(***************************************************************************)
THEOREM NeverBlindRecv == Spec => []NoBlindRecv
<1>1. IInv => NoBlindRecv
  BY DEF IInv
<1> QED
  BY <1>1, InvariantHolds, PTL

(***************************************************************************)
(* The epoll interest list is the descriptor table: EPOLL_CTL_ADD and      *)
(* EPOLL_CTL_DEL keep step with accept and close over any reuse of         *)
(* descriptor numbers.                                                     *)
(***************************************************************************)
THEOREM InterestIsExact == Spec => []InterestExact
<1>1. IInv => InterestExact
  BY DEF IInv
<1> QED
  BY <1>1, InvariantHolds, PTL

(***************************************************************************)
(* clientSockets_ lists exactly the open descriptors, each once, and every *)
(* open connection has one: accept's push_back and closeClient's erase     *)
(* leak nothing and close nothing twice.                                   *)
(***************************************************************************)
THEOREM SocketsTracked == Spec => []TrackedExactly
<1>1. IInv => TrackedExactly
  BY HandlerInvTracks DEF IInv
<1> QED
  BY <1>1, InvariantHolds, PTL
-----------------------------------------------------------------------------
LEMMA NextAnswered == IInv /\ AnswerInv /\ [Next]_vars => AnswerInv'
<1> SUFFICES ASSUME IInv, AnswerInv, [Next]_vars PROVE AnswerInv'
  OBVIOUS
<1> HandlerInv
  BY DEF IInv
<1>1. CASE EpollWait \/ EpollServe
  BY <1>1, TurnAnswered DEF EpollWait, EpollServe, HandlerLabels, storeVars
<1>2. CASE EpollAccept
  <2>1. pc \notin HandlerLabels /\ pc' # "close"
    BY <1>2 DEF EpollAccept, AfterEvent, HandlerLabels
  <2> QED
    BY <1>2, <2>1, AcceptAnswered, TurnAnswered DEF EpollAccept, storeVars
<1>3. CASE EpollClose
  <2>1. pc' \in LoopLabels
    BY <1>3 DEF EpollClose, AfterEvent, LoopLabels
  <2> QED
    BY <1>3, <2>1, ReleasedAnswered DEF EpollClose
<1>4. CASE HandlerStep
  BY <1>4, HandlerStepAnswered
<1>5. CASE ServerFails \/ Kill
  BY <1>5, FailureAnswered
<1>6. CASE ClientStep
  BY <1>6, ClientsAnswered
<1>7. CASE Start
  BY <1>7, RestartAnswered DEF Start
<1>8. CASE UNCHANGED vars
  BY <1>8, StutterAnswered DEF vars
<1> QED
  BY <1>1, <1>2, <1>3, <1>4, <1>5, <1>6, <1>7, <1>8 DEF Next, ServerStep, LoopStep, Idle

LEMMA AnswerInvHolds == Spec => []AnswerInv
<1>1. Init => AnswerInv
  BY AnswerStarts DEF Init
<1> QED
  BY <1>1, InvariantHolds, NextAnswered, PTL DEF Spec

(***************************************************************************)
(* Under runEpoll no client whose whole request arrived, and who stayed,   *)
(* has its connection closed before its whole response is on its way.      *)
(***************************************************************************)
THEOREM AnswersInFull == Spec => []AnsweredInFull
<1>1. AnswerInv => AnsweredInFull
  BY DEF AnswerInv
<1> QED
  BY <1>1, AnswerInvHolds, PTL
-----------------------------------------------------------------------------
LEMMA NextStore ==
  ASSUME WholeHeaders, IInv, AnswerInv, StoreInv, [Next]_vars
  PROVE  StoreInv'
<1> HandlerInv
  BY DEF IInv
<1>1. CASE EpollWait \/ EpollServe
  BY <1>1, TurnStore
     DEF EpollWait, EpollServe, HandlerLabels, storeVars
<1>2. CASE EpollAccept
  <2>1. pc \notin HandlerLabels /\ pc' \notin {"more", "handle", "write"}
    BY <1>2 DEF EpollAccept, AfterEvent, HandlerLabels
  <2> QED
    BY <1>2, <2>1, AcceptStore, TurnStore DEF EpollAccept, storeVars
<1>3. CASE EpollClose
  <2>1. pc' \in LoopLabels
    BY <1>3 DEF EpollClose, AfterEvent, LoopLabels
  <2> QED
    BY <1>3, <2>1, ReleasedStore DEF EpollClose
<1>4. CASE HandlerStep
  BY <1>4, HandlerStepStore
<1>5. CASE ServerFails \/ Kill
  BY <1>5, FailureStore
<1>6. CASE ClientStep
  BY <1>6, ClientsStore
<1>7. CASE Start
  BY <1>7, RestartStore DEF Start
<1>8. CASE UNCHANGED vars
  BY <1>8, StutterStore DEF vars
<1> QED
  BY <1>1, <1>2, <1>3, <1>4, <1>5, <1>6, <1>7, <1>8 DEF Next, ServerStep, LoopStep, Idle

LEMMA StoreInvHolds ==
  ASSUME WholeHeaders
  PROVE  Spec => []StoreInv
<1>1. Init => StoreInv
  BY StoreStarts DEF Init
<1>2. IInv /\ AnswerInv /\ StoreInv /\ [Next]_vars => StoreInv'
  BY NextStore
<1> QED
  BY <1>1, <1>2, InvariantHolds, AnswerInvHolds, PTL DEF Spec

\* Only a failure ends the process.
LEMMA EndIsFailure ==
  ASSUME [Next]_vars, pc # "down", pc' = "down"
  PROVE  ServerFails \/ Kill
BY DEF Next, ServerStep, LoopStep, EpollWait, EpollAccept, EpollServe, EpollClose, AfterEvent,
       HandlerStep, FirstRecv, MoreRecv, UnknownCommand, GetFile, DeleteFile, PutRefused,
       PutOpen, Write, Answer, Send, SendError, ClientStep, handlerVars, Start, Restart, Idle,
       vars

(***************************************************************************)
(* Under runEpoll, when headers arrive in one piece and fit the buffer,    *)
(* the process only ends if it is killed or sends to a client that         *)
(* vanished: stoi never throws, and a client that ended its stream ends no *)
(* server.                                                                 *)
(***************************************************************************)
THEOREM SurvivesClients ==
  ASSUME WholeHeaders
  PROVE  Spec => ServerSurvives
<1>1. IInv /\ StoreInv /\ [Next]_vars
        => [pc # "down" /\ pc' = "down"
              => kills' # kills \/ peer[Conn] \notin {"live", "fin"}]_pc
  BY EndIsFailure, FailureExcused DEF IInv
<1> QED
  BY <1>1, InvariantHolds, StoreInvHolds, PTL DEF Spec, ServerSurvives
-----------------------------------------------------------------------------
\* The turns of the loop change nothing FileStore can see.
LEMMA NextMaps ==
  ASSUME WholeHeaders, PromptDisk, IInv, StoreInv, [Next]_vars
  PROVE  [Store!Next]_(Store!absVars)
<1> HandlerInv
  BY DEF IInv
<1>1. CASE LoopStep \/ Start
  <2>1. UNCHANGED <<sent, req, files, reply>> /\ pc # "write" /\ pc' # "write"
    BY <1>1
       DEF LoopStep, Start, EpollWait, EpollAccept, EpollServe, EpollClose, AfterEvent, Restart,
           AcceptClient, Accepted, Released, CloseFd, storeVars, netVars, handlerVars
  <2> QED
    BY <2>1, QuietMaps
<1>2. CASE HandlerStep
  BY <1>2, HandlerStepMaps
<1>3. CASE ServerFails \/ Kill
  BY <1>3, FailureMaps
<1>4. CASE ClientStep
  BY <1>4, ClientsMap
<1>5. CASE UNCHANGED vars
  BY <1>5 DEF vars, netVars, handlerVars, Store!absVars, Arrived, Conn
<1> QED
  BY <1>1, <1>2, <1>3, <1>4, <1>5 DEF Next, ServerStep, Idle

(***************************************************************************)
(* When headers arrive in one piece, and no error hides in the stream      *)
(* buffer, runEpoll implements the store of FileStore: the requests of     *)
(* concurrent clients act one at a time and at most once, OK is said of a  *)
(* PUT only when its content is stored or its client cut it, and a crash   *)
(* damages no file but the one being written.                              *)
(***************************************************************************)
THEOREM ImplementsStore ==
  ASSUME WholeHeaders, PromptDisk
  PROVE  Spec => ImplementsFileStore
<1>1. Init => Store!Init
  BY StoreInitMaps DEF Init
<1>2. IInv /\ StoreInv /\ [Next]_vars => [Store!Next]_(Store!absVars)
  BY NextMaps
<1> QED
  BY <1>1, <1>2, InvariantHolds, StoreInvHolds, PTL DEF Spec, ImplementsFileStore, Store!Spec
=============================================================================
