------------------------- MODULE StorageSelect_proofs -------------------------
(* Proofs about runSelect, for any number of clients and descriptors. *)
EXTENDS StorageSelect, StorageHandler_proofs

\* The socket being served is the one at the scan's position.
AtPosition == pc \in HandlerLabels => i \in DOMAIN clientSockets /\ clientSockets[i] = cur

(***************************************************************************)
(* What select reported of the sockets the scan has still to reach holds   *)
(* until it gets there; a client accepted in this turn is not in the set,  *)
(* even when its descriptor number was in an earlier one.                  *)
(***************************************************************************)
Reported ==
  /\ pc = "accept" => \A f \in readFds \ {ListenFd} : fdConn[f] # NoConn
  /\ pc \in {"accept", "scan"} =>
       \A k \in DOMAIN clientSockets :
         k >= i /\ clientSockets[k] \in readFds => FdReady(clientSockets[k])
  /\ pc \in HandlerLabels =>
       \A k \in DOMAIN clientSockets :
         k > i /\ clientSockets[k] \in readFds => FdReady(clientSockets[k])

LoopTypeOK == readFds \subseteq Fds \cup {ListenFd} /\ i \in Nat \ {0}

IInv == HandlerInv /\ LoopTypeOK /\ AtPosition /\ Reported /\ NoBlindRecv
-----------------------------------------------------------------------------
LEMMA SocketsTyped ==
  ASSUME HandlerInv
  PROVE  /\ \A k \in DOMAIN clientSockets : k \in Nat \ {0} /\ clientSockets[k] \in Fds
         /\ cur \in Fds
BY ElementOfSeq, LenProperties DEF HandlerInv, HandlerTypeOK

LEMMA InitIInv == Init => IInv
BY HandlerStarts
   DEF Init, NetInit, HandlerInit, IInv, LoopTypeOK, AtPosition, Reported, NoBlindRecv, HandlerLabels

LEMMA SelectWaitKeeps ==
  ASSUME IInv, SelectWait
  PROVE  IInv'
<1>1. /\ pc = "wait" /\ readFds' = Ready /\ i' = 1 /\ pc' \in {"accept", "scan"}
      /\ UNCHANGED <<netVars, storeVars, req, cur, clientSockets, kills>>
  BY DEF SelectWait
<1>2. HandlerInv' /\ LoopTypeOK'
  <2>1. Ready \subseteq Fds \cup {ListenFd}
    BY SocketsTyped DEF IInv, Ready, Watched
  <2> QED
    BY <1>1, <2>1, TurnKeeps, SocketsTyped DEF IInv, LoopTypeOK, HandlerLabels, LoopLabels
<1>3. \A f \in Ready \ {ListenFd} : FdReady(f) /\ fdConn[f] # NoConn
  BY DEF Ready, FdReady
<1>4. \A k \in DOMAIN clientSockets : clientSockets[k] # ListenFd
  BY SocketsTyped DEF IInv, Fds, ListenFd
<1>5. AtPosition' /\ Reported' /\ NoBlindRecv'
  BY <1>1, <1>3, <1>4
     DEF AtPosition, Reported, NoBlindRecv, HandlerLabels, netVars, FdReady, Readable
<1> QED
  BY <1>2, <1>5 DEF IInv

LEMMA SelectAcceptKeeps ==
  ASSUME IInv, SelectAccept
  PROVE  IInv'
<1>1. pc = "accept" /\ pc' = "scan" /\ UNCHANGED <<cur, readFds, i>>
  BY DEF SelectAccept, loopVars
<1>2. pc \notin HandlerLabels /\ pc' \in LoopLabels /\ pc' \notin HandlerLabels /\ cur' \in Fds
  BY <1>1, SocketsTyped DEF HandlerLabels, LoopLabels, IInv
<1>3. CASE UNCHANGED <<netVars, storeVars, req, clientSockets, kills>>
  <2>1. HandlerInv'
    BY <1>1, <1>2, <1>3, TurnKeeps DEF IInv, HandlerLabels
  <2>2. LoopTypeOK' /\ AtPosition' /\ Reported' /\ NoBlindRecv'
    BY <1>1, <1>2, <1>3
       DEF IInv, LoopTypeOK, AtPosition, Reported, NoBlindRecv, HandlerLabels, netVars, FdReady,
           Readable
  <2> QED
    BY <2>1, <2>2 DEF IInv
<1>4. ASSUME NEW f \in Fds, AcceptClient(f)
      PROVE  IInv'
  <2>1. HandlerInv'
    BY <1>2, <1>4, AcceptClientKeeps DEF IInv
  <2>2. f \notin readFds
    BY <1>1, <1>4 DEF IInv, Reported, AcceptClient, Accepted, LowestFree, Fds, ListenFd
  <2>3. \A k \in DOMAIN clientSockets' :
          clientSockets'[k] = f \/ (k \in DOMAIN clientSockets
                                     /\ clientSockets'[k] = clientSockets[k])
    BY <1>4, LenProperties, AppendProperties
       DEF AcceptClient, IInv, HandlerInv, HandlerTypeOK
  <2>4. \A g \in Fds : FdReady(g) => FdReady(g)'
    BY <1>4, ReadyStaysForAccept DEF IInv, HandlerInv, AcceptClient
  <2>5. \A k \in DOMAIN clientSockets : clientSockets[k] \in Fds
    BY SocketsTyped DEF IInv
  <2>6. LoopTypeOK' /\ AtPosition' /\ Reported' /\ NoBlindRecv'
    BY <1>1, <2>2, <2>3, <2>4, <2>5
       DEF IInv, LoopTypeOK, AtPosition, Reported, NoBlindRecv, HandlerLabels
  <2> QED
    BY <2>1, <2>6 DEF IInv
<1> QED
  BY <1>3, <1>4 DEF SelectAccept

LEMMA ScanKeeps ==
  ASSUME IInv, SelectSkip \/ SelectServe \/ SelectScanned
  PROVE  IInv'
<1>1. \A k \in DOMAIN clientSockets : k \in Nat \ {0} /\ clientSockets[k] \in Fds
  BY SocketsTyped DEF IInv
<1>2. /\ pc = "scan" /\ pc \notin HandlerLabels
      /\ UNCHANGED <<netVars, storeVars, req, clientSockets, kills>>
  BY DEF SelectSkip, SelectServe, SelectScanned, handlerVars, storeVars, HandlerLabels
<1>3. \A f : FdReady(f) => FdReady(f)'
  BY <1>2 DEF FdReady, Readable, netVars
<1>4. CASE SelectSkip
  <2>1. /\ pc' = "scan" /\ cur' = cur /\ i' = i + 1 /\ readFds' = readFds /\ i \in Nat \ {0}
        /\ cur \in Fds
    BY <1>4, <1>2, SocketsTyped DEF SelectSkip, handlerVars, IInv, LoopTypeOK
  <2>2. HandlerInv'
    BY <1>2, <2>1, TurnKeeps DEF IInv, HandlerLabels, LoopLabels
  <2>3. LoopTypeOK' /\ AtPosition' /\ Reported' /\ NoBlindRecv'
    BY <1>1, <1>2, <1>3, <2>1
       DEF IInv, LoopTypeOK, AtPosition, Reported, NoBlindRecv, HandlerLabels
  <2> QED
    BY <2>2, <2>3 DEF IInv
<1>5. CASE SelectServe
  <2>1. /\ pc' = "recv" /\ cur' = clientSockets[i] /\ i \in DOMAIN clientSockets
        /\ readFds' = readFds /\ i' = i /\ clientSockets[i] \in readFds
        /\ i \in Nat \ {0} /\ cur' \in Fds
    BY <1>1, <1>5 DEF SelectServe, loopVars, IInv, LoopTypeOK
  <2>2. FdReady(cur')
    BY <1>2, <2>1 DEF IInv, Reported
  <2>3. HandlerInv'
    BY <1>2, <2>1, <2>2, TurnKeeps DEF IInv, HandlerLabels, FdReady
  <2>4. FdReady(cur)'
    BY <1>2, <2>2 DEF FdReady, Readable, netVars
  <2>5. LoopTypeOK' /\ AtPosition' /\ Reported' /\ NoBlindRecv'
    BY <1>1, <1>2, <1>3, <2>1, <2>4
       DEF IInv, LoopTypeOK, AtPosition, Reported, NoBlindRecv, HandlerLabels
  <2> QED
    BY <2>3, <2>5 DEF IInv
<1>6. CASE SelectScanned
  <2>1. pc' = "wait" /\ cur' = cur /\ readFds' = {} /\ i' = i /\ cur \in Fds
    BY <1>6, SocketsTyped DEF SelectScanned, IInv
  <2>2. HandlerInv'
    BY <1>2, <2>1, TurnKeeps DEF IInv, HandlerLabels, LoopLabels
  <2>3. LoopTypeOK' /\ AtPosition' /\ Reported' /\ NoBlindRecv'
    BY <2>1 DEF IInv, LoopTypeOK, AtPosition, Reported, NoBlindRecv, HandlerLabels
  <2> QED
    BY <2>2, <2>3 DEF IInv
<1> QED
  BY <1>4, <1>5, <1>6

\* After the erase the entries behind i have moved up by one, and i stays.
LEMMA SelectCloseKeeps ==
  ASSUME IInv, SelectClose
  PROVE  IInv'
<1>1. /\ pc = "close" /\ pc \in HandlerLabels /\ pc' = "scan" /\ pc' \in LoopLabels
      /\ UNCHANGED <<readFds, i>> /\ Released(i)
  BY DEF SelectClose, Released, HandlerLabels, LoopLabels, loopVars
<1>2. i \in DOMAIN clientSockets /\ clientSockets[i] = cur /\ i \in Nat \ {0}
  BY <1>1 DEF IInv, AtPosition, LoopTypeOK
<1>3. /\ HandlerInv'
      /\ \A f \in Fds \ {cur} : FdReady(f) => FdReady(f)'
  BY <1>1, <1>2, ReleasedKeeps DEF IInv
<1>4. \A k \in DOMAIN clientSockets' : k >= i =>
        /\ k + 1 > i /\ k + 1 \in DOMAIN clientSockets
        /\ clientSockets'[k] = clientSockets[k + 1]
        /\ clientSockets[k + 1] \in Fds \ {cur}
  <2>1. clientSockets' = Erased(clientSockets, i) /\ clientSockets \in Seq(Fds)
    BY <1>1 DEF Released, Erased, IInv, HandlerInv, HandlerTypeOK
  <2>2. /\ Len(clientSockets) \in Nat /\ DOMAIN clientSockets = 1 .. Len(clientSockets)
        /\ DOMAIN clientSockets' = 1 .. Len(clientSockets) - 1
        /\ \A k \in DOMAIN clientSockets' :
             clientSockets'[k] = IF k < i THEN clientSockets[k] ELSE clientSockets[k + 1]
    BY <1>2, <2>1, EraseProperties
  <2>3. \A k \in DOMAIN clientSockets' : k >= i =>
          /\ k + 1 > i /\ k + 1 # i /\ k + 1 \in DOMAIN clientSockets
          /\ clientSockets'[k] = clientSockets[k + 1]
    BY <1>2, <2>2
  <2>4. \A k \in DOMAIN clientSockets : clientSockets[k] \in Fds
                                         /\ (k # i => clientSockets[k] # cur)
    BY <1>2, SocketsTyped DEF IInv, HandlerInv, Tracked
  <2> QED
    BY <2>3, <2>4
<1>5. LoopTypeOK' /\ AtPosition' /\ Reported' /\ NoBlindRecv'
  BY <1>1, <1>2, <1>3, <1>4
     DEF IInv, LoopTypeOK, AtPosition, Reported, NoBlindRecv, HandlerLabels
<1> QED
  BY <1>3, <1>5 DEF IInv

LEMMA HandlerStepIInv ==
  ASSUME IInv, HandlerStep, UNCHANGED loopVars
  PROVE  IInv'
<1>1. HandlerInv' /\ clientSockets' = clientSockets
  BY HandlerStepKeeps
     DEF IInv, HandlerStep, FirstRecv, MoreRecv, UnknownCommand, GetFile, DeleteFile, PutRefused,
         PutOpen, Write, Answer, Send, SendError
<1>2. /\ pc \in HandlerLabels /\ pc' \in HandlerLabels \ {"recv"}
      /\ cur' = cur /\ readFds' = readFds /\ i' = i
      /\ \A f \in Fds \ {cur} : FdReady(f) => FdReady(f)'
  BY HandlerStepLocal DEF IInv, loopVars
<1>3. \A k \in DOMAIN clientSockets : k \in Nat \ {0} /\ clientSockets[k] \in Fds
  BY SocketsTyped DEF IInv
<1>4. /\ i \in DOMAIN clientSockets /\ clientSockets[i] = cur
      /\ \A k \in DOMAIN clientSockets : k > i => clientSockets[k] # cur
  BY <1>2, <1>3 DEF IInv, AtPosition, HandlerInv, Tracked
<1>5. LoopTypeOK' /\ AtPosition' /\ Reported' /\ NoBlindRecv'
  BY <1>1, <1>2, <1>3, <1>4
     DEF IInv, LoopTypeOK, AtPosition, Reported, NoBlindRecv, HandlerLabels
<1> QED
  BY <1>1, <1>5 DEF IInv

LEMMA ClientStepIInv ==
  ASSUME IInv, ClientStep, UNCHANGED loopVars
  PROVE  IInv'
<1>1. /\ HandlerInv' /\ UNCHANGED <<fdConn, pc, cur, clientSockets, readFds, i>>
      /\ \A f \in Fds : FdReady(f) => FdReady(f)'
  BY ClientsKeep DEF IInv, ClientStep, handlerVars, loopVars
<1>2. /\ \A k \in DOMAIN clientSockets : clientSockets[k] \in Fds
      /\ cur \in Fds
  BY SocketsTyped DEF IInv
<1>3. LoopTypeOK' /\ AtPosition' /\ Reported' /\ NoBlindRecv'
  BY <1>1, <1>2 DEF IInv, LoopTypeOK, AtPosition, Reported, NoBlindRecv
<1> QED
  BY <1>1, <1>3 DEF IInv

LEMMA FailureIInv ==
  ASSUME IInv, ServerFails \/ Kill, LoopReset
  PROVE  IInv'
<1>1. HandlerInv' /\ pc' = "down"
  BY FailureKeeps DEF IInv
<1>2. readFds' = {} /\ i' = 1
  BY DEF LoopReset
<1>3. LoopTypeOK' /\ AtPosition' /\ Reported' /\ NoBlindRecv'
  BY <1>1, <1>2 DEF LoopTypeOK, AtPosition, Reported, NoBlindRecv, HandlerLabels
<1> QED
  BY <1>1, <1>3 DEF IInv

LEMMA StartIInv ==
  ASSUME IInv, Start
  PROVE  IInv'
<1>1. HandlerInv'
  BY RestartKeeps DEF IInv, Start
<1>2. pc' = "wait" /\ UNCHANGED loopVars
  BY DEF Start, Restart
<1>3. LoopTypeOK' /\ AtPosition' /\ Reported' /\ NoBlindRecv'
  BY <1>2 DEF IInv, LoopTypeOK, AtPosition, Reported, NoBlindRecv, HandlerLabels, loopVars
<1> QED
  BY <1>1, <1>3 DEF IInv

LEMMA StutterIInv ==
  ASSUME IInv, UNCHANGED vars
  PROVE  IInv'
<1>1. UNCHANGED <<netVars, handlerVars, readFds, i>>
  BY DEF vars, loopVars
<1>2. HandlerInv'
  BY <1>1, NetStutters
     DEF netVars, handlerVars, IInv, HandlerInv, HandlerTypeOK, Busy, Fresh, Sending, Tracked, Conn
<1>3. \A f : FdReady(f) => FdReady(f)'
  BY <1>1 DEF FdReady, Readable, netVars
<1>4. LoopTypeOK' /\ AtPosition' /\ Reported' /\ NoBlindRecv'
  BY <1>1, <1>3
     DEF IInv, LoopTypeOK, AtPosition, Reported, NoBlindRecv, netVars, handlerVars
<1> QED
  BY <1>2, <1>4 DEF IInv

LEMMA NextIInv == IInv /\ [Next]_vars => IInv'
<1> SUFFICES ASSUME IInv, [Next]_vars PROVE IInv'
  OBVIOUS
<1>1. CASE LoopStep
  BY <1>1, SelectWaitKeeps, SelectAcceptKeeps, ScanKeeps, SelectCloseKeeps DEF LoopStep
<1>2. CASE HandlerStep /\ UNCHANGED loopVars
  BY <1>2, HandlerStepIInv
<1>3. CASE (ServerFails \/ Kill) /\ LoopReset
  BY <1>3, FailureIInv
<1>4. CASE ClientStep /\ UNCHANGED loopVars
  BY <1>4, ClientStepIInv
<1>5. CASE Start
  BY <1>5, StartIInv
<1>6. CASE UNCHANGED vars
  BY <1>6, StutterIInv
<1> QED
  BY <1>1, <1>2, <1>3, <1>4, <1>5, <1>6 DEF Next, ServerStep, Idle

LEMMA InvariantHolds == Spec => []IInv
BY InitIInv, NextIInv, PTL DEF Spec
-----------------------------------------------------------------------------
(***************************************************************************)
(* Every variable of the select server keeps its type, and the scan's      *)
(* index stays a position.                                                 *)
(***************************************************************************)
THEOREM TypeCorrect == Spec => []TypeOK
<1>1. IInv => TypeOK
  BY DEF IInv, HandlerInv, NetInv, LoopTypeOK, TypeOK
<1> QED
  BY <1>1, InvariantHolds, PTL

(***************************************************************************)
(* runSelect never starts a blocking recv that nothing will answer,        *)
(* although its fd_set is older than the clientSockets_ it scans, which    *)
(* an accept has made longer and closes have made shorter.                 *)
(***************************************************************************)
THEOREM NeverBlindRecv == Spec => []NoBlindRecv
<1>1. IInv => NoBlindRecv
  BY DEF IInv
<1> QED
  BY <1>1, InvariantHolds, PTL

(***************************************************************************)
(* clientSockets_ lists exactly the open descriptors, each once, and every *)
(* open connection has one: the entry runSelect erases at its scan index   *)
(* is the descriptor it closed.                                            *)
(***************************************************************************)
THEOREM SocketsTracked == Spec => []TrackedExactly
<1>1. IInv => TrackedExactly
  BY HandlerInvTracks DEF IInv
<1> QED
  BY <1>1, InvariantHolds, PTL
-----------------------------------------------------------------------------
LEMMA NextAnswered == IInv /\ AnswerInv /\ [Next]_vars => AnswerInv'
<1> SUFFICES ASSUME IInv, AnswerInv, [Next]_vars PROVE AnswerInv'
  OBVIOUS
<1> HandlerInv
  BY DEF IInv
<1>1. CASE SelectWait \/ SelectSkip \/ SelectServe \/ SelectScanned
  BY <1>1, TurnAnswered
     DEF SelectWait, SelectSkip, SelectServe, SelectScanned, HandlerLabels, storeVars,
         handlerVars
<1>2. CASE SelectAccept
  <2>1. pc \notin HandlerLabels /\ pc' # "close"
    BY <1>2 DEF SelectAccept, HandlerLabels
  <2> QED
    BY <1>2, <2>1, AcceptAnswered, TurnAnswered DEF SelectAccept, storeVars
<1>3. CASE SelectClose
  <2>1. pc' \in LoopLabels
    BY <1>3 DEF SelectClose, LoopLabels
  <2> QED
    BY <1>3, <2>1, ReleasedAnswered DEF SelectClose
<1>4. CASE HandlerStep
  BY <1>4, HandlerStepAnswered
<1>5. CASE ServerFails \/ Kill
  BY <1>5, FailureAnswered
<1>6. CASE ClientStep
  BY <1>6, ClientsAnswered
<1>7. CASE Start
  BY <1>7, RestartAnswered DEF Start
<1>8. CASE UNCHANGED vars
  BY <1>8, StutterAnswered DEF vars
<1> QED
  BY <1>1, <1>2, <1>3, <1>4, <1>5, <1>6, <1>7, <1>8 DEF Next, ServerStep, LoopStep, Idle

LEMMA AnswerInvHolds == Spec => []AnswerInv
<1>1. Init => AnswerInv
  BY AnswerStarts DEF Init
<1> QED
  BY <1>1, InvariantHolds, NextAnswered, PTL DEF Spec

(***************************************************************************)
(* Under runSelect no client whose whole request arrived, and who stayed,  *)
(* has its connection closed before its whole response is on its way.      *)
(***************************************************************************)
THEOREM AnswersInFull == Spec => []AnsweredInFull
<1>1. AnswerInv => AnsweredInFull
  BY DEF AnswerInv
<1> QED
  BY <1>1, AnswerInvHolds, PTL
-----------------------------------------------------------------------------
LEMMA NextStore ==
  ASSUME WholeHeaders, IInv, AnswerInv, StoreInv, [Next]_vars
  PROVE  StoreInv'
<1> HandlerInv
  BY DEF IInv
<1>1. CASE SelectWait \/ SelectSkip \/ SelectServe \/ SelectScanned
  BY <1>1, TurnStore
     DEF SelectWait, SelectSkip, SelectServe, SelectScanned, HandlerLabels, storeVars,
         handlerVars
<1>2. CASE SelectAccept
  <2>1. pc \notin HandlerLabels /\ pc' \notin {"more", "handle", "write"}
    BY <1>2 DEF SelectAccept, HandlerLabels
  <2> QED
    BY <1>2, <2>1, AcceptStore, TurnStore DEF SelectAccept, storeVars
<1>3. CASE SelectClose
  <2>1. pc' \in LoopLabels
    BY <1>3 DEF SelectClose, LoopLabels
  <2> QED
    BY <1>3, <2>1, ReleasedStore DEF SelectClose
<1>4. CASE HandlerStep
  BY <1>4, HandlerStepStore
<1>5. CASE ServerFails \/ Kill
  BY <1>5, FailureStore
<1>6. CASE ClientStep
  BY <1>6, ClientsStore
<1>7. CASE Start
  BY <1>7, RestartStore DEF Start
<1>8. CASE UNCHANGED vars
  BY <1>8, StutterStore DEF vars
<1> QED
  BY <1>1, <1>2, <1>3, <1>4, <1>5, <1>6, <1>7, <1>8 DEF Next, ServerStep, LoopStep, Idle

LEMMA StoreInvHolds ==
  ASSUME WholeHeaders
  PROVE  Spec => []StoreInv
<1>1. Init => StoreInv
  BY StoreStarts DEF Init
<1>2. IInv /\ AnswerInv /\ StoreInv /\ [Next]_vars => StoreInv'
  BY NextStore
<1> QED
  BY <1>1, <1>2, InvariantHolds, AnswerInvHolds, PTL DEF Spec

\* Only a failure ends the process.
LEMMA EndIsFailure ==
  ASSUME [Next]_vars, pc # "down", pc' = "down"
  PROVE  ServerFails \/ Kill
BY DEF Next, ServerStep, LoopStep, SelectWait, SelectAccept, SelectSkip, SelectServe, SelectClose,
       SelectScanned,
       HandlerStep, FirstRecv, MoreRecv, UnknownCommand, GetFile, DeleteFile, PutRefused,
       PutOpen, Write, Answer, Send, SendError, ClientStep, handlerVars, Start, Restart, Idle,
       vars

(***************************************************************************)
(* Under runSelect, when headers arrive in one piece and fit the buffer,   *)
(* the process only ends if it is killed or sends to a client that         *)
(* vanished: stoi never throws, and a client that ended its stream ends no *)
(* server.                                                                 *)
(***************************************************************************)
THEOREM SurvivesClients ==
  ASSUME WholeHeaders
  PROVE  Spec => ServerSurvives
<1>1. IInv /\ StoreInv /\ [Next]_vars
        => [pc # "down" /\ pc' = "down"
              => kills' # kills \/ peer[Conn] \notin {"live", "fin"}]_pc
  BY EndIsFailure, FailureExcused DEF IInv
<1> QED
  BY <1>1, InvariantHolds, StoreInvHolds, PTL DEF Spec, ServerSurvives
-----------------------------------------------------------------------------
\* The turns of the loop change nothing FileStore can see.
LEMMA NextMaps ==
  ASSUME WholeHeaders, PromptDisk, IInv, StoreInv, [Next]_vars
  PROVE  [Store!Next]_(Store!absVars)
<1> HandlerInv
  BY DEF IInv
<1>1. CASE LoopStep \/ Start
  <2>1. UNCHANGED <<sent, req, files, reply>> /\ pc # "write" /\ pc' # "write"
    BY <1>1
       DEF LoopStep, Start, SelectWait, SelectAccept, SelectSkip, SelectServe, SelectClose,
           SelectScanned, Restart,
           AcceptClient, Accepted, Released, CloseFd, storeVars, netVars, handlerVars
  <2> QED
    BY <2>1, QuietMaps
<1>2. CASE HandlerStep
  BY <1>2, HandlerStepMaps
<1>3. CASE ServerFails \/ Kill
  BY <1>3, FailureMaps
<1>4. CASE ClientStep
  BY <1>4, ClientsMap
<1>5. CASE UNCHANGED vars
  BY <1>5 DEF vars, netVars, handlerVars, Store!absVars, Arrived, Conn
<1> QED
  BY <1>1, <1>2, <1>3, <1>4, <1>5 DEF Next, ServerStep, Idle

(***************************************************************************)
(* When headers arrive in one piece, and no error hides in the stream      *)
(* buffer, runSelect implements the store of FileStore: the requests of    *)
(* concurrent clients act one at a time and at most once, OK is said of a  *)
(* PUT only when its content is stored or its client cut it, and a crash   *)
(* damages no file but the one being written.                              *)
(***************************************************************************)
THEOREM ImplementsStore ==
  ASSUME WholeHeaders, PromptDisk
  PROVE  Spec => ImplementsFileStore
<1>1. Init => Store!Init
  BY StoreInitMaps DEF Init
<1>2. IInv /\ StoreInv /\ [Next]_vars => [Store!Next]_(Store!absVars)
  BY NextMaps
<1> QED
  BY <1>1, <1>2, InvariantHolds, StoreInvHolds, PTL DEF Spec, ImplementsFileStore, Store!Spec
=============================================================================
