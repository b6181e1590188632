------------------------ MODULE StorageHandler_proofs ------------------------
(***************************************************************************)
(* What the request handler keeps true whichever loop drives it, proved    *)
(* one operation at a time: its variables keep their types, it works on a  *)
(* descriptor that is open, it answers a connection once, and              *)
(* clientSockets_ stays the list of the open descriptors.                  *)
(***************************************************************************)
EXTENDS StorageSync, Sockets_proofs

\* The handler is busy with a connection, not with a free descriptor.
Busy == pc \in HandlerLabels => fdConn[cur] # NoConn

\* Only the connection being answered has been sent anything.
Fresh ==
  \A f \in Fds :
    fdConn[f] # NoConn /\ told[fdConn[f]] # 0 => f = cur /\ pc \in {"send", "close"}

\* sendAll is in its loop only while there is something left to send.
Sending == pc = "send" => told[Conn] < ReplySize(reply[Conn])

Tracked ==
  /\ \A f \in Fds : fdConn[f] # NoConn <=> \E k \in DOMAIN clientSockets : clientSockets[k] = f
  /\ \A j, k \in DOMAIN clientSockets : clientSockets[j] = clientSockets[k] => j = k

HandlerInv == NetInv /\ HandlerTypeOK /\ Busy /\ Fresh /\ Sending /\ Tracked
-----------------------------------------------------------------------------
(* The values the protocol operators return. *)

LEMMA WordTyped == \A w \in Words : Word(w) \in Replies
BY DEF Word, Replies, NoFile, Content, Contents

LEMMA NamedContents == {NoFile, Empty, OldFile} \subseteq Contents
BY DEF NoFile, Empty, OldFile, Content, Contents

LEMMA ReplySizeTyped == \A re \in Replies : ReplySize(re) \in Nat
<1>1. \A re \in Replies : re.body.size \in Nat
  BY DEF Replies, Contents
<1> QED
  BY <1>1 DEF ReplySize

LEMMA PrefixTyped ==
  ASSUME NEW content \in Contents, NEW n \in Nat
  PROVE  Prefix(content, n) \in Contents
BY NamedContents DEF Prefix, Contents

LEMMA NameSeenTyped ==
  ASSUME NEW r \in Requests, NEW g \in Nat
  PROVE  r.name \in Names /\ r.len \in Nat /\ NameSeen(r, g) \in Names
<1>1. Lengths \subseteq Nat
  BY ProtocolAssumption
<1> QED
  BY <1>1, ProtocolAssumption DEF Requests, NameSeen

LEMMA SmallRemainder ==
  ASSUME NEW n \in Nat, NEW w \in Nat \ {0}, n < w
  PROVE  n % w = n
BY Z3

(***************************************************************************)
(* The cut of request.size() - contentStart to an int is harmless: a       *)
(* client that follows the protocol sends no more than the int it          *)
(* declared, so the loop of readRequest compares what it means to compare. *)
(***************************************************************************)
THEOREM CutIsHarmless ==
  ASSUME NEW r \in Requests, NEW g \in 0 .. RequestSize(r)
  PROVE  MoreToRead(r, g) <=> r.op = "PUT" /\ g >= HeaderEnd /\ g - HeaderEnd < r.len
<1>1. CASE r.op = "PUT" /\ g >= HeaderEnd
  <2>1. r.len \in 0 .. IntMax /\ IntMax \in Nat
    BY ProtocolAssumption DEF Requests
  <2>2. g \in 0 .. HeaderEnd + r.len
    BY <1>1 DEF RequestSize
  <2>3. g - HeaderEnd \in Nat /\ g - HeaderEnd <= IntMax
    BY <1>1, <2>1, <2>2 DEF HeaderEnd
  <2>4. (g - HeaderEnd) % (2 * (IntMax + 1)) = g - HeaderEnd
    BY <2>1, <2>3, SmallRemainder
  <2>5. AsInt(g - HeaderEnd) = g - HeaderEnd
    BY <2>3, <2>4 DEF AsInt
  <2> QED
    BY <1>1, <2>5 DEF MoreToRead
<1>2. CASE ~(r.op = "PUT" /\ g >= HeaderEnd)
  BY <1>2 DEF MoreToRead
<1> QED
  BY <1>1, <1>2

LEMMA GetReplyTyped ==
  ASSUME NEW r \in Requests, NEW g \in Nat,
         NEW store \in [Names -> Contents], NEW dir \in BOOLEAN
  PROVE  GetReply(r, g, store, dir) \in Replies
<1>1. \A content \in Contents : FileReply(content) \in Replies
  BY DEF FileReply, Replies, Words
<1>2. store[NameSeen(r, g)] \in Contents
  BY NameSeenTyped
<1> QED
  BY <1>1, <1>2, WordTyped, NamedContents DEF GetReply, Words

LEMMA DeleteReplyTyped ==
  ASSUME NEW r, NEW g, NEW store, NEW dir
  PROVE  DeleteReply(r, g, store, dir) \in Replies
BY WordTyped DEF DeleteReply, Words

LEMMA PutContentTyped ==
  ASSUME NEW c \in Conns, NEW r \in Requests, NEW g \in Nat
  PROVE  PutContent(c, r, g) \in Contents /\ PutContent(c, r, g).size \in Nat
<1>1. \A n \in Nat : Body(c, n) \in Contents
  BY NamedContents DEF Body, Content, Contents
<1>2. Content(c, "header", 1) \in Contents
  BY DEF Content, Contents
<1>3. r.len \in Nat
  BY NameSeenTyped
<1>4. PutContent(c, r, g) \in Contents
  BY <1>1, <1>2, <1>3, NamedContents DEF PutContent, HeaderEnd
<1> QED
  BY <1>4 DEF Contents
-----------------------------------------------------------------------------
LEMMA HandlerStarts ==
  ASSUME NetInit, HandlerInit
  PROVE  HandlerInv
<1>1. NetInv
  BY NetStarts
<1>2. clientSockets \in Seq(Fds) /\ DOMAIN clientSockets = {}
  BY EmptySeq DEF HandlerInit
<1>3. HandlerTypeOK
  <2>1. cur \in Fds
    BY SocketsAssumption DEF HandlerInit, Fds
  <2>2. kills \in 0 .. MaxKills
    BY HandlerAssumption DEF HandlerInit
  <2>3. reply \in [Conns -> Replies]
    BY WordTyped DEF HandlerInit, NoReply, Words
  <2>4. files \in [Names -> Contents]
    BY NamedContents DEF HandlerInit
  <2> QED
    BY <1>2, <2>1, <2>2, <2>3, <2>4, HandlerAssumption
       DEF HandlerInit, HandlerTypeOK, LoopLabels
<1>4. Busy /\ Fresh /\ Sending /\ Tracked
  BY <1>2 DEF HandlerInit, NetInit, Busy, Fresh, Sending, Tracked, HandlerLabels
<1> QED
  BY <1>1, <1>3, <1>4 DEF HandlerInv

LEMMA ClientsKeep ==
  ASSUME HandlerInv, ClientStep
  PROVE  HandlerInv' /\ fdConn' = fdConn /\ \A f \in Fds : FdReady(f) => FdReady(f)'
<1> USE DEF HandlerInv
<1>1. PICK c \in Conns : Ask(c) \/ Say(c) \/ Leave(c) \/ Vanish(c) \/ Hear(c)
  BY DEF ClientStep
<1>2. \E n \in Nat :
        Connect(c) \/ Deliver(c, n) \/ EndStream(c) \/ Reset(c) \/ Hear(c)
  <2>1. SegmentEnds(req[c]) \subseteq Nat
    BY DEF SegmentEnds
  <2> QED
    BY <1>1, <2>1 DEF Ask, Say, Leave, Vanish
<1>3. NetInv'
  BY <1>2, ConnectKeeps, ArrivalKeeps
<1>4. UNCHANGED <<fdConn, told, handlerVars>>
  BY <1>2 DEF ClientStep, Connect, Deliver, EndStream, Reset, Hear
<1>5. HandlerTypeOK' /\ Busy' /\ Fresh' /\ Sending' /\ Tracked'
  BY <1>4 DEF handlerVars, HandlerTypeOK, Busy, Fresh, Sending, Tracked, Conn
<1>6. \A f \in Fds : FdReady(f) => FdReady(f)'
  BY <1>2, ReadyStaysForClients
<1> QED
  BY <1>3, <1>4, <1>5, <1>6
-----------------------------------------------------------------------------
(* The steps of the handler. *)

\* The socket being served is an open connection of a client.
LEMMA ServedIsOpen ==
  ASSUME HandlerInv, pc \in HandlerLabels
  PROVE  /\ cur \in Fds /\ Conn \in Conns /\ Conn = fdConn[cur] /\ fdConn[cur] # NoConn
         /\ phase[Conn] = "open"
         /\ req[Conn] \in Requests /\ rcvd[Conn] \in Nat /\ told[Conn] \in Nat
         /\ reply[Conn] \in Replies
BY DEF HandlerInv, HandlerTypeOK, NetInv, NetTypeOK, Busy, TableSound, Conn

LEMMA RecvStepKeeps ==
  ASSUME HandlerInv, FirstRecv \/ MoreRecv
  PROVE  HandlerInv'
<1>1. pc \in HandlerLabels /\ pc \notin {"send", "close"}
  BY DEF FirstRecv, MoreRecv, HandlerLabels
<1>2. Conn \in Conns /\ (RecvData(Conn) \/ RecvEnd(Conn))
  BY <1>1, ServedIsOpen DEF FirstRecv, MoreRecv
<1>3. NetInv'
  BY <1>2, RecvKeeps DEF HandlerInv
<1>4. /\ pc' \in HandlerLabels /\ pc' # "send"
      /\ UNCHANGED <<fdConn, told, storeVars, req, cur, clientSockets, kills>>
  BY DEF FirstRecv, MoreRecv, RecvData, RecvEnd, HandlerLabels
<1>5. HandlerTypeOK' /\ Busy' /\ Fresh' /\ Sending' /\ Tracked'
  BY <1>1, <1>4 DEF HandlerInv, HandlerTypeOK, Busy, Fresh, Sending, Tracked, storeVars
<1> QED
  BY <1>3, <1>5 DEF HandlerInv

\* handleRequest returns a response: an empty one is not sent.
LEMMA AnswerKeeps ==
  ASSUME HandlerInv, pc \in {"handle", "write"}, NEW re \in Replies, Answer(re),
         files' \in [Names -> Contents], dirOK' \in BOOLEAN
  PROVE  HandlerInv' /\ pc' # "recv"
<1>1. pc \in HandlerLabels
  BY DEF HandlerLabels
<1>2. NetInv' /\ UNCHANGED <<fdConn, told, req, cur, clientSockets, kills>>
  BY NetStutters DEF HandlerInv, Answer, netVars
<1>3. /\ reply' = [reply EXCEPT ![Conn] = re]
      /\ pc' = IF ReplySize(re) = 0 THEN "close" ELSE "send"
  BY DEF Answer
<1>4. HandlerTypeOK'
  BY <1>1, <1>2, <1>3 DEF HandlerInv, HandlerTypeOK, HandlerLabels
<1>5. Busy' /\ Fresh' /\ Tracked'
  BY <1>1, <1>2, <1>3 DEF HandlerInv, Busy, Fresh, Tracked, HandlerLabels
<1>6. Sending'
  <2>1. told[Conn] = 0 /\ Conn \in Conns
    BY <1>1, ServedIsOpen DEF HandlerInv, Fresh
  <2>2. told'[Conn'] = 0 /\ reply'[Conn'] = re
    BY <1>2, <1>3, <2>1 DEF HandlerInv, HandlerTypeOK, Conn
  <2>3. ReplySize(re) \in Nat
    BY ReplySizeTyped
  <2> QED
    BY <1>3, <2>2, <2>3 DEF Sending
<1> QED
  BY <1>2, <1>3, <1>4, <1>5, <1>6 DEF HandlerInv

LEMMA HandleStepKeeps ==
  ASSUME HandlerInv, UnknownCommand \/ GetFile \/ DeleteFile \/ PutRefused
  PROVE  HandlerInv' /\ pc' # "recv"
<1> DEFINE r == req[Conn]
           g == rcvd[Conn]
<1>1. pc = "handle"
  BY DEF UnknownCommand, GetFile, DeleteFile, PutRefused, Handling
<1>2. /\ r \in Requests /\ g \in Nat
      /\ files \in [Names -> Contents] /\ dirOK \in BOOLEAN
  BY <1>1, ServedIsOpen DEF HandlerLabels, HandlerInv, HandlerTypeOK
<1>3. CASE UnknownCommand \/ PutRefused
  BY <1>1, <1>2, <1>3, AnswerKeeps, WordTyped DEF UnknownCommand, PutRefused, Words
<1>4. CASE GetFile
  BY <1>1, <1>2, <1>4, AnswerKeeps, GetReplyTyped DEF GetFile
<1>5. CASE DeleteFile
  <2>1. files' \in [Names -> Contents]
    BY <1>2, <1>5, NamedContents DEF DeleteFile
  <2>2. dirOK' \in BOOLEAN
    BY <1>5 DEF DeleteFile
  <2> QED
    BY <1>1, <1>2, <1>5, <2>1, <2>2, AnswerKeeps, DeleteReplyTyped DEF DeleteFile
<1> QED
  BY <1>3, <1>4, <1>5

LEMMA PutOpenKeeps ==
  ASSUME HandlerInv, PutOpen
  PROVE  HandlerInv'
<1>1. pc = "handle" /\ pc \in HandlerLabels /\ pc' = "write"
  BY DEF PutOpen, Handling, HandlerLabels
<1>2. NetInv' /\ UNCHANGED <<fdConn, told, req, dirOK, reply, cur, clientSockets, kills>>
  BY NetStutters DEF HandlerInv, PutOpen, netVars
<1>3. files' \in [Names -> Contents]
  BY NamedContents DEF PutOpen, HandlerInv, HandlerTypeOK
<1>4. HandlerTypeOK' /\ Busy' /\ Fresh' /\ Sending' /\ Tracked'
  BY <1>1, <1>2, <1>3
     DEF HandlerInv, HandlerTypeOK, Busy, Fresh, Sending, Tracked, HandlerLabels
<1> QED
  BY <1>2, <1>4 DEF HandlerInv

\* What a write, finished or not, leaves in the file has the type of contents.
LEMMA WrittenTyped ==
  ASSUME HandlerInv, pc = "write", NEW n \in 0 .. Upload.size
  PROVE  [files EXCEPT ![req[Conn].name] = Prefix(Upload, n)] \in [Names -> Contents]
<1>1. Upload \in Contents /\ Upload.size \in Nat
  BY ServedIsOpen, PutContentTyped DEF Upload, HandlerLabels
<1>2. Prefix(Upload, n) \in Contents
  BY <1>1, PrefixTyped
<1> QED
  BY <1>2 DEF HandlerInv, HandlerTypeOK

LEMMA WriteKeeps ==
  ASSUME HandlerInv, Write
  PROVE  HandlerInv' /\ pc' # "recv"
<1>1. PICK n \in 0 .. Upload.size :
        /\ files' = [files EXCEPT ![req[Conn].name] = Prefix(Upload, n)]
        /\ \E w \in {"OK", "ERROR"} : Answer(Word(w))
  BY DEF Write
<1>2. pc = "write" /\ dirOK' = dirOK
  BY DEF Write
<1>3. files' \in [Names -> Contents] /\ dirOK' \in BOOLEAN
  BY <1>1, <1>2, WrittenTyped DEF HandlerInv, HandlerTypeOK
<1> QED
  BY <1>1, <1>2, <1>3, AnswerKeeps, WordTyped DEF Words

\* sendAll: what is left to send was left before, and the rest is not negative.
LEMMA SendStepKeeps ==
  ASSUME HandlerInv, Send \/ SendError
  PROVE  HandlerInv'
<1> DEFINE size == ReplySize(reply[Conn])
<1>1. pc = "send" /\ pc \in HandlerLabels
  BY DEF Send, SendError, HandlerLabels
<1>2. /\ Conn \in Conns /\ phase[Conn] = "open" /\ size \in Nat
      /\ told[Conn] \in Nat /\ told[Conn] < size
  BY <1>1, ServedIsOpen, ReplySizeTyped DEF HandlerInv, Sending
<1>3. UNCHANGED <<fdConn, storeVars, req, cur, clientSockets, kills>>
  BY DEF Send, SendError, SendSome, SendFails
<1>4. NetInv' /\ \A c \in Conns : c # Conn => told'[c] = told[c]
  <2>1. CASE Send
    BY <1>2, <2>1, SendKeeps DEF HandlerInv, Send, SendSome, NetInv, NetTypeOK
  <2>2. CASE SendError
    BY <1>2, <2>2, SendFailsKeeps DEF HandlerInv, SendError, SendFails
  <2> QED
    BY <2>1, <2>2
<1>5. pc' \in {"send", "close"} /\ (pc' = "send" => told'[Conn] < size)
  BY DEF Send, SendError
<1>6. HandlerTypeOK' /\ Busy' /\ Sending' /\ Tracked'
  BY <1>1, <1>3, <1>5
     DEF HandlerInv, HandlerTypeOK, Busy, Sending, Tracked, HandlerLabels, storeVars, Conn
<1>7. Fresh'
  <2> SUFFICES ASSUME NEW f \in Fds, fdConn'[f] # NoConn, told'[fdConn'[f]] # 0
               PROVE  f = cur
    BY <1>3, <1>5 DEF Fresh
  <2>1. fdConn[f] \in Conns
    BY <1>3 DEF HandlerInv, NetInv, NetTypeOK
  <2>2. CASE fdConn[f] = Conn
    BY <1>1, <2>2, ServedIsOpen DEF HandlerInv, NetInv, TableSound
  <2>3. CASE fdConn[f] # Conn
    BY <1>3, <1>4, <2>1, <2>3 DEF HandlerInv, Fresh
  <2> QED
    BY <2>2, <2>3
<1> QED
  BY <1>4, <1>6, <1>7 DEF HandlerInv

LEMMA HandlerStepKeeps ==
  ASSUME HandlerInv, HandlerStep
  PROVE  HandlerInv'
BY RecvStepKeeps, HandleStepKeeps, PutOpenKeeps, WriteKeeps, SendStepKeeps DEF HandlerStep

\* A step of the handler touches no other connection, and never goes back to recv.
LEMMA HandlerStepLocal ==
  ASSUME HandlerInv, HandlerStep
  PROVE  /\ pc \in HandlerLabels /\ pc' \in HandlerLabels \ {"recv"}
         /\ UNCHANGED <<fdConn, cur>>
         /\ \A f \in Fds \ {cur} : FdReady(f) => FdReady(f)'
<1> DEFINE Call == \E k \in Int : RecvData(Conn) \/ RecvEnd(Conn)
                                     \/ SendSome(Conn, k) \/ SendFails(Conn)
<1>1. CASE FirstRecv \/ MoreRecv \/ Send \/ SendError
  <2>1. Call
    <3>1. CASE Send
      <4>1. ReplySize(reply[Conn]) - told[Conn] \in Int
        BY <3>1, ServedIsOpen, ReplySizeTyped DEF Send, HandlerLabels
      <4> QED
        BY <3>1, <4>1 DEF Send
    <3>2. CASE FirstRecv \/ MoreRecv \/ SendError
      BY <3>2 DEF FirstRecv, MoreRecv, SendError
    <3> QED
      BY <1>1, <3>1, <3>2
  <2>2. pc \in HandlerLabels /\ pc' \in HandlerLabels \ {"recv"} /\ UNCHANGED <<fdConn, cur>>
    BY <1>1 DEF FirstRecv, MoreRecv, Send, SendError, RecvData, RecvEnd, SendSome,
                SendFails, HandlerLabels
  <2>3. \A f \in Fds \ {cur} : FdReady(f) => FdReady(f)'
    BY <2>1, <2>2, ServedIsOpen, ReadyStaysForCalls DEF HandlerInv
  <2> QED
    BY <2>2, <2>3
<1>2. CASE UnknownCommand \/ GetFile \/ DeleteFile \/ PutRefused \/ PutOpen \/ Write
  <2>1. /\ pc \in HandlerLabels /\ pc' \in HandlerLabels \ {"recv"}
        /\ UNCHANGED <<netVars, cur>>
    BY <1>2 DEF UnknownCommand, GetFile, DeleteFile, PutRefused, PutOpen, Write, Handling,
                Answer, HandlerLabels
  <2> QED
    BY <2>1 DEF netVars, FdReady, Readable
<1> QED
  BY <1>1, <1>2 DEF HandlerStep
-----------------------------------------------------------------------------
(* The end of the process, its start, and the calls the loops make. *)

LEMMA StoppedKeeps ==
  ASSUME HandlerInv, Stopped, files' \in [Names -> Contents], kills' \in 0 .. MaxKills
  PROVE  HandlerInv' /\ pc' = "down" /\ \A f \in Fds : fdConn'[f] = NoConn
<1>1. NetInv' /\ \A f \in Fds : fdConn'[f] = NoConn
  BY CloseAllKeeps DEF HandlerInv, Stopped
<1>2. clientSockets' \in Seq(Fds) /\ DOMAIN clientSockets' = {}
  BY EmptySeq DEF Stopped
<1>3. pc' = "down" /\ UNCHANGED <<req, dirOK, reply, cur>>
  BY DEF Stopped
<1>4. HandlerTypeOK' /\ Busy' /\ Fresh' /\ Sending' /\ Tracked'
  BY <1>1, <1>2, <1>3
     DEF HandlerInv, HandlerTypeOK, Busy, Fresh, Sending, Tracked, HandlerLabels
<1> QED
  BY <1>1, <1>3, <1>4 DEF HandlerInv

LEMMA FailureKeeps ==
  ASSUME HandlerInv, ServerFails \/ Kill
  PROVE  HandlerInv' /\ pc' = "down" /\ \A f \in Fds : fdConn'[f] = NoConn
<1>1. kills \in 0 .. MaxKills /\ files \in [Names -> Contents]
  BY DEF HandlerInv, HandlerTypeOK
<1>2. CASE ServerFails
  BY <1>1, <1>2, StoppedKeeps DEF ServerFails, Throw, BrokenPipe
<1>3. CASE Kill
  <2>1. kills' \in 0 .. MaxKills
    BY <1>1, <1>3, HandlerAssumption DEF Kill
  <2>2. files' \in [Names -> Contents]
    BY <1>1, <1>3, WrittenTyped DEF Kill
  <2> QED
    BY <1>3, <2>1, <2>2, StoppedKeeps DEF Kill
<1> QED
  BY <1>2, <1>3

LEMMA RestartKeeps ==
  ASSUME HandlerInv, Restart
  PROVE  HandlerInv'
<1>1. NetInv' /\ UNCHANGED <<fdConn, told, req, files, reply, cur, clientSockets, kills>>
  BY NetStutters DEF HandlerInv, Restart, netVars
<1>2. pc = "down" /\ pc' = "wait" /\ dirOK' = TRUE
  BY DEF Restart
<1>3. HandlerTypeOK' /\ Busy' /\ Fresh' /\ Sending' /\ Tracked'
  BY <1>1, <1>2
     DEF HandlerInv, HandlerTypeOK, Busy, Fresh, Sending, Tracked, HandlerLabels, LoopLabels
<1> QED
  BY <1>1, <1>3 DEF HandlerInv

\* A turn of the loop that touches no socket and no file, between two requests.
LEMMA TurnKeeps ==
  ASSUME HandlerInv, pc \notin HandlerLabels,
         UNCHANGED <<netVars, storeVars, req, clientSockets, kills>>,
         cur' \in Fds, pc' \in LoopLabels \cup HandlerLabels, pc' \notin {"send", "close"},
         pc' \in HandlerLabels => fdConn[cur'] # NoConn
  PROVE  HandlerInv'
<1>1. NetInv'
  BY NetStutters DEF HandlerInv
<1>2. HandlerTypeOK' /\ Busy' /\ Fresh' /\ Sending' /\ Tracked'
  BY DEF HandlerInv, HandlerTypeOK, Busy, Fresh, Sending, Tracked, HandlerLabels,
         netVars, storeVars
<1> QED
  BY <1>1, <1>2 DEF HandlerInv

LEMMA AcceptClientKeeps ==
  ASSUME HandlerInv, pc \notin HandlerLabels, NEW f \in Fds, AcceptClient(f),
         cur' \in Fds, pc' \in LoopLabels \/ (pc' = "recv" /\ cur' = f)
  PROVE  HandlerInv' /\ (\A g \in Fds : g # f => fdConn'[g] = fdConn[g])
                     /\ fdConn'[f] # NoConn
<1>1. /\ NetInv' /\ \A g \in Fds : g # f => fdConn'[g] = fdConn[g]
      /\ fdConn[f] = NoConn /\ fdConn'[f] # NoConn /\ told'[fdConn'[f]] = 0
  BY AcceptKeeps, ConnectionsAssumption DEF HandlerInv, AcceptClient
<1>2. told' = told /\ UNCHANGED <<storeVars, req, kills>>
  BY DEF AcceptClient, Accepted
<1>3. /\ clientSockets' \in Seq(Fds)
      /\ Len(clientSockets) \in Nat
      /\ DOMAIN clientSockets = 1 .. Len(clientSockets)
      /\ DOMAIN clientSockets' = 1 .. Len(clientSockets) + 1
      /\ \A k \in 1 .. Len(clientSockets) : clientSockets'[k] = clientSockets[k]
      /\ clientSockets'[Len(clientSockets) + 1] = f
  BY LenProperties, AppendProperties DEF AcceptClient, HandlerInv, HandlerTypeOK
<1>4. HandlerTypeOK' /\ Busy' /\ Fresh' /\ Sending'
  BY <1>1, <1>2, <1>3
     DEF HandlerInv, HandlerTypeOK, Busy, Fresh, Sending, HandlerLabels, LoopLabels, storeVars
<1>5. Tracked'
  <2>1. \A k \in DOMAIN clientSockets' :
          k = Len(clientSockets) + 1 \/ k \in DOMAIN clientSockets
    BY <1>3
  <2>2. /\ Len(clientSockets) + 1 \in DOMAIN clientSockets'
        /\ DOMAIN clientSockets \subseteq DOMAIN clientSockets'
    BY <1>3
  <2>3. \A k \in DOMAIN clientSockets : clientSockets[k] # f
    BY <1>1 DEF HandlerInv, Tracked
  <2> QED
    BY <1>1, <1>3, <2>1, <2>2, <2>3 DEF HandlerInv, Tracked
<1> QED
  BY <1>1, <1>4, <1>5 DEF HandlerInv

\* The close of the descriptor being served, with its entry erased.
LEMMA ReleasedKeeps ==
  ASSUME HandlerInv, NEW i \in DOMAIN clientSockets, clientSockets[i] = cur,
         Released(i), pc' \in LoopLabels
  PROVE  /\ HandlerInv'
         /\ fdConn' = [fdConn EXCEPT ![cur] = NoConn] /\ cur' = cur
         /\ \A f \in Fds \ {cur} : FdReady(f) => FdReady(f)'
<1>1. pc = "close" /\ cur \in Fds /\ fdConn[cur] # NoConn
  BY ServedIsOpen DEF Released, HandlerLabels
<1>2. /\ NetInv' /\ fdConn' = [fdConn EXCEPT ![cur] = NoConn]
      /\ \A f \in Fds \ {cur} : FdReady(f) => FdReady(f)'
  BY <1>1, CloseKeeps DEF Released, HandlerInv
<1>3. told' = told /\ UNCHANGED <<storeVars, req, cur, kills>>
  BY DEF Released, CloseFd
<1>4. /\ clientSockets' \in Seq(Fds)
      /\ Len(clientSockets) \in Nat /\ DOMAIN clientSockets = 1 .. Len(clientSockets)
      /\ DOMAIN clientSockets' = 1 .. Len(clientSockets) - 1
      /\ \A k \in DOMAIN clientSockets' :
           clientSockets'[k] = IF k < i THEN clientSockets[k] ELSE clientSockets[k + 1]
  <2>1. clientSockets \in Seq(Fds)
    BY DEF HandlerInv, HandlerTypeOK
  <2>2. clientSockets' = Erased(clientSockets, i)
    BY DEF Released, Erased
  <2> QED
    BY <2>1, <2>2, EraseProperties
<1>5. HandlerTypeOK' /\ Busy' /\ Sending'
  BY <1>3, <1>4 DEF HandlerInv, HandlerTypeOK, Busy, Sending, HandlerLabels, LoopLabels, storeVars
<1>6. Fresh'
  BY <1>1, <1>2, <1>3 DEF HandlerInv, NetInv, NetTypeOK, Fresh
<1>7. Tracked'
  <2> DEFINE old(k) == IF k < i THEN k ELSE k + 1
  <2>1. \A k \in DOMAIN clientSockets' :
          old(k) \in DOMAIN clientSockets \ {i} /\ clientSockets'[k] = clientSockets[old(k)]
    BY <1>4
  <2>2. \A m \in DOMAIN clientSockets \ {i} : \E k \in DOMAIN clientSockets' : old(k) = m
    <3> SUFFICES ASSUME NEW m \in DOMAIN clientSockets \ {i}
                 PROVE  \E k \in DOMAIN clientSockets' : old(k) = m
      OBVIOUS
    <3>1. CASE m < i
      BY <1>4, <3>1
    <3>2. CASE ~(m < i)
      <4>1. m - 1 \in DOMAIN clientSockets' /\ old(m - 1) = m
        BY <1>4, <3>2
      <4> QED
        BY <4>1
    <3> QED
      BY <3>1, <3>2
  <2>3. \A j, k \in DOMAIN clientSockets' : old(j) = old(k) => j = k
    BY <1>4
  <2> HIDE DEF old
  <2>4. \A m \in DOMAIN clientSockets : clientSockets[m] = cur <=> m = i
    BY DEF HandlerInv, Tracked
  <2>5. \A f \in Fds : fdConn'[f] # NoConn <=> fdConn[f] # NoConn /\ f # cur
    BY <1>1, <1>2 DEF HandlerInv, NetInv, NetTypeOK
  <2>6. \A f \in Fds :
          fdConn'[f] # NoConn <=> \E k \in DOMAIN clientSockets' : clientSockets'[k] = f
    BY <2>1, <2>2, <2>4, <2>5 DEF HandlerInv, Tracked
  <2>7. \A j, k \in DOMAIN clientSockets' : clientSockets'[j] = clientSockets'[k] => j = k
    BY <2>1, <2>3 DEF HandlerInv, Tracked
  <2> QED
    BY <2>6, <2>7 DEF Tracked
<1> QED
  BY <1>2, <1>3, <1>5, <1>6, <1>7 DEF HandlerInv

\* The three parts of TrackedExactly are parts of the invariant.
LEMMA HandlerInvTracks ==
  ASSUME HandlerInv
  PROVE  TrackedExactly
<1>1. \A c \in Conns : phase[c] = "open" <=> \E f \in Fds : fdConn[f] = c
  BY ConnectionsAssumption DEF HandlerInv, NetInv, OpenHeld, TableSound
<1> QED
  BY <1>1 DEF HandlerInv, Tracked, TrackedExactly
-----------------------------------------------------------------------------
(***************************************************************************)
(* Nobody is dropped: what AnsweredInFull rests on.  A connection nobody   *)
(* has served is unread, so ending it resets it; and closeClient is only   *)
(* reached with the response sent, with a client that sent nothing and     *)
(* ended its stream, or with one that is gone.                             *)
(***************************************************************************)
Unread ==
  /\ \A c \in Conns : phase[c] \in {"new", "queued"} => rcvd[c] = 0
  /\ \A f \in Fds :
       fdConn[f] # NoConn /\ rcvd[fdConn[f]] # 0 => f = cur /\ pc \in HandlerLabels \ {"recv"}

Answered(c) == reply[c] # NoReply /\ told[c] = ReplySize(reply[c])

CloseEarned ==
  pc = "close" =>
    \/ Answered(Conn)
    \/ peer[Conn] # "live" /\ ~Arrived(Conn)
    \/ ~Staying(Conn)

AnswerInv == Unread /\ CloseEarned /\ AnsweredInFull

LEMMA RequestSizeTyped ==
  ASSUME NEW r \in Requests
  PROVE  /\ RequestSize(r) \in Nat \ {0}
         /\ r.op = "PUT" => RequestSize(r) >= HeaderEnd
<1>1. r.len \in Nat /\ r.op \in Ops
  <2>1. 0 \in Nat
    OBVIOUS
  <2> QED
    BY <2>1, NameSeenTyped DEF Requests
<1>2. CASE r.op = "PUT"
  BY <1>1, <1>2 DEF RequestSize, HeaderEnd
<1>3. CASE r.op # "PUT"
  BY <1>1, <1>3 DEF RequestSize, NameEnd, Ops
<1> QED
  BY <1>2, <1>3

LEMMA AnswerStarts ==
  ASSUME NetInit, HandlerInit
  PROVE  AnswerInv
BY DEF NetInit, HandlerInit, AnswerInv, Unread, CloseEarned, AnsweredInFull

LEMMA ClientsAnswered ==
  ASSUME HandlerInv, AnswerInv, ClientStep
  PROVE  AnswerInv'
<1>1. PICK c \in Conns : Ask(c) \/ Say(c) \/ Leave(c) \/ Vanish(c) \/ Hear(c)
  BY DEF ClientStep
<1>2. UNCHANGED <<fdConn, rcvd, told, reply, req, pc, cur, kills, Conn>>
  BY <1>1 DEF ClientStep, handlerVars, Ask, Say, Leave, Vanish, Connect, Deliver, EndStream,
              Reset, Hear, Conn
<1>3. \A d \in Conns :
        /\ phase'[d] \in {"new", "queued"} => phase[d] \in {"new", "queued"}
        /\ peer'[d] \in {"live", "fin"} => peer[d] \in {"live", "fin"}
        /\ peer[d] # "live" => peer'[d] # "live" /\ sent'[d] = sent[d]
        /\ phase'[d] = "closed" => phase[d] = "closed" /\ sent'[d] = sent[d]
  BY <1>1 DEF Ask, Say, Leave, Vanish, Connect, Deliver, EndStream, Reset, Hear,
              HandlerInv, NetInv, NetTypeOK
<1>4. Unread' /\ AnsweredInFull'
  BY <1>2, <1>3 DEF AnswerInv, Unread, AnsweredInFull, Arrived, Staying
<1>5. CloseEarned'
  <2>1. pc = "close" => Conn \in Conns
    BY ServedIsOpen DEF HandlerLabels
  <2> QED
    BY <1>2, <1>3, <2>1 DEF AnswerInv, CloseEarned, Answered, Arrived, Staying
<1> QED
  BY <1>4, <1>5 DEF AnswerInv

\* The parts a step of the handler cannot disturb, for it touches only Conn.
LEMMA OthersAnswered ==
  ASSUME HandlerInv, AnswerInv, pc \in HandlerLabels, pc' \in HandlerLabels \ {"recv"},
         UNCHANGED <<phase, fdConn, sent, req, cur, kills>>,
         \A c \in Conns : c # Conn =>
           rcvd'[c] = rcvd[c] /\ told'[c] = told[c] /\ peer'[c] = peer[c] /\ reply'[c] = reply[c]
  PROVE  Unread' /\ AnsweredInFull'
<1>1. phase[Conn] = "open" /\ Conn = fdConn[cur] /\ cur \in Fds
  BY ServedIsOpen DEF Conn
<1>2. \A f \in Fds : fdConn[f] # NoConn => fdConn[f] \in Conns /\ (fdConn[f] = Conn => f = cur)
  BY <1>1 DEF HandlerInv, NetInv, NetTypeOK, TableSound
<1>3. Unread'
  BY <1>1, <1>2 DEF AnswerInv, Unread
<1>4. AnsweredInFull'
  BY <1>1 DEF AnswerInv, AnsweredInFull, Arrived, Staying
<1> QED
  BY <1>3, <1>4

LEMMA RecvAnswered ==
  ASSUME HandlerInv, AnswerInv, FirstRecv \/ MoreRecv
  PROVE  AnswerInv'
<1>1. /\ pc \in HandlerLabels /\ pc' \in HandlerLabels \ {"recv"}
      /\ RecvData(Conn) \/ RecvEnd(Conn)
      /\ UNCHANGED <<phase, fdConn, sent, told, reply, req, cur, kills>>
  BY DEF FirstRecv, MoreRecv, HandlerLabels, RecvData, RecvEnd, storeVars
<1>2. \A c \in Conns : c # Conn => rcvd'[c] = rcvd[c] /\ peer'[c] = peer[c]
  BY <1>1 DEF RecvData, RecvEnd, HandlerInv, NetInv, NetTypeOK
<1>3. Unread' /\ AnsweredInFull'
  BY <1>1, <1>2, OthersAnswered
<1>4. CloseEarned'
  <2> SUFFICES ASSUME pc' = "close"
               PROVE  peer'[Conn'] # "live" /\ ~Arrived(Conn)'
    BY DEF CloseEarned
  <2>1. pc = "recv" /\ RecvEnd(Conn)
    BY DEF FirstRecv, MoreRecv
  <2>2. /\ Conn \in Conns /\ Conn' = Conn /\ req[Conn] \in Requests
        /\ fdConn[cur] = Conn /\ cur \in Fds /\ Conn # NoConn
    BY <1>1, ServedIsOpen, ConnectionsAssumption DEF Conn, HandlerInv, HandlerTypeOK
  <2>3. sent[Conn] = 0
    BY <2>1, <2>2 DEF RecvEnd, AnswerInv, Unread
  <2>4. RequestSize(req[Conn]) # 0
    BY <2>2, RequestSizeTyped
  <2> QED
    BY <1>1, <2>1, <2>2, <2>3, <2>4 DEF RecvEnd, Arrived, HandlerInv, NetInv, NetTypeOK
<1> QED
  BY <1>3, <1>4 DEF AnswerInv

\* handleRequest always computes a response; an empty one is sent as it is.
LEMMA HandleAnswered ==
  ASSUME HandlerInv, AnswerInv,
         UnknownCommand \/ GetFile \/ DeleteFile \/ PutRefused \/ PutOpen \/ Write
  PROVE  AnswerInv'
<1>1. /\ pc \in {"handle", "write"} /\ pc \in HandlerLabels /\ pc' \in HandlerLabels \ {"recv"}
      /\ UNCHANGED <<netVars, req, cur, kills>>
  BY DEF UnknownCommand, GetFile, DeleteFile, PutRefused, PutOpen, Write, Handling, Answer,
         HandlerLabels
<1>2. \/ reply' = reply /\ pc' = "write"
      \/ \E re : Answer(re) /\ re # NoReply
  BY DEF UnknownCommand, GetFile, DeleteFile, PutRefused, PutOpen, Write, GetReply, DeleteReply,
         NoReply, Word, FileReply
<1>3. \A c \in Conns : c # Conn => reply'[c] = reply[c]
  BY <1>2 DEF Answer, HandlerInv, HandlerTypeOK
<1>4. Unread' /\ AnsweredInFull'
  BY <1>1, <1>3, OthersAnswered DEF netVars
<1>5. CloseEarned'
  <2> SUFFICES ASSUME pc' = "close" PROVE Answered(Conn)'
    BY DEF CloseEarned
  <2>1. /\ Conn \in Conns /\ Conn' = Conn /\ told[Conn] = 0
    BY <1>1, ServedIsOpen DEF Conn, HandlerInv, Fresh, netVars
  <2>2. PICK re : Answer(re) /\ re # NoReply
    BY <1>2
  <2>3. reply'[Conn] = re /\ ReplySize(re) = 0
    BY <2>1, <2>2 DEF Answer, HandlerInv, HandlerTypeOK
  <2> QED
    BY <1>1, <2>1, <2>2, <2>3 DEF Answered, netVars
<1> QED
  BY <1>4, <1>5 DEF AnswerInv

LEMMA SendAnswered ==
  ASSUME HandlerInv, AnswerInv, Send \/ SendError
  PROVE  AnswerInv'
<1> DEFINE size == ReplySize(reply[Conn])
<1>1. /\ pc = "send" /\ pc \in HandlerLabels /\ pc' \in HandlerLabels \ {"recv"}
      /\ UNCHANGED <<phase, fdConn, sent, rcvd, reply, req, cur, kills, Conn>>
  BY DEF Send, SendError, SendSome, SendFails, HandlerLabels, storeVars, Conn
<1>2. /\ Conn \in Conns /\ phase[Conn] = "open" /\ size \in Nat
      /\ told[Conn] \in Nat /\ told[Conn] < size
  BY <1>1, ServedIsOpen, ReplySizeTyped DEF HandlerInv, Sending
<1>3. \A c \in Conns : c # Conn => told'[c] = told[c] /\ peer'[c] = peer[c]
  BY <1>2 DEF Send, SendError, SendSome, SendFails, HandlerInv, NetInv, NetTypeOK
<1>4. Unread' /\ AnsweredInFull'
  BY <1>1, <1>3, OthersAnswered
<1>5. CASE Send
  <2>1. SendSome(Conn, size - told[Conn]) /\ pc' = IF told'[Conn] < size THEN "send" ELSE "close"
    BY <1>5 DEF Send
  <2>2. NetInv' /\ told'[Conn] <= size
    BY <1>2, <2>1, SendKeeps DEF HandlerInv
  <2>3. told'[Conn] \in Nat
    BY <1>2, <2>2 DEF NetInv, NetTypeOK
  <2>4. reply[Conn] # NoReply
    BY <1>2 DEF ReplySize, NoReply, Word
  <2> HIDE DEF size
  <2>5. pc' = "close" => told'[Conn] = size
    BY <1>2, <2>1, <2>2, <2>3
  <2>6. CloseEarned'
    BY <1>1, <2>4, <2>5 DEF CloseEarned, Answered, size
  <2> QED
    BY <1>4, <2>6 DEF AnswerInv
<1>6. CASE SendError
  <2>1. CloseEarned'
    BY <1>1, <1>2, <1>6
       DEF SendError, SendFails, CloseEarned, Staying, HandlerInv, NetInv, NetTypeOK
  <2> QED
    BY <1>4, <2>1 DEF AnswerInv
<1> QED
  BY <1>5, <1>6

LEMMA HandlerStepAnswered ==
  ASSUME HandlerInv, AnswerInv, HandlerStep
  PROVE  AnswerInv'
BY RecvAnswered, HandleAnswered, SendAnswered DEF HandlerStep

LEMMA ReleasedAnswered ==
  ASSUME HandlerInv, AnswerInv, NEW i, Released(i), pc' \in LoopLabels
  PROVE  AnswerInv'
<1>1. /\ pc = "close" /\ CloseFd(cur) /\ UNCHANGED <<reply, req, cur, kills>>
      /\ cur \in Fds /\ Conn \in Conns /\ phase[Conn] = "open" /\ Conn = fdConn[cur]
  BY ServedIsOpen DEF Released, HandlerLabels, storeVars, Conn
<1>2. /\ UNCHANGED <<sent, rcvd, told>>
      /\ fdConn' = [fdConn EXCEPT ![cur] = NoConn]
      /\ phase' = [phase EXCEPT ![Conn] = "closed"]
      /\ peer' = [peer EXCEPT ![Conn] = IF Abandoned(Conn) THEN "gone" ELSE @]
  BY <1>1 DEF CloseFd
<1>3. Unread'
  BY <1>1, <1>2 DEF AnswerInv, Unread, HandlerInv, NetInv, NetTypeOK
<1>4. AnsweredInFull'
  BY <1>1, <1>2
     DEF AnswerInv, AnsweredInFull, CloseEarned, Answered, Arrived, Staying, HandlerInv, NetInv,
         NetTypeOK
<1>5. CloseEarned'
  BY DEF CloseEarned, LoopLabels
<1> QED
  BY <1>3, <1>4, <1>5 DEF AnswerInv

LEMMA TurnAnswered ==
  ASSUME AnswerInv, pc \notin HandlerLabels,
         UNCHANGED <<netVars, reply, req, kills>>, pc' # "close"
  PROVE  AnswerInv'
BY DEF AnswerInv, Unread, CloseEarned, AnsweredInFull, Arrived, Staying, netVars

LEMMA AcceptAnswered ==
  ASSUME HandlerInv, AnswerInv, pc \notin HandlerLabels, NEW f \in Fds, AcceptClient(f),
         pc' # "close"
  PROVE  AnswerInv'
<1>1. /\ UNCHANGED <<sent, rcvd, peer, told, reply, req, kills>>
      /\ backlog # <<>> /\ backlog \in Seq(Conns)
      /\ phase' = [phase EXCEPT ![Head(backlog)] = "open"]
      /\ fdConn' = [fdConn EXCEPT ![f] = Head(backlog)]
  BY DEF AcceptClient, Accepted, storeVars, HandlerInv, NetInv, NetTypeOK
<1>2. Head(backlog) \in Conns /\ phase[Head(backlog)] = "queued"
  <2>1. Head(backlog) = backlog[1] /\ 1 \in DOMAIN backlog /\ Head(backlog) \in Conns
    BY <1>1, LenProperties, HeadTailProperties, EmptySeq
  <2> QED
    BY <2>1 DEF HandlerInv, NetInv, QueueSound
<1>3. Unread'
  BY <1>1, <1>2 DEF AnswerInv, Unread, HandlerInv, NetInv, NetTypeOK
<1>4. AnsweredInFull' /\ CloseEarned'
  BY <1>1, <1>2
     DEF AnswerInv, AnsweredInFull, CloseEarned, Arrived, Staying, HandlerInv, NetInv, NetTypeOK
<1> QED
  BY <1>3, <1>4 DEF AnswerInv

\* Whose request is still unread, or unfinished, when the process ends is reset.
LEMMA FailureAnswered ==
  ASSUME HandlerInv, AnswerInv, ServerFails \/ Kill
  PROVE  AnswerInv'
<1>1. /\ pc' = "down" /\ UNCHANGED <<sent, rcvd, told, reply, req>>
      /\ fdConn' = [f \in Fds |-> NoConn]
      /\ phase' = [c \in Conns |-> IF phase[c] = "new" THEN "new" ELSE "closed"]
      /\ peer' = [c \in Conns |->
                    IF phase[c] = "queued" \/ (phase[c] = "open" /\ Abandoned(c))
                    THEN "gone" ELSE peer[c]]
  BY DEF ServerFails, Throw, BrokenPipe, Kill, Stopped, CloseAll
<1>2. Unread' /\ CloseEarned'
  BY <1>1 DEF AnswerInv, Unread, CloseEarned
<1>3. CASE Kill
  <2>1. kills' # 0
    BY <1>3, HandlerAssumption DEF Kill, HandlerInv, HandlerTypeOK
  <2> QED
    BY <1>2, <2>1 DEF AnswerInv, AnsweredInFull
<1>4. CASE ServerFails
  <2>1. kills' = kills /\ pc \in HandlerLabels \ {"recv"}
    BY <1>4 DEF ServerFails, Throw, BrokenPipe, HandlerLabels
  <2>2. ASSUME NEW c \in Conns, phase[c] = "open", Arrived(c), Staying(c)
        PROVE  Abandoned(c)
    <3>1. /\ sent[c] \in Nat /\ rcvd[c] \in Nat /\ req[c] \in Requests
          /\ sent[c] = RequestSize(req[c]) /\ RequestSize(req[c]) \in Nat \ {0}
      BY <2>2, RequestSizeTyped DEF Arrived, HandlerInv, HandlerTypeOK, NetInv, NetTypeOK
    <3>2. CASE c # Conn
      <4>1. PICK f \in Fds : fdConn[f] = c
        BY <2>2 DEF HandlerInv, NetInv, OpenHeld
      <4>2. f # cur /\ fdConn[f] # NoConn
        BY <3>2, <4>1, ConnectionsAssumption DEF Conn
      <4>3. rcvd[c] = 0
        BY <4>1, <4>2 DEF AnswerInv, Unread
      <4> QED
        BY <3>1, <4>3 DEF Abandoned
    <3>3. CASE c = Conn
      <4>1. Throw
        BY <1>4, <2>2, <3>3 DEF ServerFails, BrokenPipe, Staying
      <4>2. req[c].op = "PUT" /\ rcvd[c] < 6
        BY <3>3, <4>1 DEF Throw, LengthUnparsable
      <4>3. RequestSize(req[c]) >= 7
        BY <3>1, <4>2, RequestSizeTyped DEF HeaderEnd
      <4> QED
        BY <3>1, <4>2, <4>3 DEF Abandoned
    <3> QED
      BY <3>2, <3>3
  <2>3. \A c \in Conns :
          phase'[c] = "closed" /\ Arrived(c)' /\ Staying(c)' => phase[c] = "closed"
    BY <1>1, <2>2 DEF Arrived, Staying, HandlerInv, NetInv, NetTypeOK, Phases
  <2>4. AnsweredInFull'
    BY <1>1, <2>1, <2>3 DEF AnswerInv, AnsweredInFull, Arrived, Staying
  <2> QED
    BY <1>2, <2>4 DEF AnswerInv
<1> QED
  BY <1>3, <1>4

LEMMA RestartAnswered ==
  ASSUME AnswerInv, Restart
  PROVE  AnswerInv'
BY TurnAnswered DEF Restart, HandlerLabels

LEMMA StutterAnswered ==
  ASSUME AnswerInv, UNCHANGED <<netVars, handlerVars>>
  PROVE  AnswerInv'
BY DEF AnswerInv, Unread, CloseEarned, AnsweredInFull, Answered, Arrived, Staying, Conn,
       netVars, handlerVars
-----------------------------------------------------------------------------
(***************************************************************************)
(* Headers in one piece: what ServerSurvives and the refinement of         *)
(* FileStore rest on.  The first segment then carries the header, the      *)
(* first recv takes all of that, and what handleRequest is given is the    *)
(* whole request, or one whose client has ended its stream.                *)
(***************************************************************************)
WholeHeaders == HeaderCuts = {} /\ RecvMax >= HeaderEnd

\* What a request is recognised by: the header of a PUT, the name of the others.
HeaderRead(r, g) ==
  /\ r.op = "PUT" => g >= HeaderEnd
  /\ r.op \in {"GET", "DELETE"} => g >= NameEnd

\* No response is computed twice, nor before the request is handled.
Unanswered ==
  /\ \A c \in Conns : phase[c] \in {"new", "queued"} => reply[c] = NoReply
  /\ \A f \in Fds :
       fdConn[f] # NoConn /\ reply[fdConn[f]] # NoReply => f = cur /\ pc \in {"send", "close"}

StoreInv ==
  /\ \A c \in Conns : sent[c] \in {0} \cup SegmentEnds(req[c])
  /\ pc = "write" => req[Conn].op = "PUT"
  /\ pc \in {"more", "handle", "write"} => HeaderRead(req[Conn], rcvd[Conn])
  /\ pc \in {"handle", "write"} /\ req[Conn].op = "PUT" =>
       \/ rcvd[Conn] - HeaderEnd >= req[Conn].len
       \/ peer[Conn] # "live" /\ rcvd[Conn] = sent[Conn]
  /\ Unanswered

LEMMA StoreStarts ==
  ASSUME NetInit, HandlerInit
  PROVE  StoreInv
BY DEF NetInit, HandlerInit, StoreInv, Unanswered

LEMMA SegmentWhole ==
  ASSUME WholeHeaders, NEW r \in Requests, NEW n \in SegmentEnds(r)
  PROVE  n \in Nat \ {0} /\ n <= RequestSize(r) /\ HeaderRead(r, n)
<1>1. RequestSize(r) \in Nat \ {0} /\ (r.op = "PUT" => RequestSize(r) >= HeaderEnd)
  BY RequestSizeTyped
<1>2. r.op \in {"GET", "DELETE"} => RequestSize(r) = NameEnd
  BY DEF RequestSize
<1>3. n \in 1 .. RequestSize(r) /\ (n >= HeaderEnd \/ n = RequestSize(r))
  BY DEF SegmentEnds, WholeHeaders
<1> QED
  BY <1>1, <1>2, <1>3 DEF HeaderRead, HeaderEnd, NameEnd

LEMMA ClientsStore ==
  ASSUME HandlerInv, StoreInv, ClientStep
  PROVE  StoreInv'
<1>1. PICK c \in Conns : Ask(c) \/ Say(c) \/ Leave(c) \/ Vanish(c) \/ Hear(c)
  BY DEF ClientStep
<1>2. UNCHANGED <<fdConn, rcvd, reply, req, pc, cur, Conn>>
  BY <1>1 DEF ClientStep, handlerVars, Ask, Say, Leave, Vanish, Connect, Deliver, EndStream,
              Reset, Hear, Conn
<1>3. \A d \in Conns :
        /\ phase'[d] \in {"new", "queued"} => phase[d] \in {"new", "queued"}
        /\ peer[d] # "live" => peer'[d] # "live" /\ sent'[d] = sent[d]
        /\ sent'[d] = sent[d] \/ sent'[d] \in SegmentEnds(req[d])
  BY <1>1 DEF Ask, Say, Leave, Vanish, Connect, Deliver, EndStream, Reset, Hear,
              HandlerInv, NetInv, NetTypeOK
<1>4. pc \in {"handle", "write"} => Conn \in Conns
  BY ServedIsOpen DEF HandlerLabels
<1>5. Unanswered'
  BY <1>2, <1>3 DEF StoreInv, Unanswered
<1>6. \A d \in Conns : sent'[d] \in {0} \cup SegmentEnds(req'[d])
  BY <1>2, <1>3 DEF StoreInv
<1> QED
  BY <1>2, <1>3, <1>4, <1>5, <1>6 DEF StoreInv

\* The parts a step of the handler cannot disturb, for it touches only Conn.
LEMMA OthersStore ==
  ASSUME HandlerInv, StoreInv, pc \in HandlerLabels,
         UNCHANGED <<phase, fdConn, sent, req, cur>>,
         \A c \in Conns : c # Conn => reply'[c] = reply[c],
         reply'[Conn] = NoReply \/ pc' \in {"send", "close"}
  PROVE  Unanswered' /\ \A c \in Conns : sent'[c] \in {0} \cup SegmentEnds(req'[c])
<1>1. phase[Conn] = "open" /\ Conn = fdConn[cur] /\ cur \in Fds
  BY ServedIsOpen DEF Conn
<1>2. \A f \in Fds : fdConn[f] # NoConn => fdConn[f] \in Conns /\ (fdConn[f] = Conn => f = cur)
  BY <1>1 DEF HandlerInv, NetInv, NetTypeOK, TableSound
<1> QED
  BY <1>1, <1>2 DEF StoreInv, Unanswered

LEMMA RecvStore ==
  ASSUME WholeHeaders, HandlerInv, AnswerInv, StoreInv, FirstRecv \/ MoreRecv
  PROVE  StoreInv'
<1> DEFINE r == req[Conn]
<1>1. /\ pc \in {"recv", "more"} /\ pc \in HandlerLabels
      /\ UNCHANGED <<phase, fdConn, sent, reply, req, cur, Conn>>
  BY DEF FirstRecv, MoreRecv, HandlerLabels, RecvData, RecvEnd, storeVars, Conn
<1>2. /\ cur \in Fds /\ Conn \in Conns /\ fdConn[cur] = Conn /\ Conn # NoConn
      /\ sent[Conn] \in Nat /\ rcvd[Conn] \in Nat /\ r \in Requests
      /\ r.len \in Nat /\ RequestSize(r) \in Nat
  BY <1>1, ServedIsOpen, ConnectionsAssumption, NameSeenTyped, RequestSizeTyped
     DEF Conn, HandlerInv, HandlerTypeOK, NetInv, NetTypeOK
<1>3. reply[Conn] = NoReply
  BY <1>1, <1>2 DEF StoreInv, Unanswered
<1>4. Unanswered' /\ \A c \in Conns : sent'[c] \in {0} \cup SegmentEnds(req'[c])
  BY <1>1, <1>3, OthersStore
<1>5. sent[Conn] = 0 \/ (sent[Conn] <= RequestSize(r) /\ HeaderRead(r, sent[Conn]))
  BY <1>2, SegmentWhole DEF StoreInv
<1> HIDE DEF r
<1>6. CASE RecvData(Conn)
  <2>1. /\ pc' = IF MoreToRead(r, Received(Conn)) THEN "more" ELSE "handle"
        /\ rcvd'[Conn] = Received(Conn) /\ sent[Conn] > rcvd[Conn]
    BY <1>2, <1>6 DEF FirstRecv, MoreRecv, RecvData, RecvEnd, HandlerInv, NetInv, NetTypeOK, r
  <2>2. Received(Conn) \in rcvd[Conn] .. sent[Conn]
    BY <1>2, <2>1, SocketsAssumption DEF Received, Least
  <2>3. HeaderRead(r, Received(Conn))
    <3>1. CASE pc = "recv"
      <4>1. rcvd[Conn] = 0
        BY <1>2, <3>1 DEF AnswerInv, Unread
      <4>2. Received(Conn) = sent[Conn] \/ Received(Conn) >= HeaderEnd
        BY <1>2, <4>1, SocketsAssumption DEF Received, Least, WholeHeaders, HeaderEnd
      <4> QED
        BY <1>2, <1>5, <2>1, <2>2, <4>1, <4>2 DEF HeaderRead, HeaderEnd, NameEnd
    <3>2. CASE pc = "more"
      BY <1>2, <2>2, <3>2 DEF StoreInv, HeaderRead, HeaderEnd, NameEnd, r
    <3> QED
      BY <1>1, <3>1, <3>2
  <2>4. Received(Conn) \in 0 .. RequestSize(r)
    BY <1>2, <1>5, <2>1, <2>2
  <2>5. r.op = "PUT" /\ pc' = "handle" => Received(Conn) - HeaderEnd >= r.len
    BY <1>2, <2>1, <2>2, <2>3, <2>4, CutIsHarmless DEF HeaderRead, HeaderEnd
  <2> QED
    BY <1>1, <1>4, <2>1, <2>3, <2>5 DEF StoreInv, r
<1>7. CASE RecvEnd(Conn) /\ pc = "recv"
  <2>1. pc' = "close"
    BY <1>2, <1>7 DEF FirstRecv, MoreRecv, RecvData, RecvEnd
  <2> QED
    BY <1>4, <2>1 DEF StoreInv
<1>8. CASE RecvEnd(Conn) /\ pc = "more"
  <2>1. pc' = "handle" /\ rcvd' = rcvd
    BY <1>2, <1>8 DEF FirstRecv, MoreRecv, RecvData, RecvEnd
  <2>2. peer'[Conn] # "live" /\ rcvd[Conn] = sent[Conn]
    BY <1>2, <1>8 DEF RecvEnd, HandlerInv, NetInv, NetTypeOK
  <2> QED
    BY <1>1, <1>4, <1>8, <2>1, <2>2 DEF StoreInv
<1> QED
  BY <1>1, <1>6, <1>7, <1>8 DEF FirstRecv, MoreRecv

LEMMA HandleStore ==
  ASSUME HandlerInv, StoreInv,
         \/ UnknownCommand \/ GetFile \/ DeleteFile \/ PutRefused \/ PutOpen \/ Write
         \/ Send \/ SendError
  PROVE  StoreInv'
<1>1. /\ pc \in {"handle", "write", "send"} /\ pc \in HandlerLabels
      /\ UNCHANGED <<phase, fdConn, sent, rcvd, req, cur, Conn>>
      /\ \/ /\ pc = "handle" /\ pc' = "write" /\ req[Conn].op = "PUT"
            /\ UNCHANGED <<peer, reply>>
         \/ pc' \in {"send", "close"}
  BY DEF UnknownCommand, GetFile, DeleteFile, PutRefused, PutOpen, Write, Handling, Answer,
         Send, SendError, SendSome, SendFails, HandlerLabels, netVars, storeVars, Conn
<1>2. \A c \in Conns : c # Conn => reply'[c] = reply[c]
  BY DEF UnknownCommand, GetFile, DeleteFile, PutRefused, PutOpen, Write, Answer, Send, SendError,
         storeVars, HandlerInv, HandlerTypeOK
<1>3. pc = "handle" => reply[Conn] = NoReply
  BY <1>1, ServedIsOpen, ConnectionsAssumption DEF StoreInv, Unanswered, Conn
<1>4. Unanswered' /\ \A c \in Conns : sent'[c] \in {0} \cup SegmentEnds(req'[c])
  BY <1>1, <1>2, <1>3, OthersStore
<1> QED
  BY <1>1, <1>4 DEF StoreInv

LEMMA HandlerStepStore ==
  ASSUME WholeHeaders, HandlerInv, AnswerInv, StoreInv, HandlerStep
  PROVE  StoreInv'
BY RecvStore, HandleStore DEF HandlerStep

LEMMA ReleasedStore ==
  ASSUME HandlerInv, StoreInv, NEW i, Released(i), pc' \in LoopLabels
  PROVE  StoreInv'
<1>1. /\ pc = "close" /\ UNCHANGED <<sent, reply, req>>
      /\ cur \in Fds /\ Conn \in Conns
      /\ fdConn' = [fdConn EXCEPT ![cur] = NoConn]
      /\ phase' = [phase EXCEPT ![Conn] = "closed"]
  BY ServedIsOpen DEF Released, CloseFd, HandlerLabels, storeVars, Conn
<1> QED
  BY <1>1 DEF StoreInv, Unanswered, LoopLabels, HandlerInv, NetInv, NetTypeOK

LEMMA TurnStore ==
  ASSUME StoreInv, pc \notin HandlerLabels,
         UNCHANGED <<netVars, reply, req>>, pc' \notin {"more", "handle", "write"}
  PROVE  StoreInv'
BY DEF StoreInv, Unanswered, HandlerLabels, netVars

LEMMA AcceptStore ==
  ASSUME HandlerInv, StoreInv, pc \notin HandlerLabels, NEW f \in Fds, AcceptClient(f),
         pc' \notin {"more", "handle", "write"}
  PROVE  StoreInv'
<1>1. /\ UNCHANGED <<sent, reply, req>>
      /\ backlog # <<>> /\ backlog \in Seq(Conns)
      /\ phase' = [phase EXCEPT ![Head(backlog)] = "open"]
      /\ fdConn' = [fdConn EXCEPT ![f] = Head(backlog)]
  BY DEF AcceptClient, Accepted, storeVars, HandlerInv, NetInv, NetTypeOK
<1>2. Head(backlog) \in Conns /\ phase[Head(backlog)] = "queued"
  <2>1. Head(backlog) = backlog[1] /\ 1 \in DOMAIN backlog /\ Head(backlog) \in Conns
    BY <1>1, LenProperties, HeadTailProperties, EmptySeq
  <2> QED
    BY <2>1 DEF HandlerInv, NetInv, QueueSound
<1>3. Unanswered'
  BY <1>1, <1>2 DEF StoreInv, Unanswered, HandlerLabels, HandlerInv, NetInv, NetTypeOK
<1> QED
  BY <1>1, <1>3 DEF StoreInv

LEMMA FailureStore ==
  ASSUME StoreInv, ServerFails \/ Kill
  PROVE  StoreInv'
<1>1. /\ pc' = "down" /\ UNCHANGED <<sent, reply, req>>
      /\ fdConn' = [f \in Fds |-> NoConn]
      /\ phase' = [c \in Conns |-> IF phase[c] = "new" THEN "new" ELSE "closed"]
  BY DEF ServerFails, Throw, BrokenPipe, Kill, Stopped, CloseAll
<1> QED
  BY <1>1 DEF StoreInv, Unanswered

LEMMA RestartStore ==
  ASSUME StoreInv, Restart
  PROVE  StoreInv'
BY TurnStore DEF Restart, HandlerLabels

LEMMA StutterStore ==
  ASSUME StoreInv, UNCHANGED <<netVars, handlerVars>>
  PROVE  StoreInv'
BY DEF StoreInv, Unanswered, Conn, netVars, handlerVars

LEMMA FailureExcused ==
  ASSUME HandlerInv, StoreInv, ServerFails \/ Kill
  PROVE  kills' # kills \/ peer[Conn] \notin {"live", "fin"}
<1>1. CASE Throw
  <2>1. pc = "handle" /\ req[Conn].op = "PUT" /\ rcvd[Conn] < 6
    BY <1>1 DEF Throw, LengthUnparsable
  <2>2. rcvd[Conn] \in Nat /\ rcvd[Conn] >= 7
    BY <2>1, ServedIsOpen
       DEF HandlerLabels, StoreInv, HeaderRead, HeaderEnd, HandlerInv, NetInv, NetTypeOK
  <2> QED
    BY <2>1, <2>2
<1>2. CASE BrokenPipe
  BY <1>2 DEF BrokenPipe
<1>3. CASE Kill
  BY <1>3 DEF Kill, HandlerInv, HandlerTypeOK
<1> QED
  BY <1>1, <1>2, <1>3 DEF ServerFails
-----------------------------------------------------------------------------
(***************************************************************************)
(* The refinement of FileStore, one operation at a time.  Without an error *)
(* that the stream buffer hides, every step of clients, handler and        *)
(* failures is one of FileStore, or changes nothing it can see.            *)
(***************************************************************************)
PromptDisk == DiskMayFill => FileBuffer = 0

\* FileStore speaks of the same protocol.
LEMMA SameProtocol ==
  /\ Store!Requests = Requests /\ Store!NoFile = NoFile /\ Store!OldFile = OldFile
  /\ Store!Empty = Empty /\ Store!NoReply = NoReply
  /\ \A w : Store!Word(w) = Word(w) /\ Store!FileReply(w) = FileReply(w)
  /\ \A c, n : Store!Body(c, n) = Body(c, n)
BY DEF Store!Requests, Requests, Store!Ops, Ops, Store!NoFile, NoFile, Store!OldFile, OldFile,
       Store!Empty, Empty, Store!NoReply, NoReply, Store!Word, Word, Store!FileReply, FileReply,
       Store!Body, Body, Store!Content, Content

LEMMA StoreInitMaps ==
  ASSUME NetInit, HandlerInit
  PROVE  Store!Init
<1>1. req \in [Conns -> Requests] /\ sent = [c \in Conns |-> 0]
  BY HandlerAssumption DEF NetInit, HandlerInit
<1>2. \A c \in Conns : ~Arrived(c)
  BY <1>1, RequestSizeTyped DEF Arrived
<1> QED
  BY <1>1, <1>2, SameProtocol DEF HandlerInit, Store!Init

\* Steps that FileStore cannot see.
LEMMA QuietMaps ==
  ASSUME UNCHANGED <<sent, req, files, reply>>, pc # "write", pc' # "write"
  PROVE  UNCHANGED Store!absVars
BY DEF Store!absVars, Arrived

LEMMA ClientsMap ==
  ASSUME WholeHeaders, HandlerInv, StoreInv, ClientStep
  PROVE  [Store!Next]_(Store!absVars)
<1>1. UNCHANGED <<req, files, reply, pc, cur, fdConn, Conn>>
  BY DEF ClientStep, handlerVars, Ask, Say, Leave, Vanish, Connect, Deliver, EndStream, Reset,
         Hear, Conn
<1>2. CASE UNCHANGED sent
  BY <1>1, <1>2 DEF Store!absVars, Arrived
<1>3. CASE ~UNCHANGED sent
  <2>1. PICK c \in Conns : Say(c)
    BY <1>3 DEF ClientStep, Ask, Leave, Vanish, Connect, EndStream, Reset, Hear
  <2>2. PICK n \in SegmentEnds(req[c]) : Deliver(c, n)
    BY <2>1 DEF Say
  <2>3. /\ sent' = [sent EXCEPT ![c] = n] /\ n > sent[c] /\ sent[c] \in Nat
        /\ sent \in [Conns -> Nat] /\ req[c] \in Requests
    BY <2>2 DEF Deliver, HandlerInv, HandlerTypeOK, NetInv, NetTypeOK
  <2>4. n \in Nat /\ n <= RequestSize(req[c]) /\ RequestSize(req[c]) \in Nat
    BY <2>2, <2>3, SegmentWhole, RequestSizeTyped
  <2>5. ~Arrived(c)
    BY <2>3, <2>4 DEF Arrived
  <2>6. \A d \in Conns : d # c => (Arrived(d)' <=> Arrived(d))
    BY <1>1, <2>3 DEF Arrived
  <2>7. CASE Arrived(c)'
    <3>1. {d \in Conns : Arrived(d)}' = {d \in Conns : Arrived(d)} \cup {c}
      BY <2>6, <2>7
    <3>2. Store!Arrive(c)
      BY <1>1, <2>5, <3>1 DEF Store!Arrive
    <3> QED
      BY <3>2 DEF Store!Next
  <2>8. CASE ~Arrived(c)'
    <3>1. {d \in Conns : Arrived(d)}' = {d \in Conns : Arrived(d)}
      BY <2>5, <2>6, <2>8
    <3> QED
      BY <1>1, <3>1 DEF Store!absVars
  <2> QED
    BY <2>7, <2>8
<1> QED
  BY <1>2, <1>3

\* What the handler knows of the request it has read.
LEMMA HandledIsRead ==
  ASSUME HandlerInv, StoreInv, pc \in {"handle", "write"}
  PROVE  /\ Conn \in Conns /\ reply[Conn] = NoReply
         /\ req[Conn] \in Requests /\ rcvd[Conn] \in Nat
         /\ HeaderRead(req[Conn], rcvd[Conn])
<1>1. Conn \in Conns /\ cur \in Fds /\ fdConn[cur] = Conn /\ Conn # NoConn
  BY ServedIsOpen, ConnectionsAssumption DEF HandlerLabels, Conn
<1> QED
  BY <1>1 DEF StoreInv, Unanswered, HandlerInv, HandlerTypeOK, NetInv, NetTypeOK

LEMMA UnknownMaps ==
  ASSUME HandlerInv, StoreInv, UnknownCommand
  PROVE  Store!Next
<1>1. /\ pc = "handle" /\ pc' # "write" /\ UNCHANGED <<sent, req, files>>
      /\ reply' = [reply EXCEPT ![Conn] = Word("ERROR")]
      /\ ~Dispatched(req[Conn], rcvd[Conn])
  BY DEF UnknownCommand, Answer, netVars
<1>2. req[Conn].op = "OTHER"
  BY <1>1, HandledIsRead DEF Dispatched, HeaderRead, HeaderEnd, NameEnd, Requests, Ops
<1>3. Store!Refuse(Conn)
  BY <1>1, <1>2, HandledIsRead, SameProtocol
     DEF Store!Refuse, Store!Serving, Store!Answers, Arrived
<1> QED
  BY <1>1, <1>3, HandledIsRead DEF Store!Next

LEMMA GetMaps ==
  ASSUME HandlerInv, StoreInv, GetFile
  PROVE  Store!Next
<1> DEFINE re == GetReply(req[Conn], rcvd[Conn], files, dirOK)
<1>1. /\ pc = "handle" /\ pc' # "write" /\ UNCHANGED <<sent, req, files>>
      /\ reply' = [reply EXCEPT ![Conn] = re]
      /\ req[Conn].op = "GET"
  BY DEF GetFile, Handling, Answer, netVars
<1>2. re = IF files[req[Conn].name] = NoFile
           THEN Word("NOT_FOUND") ELSE FileReply(files[req[Conn].name])
  BY <1>1, HandledIsRead DEF GetReply, HeaderRead, Named, NameSeen, NameEnd
<1> HIDE DEF re
<1>3. Store!Get(Conn)
  BY <1>1, <1>2, HandledIsRead, SameProtocol
     DEF Store!Get, Store!Serving, Store!Answers, Arrived
<1> QED
  BY <1>3, <1>1, HandledIsRead DEF Store!Next

LEMMA DeleteMaps ==
  ASSUME HandlerInv, StoreInv, DeleteFile
  PROVE  Store!Next
<1> DEFINE r == req[Conn]
<1> DEFINE g == rcvd[Conn]
<1>1. /\ pc = "handle" /\ pc' # "write" /\ UNCHANGED <<sent, req>>
      /\ reply' = [reply EXCEPT ![Conn] = DeleteReply(r, g, files, dirOK)]
      /\ files' = IF RemovesFile(r, g, files)
                  THEN [files EXCEPT ![NameSeen(r, g)] = NoFile] ELSE files
      /\ r.op = "DELETE"
  BY DEF DeleteFile, Handling, Answer, netVars
<1>2. Named(g) /\ NameSeen(r, g) = r.name /\ r.name \in Names
  BY <1>1, HandledIsRead, NameSeenTyped DEF HeaderRead, Named, NameSeen, NameEnd
<1>3. RemovesFile(r, g, files) <=> files[r.name] # NoFile
  BY <1>2 DEF RemovesFile
<1>4. files \in [Names -> Contents]
  BY DEF HandlerInv, HandlerTypeOK
<1>5. files' = [files EXCEPT ![r.name] = NoFile]
  BY <1>1, <1>2, <1>3, <1>4
<1>6. DeleteReply(r, g, files, dirOK) = Word(IF files[r.name] = NoFile THEN "ERROR" ELSE "OK")
  BY <1>2, <1>3 DEF DeleteReply, RemovesDir
<1>7. Store!Delete(Conn)
  BY <1>1, <1>5, <1>6, HandledIsRead, SameProtocol
     DEF Store!Delete, Store!Serving, Store!Answers, Store!Stores, Arrived
<1> QED
  BY <1>7, <1>1, HandledIsRead DEF Store!Next

LEMMA PutRefusedMaps ==
  ASSUME HandlerInv, StoreInv, PutRefused
  PROVE  Store!Next
<1>1. /\ pc = "handle" /\ pc' # "write" /\ UNCHANGED <<sent, req, files>>
      /\ reply' = [reply EXCEPT ![Conn] = Word("ERROR")]
      /\ req[Conn].op = "PUT"
  BY DEF PutRefused, Handling, Answer, netVars
<1>2. Store!Refuse(Conn)
  BY <1>1, HandledIsRead, SameProtocol DEF Store!Refuse, Store!Serving, Store!Answers, Arrived
<1> QED
  BY <1>1, <1>2, HandledIsRead DEF Store!Next

LEMMA PutOpenMaps ==
  ASSUME HandlerInv, StoreInv, PutOpen
  PROVE  Store!Next
<1>1. /\ pc = "handle" /\ pc' = "write" /\ UNCHANGED <<sent, req, reply, Conn>>
      /\ files' = [files EXCEPT ![req[Conn].name] = Empty]
      /\ req[Conn].op = "PUT"
  BY DEF PutOpen, Handling, netVars, Conn
<1>2. Store!BeginPut(Conn)
  BY <1>1, HandledIsRead, SameProtocol DEF Store!BeginPut, Store!Serving, Store!Stores, Arrived
<1> QED
  BY <1>1, <1>2, HandledIsRead DEF Store!Next

\* With its header read, what a PUT writes is a prefix of its content.
LEMMA UploadIsBody ==
  ASSUME HandlerInv, StoreInv, pc = "write"
  PROVE  /\ Upload.size \in 0 .. req[Conn].len
         /\ \A n \in 0 .. Upload.size : Prefix(Upload, n) = Body(Conn, n)
         /\ Arrived(Conn) => Upload.size = req[Conn].len
<1> DEFINE r == req[Conn]
<1> DEFINE g == rcvd[Conn]
<1> DEFINE m == IF g - HeaderEnd < r.len THEN g - HeaderEnd ELSE r.len
<1>1. /\ Conn \in Conns /\ r \in Requests /\ r.len \in Nat /\ r.op = "PUT"
      /\ g \in Nat /\ g >= 7
  BY HandledIsRead, NameSeenTyped DEF StoreInv, HeaderRead, HeaderEnd
<1>2. m \in 0 .. r.len /\ (r.len = 0 => m = 0) /\ HeaderEnd = 7
  BY <1>1 DEF HeaderEnd
<1>3. Upload = Body(Conn, m)
  BY <1>1, <1>2 DEF Upload, PutContent, Body
<1>4. Arrived(Conn) => m = r.len
  <2>1. Arrived(Conn) => sent[Conn] = 7 + r.len
    BY <1>1, <1>2 DEF Arrived, RequestSize
  <2> QED
    BY <1>1, <1>2, <2>1 DEF StoreInv
<1> HIDE DEF m, r
<1>5. Body(Conn, m).size = m
  BY <1>2 DEF Body, Empty, Content
<1>6. ASSUME NEW n \in 0 .. m PROVE Prefix(Body(Conn, m), n) = Body(Conn, n)
  BY <1>2, <1>6 DEF Prefix, Body, Empty, Content
<1> QED
  BY <1>2, <1>3, <1>4, <1>5, <1>6 DEF r

LEMMA WriteMaps ==
  ASSUME PromptDisk, HandlerInv, StoreInv, Write
  PROVE  Store!Next
<1>1. pc = "write" /\ Conn \in Conns /\ UNCHANGED <<sent, req>>
  BY HandledIsRead DEF Write, Answer, netVars
<1>2. PICK n \in 0 .. Upload.size :
        /\ n = Upload.size \/ DiskMayFill
        /\ files' = [files EXCEPT ![req[Conn].name] = Prefix(Upload, n)]
        /\ Answer(IF n = Upload.size \/ Upload.size <= FileBuffer
                  THEN Word("OK") ELSE Word("ERROR"))
  BY DEF Write
<1>3. /\ Upload.size \in 0 .. req[Conn].len /\ req[Conn].len \in Nat
      /\ n \in 0 .. req[Conn].len /\ Prefix(Upload, n) = Body(Conn, n)
  BY <1>1, <1>2, UploadIsBody, HandledIsRead, NameSeenTyped
<1>4. pc' # "write"
  BY <1>2 DEF Answer
<1>5. CASE n = Upload.size
  <2>1. Store!EndPut(Conn)
    BY <1>1, <1>2, <1>3, <1>4, <1>5, UploadIsBody, SameProtocol
       DEF Answer, Store!EndPut, Store!Stores, Store!Answers, Arrived
  <2> QED
    BY <1>1, <2>1 DEF Store!Next
<1>6. CASE n # Upload.size
  <2>1. ~(Upload.size <= FileBuffer)
    BY <1>2, <1>3, <1>6 DEF PromptDisk
  <2>2. Store!FailPut(Conn)
    BY <1>1, <1>2, <1>3, <1>4, <1>6, <2>1, SameProtocol
       DEF Answer, Store!FailPut, Store!Stores, Store!Answers, Arrived
  <2> QED
    BY <1>1, <2>2 DEF Store!Next
<1> QED
  BY <1>5, <1>6

LEMMA HandlerStepMaps ==
  ASSUME PromptDisk, HandlerInv, StoreInv, HandlerStep
  PROVE  [Store!Next]_(Store!absVars)
<1>1. CASE FirstRecv \/ MoreRecv \/ Send \/ SendError
  <2>1. UNCHANGED <<sent, req, files, reply>> /\ pc # "write" /\ pc' # "write"
    BY <1>1 DEF FirstRecv, MoreRecv, Send, SendError, RecvData, RecvEnd, SendSome, SendFails,
                storeVars
  <2> QED
    BY <2>1, QuietMaps
<1>2. CASE ~(FirstRecv \/ MoreRecv \/ Send \/ SendError)
  BY <1>2, UnknownMaps, GetMaps, DeleteMaps, PutRefusedMaps, PutOpenMaps, WriteMaps
     DEF HandlerStep
<1> QED
  BY <1>1, <1>2

\* A kill in the middle of a write damages the file being written, nothing else.
LEMMA FailureMaps ==
  ASSUME HandlerInv, StoreInv, ServerFails \/ Kill
  PROVE  [Store!Next]_(Store!absVars)
<1>1. pc' = "down" /\ UNCHANGED <<sent, req, reply>>
  BY DEF ServerFails, Throw, BrokenPipe, Kill, Stopped, CloseAll
<1>2. CASE pc # "write"
  <2>1. UNCHANGED files
    BY <1>2 DEF ServerFails, Throw, BrokenPipe, Kill
  <2> QED
    BY <1>1, <1>2, <2>1, QuietMaps
<1>3. CASE pc = "write"
  <2>1. PICK n \in 0 .. Upload.size : files' = [files EXCEPT ![req[Conn].name] = Prefix(Upload, n)]
    BY <1>3 DEF ServerFails, Throw, BrokenPipe, Kill
  <2>2. /\ Upload.size \in 0 .. req[Conn].len /\ req[Conn].len \in Nat /\ Conn \in Conns
        /\ n \in 0 .. req[Conn].len /\ Prefix(Upload, n) = Body(Conn, n)
    BY <1>3, <2>1, UploadIsBody, HandledIsRead, NameSeenTyped
  <2>3. Store!Crash(Conn)
    BY <1>1, <1>3, <2>1, <2>2, SameProtocol DEF Store!Crash, Store!Stores, Arrived
  <2> QED
    BY <2>2, <2>3 DEF Store!Next
<1> QED
  BY <1>2, <1>3
-----------------------------------------------------------------------------
(* runSync: here the handler's invariant is inductive as it is. *)

LEMMA SyncNextHandlerInv == HandlerInv /\ [SyncNext]_syncVars => HandlerInv'
<1> SUFFICES ASSUME HandlerInv, [SyncNext]_syncVars PROVE HandlerInv'
  OBVIOUS
<1>1. CASE SyncAccept
  <2>1. PICK f \in Fds : AcceptClient(f) /\ cur' = f
    BY <1>1 DEF SyncAccept
  <2>2. pc \notin HandlerLabels /\ pc' = "recv"
    BY <1>1 DEF SyncAccept, HandlerLabels
  <2> QED
    BY <2>1, <2>2, AcceptClientKeeps
<1>2. CASE SyncClose
  <2>1. PICK k \in DOMAIN clientSockets : clientSockets[k] = cur /\ Released(k)
    BY <1>2 DEF SyncClose, IsFirst
  <2>2. pc' \in LoopLabels
    BY <1>2 DEF SyncClose, LoopLabels
  <2> QED
    BY <2>1, <2>2, ReleasedKeeps
<1>3. CASE HandlerStep
  BY <1>3, HandlerStepKeeps
<1>4. CASE ServerFails \/ Kill
  BY <1>4, FailureKeeps
<1>5. CASE ClientStep
  BY <1>5, ClientsKeep
<1>6. CASE Restart
  BY <1>6, RestartKeeps
<1>7. CASE UNCHANGED syncVars
  BY <1>7, NetStutters
     DEF syncVars, netVars, handlerVars, HandlerInv, HandlerTypeOK, Busy, Fresh, Sending,
         Tracked, Conn
<1> QED
  BY <1>1, <1>2, <1>3, <1>4, <1>5, <1>6, <1>7 DEF SyncNext, SyncStep, SyncIdle

LEMMA SyncHandlerInvHolds == SyncSpec => []HandlerInv
<1>1. SyncInit => HandlerInv
  BY HandlerStarts DEF SyncInit
<1> QED
  BY <1>1, SyncNextHandlerInv, PTL DEF SyncSpec

(***************************************************************************)
(* Every variable of the blocking server keeps its type; among other       *)
(* things sendAll never computes a negative rest.                          *)
(***************************************************************************)
THEOREM SyncTypeCorrect == SyncSpec => []SyncTypeOK
<1>1. HandlerInv => SyncTypeOK
  BY DEF HandlerInv, NetInv, SyncTypeOK
<1> QED
  BY <1>1, SyncHandlerInvHolds, PTL

(***************************************************************************)
(* clientSockets_ lists exactly the open descriptors, each once, and every *)
(* open connection has one: runSync's accept, push_back and closeClient.   *)
(***************************************************************************)
THEOREM SyncSocketsTracked == SyncSpec => []TrackedExactly
<1>1. HandlerInv => TrackedExactly
  BY HandlerInvTracks
<1> QED
  BY <1>1, SyncHandlerInvHolds, PTL
-----------------------------------------------------------------------------
LEMMA SyncNextAnswered == HandlerInv /\ AnswerInv /\ [SyncNext]_syncVars => AnswerInv'
<1> SUFFICES ASSUME HandlerInv, AnswerInv, [SyncNext]_syncVars PROVE AnswerInv'
  OBVIOUS
<1>1. CASE SyncAccept
  <2>1. pc \notin HandlerLabels /\ pc' # "close"
    BY <1>1 DEF SyncAccept, HandlerLabels
  <2> QED
    BY <1>1, <2>1, AcceptAnswered DEF SyncAccept
<1>2. CASE SyncClose
  BY <1>2, ReleasedAnswered DEF SyncClose, LoopLabels
<1>3. CASE HandlerStep
  BY <1>3, HandlerStepAnswered
<1>4. CASE ServerFails \/ Kill
  BY <1>4, FailureAnswered
<1>5. CASE ClientStep
  BY <1>5, ClientsAnswered
<1>6. CASE Restart
  BY <1>6, RestartAnswered
<1>7. CASE UNCHANGED syncVars
  BY <1>7, StutterAnswered DEF syncVars
<1> QED
  BY <1>1, <1>2, <1>3, <1>4, <1>5, <1>6, <1>7 DEF SyncNext, SyncStep, SyncIdle

LEMMA SyncAnswerInvHolds == SyncSpec => []AnswerInv
<1>1. SyncInit => AnswerInv
  BY AnswerStarts DEF SyncInit
<1> QED
  BY <1>1, SyncHandlerInvHolds, SyncNextAnswered, PTL DEF SyncSpec

(***************************************************************************)
(* Under runSync no client whose whole request arrived, and who stayed,    *)
(* has its connection closed before its whole response is on its way:      *)
(* whatever the segments it came in, and however often send was short.     *)
(***************************************************************************)
THEOREM SyncAnswersInFull == SyncSpec => []AnsweredInFull
<1>1. AnswerInv => AnsweredInFull
  BY DEF AnswerInv
<1> QED
  BY <1>1, SyncAnswerInvHolds, PTL
-----------------------------------------------------------------------------
LEMMA SyncNextStore ==
  ASSUME WholeHeaders, HandlerInv, AnswerInv, StoreInv, [SyncNext]_syncVars
  PROVE  StoreInv'
<1>1. CASE SyncAccept
  <2>1. pc \notin HandlerLabels /\ pc' \notin {"more", "handle", "write"}
    BY <1>1 DEF SyncAccept, HandlerLabels
  <2> QED
    BY <1>1, <2>1, AcceptStore DEF SyncAccept
<1>2. CASE SyncClose
  <2>1. pc' \in LoopLabels
    BY <1>2 DEF SyncClose, LoopLabels
  <2> QED
    BY <1>2, <2>1, ReleasedStore DEF SyncClose
<1>3. CASE HandlerStep
  BY <1>3, HandlerStepStore
<1>4. CASE ServerFails \/ Kill
  BY <1>4, FailureStore
<1>5. CASE ClientStep
  BY <1>5, ClientsStore
<1>6. CASE Restart
  BY <1>6, RestartStore
<1>7. CASE UNCHANGED syncVars
  BY <1>7, StutterStore DEF syncVars
<1> QED
  BY <1>1, <1>2, <1>3, <1>4, <1>5, <1>6, <1>7 DEF SyncNext, SyncStep, SyncIdle

LEMMA SyncStoreInvHolds ==
  ASSUME WholeHeaders
  PROVE  SyncSpec => []StoreInv
<1>1. SyncInit => StoreInv
  BY StoreStarts DEF SyncInit
<1>2. HandlerInv /\ AnswerInv /\ StoreInv /\ [SyncNext]_syncVars => StoreInv'
  BY SyncNextStore
<1> QED
  BY <1>1, <1>2, SyncHandlerInvHolds, SyncAnswerInvHolds, PTL DEF SyncSpec

\* Only a failure ends the process.
LEMMA SyncEndIsFailure ==
  ASSUME [SyncNext]_syncVars, pc # "down", pc' = "down"
  PROVE  ServerFails \/ Kill
BY DEF SyncNext, SyncStep, SyncAccept, SyncClose,
       HandlerStep, FirstRecv, MoreRecv, UnknownCommand, GetFile, DeleteFile, PutRefused,
       PutOpen, Write, Answer, Send, SendError, ClientStep, handlerVars, Restart, SyncIdle,
       syncVars

(***************************************************************************)
(* Under runSync, when headers arrive in one piece and fit the buffer,     *)
(* the process only ends if it is killed or sends to a client that         *)
(* vanished: stoi never throws, and a client that ended its stream ends no *)
(* server.                                                                 *)
(***************************************************************************)
THEOREM SyncSurvivesClients ==
  ASSUME WholeHeaders
  PROVE  SyncSpec => ServerSurvives
<1>1. HandlerInv /\ StoreInv /\ [SyncNext]_syncVars
        => [pc # "down" /\ pc' = "down"
              => kills' # kills \/ peer[Conn] \notin {"live", "fin"}]_pc
  BY SyncEndIsFailure, FailureExcused
<1> QED
  BY <1>1, SyncHandlerInvHolds, SyncStoreInvHolds, PTL DEF SyncSpec, ServerSurvives
-----------------------------------------------------------------------------
\* The turns of the loop change nothing FileStore can see.
LEMMA SyncNextMaps ==
  ASSUME WholeHeaders, PromptDisk, HandlerInv, StoreInv, [SyncNext]_syncVars
  PROVE  [Store!Next]_(Store!absVars)
<1>1. CASE SyncAccept \/ SyncClose \/ Restart
  <2>1. UNCHANGED <<sent, req, files, reply>> /\ pc # "write" /\ pc' # "write"
    BY <1>1
       DEF SyncAccept, SyncClose, Restart,
           AcceptClient, Accepted, Released, CloseFd, storeVars, netVars, handlerVars
  <2> QED
    BY <2>1, QuietMaps
<1>2. CASE HandlerStep
  BY <1>2, HandlerStepMaps
<1>3. CASE ServerFails \/ Kill
  BY <1>3, FailureMaps
<1>4. CASE ClientStep
  BY <1>4, ClientsMap
<1>5. CASE UNCHANGED syncVars
  BY <1>5 DEF syncVars, netVars, handlerVars, Store!absVars, Arrived, Conn
<1> QED
  BY <1>1, <1>2, <1>3, <1>4, <1>5 DEF SyncNext, SyncStep, SyncIdle

(***************************************************************************)
(* When headers arrive in one piece, and no error hides in the stream      *)
(* buffer, runSync implements the store of FileStore: the requests of      *)
(* concurrent clients act one at a time and at most once, OK is said of a  *)
(* PUT only when its content is stored or its client cut it, and a crash   *)
(* damages no file but the one being written.                              *)
(***************************************************************************)
THEOREM SyncImplementsStore ==
  ASSUME WholeHeaders, PromptDisk
  PROVE  SyncSpec => ImplementsFileStore
<1>1. SyncInit => Store!Init
  BY StoreInitMaps DEF SyncInit
<1>2. HandlerInv /\ StoreInv /\ [SyncNext]_syncVars => [Store!Next]_(Store!absVars)
  BY SyncNextMaps
<1> QED
  BY <1>1, <1>2, SyncHandlerInvHolds, SyncStoreInvHolds, PTL
     DEF SyncSpec, ImplementsFileStore, Store!Spec
=============================================================================
