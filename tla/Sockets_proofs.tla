--------------------------- MODULE Sockets_proofs ---------------------------
(***************************************************************************)
(* What the socket layer keeps true by itself, whatever the clients do and *)
(* however a server uses it, proved one call at a time.  The proofs about  *)
(* the servers take their network steps from here.                         *)
(***************************************************************************)
EXTENDS Sockets, SequenceTheorems, TLAPS

\* A connection waits for accept at most once, and only until it is accepted.
QueueSound ==
  /\ \A k \in DOMAIN backlog : phase[backlog[k]] = "queued"
  /\ \A j, k \in DOMAIN backlog : backlog[j] = backlog[k] => j = k

\* No descriptor outlives its connection, and no connection has two.
TableSound ==
  /\ \A f \in Fds : fdConn[f] # NoConn => phase[fdConn[f]] = "open"
  /\ \A f, g \in Fds : fdConn[f] # NoConn /\ fdConn[f] = fdConn[g] => f = g

\* An open connection is always one the process has a descriptor for.
OpenHeld == \A c \in Conns : phase[c] = "open" => \E f \in Fds : fdConn[f] = c

\* Nothing is sent on a connection before it is accepted.
Untold == \A c \in Conns : phase[c] \in {"new", "queued"} => told[c] = 0

NetInv == NetTypeOK /\ QueueSound /\ TableSound /\ OpenHeld /\ Untold
-----------------------------------------------------------------------------
LEMMA NetStarts ==
  ASSUME NetInit
  PROVE  NetInv
<1>1. backlog \in Seq(Conns) /\ DOMAIN backlog = {}
  BY EmptySeq DEF NetInit
<1> QED
  BY <1>1 DEF NetInit, NetInv, NetTypeOK, QueueSound, TableSound, OpenHeld, Untold,
              Phases, Peers

LEMMA NetStutters ==
  ASSUME NetInv, UNCHANGED netVars
  PROVE  NetInv'
BY DEF NetInv, NetTypeOK, QueueSound, TableSound, OpenHeld, Untold, netVars, Phases, Peers

\* connect: the newcomer goes to the end of the accept queue.
LEMMA ConnectKeeps ==
  ASSUME NetInv, NEW c \in Conns, Connect(c)
  PROVE  NetInv'
<1> USE DEF NetInv, NetTypeOK
<1>1. /\ backlog' \in Seq(Conns)
      /\ DOMAIN backlog = 1 .. Len(backlog)
      /\ DOMAIN backlog' = 1 .. Len(backlog) + 1
      /\ \A k \in 1 .. Len(backlog) : backlog'[k] = backlog[k]
      /\ backlog'[Len(backlog) + 1] = c
  BY LenProperties, AppendProperties DEF Connect
<1>2. \A k \in DOMAIN backlog : backlog[k] # c
  BY DEF Connect, QueueSound
<1>3. NetTypeOK'
  BY <1>1 DEF Connect, Phases
<1>4. QueueSound'
  <2>1. \A k \in 1 .. Len(backlog) : backlog[k] \in Conns /\ phase[backlog[k]] = "queued"
    BY <1>1, ElementOfSeq DEF QueueSound
  <2>2. \A k \in DOMAIN backlog' :
          k = Len(backlog) + 1 \/ (k \in 1 .. Len(backlog) /\ k \in DOMAIN backlog)
    <3>1. Len(backlog) \in Nat
      BY LenProperties
    <3> QED
      BY <1>1, <3>1
  <2>3. \A k \in DOMAIN backlog' : phase'[backlog'[k]] = "queued"
    BY <1>1, <2>1, <2>2 DEF Connect
  <2>4. ASSUME NEW j \in DOMAIN backlog', NEW k \in DOMAIN backlog',
               backlog'[j] = backlog'[k]
        PROVE  j = k
    <3>1. CASE j = Len(backlog) + 1 \/ k = Len(backlog) + 1
      BY <1>1, <1>2, <2>2, <2>4, <3>1
    <3>2. CASE j \in DOMAIN backlog /\ k \in DOMAIN backlog
      BY <1>1, <2>4, <3>2 DEF QueueSound
    <3> QED
      BY <2>2, <3>1, <3>2
  <2> QED
    BY <2>3, <2>4 DEF QueueSound
<1>5. TableSound' /\ OpenHeld' /\ Untold'
  BY DEF Connect, TableSound, OpenHeld, Untold
<1> QED
  BY <1>3, <1>4, <1>5

\* Data, an end of stream or a reset arriving, and the client reading.
LEMMA ArrivalKeeps ==
  ASSUME NetInv, NEW c \in Conns, NEW n \in Nat,
         Deliver(c, n) \/ EndStream(c) \/ Reset(c) \/ Hear(c)
  PROVE  NetInv'
<1>1. UNCHANGED <<phase, backlog, fdConn, told>>
  BY DEF Deliver, EndStream, Reset, Hear
<1>2. NetTypeOK'
  <2>1. CASE Deliver(c, n) \/ EndStream(c) \/ Reset(c)
    BY <2>1 DEF NetInv, NetTypeOK, Deliver, EndStream, Reset, Peers, Phases
  <2>2. CASE Hear(c)
    <3>1. PICK m \in heard[c] + 1 .. told[c] : heard' = [heard EXCEPT ![c] = m]
      BY <2>2 DEF Hear
    <3>2. m \in Nat
      BY <3>1 DEF NetInv, NetTypeOK
    <3> QED
      BY <2>2, <3>1, <3>2 DEF NetInv, NetTypeOK, Hear
  <2> QED
    BY <2>1, <2>2
<1> QED
  BY <1>1, <1>2 DEF NetInv, NetTypeOK, QueueSound, TableSound, OpenHeld, Untold

\* recv, in either outcome.
LEMMA RecvKeeps ==
  ASSUME NetInv, NEW c \in Conns, RecvData(c) \/ RecvEnd(c)
  PROVE  NetInv'
<1>1. UNCHANGED <<phase, backlog, fdConn, told>>
  BY DEF RecvData, RecvEnd
<1>2. NetTypeOK'
  <2> USE DEF NetInv, NetTypeOK
  <2>1. Received(c) \in Nat
    BY SocketsAssumption DEF Received, Least
  <2>2. CASE RecvData(c)
    BY <2>1, <2>2 DEF RecvData
  <2>3. CASE RecvEnd(c)
    BY <2>3 DEF RecvEnd, Peers
  <2> QED
    BY <2>2, <2>3
<1> QED
  BY <1>1, <1>2 DEF NetInv, NetTypeOK, QueueSound, TableSound, OpenHeld, Untold

\* send: it takes some of the units left, and never more than there are.
LEMMA SendKeeps ==
  ASSUME NetInv, NEW c \in Conns, phase[c] = "open",
         NEW size \in Nat, told[c] < size, SendSome(c, size - told[c])
  PROVE  NetInv' /\ told'[c] <= size
<1> USE DEF NetInv, NetTypeOK
<1>1. UNCHANGED <<phase, backlog, fdConn, sent, rcvd, peer, heard>>
  BY DEF SendSome
<1>2. /\ told' = [told EXCEPT ![c] = told'[c]]
      /\ told'[c] \in Nat
      /\ told'[c] <= size
  BY SocketsAssumption DEF SendSome, Least
<1>3. NetTypeOK'
  BY <1>1, <1>2
<1>4. QueueSound' /\ TableSound' /\ OpenHeld'
  BY <1>1 DEF QueueSound, TableSound, OpenHeld
<1>5. Untold'
  BY <1>1, <1>2 DEF Untold
<1> QED
  BY <1>2, <1>3, <1>4, <1>5

LEMMA SendFailsKeeps ==
  ASSUME NetInv, NEW c \in Conns, SendFails(c)
  PROVE  NetInv'
<1>1. UNCHANGED <<phase, backlog, fdConn, told>>
  BY DEF SendFails
<1>2. NetTypeOK'
  BY DEF NetInv, NetTypeOK, SendFails, Peers, Phases
<1> QED
  BY <1>1, <1>2 DEF NetInv, NetTypeOK, QueueSound, TableSound, OpenHeld, Untold

\* accept: the oldest connection leaves the queue for the descriptor f.
LEMMA AcceptKeeps ==
  ASSUME NetInv, NEW f \in Fds, Accepted(f)
  PROVE  /\ NetInv'
         /\ \A g \in Fds : g # f => fdConn'[g] = fdConn[g]
         /\ fdConn[f] = NoConn /\ fdConn'[f] \in Conns /\ told'[fdConn'[f]] = 0
<1> USE DEF NetInv, NetTypeOK
<1> DEFINE c == Head(backlog)
<1>1. /\ c \in Conns /\ c = backlog[1] /\ 1 \in DOMAIN backlog
      /\ backlog' \in Seq(Conns)
  BY LenProperties, HeadTailProperties, EmptySeq DEF Accepted
<1>2. \A k \in DOMAIN backlog' :
        /\ k \in Nat \ {0}
        /\ k + 1 \in DOMAIN backlog
        /\ backlog'[k] = backlog[k + 1]
        /\ backlog'[k] \in Conns
        /\ backlog'[k] # c
        /\ phase[backlog'[k]] = "queued"
  <2>1. /\ Len(backlog) \in Nat
        /\ DOMAIN backlog = 1 .. Len(backlog)
        /\ DOMAIN backlog' = 1 .. Len(backlog) - 1
        /\ \A k \in 1 .. Len(backlog) - 1 : backlog'[k] = backlog[k + 1]
    BY LenProperties, HeadTailProperties, EmptySeq DEF Accepted
  <2> SUFFICES ASSUME NEW k \in DOMAIN backlog'
               PROVE  /\ k \in Nat \ {0}
                      /\ k + 1 \in DOMAIN backlog
                      /\ backlog'[k] = backlog[k + 1]
                      /\ backlog'[k] \in Conns
                      /\ backlog'[k] # c
                      /\ phase[backlog'[k]] = "queued"
    OBVIOUS
  <2>2. k \in Nat \ {0} /\ k + 1 \in 1 .. Len(backlog) /\ backlog'[k] = backlog[k + 1]
    <3>1. k \in 1 .. Len(backlog) - 1
      BY <2>1
    <3> HIDE DEF NetInv, NetTypeOK
    <3>2. k \in Nat \ {0} /\ k + 1 \in 1 .. Len(backlog)
      BY <2>1, <3>1
    <3> QED
      BY <2>1, <3>1, <3>2
  <2>3. backlog[k + 1] \in Conns
    BY <2>2, ElementOfSeq
  <2>4. backlog[k + 1] # backlog[1] /\ phase[backlog[k + 1]] = "queued"
    <3>1. k + 1 # 1
      BY <2>2
    <3> QED
      BY <1>1, <2>1, <2>2, <3>1 DEF QueueSound
  <2> QED
    BY <1>1, <2>1, <2>2, <2>3, <2>4
<1>3. phase[c] = "queued"
  BY <1>1 DEF QueueSound
<1>4. /\ fdConn[f] = NoConn
      /\ phase' = [phase EXCEPT ![c] = "open"]
      /\ fdConn' = [fdConn EXCEPT ![f] = c]
      /\ UNCHANGED <<sent, rcvd, peer, told, heard>>
  BY DEF Accepted, LowestFree
<1>5. NetTypeOK'
  BY <1>1, <1>4 DEF Phases
<1>6. QueueSound'
  <2>1. \A k \in DOMAIN backlog' : phase'[backlog'[k]] = "queued"
    BY <1>1, <1>2, <1>4
  <2>2. ASSUME NEW j \in DOMAIN backlog', NEW k \in DOMAIN backlog',
               backlog'[j] = backlog'[k]
        PROVE  j = k
    <3>1. j + 1 = k + 1
      BY <1>2, <2>2 DEF QueueSound
    <3> QED
      BY <1>2, <3>1
  <2> QED
    BY <2>1, <2>2 DEF QueueSound
<1>7. \A g \in Fds : fdConn[g] # c
  BY <1>1, <1>3, ConnectionsAssumption DEF TableSound
<1>8. TableSound'
  BY <1>1, <1>4, <1>7, ConnectionsAssumption DEF TableSound
<1>9. OpenHeld'
  BY <1>1, <1>4, ConnectionsAssumption DEF OpenHeld
<1>10. Untold' /\ told'[c] = 0
  BY <1>1, <1>3, <1>4 DEF Untold
<1> QED
  BY <1>1, <1>4, <1>5, <1>6, <1>8, <1>9, <1>10

\* close of a descriptor that stands for a connection.
LEMMA CloseKeeps ==
  ASSUME NetInv, NEW f \in Fds, fdConn[f] # NoConn, CloseFd(f)
  PROVE  /\ NetInv'
         /\ fdConn' = [fdConn EXCEPT ![f] = NoConn]
         /\ \A g \in Fds \ {f} : FdReady(g) => FdReady(g)'
<1> USE DEF NetInv, NetTypeOK
<1> DEFINE c == fdConn[f]
<1>1. /\ c \in Conns
      /\ fdConn' = [fdConn EXCEPT ![f] = NoConn]
      /\ phase' = [phase EXCEPT ![c] = "closed"]
      /\ peer' = [peer EXCEPT ![c] = IF Abandoned(c) THEN "gone" ELSE @]
      /\ UNCHANGED <<backlog, sent, rcvd, told, heard>>
  BY DEF CloseFd
<1>2. phase[c] = "open" /\ \A g \in Fds : g # f => fdConn[g] # c
  BY <1>1 DEF TableSound
<1>3. NetTypeOK'
  BY <1>1 DEF Phases, Peers
<1>4. QueueSound'
  BY <1>1, <1>2, ElementOfSeq, LenProperties DEF QueueSound
<1>5. TableSound'
  BY <1>1, <1>2 DEF TableSound
<1>6. OpenHeld'
  BY <1>1, <1>2 DEF OpenHeld
<1>7. Untold'
  BY <1>1 DEF Untold
<1>8. \A g \in Fds \ {f} : FdReady(g) => FdReady(g)'
  BY <1>1, <1>2 DEF FdReady, Readable
<1> QED
  BY <1>1, <1>3, <1>4, <1>5, <1>6, <1>7, <1>8

\* The end of the process.
LEMMA CloseAllKeeps ==
  ASSUME NetInv, CloseAll
  PROVE  NetInv' /\ \A f \in Fds : fdConn'[f] = NoConn
<1> USE DEF NetInv, NetTypeOK
<1>1. backlog' = <<>> /\ backlog' \in Seq(Conns) /\ DOMAIN backlog' = {}
  BY EmptySeq DEF CloseAll
<1>2. /\ fdConn' = [f \in Fds |-> NoConn]
      /\ phase' = [c \in Conns |-> IF phase[c] = "new" THEN "new" ELSE "closed"]
      /\ peer' \in [Conns -> Peers]
      /\ UNCHANGED <<sent, rcvd, told, heard>>
  BY DEF CloseAll, Peers
<1>3. NetTypeOK'
  BY <1>1, <1>2 DEF Phases
<1>4. QueueSound' /\ TableSound' /\ OpenHeld' /\ Untold'
  BY <1>1, <1>2 DEF QueueSound, TableSound, OpenHeld, Untold
<1> QED
  BY <1>2, <1>3, <1>4
-----------------------------------------------------------------------------
(***************************************************************************)
(* A descriptor that is ready stays ready until the server itself reads    *)
(* from it or closes it: nothing a client does, and no call on another     *)
(* descriptor, takes the reason for epoll's or select's report away.       *)
(***************************************************************************)
LEMMA ReadyStaysForClients ==
  ASSUME NetInv, NEW c \in Conns, NEW n \in Nat, NEW f \in Fds, FdReady(f),
         Connect(c) \/ Deliver(c, n) \/ EndStream(c) \/ Reset(c) \/ Hear(c)
  PROVE  FdReady(f)'
<1> DEFINE d == fdConn[f]
<1>1. d \in Conns /\ d # NoConn /\ (sent[d] > rcvd[d] \/ peer[d] # "live")
  BY ConnectionsAssumption DEF NetInv, NetTypeOK, FdReady, Readable
<1>2. fdConn' = fdConn /\ rcvd' = rcvd
  BY DEF Connect, Deliver, EndStream, Reset, Hear
<1>3. sent[d] > rcvd[d] => sent'[d] > rcvd[d]
  <2>1. CASE Deliver(c, n)
    BY <1>1, <2>1 DEF NetInv, NetTypeOK, Deliver
  <2>2. CASE ~Deliver(c, n)
    BY <2>2 DEF Connect, EndStream, Reset, Hear
  <2> QED
    BY <2>1, <2>2
<1>4. peer[d] # "live" => peer'[d] # "live"
  BY <1>1 DEF NetInv, NetTypeOK, Connect, Deliver, EndStream, Reset, Hear
<1> QED
  BY <1>1, <1>2, <1>3, <1>4 DEF FdReady, Readable

LEMMA ReadyStaysForCalls ==
  ASSUME NetInv, NEW f \in Fds, FdReady(f), NEW g \in Fds, g # f, fdConn[g] # NoConn,
         NEW k, RecvData(fdConn[g]) \/ RecvEnd(fdConn[g])
                \/ SendSome(fdConn[g], k) \/ SendFails(fdConn[g])
  PROVE  FdReady(f)'
<1>1. fdConn[f] \in Conns /\ fdConn[g] \in Conns /\ fdConn[f] # fdConn[g]
  BY DEF NetInv, NetTypeOK, TableSound, FdReady
<1> QED
  BY <1>1 DEF NetInv, NetTypeOK, FdReady, Readable, RecvData, RecvEnd, SendSome, SendFails

LEMMA ReadyStaysForAccept ==
  ASSUME NetInv, NEW f \in Fds, FdReady(f), NEW g \in Fds, Accepted(g)
  PROVE  FdReady(f)'
<1>1. f # g
  BY DEF FdReady, Accepted, LowestFree
<1>2. fdConn'[f] = fdConn[f] /\ UNCHANGED <<sent, rcvd, peer>>
  BY <1>1 DEF NetInv, NetTypeOK, Accepted
<1> QED
  BY <1>2 DEF FdReady, Readable
-----------------------------------------------------------------------------
(* The vectors in which the servers keep their clients. *)

LEMMA Singleton ==
  ASSUME NEW S, NEW x \in S
  PROVE  <<x>> \in Seq(S) /\ Len(<<x>>) = 1 /\ <<x>>[1] = x
OBVIOUS

LEMMA Appended ==
  ASSUME NEW S, NEW s \in Seq(S), NEW x \in S
  PROVE  /\ Append(s, x) \in Seq(S)
         /\ Len(Append(s, x)) = Len(s) + 1
         /\ \A k \in 1 .. Len(s) : Append(s, x)[k] = s[k]
         /\ Append(s, x)[Len(s) + 1] = x
BY AppendProperties

\* What erasing one entry of a vector leaves.
Erased(s, i) == SubSeq(s, 1, i - 1) \o SubSeq(s, i + 1, Len(s))

LEMMA EraseProperties ==
  ASSUME NEW S, NEW s \in Seq(S), NEW i \in DOMAIN s
  PROVE  /\ Erased(s, i) \in Seq(S)
         /\ Len(s) \in Nat /\ DOMAIN s = 1 .. Len(s)
         /\ Len(Erased(s, i)) = Len(s) - 1
         /\ DOMAIN Erased(s, i) = 1 .. Len(s) - 1
         /\ \A k \in DOMAIN Erased(s, i) :
              Erased(s, i)[k] = IF k < i THEN s[k] ELSE s[k + 1]
<1> DEFINE t == Erased(s, i)
           a == SubSeq(s, 1, i - 1)
           b == SubSeq(s, i + 1, Len(s))
<1>1. Len(s) \in Nat /\ DOMAIN s = 1 .. Len(s) /\ i \in 1 .. Len(s)
  BY LenProperties
<1>2. /\ a \in Seq(S) /\ Len(a) = i - 1
      /\ \A k \in 1 .. i - 1 : a[k] = s[k]
  <2>1. \A k \in 1 .. i - 1 : s[k] \in S
    BY <1>1, ElementOfSeq
  <2> QED
    BY <1>1, <2>1, SubSeqProperties
<1>3. /\ b \in Seq(S) /\ Len(b) = Len(s) - i
      /\ \A k \in 1 .. Len(s) - i : b[k] = s[i + k]
  <2>1. \A k \in i + 1 .. Len(s) : s[k] \in S
    BY <1>1, ElementOfSeq
  <2>2. /\ b \in Seq(S)
        /\ Len(b) = IF i + 1 <= Len(s) THEN Len(s) - (i + 1) + 1 ELSE 0
        /\ \A k \in 1 .. Len(s) - (i + 1) + 1 : b[k] = s[i + 1 + k - 1]
    BY <1>1, <2>1, SubSeqProperties
  <2> QED
    BY <1>1, <2>2
<1>4. /\ t \in Seq(S) /\ Len(t) = Len(s) - 1
      /\ \A k \in 1 .. Len(s) - 1 : t[k] = IF k <= i - 1 THEN a[k] ELSE b[k - (i - 1)]
  <2>1. t = a \o b
    BY DEF Erased
  <2> HIDE DEF t, a, b
  <2>2. /\ a \o b \in Seq(S) /\ Len(a \o b) = Len(a) + Len(b)
        /\ \A k \in 1 .. Len(a) + Len(b) :
             (a \o b)[k] = IF k <= Len(a) THEN a[k] ELSE b[k - Len(a)]
    BY <1>2, <1>3, ConcatProperties
  <2>3. Len(a) + Len(b) = Len(s) - 1
    BY <1>1, <1>2, <1>3
  <2> QED
    BY <1>2, <2>1, <2>2, <2>3
<1>5. DOMAIN t = 1 .. Len(s) - 1
  <2> HIDE DEF t
  <2> QED
    BY <1>4, LenProperties
<1> HIDE DEF t, a, b
<1>6. \A k \in 1 .. Len(s) - 1 : t[k] = IF k < i THEN s[k] ELSE s[k + 1]
  <2> SUFFICES ASSUME NEW k \in 1 .. Len(s) - 1
               PROVE  t[k] = IF k < i THEN s[k] ELSE s[k + 1]
    OBVIOUS
  <2>1. CASE k < i
    BY <1>1, <1>2, <1>4, <2>1
  <2>2. CASE ~(k < i)
    <3>1. k - (i - 1) \in 1 .. Len(s) - i /\ i + (k - (i - 1)) = k + 1 /\ ~(k <= i - 1)
      <4>1. k \in Nat /\ i \in Nat /\ k <= Len(s) - 1 /\ 1 <= i
        BY <1>1
      <4> QED
        BY <1>1, <2>2, <4>1
    <3>2. t[k] = b[k - (i - 1)]
      BY <1>4, <3>1
    <3> QED
      BY <1>3, <2>2, <3>1, <3>2
  <2> QED
    BY <2>1, <2>2
<1> QED
  BY <1>1, <1>4, <1>5, <1>6 DEF t
=============================================================================
