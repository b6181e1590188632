-------------------------- MODULE EchoLoops_proofs --------------------------
(***************************************************************************)
(* Proofs about the epoll, poll and select echo servers, for any number of *)
(* clients, descriptors, events and slots.  The first part is about the    *)
(* reads, sends and closes of EchoServer, whichever loop drives them: the  *)
(* server works on a descriptor that is open, and what it has handed back, *)
(* with what the send in progress still owes, is what it has read.  Then   *)
(* there is one part for each loop.  Lecture 3 runs the first two loops    *)
(* beside descriptors they know nothing about; what concerns those is      *)
(* stated for a set E of descriptors that stay open and belong to nobody's *)
(* loop, which is empty for the programs of Lecture 2.                     *)
(***************************************************************************)
EXTENDS EchoEpoll, EchoPoll, EchoSelect, Sockets_proofs, FiniteSetTheorems,
        WellFoundedInduction

Working == {"read", "send"}

\* The server reads from and sends to a connection, not to a free descriptor.
Busy == pc \in Working => fdConn[cur] # NoConn

\* A connection is closed when all of its stream has been read, or it is reset.
ReadToTheEnd ==
  \A c \in Conns :
    /\ rcvd[c] <= sent[c]
    /\ phase[c] = "closed" /\ peer[c] \in {"live", "fin"} => sent[c] = rcvd[c]

ServeInv == NetInv /\ EchoTypeOK /\ Busy /\ ReadToTheEnd

\* What the send in progress owes this connection.
Pending(c) == IF pc = "send" /\ c = Conn THEN owed ELSE 0

(***************************************************************************)
(* As long as a connection in C is not reset, nothing read from it is      *)
(* forgotten, unless one of the units in N was among it.                   *)
(***************************************************************************)
Accounted(C, N) ==
  \A c \in C : peer[c] \in {"live", "fin"} =>
    /\ told[c] + Pending(c) <= rcvd[c]
    /\ told[c] + Pending(c) < rcvd[c] => N \cap 1 .. rcvd[c] # {}
-----------------------------------------------------------------------------
LEMMA ServedIsOpen ==
  ASSUME ServeInv, pc \in Working
  PROVE  /\ cur \in Fds /\ Conn \in Conns /\ phase[Conn] = "open"
         /\ sent[Conn] \in Nat /\ rcvd[Conn] \in Nat /\ told[Conn] \in Nat
         /\ fdConn[cur] # NoConn /\ Conn = fdConn[cur]
BY DEF ServeInv, EchoTypeOK, Busy, Conn, NetInv, NetTypeOK, TableSound

LEMMA EchoStarts ==
  ASSUME EchoInit
  PROVE  ServeInv /\ \A N : Accounted(Conns, N)
<1>1. NetInv
  BY NetStarts DEF EchoInit
<1>2. EchoTypeOK
  BY SocketsAssumption DEF EchoInit, EchoTypeOK, Fds
<1>3. Busy /\ ReadToTheEnd
  BY DEF EchoInit, NetInit, Busy, ReadToTheEnd, Working
<1>4. ASSUME NEW c \in Conns PROVE told[c] = 0 /\ rcvd[c] = 0 /\ Pending(c) = 0
  BY DEF EchoInit, NetInit, Pending
<1>5. 0 + 0 <= 0 /\ ~(0 + 0 < 0)
  OBVIOUS
<1> QED
  BY <1>1, <1>2, <1>3, <1>4, <1>5, Zenon DEF ServeInv, Accounted

(***************************************************************************)
(* A step that neither reads nor hands anything back, and that mends no    *)
(* connection, leaves the account as it is.                                *)
(***************************************************************************)
LEMMA QuietAccounts ==
  ASSUME NEW C \in SUBSET Conns, NEW N, ServeInv, Accounted(C, N),
         UNCHANGED <<rcvd, told>>,
         \A c \in Conns : peer'[c] \in {"live", "fin"} => peer[c] \in {"live", "fin"},
         (pc # "send" /\ pc' # "send") \/ UNCHANGED <<pc, cur, owed, fdConn>>
  PROVE  Accounted(C, N)'
<1>1. ASSUME NEW c \in Conns PROVE Pending(c)' = Pending(c)
  BY DEF Pending, Conn
<1> QED
  BY <1>1 DEF Accounted

LEMMA ClientsKeep ==
  ASSUME ServeInv, ClientStep
  PROVE  /\ ServeInv' /\ UNCHANGED <<fdConn, rcvd, told, echoVars>>
         /\ \A c \in Conns : peer'[c] \in {"live", "fin"} => peer[c] \in {"live", "fin"}
         /\ \A f \in Fds : FdReady(f) => FdReady(f)'
<1>1. PICK c \in Conns : Ask(c) \/ Say(c) \/ Leave(c) \/ Vanish(c) \/ Hear(c)
  BY DEF ClientStep
<1>2. PICK n \in Nat : Connect(c) \/ Deliver(c, n) \/ EndStream(c) \/ Reset(c) \/ Hear(c)
  BY <1>1, EchoAssumption DEF Ask, Say, Leave, Vanish
<1>3. NetInv'
  BY <1>2, ConnectKeeps, ArrivalKeeps DEF ServeInv
<1>4. UNCHANGED <<fdConn, rcvd, told, pc, cur, owed>>
  BY <1>2 DEF ClientStep, echoVars, Connect, Deliver, EndStream, Reset, Hear
<1>5. \A d \in Conns :
        /\ peer'[d] \in {"live", "fin"} => peer[d] \in {"live", "fin"}
        /\ phase'[d] = "closed" => phase[d] = "closed" /\ sent'[d] = sent[d]
  BY <1>2 DEF ServeInv, NetInv, NetTypeOK, Connect, Deliver, EndStream, Reset, Hear
<1>6. \A f \in Fds : FdReady(f) => FdReady(f)'
  BY <1>2, ReadyStaysForClients DEF ServeInv
<1>7. EchoTypeOK' /\ Busy'
  BY <1>4 DEF ServeInv, EchoTypeOK, Busy
<1>8. ReadToTheEnd'
  <2>1. ASSUME NEW d \in Conns
        PROVE  sent[d] \in Nat /\ rcvd[d] \in Nat /\ sent'[d] \in Nat /\ sent[d] <= sent'[d]
    <3>1. CASE Deliver(c, n)
      BY <3>1 DEF ServeInv, NetInv, NetTypeOK, Deliver
    <3>2. CASE ~Deliver(c, n)
      BY <1>2, <3>2 DEF ServeInv, NetInv, NetTypeOK, Connect, EndStream, Reset, Hear
    <3> QED
      BY <3>1, <3>2
  <2> QED
    BY <1>4, <1>5, <2>1 DEF ServeInv, ReadToTheEnd
<1> QED
  BY <1>3, <1>4, <1>5, <1>6, <1>7, <1>8 DEF ServeInv, echoVars

\* The loop moves on, perhaps to read from a connection, and touches none.
LEMMA TurnKeeps ==
  ASSUME ServeInv, UNCHANGED <<netVars, owed>>, pc # "down",
         pc' \in {"wait", "accept", "scan", "read"}, cur' \in Fds,
         pc' = "read" => fdConn[cur'] # NoConn
  PROVE  ServeInv'
<1>1. NetInv'
  BY NetStutters DEF ServeInv
<1>2. EchoTypeOK' /\ Busy' /\ ReadToTheEnd'
  BY DEF ServeInv, EchoTypeOK, Busy, ReadToTheEnd, Working, netVars
<1> QED
  BY <1>1, <1>2 DEF ServeInv

LEMMA AcceptedKeeps ==
  ASSUME ServeInv, NEW f \in Fds, Accepted(f), pc \notin Working, pc # "down",
         pc' \in {"wait", "scan"}, UNCHANGED <<cur, owed>>
  PROVE  /\ ServeInv' /\ UNCHANGED <<sent, rcvd, peer, told>>
         /\ fdConn[f] = NoConn /\ fdConn'[f] # NoConn
         /\ \A g \in Fds : g # f => fdConn'[g] = fdConn[g]
         /\ \A g \in Fds : FdReady(g) => FdReady(g)'
<1>1. /\ NetInv'
      /\ \A g \in Fds : g # f => fdConn'[g] = fdConn[g]
      /\ fdConn'[f] \in Conns /\ fdConn[f] = NoConn
  BY AcceptKeeps DEF ServeInv
<1>2. \A g \in Fds : FdReady(g) => FdReady(g)'
  BY ReadyStaysForAccept DEF ServeInv
<1>3. UNCHANGED <<sent, rcvd, peer, told>>
  BY DEF Accepted
<1>4. \A d \in Conns : phase'[d] = "closed" => phase[d] = "closed"
  BY DEF Accepted, ServeInv, NetInv, NetTypeOK
<1>5. EchoTypeOK' /\ Busy' /\ ReadToTheEnd'
  BY <1>3, <1>4 DEF ServeInv, EchoTypeOK, Busy, ReadToTheEnd, Working
<1> QED
  BY <1>1, <1>2, <1>3, <1>5, ConnectionsAssumption DEF ServeInv

\* A read that returned data.
LEMMA RecvServes ==
  ASSUME ServeInv, pc = "read", RecvData(Conn), UNCHANGED cur,
         pc' \in {"send", "scan"}, owed' \in Nat
  PROVE  /\ ServeInv' /\ UNCHANGED <<fdConn, peer, sent, told>>
         /\ rcvd' = [rcvd EXCEPT ![Conn] = Received(Conn)]
         /\ Received(Conn) \in Nat /\ rcvd[Conn] < Received(Conn)
         /\ Received(Conn) <= sent[Conn]
         /\ \A f \in Fds \ {cur} : FdReady(f) => FdReady(f)'
<1>1. /\ cur \in Fds /\ Conn \in Conns /\ sent[Conn] \in Nat /\ rcvd[Conn] \in Nat
      /\ phase[Conn] = "open" /\ fdConn[cur] # NoConn /\ Conn = fdConn[cur]
  BY ServedIsOpen DEF Working
<1>2. /\ rcvd' = [rcvd EXCEPT ![Conn] = Received(Conn)]
      /\ UNCHANGED <<phase, backlog, fdConn, sent, peer, told, heard>>
      /\ sent[Conn] > rcvd[Conn]
  BY DEF RecvData
<1>3. /\ Received(Conn) \in Nat /\ rcvd[Conn] < Received(Conn)
      /\ Received(Conn) <= sent[Conn]
  BY <1>1, <1>2, SocketsAssumption DEF Received, Least
<1>4. NetInv'
  BY <1>1, RecvKeeps DEF ServeInv
<1>5. EchoTypeOK' /\ Busy'
  BY <1>1, <1>2 DEF ServeInv, EchoTypeOK, Busy
<1>6. ReadToTheEnd'
  <2>1. ASSUME NEW c \in Conns
        PROVE  /\ rcvd'[c] = IF c = Conn THEN Received(c) ELSE rcvd[c]
               /\ phase[c] = "closed" => rcvd'[c] = rcvd[c]
    BY <1>1, <1>2 DEF ServeInv, NetInv, NetTypeOK
  <2> QED
    BY <1>2, <1>3, <2>1 DEF ServeInv, ReadToTheEnd
<1>7. \A f \in Fds \ {cur} : FdReady(f) => FdReady(f)'
  BY <1>1, ReadyStaysForCalls DEF ServeInv
<1> QED
  BY <1>2, <1>3, <1>4, <1>5, <1>6, <1>7 DEF ServeInv

\* All that was read is owed, except what follows a unit in N.
LEMMA ReadAccounts ==
  ASSUME NEW C \in SUBSET Conns, NEW N, ServeInv, Accounted(C, N),
         NEW n \in Nat, ReadThenSend(n),
         n <= Received(Conn) - rcvd[Conn],
         n < Received(Conn) - rcvd[Conn] => N \cap rcvd[Conn] + 1 .. Received(Conn) # {}
  PROVE  Accounted(C, N)'
<1>1. pc = "read" /\ pc' = "send" /\ owed' = n /\ RecvData(Conn) /\ UNCHANGED cur
  BY DEF ReadThenSend
<1>2. /\ UNCHANGED <<fdConn, peer, told>> /\ Conn' = Conn /\ Conn \in Conns
      /\ rcvd' = [rcvd EXCEPT ![Conn] = Received(Conn)]
      /\ Received(Conn) \in Nat /\ rcvd[Conn] < Received(Conn)
  BY <1>1, RecvServes, ServedIsOpen DEF Conn, Working
<1> SUFFICES ASSUME NEW c \in C, peer[c] \in {"live", "fin"}
             PROVE  /\ told[c] + Pending(c)' <= rcvd'[c]
                    /\ told[c] + Pending(c)' < rcvd'[c] => N \cap 1 .. rcvd'[c] # {}
  BY <1>2 DEF Accounted
<1>3. /\ told[c] \in Nat /\ rcvd[c] \in Nat /\ told[c] <= rcvd[c]
      /\ told[c] < rcvd[c] => N \cap 1 .. rcvd[c] # {}
  BY <1>1 DEF ServeInv, NetInv, NetTypeOK, Accounted, Pending
<1>4. CASE c = Conn
  <2>1. Pending(c)' = n /\ rcvd'[c] = Received(c)
    BY <1>1, <1>2, <1>4 DEF Pending, ServeInv, NetInv, NetTypeOK
  <2>2. told[c] + n <= Received(c)
    BY <1>2, <1>3, <1>4
  <2>3. ASSUME told[c] + n < Received(c) PROVE N \cap 1 .. Received(c) # {}
    <3>1. CASE told[c] < rcvd[c]
      <4>1. 1 .. rcvd[c] \subseteq 1 .. Received(c)
        BY <1>2, <1>3, <1>4
      <4> QED
        BY <1>3, <3>1, <4>1
    <3>2. CASE told[c] = rcvd[c]
      <4>1. n < Received(c) - rcvd[c]
        BY <1>2, <1>3, <1>4, <2>3, <3>2
      <4>2. rcvd[c] + 1 .. Received(c) \subseteq 1 .. Received(c)
        BY <1>2, <1>3, <1>4
      <4> QED
        BY <1>4, <4>1, <4>2
    <3> QED
      BY <1>3, <3>1, <3>2
  <2> QED
    BY <2>1, <2>2, <2>3
<1>5. CASE c # Conn
  <2>1. Pending(c)' = 0 /\ rcvd'[c] = rcvd[c]
    BY <1>2, <1>5 DEF Pending, ServeInv, NetInv, NetTypeOK
  <2> QED
    BY <1>3, <2>1
<1> QED
  BY <1>4, <1>5

\* send: what it hands over it no longer owes; or the connection was reset.
LEMMA SendServes ==
  ASSUME ServeInv, NEW next \in {"wait", "scan"}, SendOn(next) \/ SendLost(next)
  PROVE  /\ ServeInv' /\ pc = "send" /\ pc' \in {"send", next}
         /\ UNCHANGED <<fdConn, cur, sent, rcvd>>
         /\ SendOn(next) =>
              /\ peer' = peer /\ told' = [told EXCEPT ![Conn] = told'[Conn]]
              /\ told'[Conn] \in Nat /\ owed' = owed - (told'[Conn] - told[Conn])
              /\ pc' = IF owed' = 0 THEN next ELSE "send"
         /\ \A f \in Fds \ {cur} : FdReady(f) => FdReady(f)'
<1>1. pc = "send" /\ pc' \in {"send", next} /\ UNCHANGED cur
  BY DEF SendOn, SendLost
<1>2. /\ cur \in Fds /\ Conn \in Conns /\ phase[Conn] = "open"
      /\ told[Conn] \in Nat /\ rcvd[Conn] \in Nat /\ owed \in Nat
      /\ fdConn[cur] # NoConn /\ Conn = fdConn[cur]
  BY <1>1, ServedIsOpen DEF Working, ServeInv, EchoTypeOK
<1>3. UNCHANGED <<phase, fdConn, sent, rcvd>>
  BY <1>1 DEF SendOn, SendLost, SendSome, SendFails
<1>4. \A f \in Fds \ {cur} : FdReady(f) => FdReady(f)'
  BY <1>2, ReadyStaysForCalls DEF ServeInv, SendOn, SendLost
<1>5. \A c \in Conns : peer'[c] \in {"live", "fin"} => peer[c] = peer'[c]
  BY DEF ServeInv, NetInv, NetTypeOK, SendOn, SendLost, SendSome, SendFails
<1>6. Busy' /\ ReadToTheEnd'
  BY <1>1, <1>2, <1>3, <1>5 DEF ServeInv, Busy, ReadToTheEnd
<1>7. CASE SendOn(next)
  <2>1. /\ SendSome(Conn, owed) /\ owed > 0
        /\ owed' = owed - (told'[Conn] - told[Conn])
        /\ pc' = IF owed' = 0 THEN next ELSE "send"
    BY <1>7 DEF SendOn
  <2>2. NetInv' /\ told'[Conn] <= told[Conn] + owed
    <3> DEFINE size == told[Conn] + owed
    <3>1. size \in Nat /\ told[Conn] < size /\ size - told[Conn] = owed
      BY <1>2, <2>1
    <3>2. SendSome(Conn, size - told[Conn])
      BY <2>1, <3>1
    <3> HIDE DEF size
    <3>3. NetInv' /\ told'[Conn] <= size
      BY <1>2, <3>1, <3>2, SendKeeps DEF ServeInv
    <3> QED
      BY <3>3 DEF size
  <2>3. /\ told'[Conn] \in Nat /\ peer' = peer
        /\ told' = [told EXCEPT ![Conn] = told'[Conn]]
    BY <1>2, <2>1, <2>2 DEF SendSome, ServeInv, NetInv, NetTypeOK
  <2>4. owed' \in Nat
    <3>1. told[Conn] <= told'[Conn]
      <4>1. heard[Conn] \in Nat
        BY <1>2 DEF ServeInv, NetInv, NetTypeOK
      <4> QED
        BY <1>2, <2>1, <4>1, SocketsAssumption
           DEF SendSome, Least, ServeInv, NetInv, NetTypeOK
    <3> QED
      BY <1>2, <2>1, <2>2, <2>3, <3>1
  <2>5. EchoTypeOK'
    BY <1>1, <2>4 DEF ServeInv, EchoTypeOK
  <2>6. ServeInv'
    BY <1>6, <2>2, <2>5 DEF ServeInv
  <2> QED
    BY <1>1, <1>3, <1>4, <2>1, <2>3, <2>6
<1>8. CASE SendLost(next) /\ ~SendOn(next)
  <2>1. SendFails(Conn) /\ owed' = 0
    BY <1>8 DEF SendLost
  <2>2. NetInv'
    BY <1>2, <2>1, SendFailsKeeps DEF ServeInv
  <2>3. EchoTypeOK'
    BY <1>1, <2>1 DEF ServeInv, EchoTypeOK
  <2> QED
    BY <1>1, <1>3, <1>4, <1>6, <1>8, <2>2, <2>3 DEF ServeInv
<1> QED
  BY <1>7, <1>8

LEMMA SendAccounts ==
  ASSUME NEW C \in SUBSET Conns, NEW N, ServeInv, Accounted(C, N),
         NEW next \in {"wait", "scan"}, SendOn(next) \/ SendLost(next)
  PROVE  Accounted(C, N)'
<1>1. /\ pc = "send" /\ pc' \in {"send", next} /\ UNCHANGED <<fdConn, cur, sent, rcvd>>
      /\ Conn' = Conn /\ Conn \in Conns /\ owed \in Nat
  BY SendServes, ServedIsOpen DEF Conn, Working, ServeInv, EchoTypeOK
<1>2. CASE SendOn(next)
  <2>1. /\ peer' = peer /\ told' = [told EXCEPT ![Conn] = told'[Conn]]
        /\ told'[Conn] \in Nat /\ owed' = owed - (told'[Conn] - told[Conn])
        /\ pc' = IF owed' = 0 THEN next ELSE "send"
    BY <1>2, SendServes
  <2>2. ASSUME NEW c \in Conns
        PROVE  told'[c] + Pending(c)' = told[c] + Pending(c)
    <3>1. CASE c = Conn
      <4>1. Pending(c) = owed /\ Pending(c)' = owed'
        BY <1>1, <2>1, <3>1 DEF Pending
      <4> QED
        BY <1>1, <2>1, <3>1, <4>1 DEF ServeInv, NetInv, NetTypeOK
    <3>2. CASE c # Conn
      BY <1>1, <2>1, <3>2 DEF Pending, ServeInv, NetInv, NetTypeOK
    <3> QED
      BY <3>1, <3>2
  <2> QED
    BY <1>1, <2>1, <2>2 DEF Accounted
<1>3. CASE SendLost(next)
  <2>1. /\ pc' = next /\ peer' = [peer EXCEPT ![Conn] = "gone"] /\ told' = told
    BY <1>3 DEF SendLost, SendFails
  <2>2. ASSUME NEW c \in Conns, peer'[c] \in {"live", "fin"}
        PROVE  peer[c] \in {"live", "fin"} /\ Pending(c)' = Pending(c)
    BY <1>1, <2>1, <2>2 DEF Pending, ServeInv, NetInv, NetTypeOK
  <2> QED
    BY <1>1, <2>1, <2>2 DEF Accounted
<1> QED
  BY <1>2, <1>3

\* read returned 0: all of the stream was read, and the descriptor is closed.
LEMMA HangUpKeeps ==
  ASSUME ServeInv, ReadEnd, CloseFd(cur), pc' \in {"wait", "scan"}, UNCHANGED <<cur, owed>>
  PROVE  /\ ServeInv' /\ pc = "read" /\ fdConn' = [fdConn EXCEPT ![cur] = NoConn]
         /\ UNCHANGED <<sent, rcvd, told>> /\ \A c \in Conns : peer'[c] = peer[c]
         /\ \A f \in Fds \ {cur} : FdReady(f) => FdReady(f)'
<1>1. pc = "read" /\ sent[Conn] = rcvd[Conn]
  BY DEF ReadEnd
<1>2. /\ cur \in Fds /\ Conn \in Conns /\ fdConn[cur] # NoConn /\ Conn = fdConn[cur]
      /\ sent[Conn] \in Nat
  BY <1>1, ServedIsOpen DEF Working
<1>3. /\ NetInv'
      /\ fdConn' = [fdConn EXCEPT ![cur] = NoConn]
      /\ \A f \in Fds \ {cur} : FdReady(f) => FdReady(f)'
  BY <1>2, CloseKeeps DEF ServeInv
<1>4. /\ UNCHANGED <<sent, rcvd, told>>
      /\ phase' = [phase EXCEPT ![Conn] = "closed"]
  BY <1>2 DEF CloseFd
<1>5. \A c \in Conns : peer'[c] = peer[c]
  BY <1>1, <1>2 DEF CloseFd, Abandoned, ServeInv, NetInv, NetTypeOK
<1>6. EchoTypeOK' /\ Busy'
  BY DEF ServeInv, EchoTypeOK, Busy, Working
<1>7. ReadToTheEnd'
  <2>1. \A c \in Conns : phase'[c] = "closed" => c = Conn \/ phase[c] = "closed"
    BY <1>4 DEF ServeInv, NetInv, NetTypeOK
  <2> QED
    BY <1>1, <1>4, <1>5, <2>1 DEF ServeInv, ReadToTheEnd
<1> QED
  BY <1>1, <1>3, <1>4, <1>5, <1>6, <1>7 DEF ServeInv

\* This step forgets nothing that was read.
AccountsKept == \A C \in SUBSET Conns : \A N : Accounted(C, N) => Accounted(C, N)'

(***************************************************************************)
(* The kernel resets every connection of which something is unread or      *)
(* which was not accepted, so that those it closes orderly were read to    *)
(* their end; and the only send a process can die in is one to nobody.     *)
(***************************************************************************)
LEMMA EndKeeps ==
  ASSUME ServeInv, EndProcess
  PROVE  /\ ServeInv' /\ pc' = "down" /\ cur' = cur
         /\ \A f \in Fds : fdConn'[f] = NoConn
         /\ pc # "send" \/ peer[Conn] = "gone" => AccountsKept
<1>1. /\ NetInv' /\ \A f \in Fds : fdConn'[f] = NoConn
      /\ pc' = "down" /\ owed' = 0 /\ cur' = cur
  BY CloseAllKeeps DEF ServeInv, EndProcess
<1>2. EchoTypeOK' /\ Busy'
  BY <1>1 DEF ServeInv, EchoTypeOK, Busy, Working
<1>3. ASSUME NEW c \in Conns
      PROVE  /\ sent'[c] = sent[c] /\ rcvd'[c] = rcvd[c] /\ told'[c] = told[c]
             /\ peer'[c] \in {"live", "fin"} => peer[c] = peer'[c]
             /\ phase'[c] = "closed" /\ peer'[c] \in {"live", "fin"}
                  => phase[c] = "closed" \/ ~(sent[c] > rcvd[c])
  BY DEF EndProcess, CloseAll, Abandoned, ServeInv, NetInv, NetTypeOK, Phases
<1>4. ReadToTheEnd'
  <2> SUFFICES ASSUME NEW c \in Conns
               PROVE  /\ rcvd'[c] <= sent'[c]
                      /\ phase'[c] = "closed" /\ peer'[c] \in {"live", "fin"}
                           => sent'[c] = rcvd'[c]
    BY DEF ReadToTheEnd
  <2>1. sent[c] \in Nat /\ rcvd[c] \in Nat
    BY DEF ServeInv, NetInv, NetTypeOK
  <2> QED
    BY <1>3, <2>1 DEF ServeInv, ReadToTheEnd
<1>5. ASSUME pc # "send" \/ peer[Conn] = "gone", NEW C \in SUBSET Conns, NEW N, Accounted(C, N)
      PROVE  Accounted(C, N)'
  <2>1. ASSUME NEW c \in C, peer'[c] \in {"live", "fin"}
        PROVE  Pending(c) = 0 /\ Pending(c)' = 0
    BY <1>1, <1>3, <1>5, <2>1 DEF Pending
  <2> QED
    BY <1>3, <1>5, <2>1 DEF Accounted
<1> QED
  BY <1>1, <1>2, <1>4, <1>5 DEF ServeInv, AccountsKept

LEMMA EchoStutters ==
  ASSUME ServeInv, UNCHANGED <<netVars, echoVars>>
  PROVE  ServeInv'
<1>1. NetInv'
  BY NetStutters DEF ServeInv
<1>2. EchoTypeOK' /\ Busy' /\ ReadToTheEnd'
  BY DEF ServeInv, EchoTypeOK, Busy, ReadToTheEnd, netVars, echoVars
<1> QED
  BY <1>1, <1>2 DEF ServeInv

LEMMA StutterAccounts ==
  ASSUME NEW C \in SUBSET Conns, NEW N, Accounted(C, N), UNCHANGED <<netVars, echoVars>>
  PROVE  Accounted(C, N)'
BY DEF Accounted, Pending, Conn, netVars, echoVars

\* When no unit is special, all that was read was handed back, or is about to be.
LEMMA AccountedInFull ==
  ASSUME NEW C \in SUBSET Conns, ServeInv, Accounted(C, {}),
         NEW c \in C, peer[c] \in {"live", "fin"}
  PROVE  told[c] + Pending(c) = rcvd[c]
<1>1. told[c] \in Nat /\ rcvd[c] \in Nat /\ Pending(c) \in Nat
  BY DEF ServeInv, EchoTypeOK, Pending, NetInv, NetTypeOK
<1> QED
  BY <1>1 DEF Accounted

\* Once its connection is closed a client is owed nothing any more.
LEMMA ClosedIsSettled ==
  ASSUME ServeInv, NEW c \in Conns, phase[c] = "closed"
  PROVE  Pending(c) = 0 /\ told[c] \in Nat /\ rcvd[c] \in Nat
BY ServedIsOpen DEF Pending, Working, ServeInv, NetInv, NetTypeOK

\* A client's stream was read to its end and all that was read was handed back.
LEMMA InvEchoes ==
  ASSUME ServeInv, Accounted(Conns, {})
  PROVE  EchoedInFull
<1> SUFFICES ASSUME NEW c \in Conns, phase[c] = "closed", peer[c] \in {"live", "fin"}
             PROVE  told[c] = sent[c]
  BY DEF EchoedInFull
<1>1. sent[c] = rcvd[c] /\ told[c] + Pending(c) = rcvd[c]
  BY AccountedInFull DEF ServeInv, ReadToTheEnd
<1> QED
  BY <1>1, ClosedIsSettled

-----------------------------------------------------------------------------
(* What the loops have in common. *)

\* The descriptors in E stay open, and the loop serves none of them.
Beside(E) ==
  pc # "down" =>
    /\ E \subseteq Fds
    /\ \A f \in E : fdConn[f] # NoConn
    /\ pc \in Working => cur \notin E

\* The descriptors a loop beside E is there for.
OpenBeside(E) == {f \in Fds \ E : fdConn[f] # NoConn}

\* As a loop finds the table when it starts.
NoneBeside(E) == \A f \in Fds \ E : fdConn[f] = NoConn

LEMMA ClientsBeside ==
  ASSUME NEW E, Beside(E), UNCHANGED <<fdConn, pc, cur>>
  PROVE  Beside(E)' /\ OpenBeside(E)' = OpenBeside(E)
BY DEF Beside, OpenBeside

LEMMA AcceptBeside ==
  ASSUME NEW E, Beside(E), pc # "down", pc' \notin Working, NEW f \in Fds,
         fdConn[f] = NoConn, fdConn'[f] # NoConn,
         \A g \in Fds : g # f => fdConn'[g] = fdConn[g]
  PROVE  Beside(E)' /\ OpenBeside(E)' = OpenBeside(E) \cup {f} /\ f \notin OpenBeside(E)
<1>1. E \subseteq Fds /\ (\A g \in E : fdConn[g] # NoConn) /\ f \notin E
  BY DEF Beside
<1>2. Beside(E)'
  BY <1>1 DEF Beside
<1>3. OpenBeside(E)' = OpenBeside(E) \cup {f} /\ f \notin OpenBeside(E)
  BY <1>1 DEF OpenBeside
<1> QED
  BY <1>2, <1>3

LEMMA HangUpBeside ==
  ASSUME NEW E, Beside(E), pc \in Working, pc' \notin Working, cur \in Fds,
         NetTypeOK, fdConn' = [fdConn EXCEPT ![cur] = NoConn]
  PROVE  Beside(E)' /\ OpenBeside(E)' = OpenBeside(E) \ {cur}
<1>1. /\ pc # "down" /\ E \subseteq Fds /\ (\A g \in E : fdConn[g] # NoConn)
      /\ cur \notin E
  BY DEF Beside, Working
<1>2. \A g \in Fds : fdConn'[g] = IF g = cur THEN NoConn ELSE fdConn[g]
  BY DEF NetTypeOK
<1>3. Beside(E)'
  BY <1>1, <1>2 DEF Beside
<1>4. OpenBeside(E)' = OpenBeside(E) \ {cur}
  BY <1>1, <1>2 DEF OpenBeside
<1> QED
  BY <1>3, <1>4
-----------------------------------------------------------------------------
(* The epoll loop. *)

(***************************************************************************)
(* What is left of a batch is still true: its client descriptors are ready *)
(* and appear once, and the one being served is not among them.  Only the  *)
(* server closes descriptors, and it closes the one whose event it took    *)
(* out of the batch; and an event is not taken back by the arrival of more *)
(* data, an end of stream or a reset.                                      *)
(***************************************************************************)
Batch ==
  /\ pc = "scan" => events # <<>>
  /\ \A k \in DOMAIN events :
       events[k] # ListenFd =>
         /\ events[k] \in interest /\ FdReady(events[k])
         /\ pc \in Working => events[k] # cur
  /\ \A j, k \in DOMAIN events : events[j] = events[k] => j = k

Interest(E) == pc # "down" => interest = OpenBeside(E)

EpollLists == interest \subseteq Fds /\ events \in Seq(Fds \cup {ListenFd})

EpollInv(E) ==
  ServeInv /\ EpollLists /\ Beside(E) /\ Interest(E) /\ Batch /\ NoBlindRead
-----------------------------------------------------------------------------
LEMMA EmptyBatch == events = <<>> => DOMAIN events = {}
BY EmptySeq

\* An epoll instance that was just created.
LEMMA EpollEnters ==
  ASSUME NEW E, ServeInv, pc = "wait", Beside(E), NoneBeside(E),
         events = <<>>, interest = {}
  PROVE  EpollInv(E)
<1>1. events \in Seq(Fds \cup {ListenFd}) /\ DOMAIN events = {}
  BY EmptySeq
<1> QED
  BY <1>1 DEF EpollInv, EpollLists, Interest, OpenBeside, NoneBeside, Batch, NoBlindRead

\* The rest of a batch, after its first event.
LEMMA RestOfBatch ==
  ASSUME EpollLists, Batch, pc = "scan", events' = Tail(events)
  PROVE  /\ Head(events) \in Fds \cup {ListenFd}
         /\ Head(events) # ListenFd => Head(events) \in interest /\ FdReady(Head(events))
         /\ events' \in Seq(Fds \cup {ListenFd})
         /\ \A k \in DOMAIN events' :
              /\ events'[k] \in Fds \cup {ListenFd}
              /\ events'[k] # Head(events)
              /\ events'[k] # ListenFd => events'[k] \in interest /\ FdReady(events'[k])
         /\ \A j, k \in DOMAIN events' : events'[j] = events'[k] => j = k
<1> DEFINE T == Fds \cup {ListenFd}
<1>1. events \in Seq(T) /\ events # <<>>
  BY DEF EpollLists, Batch
<1>2. /\ Len(events) \in Nat \ {0} /\ DOMAIN events = 1 .. Len(events)
      /\ events' \in Seq(T) /\ DOMAIN events' = 1 .. Len(events) - 1
      /\ Head(events) = events[1] /\ Head(events) \in T
      /\ \A k \in 1 .. Len(events) - 1 : events'[k] = events[k + 1]
  BY <1>1, LenProperties, HeadTailProperties, EmptySeq
<1>3. \A k \in DOMAIN events' :
        k \in Int /\ k + 1 \in DOMAIN events /\ k + 1 # 1 /\ events'[k] = events[k + 1]
  BY <1>2
<1>4. 1 \in DOMAIN events
  BY <1>2
<1>5. \A k \in DOMAIN events' : events'[k] \in T
  BY <1>2, ElementOfSeq, LenProperties
<1> QED
  BY <1>2, <1>3, <1>4, <1>5 DEF Batch

LEMMA EpollWaitKeeps ==
  ASSUME NEW E, EpollInv(E), EpollWait
  PROVE  EpollInv(E)'
<1> DEFINE n == Least(MaxEvents, Cardinality(Ready))
<1>1. /\ Ready \subseteq Fds \cup {ListenFd} /\ Ready # {}
      /\ \A f \in Ready : f # ListenFd => f \in interest /\ FdReady(f)
  BY DEF EpollWait, Ready, EpollInv, EpollLists
<1>2. n \in Nat \ {0}
  <2>1. IsFiniteSet(Fds \cup {ListenFd})
    <3>1. 1 \in Int /\ MaxFd \in Int
      BY SocketsAssumption
    <3>2. IsFiniteSet(Fds)
      BY <3>1, FS_Interval DEF Fds
    <3>3. IsFiniteSet({ListenFd})
      BY FS_Singleton
    <3> QED
      BY <3>2, <3>3, FS_Union
  <2>2. IsFiniteSet(Ready)
    BY <1>1, <2>1, FS_Subset
  <2>3. Cardinality(Ready) \in Nat \ {0}
    BY <1>1, <2>2, FS_CardinalityType, FS_EmptySet
  <2> QED
    BY <2>3, EpollAssumption DEF Least
<1>3. /\ events' \in [1 .. n -> Ready] /\ DOMAIN events' = 1 .. n
      /\ \A k \in DOMAIN events' : events'[k] \in Ready
      /\ \A j, k \in DOMAIN events' : events'[j] = events'[k] => j = k
  BY DEF EpollWait, Injection, IsInjective
<1> HIDE DEF n
<1>4. events' \in Seq(Fds \cup {ListenFd}) /\ events' # <<>>
  <2>1. events' \in Seq(Ready)
    BY <1>2, <1>3, SeqDef
  <2>2. 1 \in DOMAIN events'
    BY <1>2, <1>3
  <2> QED
    BY <1>1, <2>1, <2>2, SeqMonotonic, EmptySeq
<1>5. /\ pc = "wait" /\ pc' = "scan" /\ UNCHANGED <<netVars, cur, owed, interest, fdConn>>
  BY DEF EpollWait, netVars
<1>6. ServeInv'
  BY <1>5, TurnKeeps DEF EpollInv, ServeInv, EchoTypeOK
<1>7. EpollLists' /\ Beside(E)' /\ Interest(E)' /\ NoBlindRead'
  BY <1>4, <1>5
     DEF EpollInv, EpollLists, Beside, Interest, OpenBeside, NoBlindRead, Working
<1>8. Batch'
  <2>1. \A f : FdReady(f) => FdReady(f)'
    BY <1>5 DEF FdReady, Readable, netVars
  <2> QED
    BY <1>1, <1>3, <1>4, <1>5, <2>1 DEF Batch, Working
<1> QED
  BY <1>6, <1>7, <1>8 DEF EpollInv

LEMMA EpollReadKeeps ==
  ASSUME NEW E, EpollInv(E), EpollRead
  PROVE  EpollInv(E)'
<1>1. /\ pc = "scan" /\ pc' = "read" /\ cur' = Head(events) /\ events' = Tail(events)
      /\ Head(events) # ListenFd /\ UNCHANGED <<netVars, owed, interest, fdConn>>
  BY DEF EpollRead, netVars
<1>2. /\ cur' \in Fds /\ cur' \in interest /\ FdReady(cur')
      /\ events' \in Seq(Fds \cup {ListenFd})
      /\ \A k \in DOMAIN events' :
           /\ events'[k] # cur'
           /\ events'[k] # ListenFd => events'[k] \in interest /\ FdReady(events'[k])
      /\ \A j, k \in DOMAIN events' : events'[j] = events'[k] => j = k
  BY <1>1, RestOfBatch DEF EpollInv
<1>3. ServeInv'
  BY <1>1, <1>2, TurnKeeps DEF EpollInv, FdReady
<1>4. \A f : FdReady(f) => FdReady(f)'
  BY <1>1 DEF FdReady, Readable, netVars
<1>5. FdReady(cur)'
  BY <1>1, <1>2 DEF FdReady, Readable, netVars
<1>6. Beside(E)' /\ Interest(E)'
  BY <1>1, <1>2 DEF EpollInv, Beside, Interest, OpenBeside
<1>7. EpollLists' /\ NoBlindRead' /\ Batch'
  BY <1>1, <1>2, <1>4, <1>5 DEF EpollInv, EpollLists, NoBlindRead, Batch
<1> QED
  BY <1>3, <1>6, <1>7 DEF EpollInv

LEMMA EpollAcceptKeeps ==
  ASSUME NEW E, EpollInv(E), EpollAccept
  PROVE  EpollInv(E)' /\ UNCHANGED <<rcvd, told, peer>>
<1>1. /\ pc = "scan" /\ Head(events) = ListenFd /\ events' = Tail(events)
      /\ pc' = AfterEvent(events') /\ UNCHANGED <<cur, owed>>
  BY DEF EpollAccept
<1>2. PICK f \in Fds : Accepted(f) /\ interest' = interest \cup {f}
  BY DEF EpollAccept
<1>3. /\ events' \in Seq(Fds \cup {ListenFd})
      /\ \A k \in DOMAIN events' : events'[k] # ListenFd =>
           events'[k] \in Fds /\ events'[k] \in interest /\ FdReady(events'[k])
      /\ \A j, k \in DOMAIN events' : events'[j] = events'[k] => j = k
  BY <1>1, RestOfBatch DEF EpollInv
<1>4. pc \notin Working /\ pc # "down" /\ pc' \in {"wait", "scan"} /\ pc' \notin Working
  BY <1>1 DEF AfterEvent, Working
<1>5. /\ ServeInv' /\ UNCHANGED <<rcvd, told, peer>>
      /\ fdConn[f] = NoConn /\ fdConn'[f] # NoConn
      /\ \A g \in Fds : g # f => fdConn'[g] = fdConn[g]
      /\ \A g \in Fds : FdReady(g) => FdReady(g)'
  BY <1>1, <1>2, <1>4, AcceptedKeeps DEF EpollInv
<1>6. Beside(E)' /\ Interest(E)'
  BY <1>2, <1>4, <1>5, AcceptBeside DEF EpollInv, Interest
<1>7. EpollLists' /\ NoBlindRead'
  BY <1>1, <1>2, <1>3, <1>4 DEF EpollInv, EpollLists, NoBlindRead, Working
<1>8. Batch'
  BY <1>1, <1>2, <1>3, <1>4, <1>5 DEF Batch, AfterEvent
<1> QED
  BY <1>5, <1>6, <1>7, <1>8 DEF EpollInv

\* While the server serves one connection the rest of the batch stays good.
LEMMA OthersKept ==
  ASSUME NEW E, EpollInv(E), pc \in Working, UNCHANGED events,
         \A f \in Fds \ {cur} : FdReady(f) => FdReady(f)'
  PROVE  \A k \in DOMAIN events : events[k] # ListenFd =>
           events[k] # cur /\ events[k] \in interest /\ FdReady(events[k])'
<1>1. \A k \in DOMAIN events : events[k] # ListenFd => events[k] \in Fds \ {cur}
  BY ElementOfSeq, LenProperties DEF EpollInv, EpollLists, Batch
<1> QED
  BY <1>1 DEF EpollInv, Batch

LEMMA EpollEchoKeeps ==
  ASSUME NEW E, EpollInv(E), EpollEcho
  PROVE  EpollInv(E)'
<1>1. /\ pc = "read" /\ pc' = "send" /\ RecvData(Conn) /\ UNCHANGED <<cur, events, interest>>
      /\ owed' = Received(Conn) - rcvd[Conn]
  BY DEF EpollEcho, ReadThenSend, epollLoopVars
<1>2. owed' \in Nat
  BY <1>1, ServedIsOpen, SocketsAssumption DEF EpollInv, Working, RecvData, Received, Least
<1>3. /\ ServeInv' /\ UNCHANGED fdConn
      /\ \A f \in Fds \ {cur} : FdReady(f) => FdReady(f)'
  BY <1>1, <1>2, RecvServes DEF EpollInv
<1>4. EpollLists' /\ Beside(E)' /\ Interest(E)' /\ NoBlindRead'
  BY <1>1, <1>3 DEF EpollInv, EpollLists, Beside, Interest, OpenBeside, NoBlindRead, Working
<1>5. Batch'
  BY <1>1, <1>3, OthersKept DEF EpollInv, Batch, Working
<1> QED
  BY <1>3, <1>4, <1>5 DEF EpollInv

LEMMA EpollSentKeeps ==
  ASSUME NEW E, EpollInv(E), EpollSent
  PROVE  EpollInv(E)'
<1>1. AfterEvent(events) \in {"wait", "scan"}
  BY DEF AfterEvent
<1>2. /\ ServeInv' /\ pc = "send" /\ pc' \in {"send", AfterEvent(events)}
      /\ UNCHANGED <<fdConn, cur, events, interest>>
      /\ \A f \in Fds \ {cur} : FdReady(f) => FdReady(f)'
  BY <1>1, SendServes DEF EpollInv, EpollSent, epollLoopVars
<1>3. EpollLists' /\ Beside(E)' /\ Interest(E)' /\ NoBlindRead'
  BY <1>1, <1>2
     DEF EpollInv, EpollLists, Beside, Interest, OpenBeside, NoBlindRead, Working
<1>4. Batch'
  BY <1>2, OthersKept DEF EpollInv, Batch, Working, AfterEvent
<1> QED
  BY <1>2, <1>3, <1>4 DEF EpollInv

LEMMA EpollHangUpKeeps ==
  ASSUME NEW E, EpollInv(E), EpollHangUp
  PROVE  EpollInv(E)' /\ UNCHANGED <<rcvd, told>> /\ \A c \in Conns : peer'[c] = peer[c]
<1>1. /\ ReadEnd /\ CloseFd(cur) /\ interest' = interest \ {cur} /\ pc' = AfterEvent(events)
      /\ pc' \in {"wait", "scan"} /\ pc' \notin Working /\ UNCHANGED <<cur, owed, events>>
  BY DEF EpollHangUp, AfterEvent, Working
<1>2. /\ ServeInv' /\ pc = "read" /\ pc # "down" /\ pc \in Working
      /\ fdConn' = [fdConn EXCEPT ![cur] = NoConn]
      /\ UNCHANGED <<rcvd, told>> /\ \A c \in Conns : peer'[c] = peer[c]
      /\ \A f \in Fds \ {cur} : FdReady(f) => FdReady(f)'
  BY <1>1, HangUpKeeps DEF EpollInv, Working
<1>3. Beside(E)' /\ Interest(E)'
  BY <1>1, <1>2, HangUpBeside, ServedIsOpen DEF EpollInv, ServeInv, NetInv, Interest
<1>4. EpollLists' /\ NoBlindRead'
  BY <1>1 DEF EpollInv, EpollLists, NoBlindRead
<1>5. Batch'
  BY <1>1, <1>2, OthersKept DEF EpollInv, Batch, AfterEvent
<1> QED
  BY <1>2, <1>3, <1>4, <1>5 DEF EpollInv

LEMMA EpollFailsKeeps ==
  ASSUME NEW E, EpollInv(E), EpollFails, events' = <<>>, interest' = {}
  PROVE  EpollInv(E)' /\ pc' = "down" /\ AccountsKept
<1>1. EndProcess /\ (pc # "send" \/ peer[Conn] = "gone")
  BY DEF EpollFails, EpollAcceptFailed, ReadError, BrokenPipe
<1>2. ServeInv' /\ pc' = "down" /\ AccountsKept
  BY <1>1, EndKeeps DEF EpollInv
<1>3. interest' = {} /\ events' \in Seq(Fds \cup {ListenFd}) /\ DOMAIN events' = {}
  BY EmptySeq
<1>4. EpollLists' /\ Beside(E)' /\ Interest(E)' /\ NoBlindRead' /\ Batch'
  BY <1>2, <1>3 DEF EpollLists, Beside, Interest, NoBlindRead, Batch
<1> QED
  BY <1>2, <1>4 DEF EpollInv

LEMMA EpollStepKeeps ==
  ASSUME NEW E, EpollInv(E), EpollStep
  PROVE  EpollInv(E)'
BY EpollWaitKeeps, EpollAcceptKeeps, EpollReadKeeps, EpollEchoKeeps, EpollSentKeeps,
   EpollHangUpKeeps, EpollFailsKeeps DEF EpollStep

LEMMA EpollClientsKeep ==
  ASSUME NEW E, EpollInv(E), ClientStep, UNCHANGED epollLoopVars
  PROVE  EpollInv(E)'
<1>1. /\ ServeInv' /\ UNCHANGED <<fdConn, pc, cur, owed, events, interest>>
      /\ \A f \in Fds : FdReady(f) => FdReady(f)'
  BY ClientsKeep DEF EpollInv, echoVars, epollLoopVars
<1>2. \A k \in DOMAIN events : events[k] # ListenFd => events[k] \in Fds
  BY ElementOfSeq, LenProperties DEF EpollInv, EpollLists
<1>3. cur \in Fds
  BY DEF EpollInv, ServeInv, EchoTypeOK
<1>4. Beside(E)' /\ Interest(E)'
  BY <1>1, ClientsBeside DEF EpollInv, Interest
<1>5. EpollLists' /\ NoBlindRead' /\ Batch'
  BY <1>1, <1>2, <1>3 DEF EpollInv, EpollLists, NoBlindRead, Batch
<1> QED
  BY <1>1, <1>4, <1>5 DEF EpollInv

LEMMA EpollStutters ==
  ASSUME NEW E, EpollInv(E), UNCHANGED epollVars
  PROVE  EpollInv(E)'
<1>1. ServeInv'
  BY EchoStutters DEF EpollInv, epollVars
<1>2. Beside(E)' /\ Interest(E)'
  BY ClientsBeside DEF EpollInv, Interest, epollVars, netVars, echoVars, epollLoopVars
<1>3. EpollLists' /\ Batch' /\ NoBlindRead'
  BY DEF EpollInv, epollVars, netVars, echoVars, epollLoopVars, EpollLists, NoBlindRead, Batch,
         FdReady, Readable
<1> QED
  BY <1>1, <1>2, <1>3 DEF EpollInv

\* The epoll loop owes all it reads, and pays it.
LEMMA EpollAccounts ==
  ASSUME NEW C \in SUBSET Conns, NEW E, EpollInv(E), Accounted(C, {}),
         [EpollNext]_epollVars
  PROVE  Accounted(C, {})'
<1> ServeInv
  BY DEF EpollInv
<1>1. CASE EpollWait \/ EpollRead
  BY <1>1, QuietAccounts DEF EpollWait, EpollRead, netVars
<1>2. CASE EpollAccept
  BY <1>2, EpollAcceptKeeps, QuietAccounts DEF EpollAccept, AfterEvent
<1>3. CASE EpollEcho
  <2> DEFINE n == Received(Conn) - rcvd[Conn]
  <2>1. ReadThenSend(n)
    BY <1>3 DEF EpollEcho
  <2>2. n \in Nat
    BY <2>1, ServedIsOpen, SocketsAssumption
       DEF ReadThenSend, RecvData, Received, Least, Working
  <2>3. n <= n /\ ~(n < n)
    BY <2>2
  <2> QED
    BY <2>1, <2>2, <2>3, ReadAccounts
<1>4. CASE EpollSent
  BY <1>4, SendAccounts DEF EpollSent, AfterEvent
<1>5. CASE EpollHangUp
  BY <1>5, EpollHangUpKeeps, QuietAccounts DEF EpollHangUp, ReadEnd, AfterEvent
<1>6. CASE EpollFails /\ events' = <<>> /\ interest' = {}
  BY <1>6, EpollFailsKeeps DEF AccountsKept
<1>7. CASE ClientStep
  BY <1>7, ClientsKeep, QuietAccounts DEF echoVars
<1>8. CASE UNCHANGED epollVars
  BY <1>8, StutterAccounts DEF epollVars
<1> QED
  BY <1>1, <1>2, <1>3, <1>4, <1>5, <1>6, <1>7, <1>8 DEF EpollNext, EpollStep, EpollIdle

LEMMA EpollStarts == EpollInit => EpollInv({}) /\ Accounted(Conns, {})
<1> SUFFICES ASSUME EpollInit PROVE EpollInv({}) /\ Accounted(Conns, {})
  OBVIOUS
<1>1. ServeInv /\ Accounted(Conns, {}) /\ pc = "wait"
  BY EchoStarts DEF EpollInit, EchoInit
<1>2. Beside({}) /\ NoneBeside({})
  BY <1>1 DEF Beside, NoneBeside, EpollInit, EchoInit, NetInit, Working
<1> QED
  BY <1>1, <1>2, EpollEnters DEF EpollInit

LEMMA EpollNextInv == EpollInv({}) /\ [EpollNext]_epollVars => EpollInv({})'
BY EpollStepKeeps, EpollClientsKeep, EpollStutters DEF EpollNext, EpollIdle

LEMMA EpollHolds == EpollSpec => [](EpollInv({}) /\ Accounted(Conns, {}))
<1>1. EpollInv({}) /\ Accounted(Conns, {}) /\ [EpollNext]_epollVars => Accounted(Conns, {})'
  BY EpollAccounts
<1> QED
  BY EpollStarts, EpollNextInv, <1>1, PTL DEF EpollSpec
-----------------------------------------------------------------------------
(***************************************************************************)
(* Every variable of the epoll echo server keeps its type: no send owes a  *)
(* negative rest, and no descriptor outside the table is ever read from.   *)
(***************************************************************************)
THEOREM EpollTypeCorrect == EpollSpec => []EpollTypeOK
<1>1. EpollInv({}) => EpollTypeOK
  BY DEF EpollInv, ServeInv, NetInv, EpollLists, EpollTypeOK
<1> QED
  BY <1>1, EpollHolds, PTL

(***************************************************************************)
(* The one thread of the epoll echo server never sleeps in a read: what    *)
(* epoll_wait reported of a descriptor still holds when its turn comes,    *)
(* whatever was accepted and closed in between.                            *)
(***************************************************************************)
THEOREM EpollNeverBlind == EpollSpec => []NoBlindRead
<1>1. EpollInv({}) => NoBlindRead
  BY DEF EpollInv
<1> QED
  BY <1>1, EpollHolds, PTL

(***************************************************************************)
(* The epoll instance watches exactly the open connections, although the   *)
(* server keeps no list and never calls EPOLL_CTL_DEL.                     *)
(***************************************************************************)
THEOREM InterestIsExact == EpollSpec => []InterestExact
<1>1. EpollInv({}) => InterestExact
  BY DEF EpollInv, Interest, OpenBeside, InterestExact
<1> QED
  BY <1>1, EpollHolds, PTL

(***************************************************************************)
(* Whatever the sizes of the segments, of the read buffer and of the room  *)
(* in the kernel: a client that ended its stream and was not reset has all *)
(* it sent back by the time the epoll echo server closes its connection.   *)
(***************************************************************************)
THEOREM EpollEchoesWhole == EpollSpec => []EchoedInFull
<1>1. EpollInv({}) /\ Accounted(Conns, {}) => EchoedInFull
  BY InvEchoes DEF EpollInv
<1> QED
  BY <1>1, EpollHolds, PTL
-----------------------------------------------------------------------------
(* The poll loop. *)

\* What poll wrote into every entry before the scan; the code leaves the entries
\* it appends as they come, so that this depends on what is on the stack.
Clean == StackRevents = {FALSE}

PollEntries == [fd : Fds \cup {ListenFd}, revents : BOOLEAN]

PollLists == fds \in Seq(PollEntries) /\ i \in Nat \ {0}

\* fds lists the listener and what the loop is there for, each once.
Listed(E) ==
  pc # "down" =>
    /\ 1 \in DOMAIN fds /\ fds[1].fd = ListenFd
    /\ \A j, k \in DOMAIN fds : fds[j].fd = fds[k].fd => j = k
    /\ \A k \in DOMAIN fds : fds[k].fd \in {ListenFd} \cup OpenBeside(E)
    /\ \A f \in OpenBeside(E) : \E k \in DOMAIN fds : fds[k].fd = f

\* The socket being served is the one at the scan's position.
AtPosition == pc \in Working => i \in DOMAIN fds /\ fds[i].fd = cur

(***************************************************************************)
(* What poll reported of the sockets the scan has still to reach holds     *)
(* until it gets there; entries appended in this turn report nothing.      *)
(***************************************************************************)
Reported ==
  \A k \in DOMAIN fds :
    /\ fds[k].revents
    /\ fds[k].fd # ListenFd
    /\ (pc = "scan" /\ k >= i) \/ (pc \in Working /\ k > i)
    => FdReady(fds[k].fd)

PollInv(E) ==
  /\ ServeInv /\ PollLists /\ Beside(E) /\ Listed(E) /\ AtPosition
  /\ Clean => Reported /\ NoBlindRead
-----------------------------------------------------------------------------
LEMMA PollTyped ==
  ASSUME NEW E, PollInv(E)
  PROVE  /\ cur \in Fds /\ ListenFd \notin Fds /\ i \in Nat \ {0}
         /\ Len(fds) \in Nat /\ DOMAIN fds = 1 .. Len(fds)
         /\ \A k \in DOMAIN fds : k \in Nat /\ fds[k] \in PollEntries
<1>1. cur \in Fds /\ ListenFd \notin Fds
  BY DEF PollInv, ServeInv, EchoTypeOK, Fds, ListenFd
<1>2. fds \in Seq(PollEntries) /\ i \in Nat \ {0}
  BY DEF PollInv, PollLists
<1>3. Len(fds) \in Nat /\ DOMAIN fds = 1 .. Len(fds)
  BY <1>2, LenProperties
<1>4. \A k \in DOMAIN fds : k \in Nat /\ fds[k] \in PollEntries
  BY <1>2, <1>3, ElementOfSeq
<1> QED
  BY <1>1, <1>2, <1>3, <1>4

\* A list of the listener only, as both poll servers start with.
LEMMA PollEnters ==
  ASSUME NEW E, ServeInv, pc = "wait", Beside(E), NoneBeside(E),
         fds = <<PollFd(ListenFd, FALSE)>>, i \in Nat \ {0}
  PROVE  PollInv(E)
<1>1. PollFd(ListenFd, FALSE) \in PollEntries /\ PollFd(ListenFd, FALSE).fd = ListenFd
  BY DEF PollFd, PollEntries
<1>2. /\ fds \in Seq(PollEntries) /\ Len(fds) = 1 /\ fds[1] = PollFd(ListenFd, FALSE)
  BY <1>1, Singleton
<1>3. DOMAIN fds = {1}
  <2>1. DOMAIN fds = 1 .. 1
    BY <1>2, LenProperties
  <2> QED
    BY <2>1
<1>4. Listed(E) /\ PollLists
  BY <1>1, <1>2, <1>3 DEF Listed, OpenBeside, NoneBeside, PollLists
<1>5. AtPosition /\ Reported /\ NoBlindRead
  BY DEF AtPosition, Reported, NoBlindRead, Working
<1> QED
  BY <1>4, <1>5 DEF PollInv

LEMMA PollWaitKeeps ==
  ASSUME NEW E, PollInv(E), PollWait
  PROVE  PollInv(E)'
<1> DEFINE entry(k) == PollFd(fds[k].fd, ReadyNow(fds[k].fd))
<1>1. /\ pc = "wait" /\ pc' = "scan" /\ i' = 1
      /\ fds' = [k \in DOMAIN fds |-> entry(k)]
      /\ UNCHANGED <<netVars, cur, owed, fdConn>>
  BY DEF PollWait, netVars
<1>2. /\ cur \in Fds /\ Len(fds) \in Nat /\ DOMAIN fds = 1 .. Len(fds)
      /\ \A k \in DOMAIN fds : fds[k] \in PollEntries
  BY PollTyped
<1>3. ServeInv'
  BY <1>1, <1>2, TurnKeeps DEF PollInv
<1>4. /\ DOMAIN fds' = DOMAIN fds
      /\ \A k \in DOMAIN fds :
           /\ fds'[k] \in PollEntries
           /\ fds'[k].fd = fds[k].fd
           /\ fds'[k].revents /\ fds'[k].fd # ListenFd => FdReady(fds[k].fd)
  BY <1>1, <1>2 DEF PollFd, PollEntries, ReadyNow, FdReady
<1>5. PollLists'
  <2>1. fds' \in [1 .. Len(fds) -> PollEntries]
    BY <1>1, <1>2, <1>4
  <2> QED
    BY <1>1, <1>2, <2>1, SeqDef DEF PollLists
<1>6. Beside(E)' /\ OpenBeside(E)' = OpenBeside(E)
  BY <1>1 DEF PollInv, Beside, OpenBeside, Working
<1>7. Listed(E)'
  BY <1>1, <1>4, <1>6 DEF PollInv, Listed
<1>8. \A f : FdReady(f) => FdReady(f)'
  BY <1>1 DEF FdReady, Readable, netVars
<1>9. AtPosition' /\ Reported' /\ NoBlindRead'
  BY <1>1, <1>4, <1>8 DEF AtPosition, Reported, NoBlindRead, Working
<1> QED
  BY <1>3, <1>5, <1>6, <1>7, <1>9 DEF PollInv

LEMMA PollScanKeeps ==
  ASSUME NEW E, PollInv(E), PollSkip \/ PollRead \/ PollScanned
  PROVE  PollInv(E)'
<1>1. /\ pc = "scan" /\ pc \notin Working /\ UNCHANGED <<netVars, owed, fds, fdConn>>
  BY DEF PollSkip, PollRead, PollScanned, echoVars, pollLoopVars, Working, netVars
<1>2. /\ cur \in Fds /\ i \in Nat \ {0} /\ ListenFd \notin Fds
      /\ \A k \in DOMAIN fds : k \in Nat /\ fds[k] \in PollEntries
  BY PollTyped
<1>3. \A f : FdReady(f) => FdReady(f)'
  BY <1>1 DEF FdReady, Readable, netVars
<1>4. OpenBeside(E)' = OpenBeside(E)
  BY <1>1 DEF OpenBeside
<1>5. CASE PollSkip \/ PollScanned
  <2>1. /\ pc' \in {"scan", "wait"} /\ cur' = cur /\ i' \in Nat \ {0}
        /\ pc' = "scan" => i' = i + 1
    BY <1>1, <1>2, <1>5 DEF PollSkip, PollScanned, echoVars, pollLoopVars
  <2>2. ServeInv'
    BY <1>1, <1>2, <2>1, TurnKeeps DEF PollInv
  <2>3. Beside(E)' /\ Listed(E)' /\ PollLists' /\ AtPosition'
    BY <1>1, <1>4, <2>1 DEF PollInv, Beside, Listed, PollLists, AtPosition, Working
  <2>4. Clean => Reported' /\ NoBlindRead'
    BY <1>1, <1>2, <1>3, <2>1 DEF PollInv, Reported, NoBlindRead, Working
  <2> QED
    BY <2>2, <2>3, <2>4 DEF PollInv
<1>6. CASE PollRead
  <2>1. /\ pc' = "read" /\ cur' = fds[i].fd /\ i' = i /\ i \in DOMAIN fds
        /\ fds[i].revents /\ fds[i].fd # ListenFd /\ fds[i].fd \in Fds
    BY <1>2, <1>6 DEF PollRead, pollLoopVars, PollEntries
  <2>2. fds[i].fd \in OpenBeside(E)
    BY <1>1, <2>1 DEF PollInv, Listed
  <2>3. cur' \notin E /\ fdConn[cur'] # NoConn
    BY <2>1, <2>2 DEF OpenBeside
  <2>4. ServeInv'
    BY <1>1, <2>1, <2>3, TurnKeeps DEF PollInv
  <2>5. Beside(E)' /\ Listed(E)' /\ PollLists' /\ AtPosition'
    BY <1>1, <1>4, <2>1, <2>3 DEF PollInv, Beside, Listed, PollLists, AtPosition, Working
  <2>6. ASSUME Clean PROVE Reported' /\ NoBlindRead'
    <3>1. FdReady(cur')
      BY <1>1, <1>2, <2>1, <2>6 DEF PollInv, Reported
    <3>2. FdReady(cur)'
      BY <1>1, <3>1 DEF FdReady, Readable, netVars
    <3> QED
      BY <1>1, <1>2, <1>3, <2>1, <2>6, <3>2 DEF PollInv, Reported, NoBlindRead, Working
  <2> QED
    BY <2>4, <2>5, <2>6 DEF PollInv
<1> QED
  BY <1>5, <1>6

\* accept: the list grows, while it is scanned.
LEMMA PollAcceptKeeps ==
  ASSUME NEW E, PollInv(E), PollAccept
  PROVE  PollInv(E)' /\ UNCHANGED <<rcvd, told, peer>>
<1>1. /\ pc = "scan" /\ UNCHANGED <<pc, cur, owed>> /\ i' = i + 1
      /\ pc \notin Working /\ pc # "down" /\ pc' \in {"wait", "scan"} /\ pc' \notin Working
  BY DEF PollAccept, echoVars, Working
<1>2. PICK f \in Fds, garbage \in StackRevents :
        Accepted(f) /\ fds' = Append(fds, PollFd(f, garbage))
  BY DEF PollAccept
<1> DEFINE n == Len(fds)
           e == PollFd(f, garbage)
<1>3. e \in PollEntries /\ e.fd = f /\ e.revents = garbage
  BY <1>2, StackAssumption DEF PollFd, PollEntries
<1>4. /\ cur \in Fds /\ ListenFd \notin Fds /\ i \in Nat \ {0}
      /\ n \in Nat /\ DOMAIN fds = 1 .. n /\ fds \in Seq(PollEntries)
      /\ \A k \in DOMAIN fds : fds[k] \in PollEntries
  BY PollTyped DEF PollInv, PollLists
<1>5. /\ fds' \in Seq(PollEntries) /\ DOMAIN fds' = 1 .. n + 1
      /\ \A k \in 1 .. n : fds'[k] = fds[k]
      /\ fds'[n + 1] = e
  <2>1. fds' = Append(fds, e)
    BY <1>2
  <2> HIDE DEF e
  <2> QED
    BY <1>3, <1>4, <2>1, Appended, LenProperties
<1> HIDE DEF e
<1>6. /\ ServeInv' /\ UNCHANGED <<rcvd, told, peer>>
      /\ fdConn[f] = NoConn /\ fdConn'[f] # NoConn
      /\ \A g \in Fds : g # f => fdConn'[g] = fdConn[g]
      /\ \A g \in Fds : FdReady(g) => FdReady(g)'
  BY <1>1, <1>2, AcceptedKeeps DEF PollInv
<1>7. Beside(E)' /\ OpenBeside(E)' = OpenBeside(E) \cup {f} /\ f \notin OpenBeside(E)
  BY <1>1, <1>2, <1>6, AcceptBeside DEF PollInv
<1>8. Listed(E)'
  <2>1. \A k \in DOMAIN fds' : k \in 1 .. n \/ k = n + 1
    BY <1>4, <1>5
  <2>2. /\ 1 \in DOMAIN fds /\ fds[1].fd = ListenFd
        /\ \A j, k \in DOMAIN fds : fds[j].fd = fds[k].fd => j = k
        /\ \A k \in DOMAIN fds : fds[k].fd \in {ListenFd} \cup OpenBeside(E)
        /\ \A g \in OpenBeside(E) : \E k \in DOMAIN fds : fds[k].fd = g
    BY <1>1 DEF PollInv, Listed
  <2>3. DOMAIN fds \subseteq DOMAIN fds' /\ n + 1 \in DOMAIN fds'
    BY <1>4, <1>5
  <2>4. \A k \in DOMAIN fds : fds'[k] = fds[k] /\ fds[k].fd # f
    BY <1>2, <1>4, <1>5, <1>7, <2>2
  <2>5. 1 \in DOMAIN fds' /\ fds'[1].fd = ListenFd
    BY <2>2, <2>3, <2>4
  <2>6. \A j, k \in DOMAIN fds' : fds'[j].fd = fds'[k].fd => j = k
    BY <1>3, <1>4, <1>5, <2>1, <2>2, <2>4
  <2>7. \A k \in DOMAIN fds' : fds'[k].fd \in {ListenFd} \cup OpenBeside(E)'
    BY <1>3, <1>4, <1>5, <1>7, <2>1, <2>2, <2>4
  <2>8. \A g \in OpenBeside(E)' : \E k \in DOMAIN fds' : fds'[k].fd = g
    BY <1>3, <1>5, <1>7, <2>2, <2>3, <2>4
  <2> QED
    BY <2>5, <2>6, <2>7, <2>8 DEF Listed
<1>9. PollLists' /\ AtPosition'
  BY <1>1, <1>4, <1>5 DEF PollLists, AtPosition
<1>10. ASSUME Clean PROVE Reported' /\ NoBlindRead'
  <2>1. ~e.revents
    BY <1>2, <1>3, <1>10 DEF Clean
  <2>2. \A k \in DOMAIN fds' : fds'[k].revents /\ fds'[k].fd # ListenFd /\ k >= i + 1
          => \E g \in Fds : g = fds'[k].fd /\ FdReady(g)
    BY <1>1, <1>4, <1>5, <1>10, <2>1 DEF PollInv, Reported, PollEntries
  <2> QED
    BY <1>1, <1>6, <2>2 DEF Reported, NoBlindRead, FdReady, Readable
<1> QED
  BY <1>6, <1>7, <1>8, <1>9, <1>10 DEF PollInv

\* While one connection is served, the entries the scan has still to reach are others'.
LEMMA PollOthersKept ==
  ASSUME NEW E, PollInv(E), pc \in Working,
         \A f \in Fds \ {cur} : FdReady(f) => FdReady(f)'
  PROVE  /\ i \in DOMAIN fds /\ fds[i].fd = cur /\ cur # ListenFd
         /\ \A k \in DOMAIN fds : k # i => fds[k].fd # cur
         /\ Clean => \A f \in Fds : \A k \in DOMAIN fds :
              fds[k].revents /\ fds[k].fd = f /\ k > i => FdReady(f)'
<1>1. i \in DOMAIN fds /\ fds[i].fd = cur /\ cur # ListenFd /\ pc # "down"
  BY PollTyped DEF PollInv, AtPosition, Working
<1>2. \A k \in DOMAIN fds : k # i => fds[k].fd # cur
  BY <1>1 DEF PollInv, Listed
<1>3. \A k \in DOMAIN fds : k > i => k # i
  BY PollTyped
<1>4. ASSUME Clean, NEW f \in Fds, NEW k \in DOMAIN fds, fds[k].revents, fds[k].fd = f, k > i
      PROVE  FdReady(f)'
  <2>1. f # ListenFd /\ f # cur
    BY <1>2, <1>3, <1>4, PollTyped
  <2>2. FdReady(f)
    BY <1>4, <2>1 DEF PollInv, Reported
  <2> QED
    BY <2>1, <2>2
<1> QED
  BY <1>1, <1>2, <1>4

LEMMA PollServesKeep ==
  ASSUME NEW E, PollInv(E), PollEcho \/ PollSent
  PROVE  PollInv(E)'
<1>1. CASE PollEcho
  <2>1. /\ pc = "read" /\ pc' = "send" /\ RecvData(Conn) /\ UNCHANGED <<cur, fds, i>>
        /\ owed' = Received(Conn) - rcvd[Conn]
    BY <1>1 DEF PollEcho, ReadThenSend, pollLoopVars
  <2>2. owed' \in Nat
    BY <2>1, ServedIsOpen, SocketsAssumption DEF PollInv, Working, RecvData, Received, Least
  <2>3. /\ ServeInv' /\ UNCHANGED fdConn
        /\ \A f \in Fds \ {cur} : FdReady(f) => FdReady(f)'
    BY <2>1, <2>2, RecvServes DEF PollInv
  <2>4. Beside(E)' /\ Listed(E)' /\ PollLists' /\ AtPosition'
    BY <2>1, <2>3 DEF PollInv, Beside, Listed, OpenBeside, PollLists, AtPosition, Working
  <2>5. ASSUME Clean PROVE Reported' /\ NoBlindRead'
    <3>1. \A f \in Fds : \A k \in DOMAIN fds :
            fds[k].revents /\ fds[k].fd = f /\ k > i => FdReady(f)'
      BY <2>1, <2>3, <2>5, PollOthersKept DEF Working
    <3>2. \A k \in DOMAIN fds : fds[k].fd # ListenFd => fds[k].fd \in Fds
      BY PollTyped DEF PollEntries
    <3> QED
      BY <2>1, <3>1, <3>2 DEF Reported, NoBlindRead, Working, FdReady, Readable
  <2> QED
    BY <2>3, <2>4, <2>5 DEF PollInv
<1>2. CASE PollSent
  <2>1. /\ ServeInv' /\ pc = "send" /\ pc' \in {"send", "scan"}
        /\ UNCHANGED <<fdConn, cur, fds>> /\ i' = IF pc' = "scan" THEN i + 1 ELSE i
        /\ \A f \in Fds \ {cur} : FdReady(f) => FdReady(f)'
    BY <1>2, SendServes DEF PollInv, PollSent
  <2>2. i \in Nat \ {0} /\ \A k \in DOMAIN fds : k \in Nat
    BY PollTyped
  <2>3. Beside(E)' /\ Listed(E)' /\ PollLists' /\ AtPosition'
    BY <2>1, <2>2 DEF PollInv, Beside, Listed, OpenBeside, PollLists, AtPosition, Working
  <2>4. ASSUME Clean PROVE Reported' /\ NoBlindRead'
    <3>1. \A f \in Fds : \A k \in DOMAIN fds :
            fds[k].revents /\ fds[k].fd = f /\ k > i => FdReady(f)'
      BY <2>1, <2>4, PollOthersKept DEF Working
    <3>2. \A k \in DOMAIN fds : fds[k].fd # ListenFd => fds[k].fd \in Fds
      BY PollTyped DEF PollEntries
    <3>3. \A k \in DOMAIN fds : k >= i + 1 => k > i
      BY <2>2
    <3> QED
      BY <2>1, <3>1, <3>2, <3>3 DEF Reported, NoBlindRead, Working, FdReady, Readable
  <2> QED
    BY <2>1, <2>3, <2>4 DEF PollInv
<1> QED
  BY <1>1, <1>2

\* The entry at i is erased, its successor moves to i, and the scan goes on behind it.
LEMMA PollHangUpKeeps ==
  ASSUME NEW E, PollInv(E), PollHangUp
  PROVE  PollInv(E)' /\ UNCHANGED <<rcvd, told>> /\ \A c \in Conns : peer'[c] = peer[c]
<1>1. /\ ReadEnd /\ CloseFd(cur) /\ fds' = Erased(fds, i) /\ i' = i + 1 /\ pc' = "scan"
      /\ pc' \notin Working /\ UNCHANGED <<cur, owed>>
  BY DEF PollHangUp, Erased, Working
<1>2. /\ ServeInv' /\ pc = "read" /\ pc \in Working /\ pc # "down"
      /\ fdConn' = [fdConn EXCEPT ![cur] = NoConn]
      /\ UNCHANGED <<rcvd, told>> /\ \A c \in Conns : peer'[c] = peer[c]
      /\ \A f \in Fds \ {cur} : FdReady(f) => FdReady(f)'
  BY <1>1, HangUpKeeps DEF PollInv, Working
<1>3. /\ cur \in Fds /\ ListenFd \notin Fds /\ i \in Nat \ {0}
      /\ fds \in Seq(PollEntries) /\ Len(fds) \in Nat /\ DOMAIN fds = 1 .. Len(fds)
      /\ \A k \in DOMAIN fds : k \in Nat /\ fds[k] \in PollEntries
  BY PollTyped DEF PollInv, PollLists
<1>4. /\ i \in DOMAIN fds /\ fds[i].fd = cur /\ cur # ListenFd
      /\ \A k \in DOMAIN fds : k # i => fds[k].fd # cur
      /\ Clean => \A f \in Fds : \A k \in DOMAIN fds :
           fds[k].revents /\ fds[k].fd = f /\ k > i => FdReady(f)'
  BY <1>2, PollOthersKept
<1>5. /\ fds' \in Seq(PollEntries) /\ DOMAIN fds' = 1 .. Len(fds) - 1
      /\ \A k \in DOMAIN fds' : fds'[k] = IF k < i THEN fds[k] ELSE fds[k + 1]
  BY <1>1, <1>3, <1>4, EraseProperties
<1>6. Beside(E)' /\ OpenBeside(E)' = OpenBeside(E) \ {cur}
  BY <1>1, <1>2, <1>3, HangUpBeside DEF PollInv, ServeInv, NetInv
<1>7. Listed(E)'
  <2>1. /\ 1 \in DOMAIN fds /\ fds[1].fd = ListenFd
        /\ \A j, k \in DOMAIN fds : fds[j].fd = fds[k].fd => j = k
        /\ \A k \in DOMAIN fds : fds[k].fd \in {ListenFd} \cup OpenBeside(E)
        /\ \A g \in OpenBeside(E) : \E k \in DOMAIN fds : fds[k].fd = g
    BY <1>2 DEF PollInv, Listed
  <2>2. 1 \in DOMAIN fds' /\ fds'[1].fd = ListenFd
    <3>1. i # 1
      BY <1>4, <2>1
    <3>2. 1 \in DOMAIN fds' /\ 1 < i
      BY <1>3, <1>4, <1>5, <3>1
    <3> QED
      BY <1>5, <2>1, <3>2
  <2> DEFINE old(k) == IF k < i THEN k ELSE k + 1
  <2>3. \A k \in DOMAIN fds' : old(k) \in DOMAIN fds /\ old(k) # i /\ fds'[k] = fds[old(k)]
    BY <1>3, <1>4, <1>5
  <2>4. \A j, k \in DOMAIN fds' : old(j) = old(k) => j = k
    BY <1>3, <1>5
  <2>5. \A g \in DOMAIN fds \ {i} : \E k \in DOMAIN fds' : old(k) = g
    <3> SUFFICES ASSUME NEW g \in DOMAIN fds \ {i} PROVE \E k \in DOMAIN fds' : old(k) = g
      OBVIOUS
    <3>1. CASE g < i
      <4>1. g \in DOMAIN fds'
        BY <1>3, <1>4, <1>5, <3>1
      <4> QED
        BY <3>1, <4>1
    <3>2. CASE ~(g < i)
      <4>1. g - 1 \in DOMAIN fds' /\ ~(g - 1 < i) /\ (g - 1) + 1 = g
        BY <1>3, <1>4, <1>5, <3>2
      <4> QED
        BY <4>1
    <3> QED
      BY <3>1, <3>2
  <2> HIDE DEF old
  <2>6. \A j, k \in DOMAIN fds' : fds'[j].fd = fds'[k].fd => j = k
    BY <2>1, <2>3, <2>4
  <2>7. \A k \in DOMAIN fds' : fds'[k].fd \in {ListenFd} \cup OpenBeside(E)'
    BY <1>4, <1>6, <2>1, <2>3
  <2>8. \A g \in OpenBeside(E)' : \E k \in DOMAIN fds' : fds'[k].fd = g
    BY <1>4, <1>6, <2>1, <2>3, <2>5
  <2> QED
    BY <2>2, <2>6, <2>7, <2>8 DEF Listed
<1>8. PollLists' /\ AtPosition'
  BY <1>1, <1>3, <1>5 DEF PollLists, AtPosition
<1>9. ASSUME Clean PROVE Reported' /\ NoBlindRead'
  <2>1. \A k \in DOMAIN fds' : k >= i + 1 =>
          k + 1 \in DOMAIN fds /\ k + 1 > i /\ fds'[k] = fds[k + 1]
    BY <1>3, <1>4, <1>5
  <2>2. \A k \in DOMAIN fds' : k >= i + 1 /\ fds'[k].revents /\ fds'[k].fd # ListenFd
          => \E f \in Fds : f = fds'[k].fd /\ FdReady(f)'
    BY <1>3, <1>4, <1>9, <2>1 DEF PollEntries
  <2> QED
    BY <1>1, <2>2 DEF Reported, NoBlindRead, FdReady, Readable
<1> QED
  BY <1>2, <1>6, <1>7, <1>8, <1>9 DEF PollInv

LEMMA PollEndKeeps ==
  ASSUME NEW E, PollInv(E), EndProcess, pc # "send" \/ peer[Conn] = "gone",
         UNCHANGED pollLoopVars
  PROVE  PollInv(E)' /\ pc' = "down" /\ AccountsKept
<1>1. EndProcess /\ (pc # "send" \/ peer[Conn] = "gone")
  OBVIOUS
<1>2. ServeInv' /\ pc' = "down" /\ AccountsKept
  BY <1>1, EndKeeps DEF PollInv
<1>3. PollLists' /\ Beside(E)' /\ Listed(E)' /\ AtPosition' /\ Reported' /\ NoBlindRead'
  BY <1>2
     DEF PollInv, PollLists, Beside, Listed, AtPosition, Reported, NoBlindRead, Working,
         pollLoopVars
<1> QED
  BY <1>2, <1>3 DEF PollInv

LEMMA PollFailsKeeps ==
  ASSUME NEW E, PollInv(E), PollFails, UNCHANGED pollLoopVars
  PROVE  PollInv(E)' /\ pc' = "down" /\ AccountsKept
<1>1. EndProcess /\ (pc # "send" \/ peer[Conn] = "gone")
  BY DEF PollFails, PollKilled, PollAcceptFails, ReadError, BrokenPipe
<1> QED
  BY <1>1, PollEndKeeps

LEMMA PollStepKeeps ==
  ASSUME NEW E, PollInv(E), PollStep
  PROVE  PollInv(E)'
BY PollWaitKeeps, PollScanKeeps, PollAcceptKeeps, PollServesKeep, PollHangUpKeeps,
   PollFailsKeeps DEF PollStep, PollTurn

\* The loop is left, and nothing else happens.
LEMMA PollLeavesKeeps ==
  ASSUME NEW E, PollInv(E), pc \in {"wait", "scan"}, pc' = "wait",
         UNCHANGED <<netVars, cur, owed, pollLoopVars>>
  PROVE  PollInv(E)'
<1>1. ServeInv'
  BY TurnKeeps DEF PollInv, ServeInv, EchoTypeOK
<1>2. Beside(E)' /\ OpenBeside(E)' = OpenBeside(E)
  BY DEF PollInv, Beside, OpenBeside, netVars, Working
<1>3. PollLists' /\ Listed(E)' /\ AtPosition' /\ Reported' /\ NoBlindRead'
  BY <1>2
     DEF PollInv, PollLists, Listed, AtPosition, Reported, NoBlindRead, Working, netVars,
         pollLoopVars
<1> QED
  BY <1>1, <1>2, <1>3 DEF PollInv

LEMMA PollClientsKeep ==
  ASSUME NEW E, PollInv(E), ClientStep, UNCHANGED pollLoopVars
  PROVE  PollInv(E)'
<1>1. /\ ServeInv' /\ UNCHANGED <<fdConn, pc, cur, owed, fds, i>>
      /\ \A f \in Fds : FdReady(f) => FdReady(f)'
  BY ClientsKeep DEF PollInv, echoVars, pollLoopVars
<1>2. cur \in Fds /\ \A k \in DOMAIN fds : fds[k].fd # ListenFd => fds[k].fd \in Fds
  BY PollTyped DEF PollEntries
<1>3. Beside(E)' /\ OpenBeside(E)' = OpenBeside(E)
  BY <1>1, ClientsBeside DEF PollInv
<1>4. PollLists' /\ Listed(E)' /\ AtPosition'
  BY <1>1, <1>3 DEF PollInv, PollLists, Listed, AtPosition
<1>5. Clean => Reported' /\ NoBlindRead'
  BY <1>1, <1>2 DEF PollInv, Reported, NoBlindRead
<1> QED
  BY <1>1, <1>3, <1>4, <1>5 DEF PollInv

LEMMA PollStutters ==
  ASSUME NEW E, PollInv(E), UNCHANGED pollVars
  PROVE  PollInv(E)'
<1>1. ServeInv'
  BY EchoStutters DEF PollInv, pollVars
<1>2. Beside(E)' /\ OpenBeside(E)' = OpenBeside(E)
  BY ClientsBeside DEF PollInv, pollVars, netVars, echoVars
<1>3. PollLists' /\ Listed(E)' /\ AtPosition'
  BY <1>2 DEF PollInv, PollLists, Listed, AtPosition, pollVars, echoVars, pollLoopVars
<1>4. Clean => Reported' /\ NoBlindRead'
  BY DEF PollInv, pollVars, netVars, echoVars, pollLoopVars, Reported, NoBlindRead, FdReady,
         Readable
<1> QED
  BY <1>1, <1>2, <1>3, <1>4 DEF PollInv

\* The poll loop owes all it reads, and pays it.
LEMMA PollAccounts ==
  ASSUME NEW C \in SUBSET Conns, NEW E, PollInv(E), Accounted(C, {}),
         [PollNext]_pollVars
  PROVE  Accounted(C, {})'
<1> ServeInv
  BY DEF PollInv
<1>1. CASE PollWait \/ PollSkip \/ PollRead \/ PollScanned
  BY <1>1, QuietAccounts DEF PollWait, PollSkip, PollRead, PollScanned, netVars, echoVars
<1>2. CASE PollAccept
  BY <1>2, PollAcceptKeeps, QuietAccounts DEF PollAccept, echoVars
<1>3. CASE PollEcho
  <2> DEFINE n == Received(Conn) - rcvd[Conn]
  <2>1. ReadThenSend(n)
    BY <1>3 DEF PollEcho
  <2>2. n \in Nat
    BY <2>1, ServedIsOpen, SocketsAssumption
       DEF ReadThenSend, RecvData, Received, Least, Working
  <2>3. n <= n /\ ~(n < n)
    BY <2>2
  <2> QED
    BY <2>1, <2>2, <2>3, ReadAccounts
<1>4. CASE PollSent
  BY <1>4, SendAccounts DEF PollSent
<1>5. CASE PollHangUp
  BY <1>5, PollHangUpKeeps, QuietAccounts DEF PollHangUp, ReadEnd
<1>6. CASE PollFails /\ UNCHANGED pollLoopVars
  BY <1>6, PollFailsKeeps DEF AccountsKept
<1>7. CASE ClientStep
  BY <1>7, ClientsKeep, QuietAccounts DEF echoVars
<1>8. CASE UNCHANGED pollVars
  BY <1>8, StutterAccounts DEF pollVars
<1> QED
  BY <1>1, <1>2, <1>3, <1>4, <1>5, <1>6, <1>7, <1>8 DEF PollNext, PollStep, PollTurn, PollIdle

LEMMA PollStarts == PollInit => PollInv({}) /\ Accounted(Conns, {})
<1> SUFFICES ASSUME PollInit PROVE PollInv({}) /\ Accounted(Conns, {})
  OBVIOUS
<1>1. ServeInv /\ Accounted(Conns, {}) /\ pc = "wait" /\ i \in Nat \ {0}
  BY EchoStarts DEF PollInit, EchoInit
<1>2. Beside({}) /\ NoneBeside({})
  BY <1>1 DEF Beside, NoneBeside, PollInit, EchoInit, NetInit, Working
<1> QED
  BY <1>1, <1>2, PollEnters DEF PollInit

LEMMA PollNextInv == PollInv({}) /\ [PollNext]_pollVars => PollInv({})'
BY PollStepKeeps, PollClientsKeep, PollStutters DEF PollNext, PollIdle

LEMMA PollHolds == PollSpec => [](PollInv({}) /\ Accounted(Conns, {}))
<1>1. PollInv({}) /\ Accounted(Conns, {}) /\ [PollNext]_pollVars => Accounted(Conns, {})'
  BY PollAccounts
<1> QED
  BY PollStarts, PollNextInv, <1>1, PTL DEF PollSpec
-----------------------------------------------------------------------------
(***************************************************************************)
(* Every variable of the poll echo server keeps its type, whatever the     *)
(* uninitialised field of a new entry holds.                               *)
(***************************************************************************)
THEOREM PollTypeCorrect == PollSpec => []PollTypeOK
<1>1. PollInv({}) => PollTypeOK
  BY DEF PollInv, ServeInv, NetInv, PollLists, PollEntries, PollTypeOK
<1> QED
  BY <1>1, PollHolds, PTL

(***************************************************************************)
(* The list that the poll echo server appends to and erases from while it  *)
(* scans it always holds the listener first, and the open client sockets,  *)
(* each once: none is watched twice, lost, or still there when closed.     *)
(***************************************************************************)
THEOREM FdsAreExact == PollSpec => []FdsExact
<1>1. PollInv({}) => FdsExact
  BY DEF PollInv, Listed, OpenBeside, FdsExact
<1> QED
  BY <1>1, PollHolds, PTL

(***************************************************************************)
(* The poll echo server sends back all a client sent before it ended its   *)
(* stream, although the erase makes the scan step over another's entry.    *)
(***************************************************************************)
THEOREM PollEchoesWhole == PollSpec => []EchoedInFull
<1>1. PollInv({}) /\ Accounted(Conns, {}) => EchoedInFull
  BY InvEchoes DEF PollInv
<1> QED
  BY <1>1, PollHolds, PTL

(***************************************************************************)
(* Where the uninitialised revents of a new entry happens to lack POLLIN,  *)
(* the poll echo server never sleeps in a read.  Without that hypothesis   *)
(* it does, which is what the run that expects a violation shows.          *)
(***************************************************************************)
THEOREM PollNeverBlind ==
  ASSUME StackRevents = {FALSE}
  PROVE  PollSpec => []NoBlindRead
<1>1. PollInv({}) => NoBlindRead
  BY DEF PollInv, Clean
<1> QED
  BY <1>1, PollHolds, PTL

-----------------------------------------------------------------------------
(* The select loop. *)

\* The socket being served is the one in the scan's slot.
AtSlot == pc \in Working => slot \in Slots /\ client_sockets[slot] = cur

\* Nothing was closed between select and the accept that follows it.
Fresh == pc = "accept" => slot = 1 /\ \A f \in readfds : f # ListenFd => FdReady(f)

(***************************************************************************)
(* What select reported of the sockets in the slots still to be scanned    *)
(* holds until the scan gets there, although the accept in between may     *)
(* have filled one of these slots.                                         *)
(***************************************************************************)
StillReady ==
  \A s \in Slots :
    InSet(s) /\ ((pc = "scan" /\ s >= slot) \/ (pc \in Working /\ s > slot))
      => FdReady(client_sockets[s])

SelectLists ==
  /\ client_sockets \in [Slots -> Fds \cup {Free}]
  /\ readfds \subseteq Fds \cup {ListenFd}
  /\ slot \in 1 .. MaxClients + 1

SelectInv ==
  /\ ServeInv /\ SelectLists /\ SlotsDistinct /\ AtSlot /\ Fresh /\ StillReady
  /\ NoBlindRead
-----------------------------------------------------------------------------
\* A set of numbers that is not empty has a least one, which is the one Min picks.
LEMMA LeastElement ==
  ASSUME NEW S \in SUBSET Nat, S # {}
  PROVE  Min(S) \in S
<1> DEFINE R == {ss \in Nat \X Nat : ss[1] < ss[2]}
<1>1. IsWellFoundedOn(R, Nat)
  BY NatLessThanWellFounded DEF OpToRel
<1> HIDE DEF R
<1>2. \E x \in S : \A y \in S : <<y, x>> \notin R
  BY <1>1, WFMin
<1>3. \A x, y \in Nat : <<y, x>> \notin R => x <= y
  BY DEF R
<1>4. \E x \in S : \A y \in S : x <= y
  BY <1>2, <1>3
<1> QED
  BY <1>4 DEF Min

\* strlen of what a read put into the buffer stops short only at a NUL in it.
LEMMA StrLenBounds ==
  ASSUME NEW first \in Nat, NEW last \in Nat, first < last
  PROVE  /\ StrLen(first, last) \in Nat
         /\ StrLen(first, last) <= last - first
         /\ StrLen(first, last) < last - first => Nul \cap first + 1 .. last # {}
<1> DEFINE nuls == {n \in Nul : first < n /\ n <= last}
<1>1. CASE nuls = {}
  <2>1. StrLen(first, last) = last - first
    BY <1>1 DEF StrLen
  <2> QED
    BY <2>1
<1>2. CASE nuls # {}
  <2>1. nuls \in SUBSET Nat
    BY EchoAssumption
  <2> HIDE DEF nuls
  <2>2. Min(nuls) \in nuls
    BY <1>2, <2>1, LeastElement
  <2>3. StrLen(first, last) = Min(nuls) - first - 1
    BY <1>2 DEF StrLen, nuls
  <2>4. Min(nuls) \in Nul /\ Min(nuls) \in Nat /\ first < Min(nuls) /\ Min(nuls) <= last
    BY <2>1, <2>2 DEF nuls
  <2>5. Min(nuls) \in first + 1 .. last
    BY <2>4
  <2> QED
    BY <2>3, <2>4, <2>5
<1> QED
  BY <1>1, <1>2

\* The new client's descriptor goes into a slot that was free, or nowhere.
LEMMA Entered ==
  ASSUME SelectLists, NEW f \in Fds, Enter(f)
  PROVE  /\ client_sockets' \in [Slots -> Fds \cup {Free}]
         /\ \/ client_sockets' = client_sockets
            \/ \E m \in Slots :
                 /\ client_sockets[m] = Free
                 /\ \A s \in Slots :
                      client_sockets'[s] = IF s = m THEN f ELSE client_sockets[s]
<1> DEFINE free == {s \in Slots : client_sockets[s] = Free}
<1>1. CASE free = {}
  BY <1>1 DEF Enter, SelectLists
<1>2. CASE free # {}
  <2>1. free \in SUBSET Nat
    BY SelectAssumption DEF Slots
  <2>2. client_sockets' = [client_sockets EXCEPT ![Min(free)] = f]
    BY <1>2 DEF Enter
  <2>3. Min(free) \in Slots /\ client_sockets[Min(free)] = Free
    <3> HIDE DEF free
    <3>1. Min(free) \in free
      BY <1>2, <2>1, LeastElement
    <3> QED
      BY <3>1 DEF free
  <2> HIDE DEF free
  <2> QED
    BY <2>2, <2>3 DEF SelectLists
<1> QED
  BY <1>1, <1>2

LEMMA SelectTyped ==
  ASSUME SelectInv
  PROVE  /\ cur \in Fds /\ Free \notin Fds /\ ListenFd \notin Fds
         /\ MaxClients \in Nat \ {0} /\ Slots \subseteq Nat \ {0} /\ slot \in Nat \ {0}
         /\ \A s \in Slots : client_sockets[s] \in Fds \cup {Free}
         /\ slot \in Slots => slot + 1 \in 1 .. MaxClients + 1
BY SelectAssumption
   DEF SelectInv, ServeInv, EchoTypeOK, SelectLists, Fds, Free, ListenFd, Slots

LEMMA SelectStarts == SelectInit => SelectInv /\ Accounted(Conns, Nul)
<1> SUFFICES ASSUME SelectInit PROVE SelectInv /\ Accounted(Conns, Nul)
  OBVIOUS
<1>1. ServeInv /\ Accounted(Conns, Nul) /\ pc = "wait"
  BY EchoStarts DEF SelectInit, EchoInit
<1>2. SelectLists
  BY SelectAssumption DEF SelectInit, SelectLists
<1>3. \A s \in Slots : client_sockets[s] = Free
  BY DEF SelectInit
<1> QED
  BY <1>1, <1>2, <1>3
     DEF SelectInv, SlotsDistinct, AtSlot, Fresh, StillReady, NoBlindRead, Working

LEMMA SelectWaitKeeps ==
  ASSUME SelectInv, SelectWait
  PROVE  SelectInv'
<1>1. /\ pc = "wait" /\ pc' \in {"accept", "scan"} /\ slot' = 1
      /\ readfds' \subseteq {f \in Watched : FdReady(f)} \cup {ListenFd}
      /\ UNCHANGED <<netVars, cur, owed, client_sockets, fdConn>>
  BY DEF SelectWait, netVars
<1>2. ServeInv'
  BY <1>1, SelectTyped, TurnKeeps DEF SelectInv
<1>3. SelectLists'
  BY <1>1, SelectTyped DEF SelectInv, SelectLists, Watched
<1>4. \A f : FdReady(f) => FdReady(f)'
  BY <1>1 DEF FdReady, Readable, netVars
<1>5. \A f \in readfds' : f # ListenFd => FdReady(f)
  BY <1>1
<1>6. SlotsDistinct' /\ AtSlot' /\ NoBlindRead'
  BY <1>1 DEF SelectInv, SlotsDistinct, AtSlot, NoBlindRead, Working
<1>7. Fresh' /\ StillReady'
  BY <1>1, <1>4, <1>5 DEF Fresh, StillReady, InSet, Working, Free, ListenFd
<1> QED
  BY <1>2, <1>3, <1>6, <1>7 DEF SelectInv

LEMMA SelectAcceptKeeps ==
  ASSUME SelectInv, SelectAccept
  PROVE  SelectInv' /\ UNCHANGED <<rcvd, told, peer>>
<1>1. /\ pc = "accept" /\ pc' = "scan" /\ UNCHANGED <<cur, owed, readfds, slot>>
      /\ pc \notin Working /\ pc # "down" /\ pc' \notin Working
  BY DEF SelectAccept, Working
<1>2. PICK f \in Fds : Accepted(f) /\ Enter(f)
  BY DEF SelectAccept
<1>3. /\ ServeInv' /\ UNCHANGED <<rcvd, told, peer>>
      /\ fdConn[f] = NoConn /\ fdConn'[f] # NoConn
      /\ \A g \in Fds : g # f => fdConn'[g] = fdConn[g]
      /\ \A g \in Fds : FdReady(g) => FdReady(g)'
  BY <1>1, <1>2, AcceptedKeeps DEF SelectInv
<1>4. /\ client_sockets' \in [Slots -> Fds \cup {Free}]
      /\ \/ client_sockets' = client_sockets
         \/ \E m \in Slots :
              /\ client_sockets[m] = Free
              /\ \A s \in Slots : client_sockets'[s] = IF s = m THEN f ELSE client_sockets[s]
  BY <1>2, Entered DEF SelectInv
<1>5. /\ f \notin readfds /\ slot = 1
      /\ \A g \in readfds : g # ListenFd => g \in Fds /\ FdReady(g)
  BY <1>1, <1>2, <1>3, SelectTyped DEF SelectInv, SelectLists, Fresh, FdReady
<1>6. \A s \in Slots : client_sockets[s] # Free =>
        /\ client_sockets[s] \in Fds /\ fdConn[client_sockets[s]] # NoConn
        /\ client_sockets[s] # f
        /\ \A t \in Slots : client_sockets[t] = client_sockets[s] => s = t
  BY <1>1, <1>3, SelectTyped DEF SelectInv, SlotsDistinct
<1>7. SlotsDistinct'
  <2>1. CASE client_sockets' = client_sockets
    BY <1>3, <1>6, <2>1 DEF SlotsDistinct
  <2>2. ASSUME NEW m \in Slots, client_sockets[m] = Free,
               \A s \in Slots : client_sockets'[s] = IF s = m THEN f ELSE client_sockets[s]
        PROVE  SlotsDistinct'
    BY <1>2, <1>3, <1>6, <2>2, SelectTyped DEF SlotsDistinct
  <2> QED
    BY <1>4, <2>1, <2>2
<1>8. SelectLists' /\ AtSlot' /\ Fresh' /\ NoBlindRead'
  BY <1>1, <1>4 DEF SelectInv, SelectLists, AtSlot, Fresh, NoBlindRead
<1>9. StillReady'
  <2> SUFFICES ASSUME NEW s \in Slots, client_sockets'[s] # Free, client_sockets'[s] \in readfds
               PROVE  \E g \in Fds : g = client_sockets'[s] /\ FdReady(g)'
    BY <1>1, Zenon DEF StillReady, InSet, FdReady, Readable
  <2> QED
    BY <1>3, <1>5 DEF Free, ListenFd
<1> QED
  BY <1>3, <1>7, <1>8, <1>9 DEF SelectInv

LEMMA SelectScanKeeps ==
  ASSUME SelectInv, SelectSkip \/ SelectRead \/ SelectScanned
  PROVE  SelectInv'
<1>1. /\ pc = "scan" /\ pc \notin Working
      /\ UNCHANGED <<netVars, owed, client_sockets, fdConn>>
  BY DEF SelectSkip, SelectRead, SelectScanned, echoVars, selectLoopVars, Working, netVars
<1>2. \A f : FdReady(f) => FdReady(f)'
  BY <1>1 DEF FdReady, Readable, netVars
<1>3. CASE SelectSkip
  <2>1. pc' = "scan" /\ cur' = cur /\ slot \in Slots /\ slot' = slot + 1 /\ readfds' = readfds
    BY <1>1, <1>3 DEF SelectSkip, echoVars
  <2>2. ServeInv'
    BY <1>1, <2>1, SelectTyped, TurnKeeps DEF SelectInv
  <2>3. SelectLists' /\ SlotsDistinct' /\ AtSlot' /\ Fresh' /\ NoBlindRead'
    BY <1>1, <2>1, SelectTyped
       DEF SelectInv, SelectLists, SlotsDistinct, AtSlot, Fresh, NoBlindRead, Working
  <2>4. StillReady'
    BY <1>1, <1>2, <2>1, SelectTyped DEF SelectInv, StillReady, InSet, Working
  <2> QED
    BY <2>2, <2>3, <2>4 DEF SelectInv
<1>4. CASE SelectRead
  <2>1. /\ pc' = "read" /\ slot \in Slots /\ cur' = client_sockets[slot] /\ slot' = slot
        /\ readfds' = readfds /\ InSet(slot)
    BY <1>4 DEF SelectRead, selectLoopVars
  <2>2. cur' \in Fds /\ FdReady(cur')
    BY <1>1, <2>1, SelectTyped DEF SelectInv, StillReady, InSet
  <2>3. ServeInv'
    BY <1>1, <2>1, <2>2, TurnKeeps DEF SelectInv, FdReady
  <2>4. SelectLists' /\ SlotsDistinct' /\ AtSlot' /\ Fresh'
    BY <1>1, <2>1 DEF SelectInv, SelectLists, SlotsDistinct, AtSlot, Fresh
  <2>5. NoBlindRead'
    BY <1>1, <2>2 DEF NoBlindRead, FdReady, Readable, netVars
  <2>6. StillReady'
    BY <1>1, <1>2, <2>1, SelectTyped DEF SelectInv, StillReady, InSet, Working
  <2> QED
    BY <2>3, <2>4, <2>5, <2>6 DEF SelectInv
<1>5. CASE SelectScanned
  <2>1. pc' = "wait" /\ cur' = cur /\ slot' = slot /\ readfds' = {}
    BY <1>5 DEF SelectScanned
  <2>2. ServeInv'
    BY <1>1, <2>1, SelectTyped, TurnKeeps DEF SelectInv
  <2>3. SelectLists' /\ SlotsDistinct' /\ AtSlot' /\ Fresh' /\ NoBlindRead' /\ StillReady'
    BY <1>1, <2>1
       DEF SelectInv, SelectLists, SlotsDistinct, AtSlot, Fresh, NoBlindRead, StillReady, Working
  <2> QED
    BY <2>2, <2>3 DEF SelectInv
<1> QED
  BY <1>3, <1>4, <1>5

\* While one slot is served, those the scan has still to reach are others'.
LEMMA SlotsKept ==
  ASSUME SelectInv, pc \in Working, \A f \in Fds \ {cur} : FdReady(f) => FdReady(f)'
  PROVE  /\ slot \in Slots /\ client_sockets[slot] = cur /\ cur # Free
         /\ \A s \in Slots : s # slot => client_sockets[s] # cur
         /\ \A f \in Fds : \A s \in Slots :
              f = client_sockets[s] /\ InSet(s) /\ s > slot => FdReady(f)'
<1>1. slot \in Slots /\ client_sockets[slot] = cur /\ cur # Free /\ pc # "down"
  BY SelectTyped DEF SelectInv, AtSlot, Working
<1>2. \A s \in Slots : s # slot => client_sockets[s] # cur
  BY <1>1 DEF SelectInv, SlotsDistinct
<1>3. ASSUME NEW f \in Fds, NEW s \in Slots, f = client_sockets[s], InSet(s), s > slot
      PROVE  FdReady(f)'
  <2>1. f \in Fds \ {cur}
    BY <1>2, <1>3, SelectTyped
  <2>2. FdReady(f)
    BY <1>3 DEF SelectInv, StillReady
  <2> QED
    BY <2>1, <2>2
<1> QED
  BY <1>1, <1>2, <1>3

LEMMA SelectServesKeep ==
  ASSUME SelectInv, SelectEcho \/ SendNothing \/ SelectSent
  PROVE  SelectInv'
<1>1. /\ pc \in Working /\ pc' \in {"send", "scan"} /\ UNCHANGED <<cur, client_sockets, readfds>>
      /\ slot' = IF pc' = "scan" THEN slot + 1 ELSE slot
  BY DEF SelectEcho, SendNothing, SelectSent, ReadThenSend, SendOn, SendLost, selectLoopVars,
         Working
<1>2. /\ ServeInv' /\ UNCHANGED fdConn
      /\ \A f \in Fds \ {cur} : FdReady(f) => FdReady(f)'
  <2>1. CASE SelectEcho
    <3> DEFINE n == StrLen(rcvd[Conn], Received(Conn))
    <3>1. pc = "read" /\ pc' = "send" /\ owed' = n /\ RecvData(Conn) /\ UNCHANGED cur
      BY <2>1 DEF SelectEcho, ReadThenSend
    <3>2. n \in Nat
      <4>1. rcvd[Conn] \in Nat /\ Received(Conn) \in Nat /\ rcvd[Conn] < Received(Conn)
        BY <3>1, ServedIsOpen, SocketsAssumption
           DEF SelectInv, Working, RecvData, Received, Least
      <4> QED
        BY <4>1, StrLenBounds
    <3> QED
      BY <3>1, <3>2, RecvServes DEF SelectInv
  <2>2. CASE SendNothing
    BY <1>1, <2>2, SelectTyped, TurnKeeps
       DEF SendNothing, SelectInv, netVars, FdReady, Readable, Working
  <2>3. CASE SelectSent
    BY <2>3, SendServes DEF SelectSent, SelectInv
  <2> QED
    BY <2>1, <2>2, <2>3
<1>3. /\ slot \in Slots /\ client_sockets[slot] = cur
      /\ \A f \in Fds : \A s \in Slots :
           f = client_sockets[s] /\ InSet(s) /\ s > slot => FdReady(f)'
  BY <1>1, <1>2, SlotsKept
<1>4. SelectLists' /\ SlotsDistinct' /\ AtSlot' /\ Fresh' /\ NoBlindRead'
  BY <1>1, <1>2, <1>3, SelectTyped
     DEF SelectInv, SelectLists, SlotsDistinct, AtSlot, Fresh, NoBlindRead, Working
<1>5. StillReady'
  <2> SUFFICES ASSUME NEW s \in Slots, InSet(s), s > slot
               PROVE  \E f \in Fds : f = client_sockets[s] /\ FdReady(f)'
    BY <1>1, <1>3, SelectTyped DEF StillReady, InSet, FdReady, Readable, Working
  <2> QED
    BY <1>3, SelectTyped DEF InSet
<1> QED
  BY <1>2, <1>4, <1>5 DEF SelectInv

LEMMA SelectHangUpKeeps ==
  ASSUME SelectInv, SelectHangUp
  PROVE  SelectInv' /\ UNCHANGED <<rcvd, told>> /\ \A c \in Conns : peer'[c] = peer[c]
<1>1. /\ ReadEnd /\ CloseFd(cur) /\ slot' = slot + 1 /\ pc' = "scan"
      /\ client_sockets' = [client_sockets EXCEPT ![slot] = Free]
      /\ UNCHANGED <<cur, owed, readfds>>
  BY DEF SelectHangUp
<1>2. /\ ServeInv' /\ pc = "read" /\ pc \in Working /\ pc # "down"
      /\ fdConn' = [fdConn EXCEPT ![cur] = NoConn]
      /\ UNCHANGED <<rcvd, told>> /\ \A c \in Conns : peer'[c] = peer[c]
      /\ \A f \in Fds \ {cur} : FdReady(f) => FdReady(f)'
  BY <1>1, HangUpKeeps DEF SelectInv, Working
<1>3. /\ slot \in Slots /\ client_sockets[slot] = cur /\ cur # Free
      /\ \A s \in Slots : s # slot => client_sockets[s] # cur
      /\ \A f \in Fds : \A s \in Slots :
           f = client_sockets[s] /\ InSet(s) /\ s > slot => FdReady(f)'
  BY <1>2, SlotsKept
<1>4. /\ client_sockets \in [Slots -> Fds \cup {Free}]
      /\ \A s \in Slots : client_sockets'[s] = IF s = slot THEN Free ELSE client_sockets[s]
  BY <1>1 DEF SelectInv, SelectLists
<1>5. \A f \in Fds \ {cur} : fdConn'[f] = fdConn[f]
  BY <1>2 DEF SelectInv, ServeInv, NetInv, NetTypeOK
<1>6. SlotsDistinct'
  BY <1>2, <1>3, <1>4, <1>5, SelectTyped DEF SelectInv, SlotsDistinct
<1>7. SelectLists' /\ AtSlot' /\ Fresh' /\ NoBlindRead'
  BY <1>1, <1>3, <1>4, SelectTyped
     DEF SelectInv, SelectLists, AtSlot, Fresh, NoBlindRead, Working
<1>8. StillReady'
  <2> SUFFICES ASSUME NEW s \in Slots, client_sockets'[s] # Free, client_sockets'[s] \in readfds,
                      s >= slot + 1
               PROVE  \E f \in Fds : f = client_sockets'[s] /\ FdReady(f)'
    BY <1>1, Zenon DEF StillReady, InSet, FdReady, Readable, Working
  <2>1. s > slot /\ s # slot
    BY SelectTyped
  <2>2. client_sockets'[s] = client_sockets[s]
    BY <1>4, <2>1
  <2> QED
    BY <1>3, <2>1, <2>2, SelectTyped DEF InSet
<1> QED
  BY <1>2, <1>6, <1>7, <1>8 DEF SelectInv

LEMMA SelectFailsKeeps ==
  ASSUME SelectInv, SelectFails, UNCHANGED selectLoopVars
  PROVE  SelectInv' /\ pc' = "down" /\ AccountsKept
<1>1. EndProcess /\ (pc # "send" \/ peer[Conn] = "gone")
  BY DEF SelectFails, SelectAcceptFailed, ReadError, BrokenPipe
<1>2. ServeInv' /\ pc' = "down" /\ AccountsKept
  BY <1>1, EndKeeps DEF SelectInv
<1>3. SelectLists' /\ SlotsDistinct' /\ AtSlot' /\ Fresh' /\ StillReady' /\ NoBlindRead'
  BY <1>2
     DEF SelectInv, SelectLists, SlotsDistinct, AtSlot, Fresh, StillReady, NoBlindRead, Working,
         selectLoopVars
<1> QED
  BY <1>2, <1>3 DEF SelectInv

LEMMA SelectClientsKeep ==
  ASSUME SelectInv, ClientStep, UNCHANGED selectLoopVars
  PROVE  SelectInv'
<1>1. /\ ServeInv' /\ UNCHANGED <<fdConn, pc, cur, owed, client_sockets, readfds, slot>>
      /\ \A f \in Fds : FdReady(f) => FdReady(f)'
  BY ClientsKeep DEF SelectInv, echoVars, selectLoopVars
<1>2. /\ cur \in Fds /\ \A f \in readfds : f # ListenFd => f \in Fds
      /\ \A s \in Slots : InSet(s) => client_sockets[s] \in Fds
  BY SelectTyped DEF SelectInv, SelectLists, InSet
<1>3. SelectLists' /\ SlotsDistinct' /\ AtSlot'
  BY <1>1 DEF SelectInv, SelectLists, SlotsDistinct, AtSlot
<1>4. Fresh' /\ NoBlindRead' /\ StillReady'
  BY <1>1, <1>2 DEF SelectInv, Fresh, NoBlindRead, StillReady, InSet
<1> QED
  BY <1>1, <1>3, <1>4 DEF SelectInv

LEMMA SelectStutters ==
  ASSUME SelectInv, UNCHANGED selectVars
  PROVE  SelectInv'
<1>1. ServeInv'
  BY EchoStutters DEF SelectInv, selectVars
<1>2. /\ SelectLists' /\ SlotsDistinct' /\ AtSlot' /\ Fresh' /\ StillReady'
      /\ NoBlindRead'
  BY DEF SelectInv, selectVars, netVars, echoVars, selectLoopVars, SelectLists, SlotsDistinct,
         AtSlot, Fresh, StillReady, NoBlindRead, InSet, FdReady, Readable
<1> QED
  BY <1>1, <1>2 DEF SelectInv

LEMMA SelectNextInv == SelectInv /\ [SelectNext]_selectVars => SelectInv'
BY SelectWaitKeeps, SelectAcceptKeeps, SelectScanKeeps, SelectServesKeep, SelectHangUpKeeps,
   SelectFailsKeeps, SelectClientsKeep, SelectStutters DEF SelectNext, SelectStep, SelectIdle

\* The select loop forgets nothing but what follows a NUL in one read.
LEMMA SelectAccounts ==
  ASSUME SelectInv, Accounted(Conns, Nul), [SelectNext]_selectVars
  PROVE  Accounted(Conns, Nul)'
<1> ServeInv
  BY DEF SelectInv
<1>1. CASE SelectWait \/ SelectSkip \/ SelectRead \/ SelectScanned
  <2>1. /\ pc \in {"wait", "scan"} /\ pc' \in {"accept", "scan", "read", "wait"}
        /\ UNCHANGED netVars
    BY <1>1 DEF SelectWait, SelectSkip, SelectRead, SelectScanned, echoVars
  <2> QED
    BY <2>1, QuietAccounts DEF netVars
<1>2. CASE SelectAccept
  BY <1>2, SelectAcceptKeeps, QuietAccounts DEF SelectAccept
<1>3. CASE SelectEcho
  <2> DEFINE n == StrLen(rcvd[Conn], Received(Conn))
  <2>1. ReadThenSend(n)
    BY <1>3 DEF SelectEcho
  <2>2. rcvd[Conn] \in Nat /\ Received(Conn) \in Nat /\ rcvd[Conn] < Received(Conn)
    BY <2>1, ServedIsOpen, SocketsAssumption
       DEF ReadThenSend, RecvData, Received, Least, Working
  <2>3. /\ n \in Nat /\ n <= Received(Conn) - rcvd[Conn]
        /\ n < Received(Conn) - rcvd[Conn] => Nul \cap rcvd[Conn] + 1 .. Received(Conn) # {}
    BY <2>2, StrLenBounds
  <2> HIDE DEF n
  <2> QED
    BY <2>1, <2>3, ReadAccounts
<1>4. CASE SendNothing
  <2>1. /\ pc = "send" /\ owed = 0 /\ pc' = "scan" /\ UNCHANGED <<rcvd, told, peer>>
    BY <1>4 DEF SendNothing, netVars
  <2>2. ASSUME NEW c \in Conns PROVE Pending(c)' = Pending(c)
    BY <2>1 DEF Pending
  <2> QED
    BY <2>1, <2>2 DEF Accounted
<1>5. CASE SelectSent
  BY <1>5, SendAccounts DEF SelectSent
<1>6. CASE SelectHangUp
  BY <1>6, SelectHangUpKeeps, QuietAccounts DEF SelectHangUp, ReadEnd
<1>7. CASE SelectFails /\ UNCHANGED selectLoopVars
  BY <1>7, SelectFailsKeeps DEF AccountsKept
<1>8. CASE ClientStep
  BY <1>8, ClientsKeep, QuietAccounts DEF echoVars
<1>9. CASE UNCHANGED selectVars
  BY <1>9, StutterAccounts DEF selectVars
<1> QED
  BY <1>1, <1>2, <1>3, <1>4, <1>5, <1>6, <1>7, <1>8, <1>9
     DEF SelectNext, SelectStep, SelectIdle

LEMMA SelectHolds == SelectSpec => [](SelectInv /\ Accounted(Conns, Nul))
<1>1. SelectInv /\ Accounted(Conns, Nul) /\ [SelectNext]_selectVars => Accounted(Conns, Nul)'
  BY SelectAccounts
<1> QED
  BY SelectStarts, SelectNextInv, <1>1, PTL DEF SelectSpec
-----------------------------------------------------------------------------
(***************************************************************************)
(* Every variable of the select echo server keeps its type: its table      *)
(* never grows beyond max_clients slots, and the scan never leaves it.     *)
(***************************************************************************)
THEOREM SelectTypeCorrect == SelectSpec => []SelectTypeOK
<1>1. SelectInv => SelectTypeOK
  BY DEF SelectInv, ServeInv, NetInv, SelectLists, SelectTypeOK
<1> QED
  BY <1>1, SelectHolds, PTL

(***************************************************************************)
(* The select echo server never sleeps in a read, although the accept      *)
(* between select and the scan reuses descriptors and slots.               *)
(***************************************************************************)
THEOREM SelectNeverBlind == SelectSpec => []NoBlindRead
<1>1. SelectInv => NoBlindRead
  BY DEF SelectInv
<1> QED
  BY <1>1, SelectHolds, PTL

(***************************************************************************)
(* No descriptor stands in two slots of the select echo server's table,    *)
(* and none stands there after it was closed.                              *)
(***************************************************************************)
THEOREM SlotsAreDistinct == SelectSpec => []SlotsDistinct
<1>1. SelectInv => SlotsDistinct
  BY DEF SelectInv
<1> QED
  BY <1>1, SelectHolds, PTL

(***************************************************************************)
(* The select echo server sends back no more than was sent, and less only  *)
(* to who sent a NUL: strlen, asked afresh of every read, is the only      *)
(* thing that costs a client a part of its echo.                           *)
(***************************************************************************)
THEOREM EchoesUpToNul == SelectSpec => []EchoedUpToNul
<1>1. SelectInv /\ Accounted(Conns, Nul) => EchoedUpToNul
  <2> SUFFICES ASSUME SelectInv, Accounted(Conns, Nul),
                      NEW c \in Conns, phase[c] = "closed", peer[c] \in {"live", "fin"}
               PROVE  told[c] <= sent[c] /\ (told[c] < sent[c] => Nul \cap 1 .. sent[c] # {})
    BY DEF EchoedUpToNul
  <2>1. sent[c] = rcvd[c] /\ Pending(c) = 0 /\ told[c] \in Nat
    BY ClosedIsSettled DEF SelectInv, ServeInv, ReadToTheEnd
  <2> QED
    BY <2>1 DEF Accounted
<1> QED
  BY <1>1, SelectHolds, PTL

=============================================================================
