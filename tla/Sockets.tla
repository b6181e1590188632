------------------------------- MODULE Sockets -------------------------------
(***************************************************************************)
(* The part of the operating system the repository's TCP servers rest on:  *)
(* one listening socket with its accept queue, the byte streams of the     *)
(* connections, and the process's descriptor table.  None of this code is  *)
(* under src/; it is modelled from how the servers call accept, recv,      *)
(* read, send and close, for Linux and blocking connection sockets (accept *)
(* does not pass O_NONBLOCK on, and no server sets it on a connection).    *)
(*                                                                         *)
(* Data is counted, not spelled: a stream is the number of units sent on   *)
(* it and the number the server has taken from it.  What a unit is is the  *)
(* business of the application protocol above.                             *)
(***************************************************************************)
EXTENDS Naturals, Sequences, Connections

CONSTANTS
  MaxFd,      \* descriptors 1..MaxFd are left for connections (RLIMIT_NOFILE)
  RecvMax,    \* the units that fit in one recv buffer (BUFFER_SIZE)
  SendRoom,   \* the units the kernel buffers towards a client that is not reading
  QueueMax    \* connections the listener queues (the argument of listen)

ASSUME SocketsAssumption ==
  /\ MaxFd \in Nat \ {0}
  /\ RecvMax \in Nat \ {0}
  /\ SendRoom \in Nat \ {0}
  /\ QueueMax \in Nat \ {0}

Fds      == 1 .. MaxFd
ListenFd == 0

Phases == {"new", "queued", "open", "closed"}
(***************************************************************************)
(* What the client's side did, as the server's socket knows it.  A reset   *)
(* is reported once, as ECONNRESET; after that ("gone"), and when it hits  *)
(* a stream that had already ended, recv returns 0 and a send raises       *)
(* SIGPIPE.                                                                *)
(***************************************************************************)
Peers == {"live", "fin", "rst", "gone"}

VARIABLES
  phase,    \* the life of a connection, seen from the server's kernel
  backlog,  \* connections waiting for accept, oldest first
  fdConn,   \* the connection behind each descriptor
  sent,     \* units the client has put on the stream
  rcvd,     \* units recv has handed to the server
  peer,     \* what the client's side did
  told,     \* units of the server's answer handed to the kernel
  heard     \* units of the answer the client has read

netVars == <<phase, backlog, fdConn, sent, rcvd, peer, told, heard>>

NetTypeOK ==
  /\ phase \in [Conns -> Phases]
  /\ backlog \in Seq(Conns)
  /\ fdConn \in [Fds -> Conns \cup {NoConn}]
  /\ sent \in [Conns -> Nat]
  /\ rcvd \in [Conns -> Nat]
  /\ peer \in [Conns -> Peers]
  /\ told \in [Conns -> Nat]
  /\ heard \in [Conns -> Nat]

NetInit ==
  /\ phase = [c \in Conns |-> "new"]
  /\ backlog = <<>>
  /\ fdConn = [f \in Fds |-> NoConn]
  /\ sent = [c \in Conns |-> 0]
  /\ rcvd = [c \in Conns |-> 0]
  /\ peer = [c \in Conns |-> "live"]
  /\ told = [c \in Conns |-> 0]
  /\ heard = [c \in Conns |-> 0]

Least(m, n) == IF m <= n THEN m ELSE n
-----------------------------------------------------------------------------
(* What the clients do. *)

Connect(c) ==
  /\ phase[c] = "new"
  /\ Len(backlog) < QueueMax
  /\ phase' = [phase EXCEPT ![c] = "queued"]
  /\ backlog' = Append(backlog, c)
  /\ UNCHANGED <<fdConn, sent, rcvd, peer, told, heard>>

\* The next segment arrives: the stream now holds its first n units.
Deliver(c, n) ==
  /\ phase[c] \in {"queued", "open"}
  /\ peer[c] = "live"
  /\ n > sent[c]
  /\ sent' = [sent EXCEPT ![c] = n]
  /\ UNCHANGED <<phase, backlog, fdConn, rcvd, peer, told, heard>>

\* The client ends its stream; it may still be reading.
EndStream(c) ==
  /\ phase[c] \in {"queued", "open"}
  /\ peer[c] = "live"
  /\ peer' = [peer EXCEPT ![c] = "fin"]
  /\ UNCHANGED <<phase, backlog, fdConn, sent, rcvd, told, heard>>

\* The client is gone and its host answers with RST.
Reset(c) ==
  /\ phase[c] \in {"queued", "open"}
  /\ peer[c] \in {"live", "fin"}
  /\ peer' = [peer EXCEPT ![c] = IF @ = "live" THEN "rst" ELSE "gone"]
  /\ UNCHANGED <<phase, backlog, fdConn, sent, rcvd, told, heard>>

\* A read of the client's: any beginning of what it was told may have arrived.
Hear(c) ==
  /\ peer[c] \in {"live", "fin"}
  /\ \E n \in heard[c] + 1 .. told[c] : heard' = [heard EXCEPT ![c] = n]
  /\ UNCHANGED <<phase, backlog, fdConn, sent, rcvd, peer, told>>
-----------------------------------------------------------------------------
(* The socket calls, as the state changes of a call that returns. *)

\* recv will not block: there is data, or an end of stream or an error to report.
Readable(c) == sent[c] > rcvd[c] \/ peer[c] # "live"

FdReady(f) == fdConn[f] # NoConn /\ Readable(fdConn[f])

\* The descriptor the kernel gives out next.
LowestFree(f) ==
  /\ fdConn[f] = NoConn
  /\ \A g \in Fds : g < f => fdConn[g] # NoConn

TableFull == \A f \in Fds : fdConn[f] # NoConn

Accepted(f) ==
  /\ backlog # <<>>
  /\ LowestFree(f)
  /\ phase' = [phase EXCEPT ![Head(backlog)] = "open"]
  /\ backlog' = Tail(backlog)
  /\ fdConn' = [fdConn EXCEPT ![f] = Head(backlog)]
  /\ UNCHANGED <<sent, rcvd, peer, told, heard>>

Received(c) == Least(sent[c], rcvd[c] + RecvMax)

RecvData(c) ==
  /\ sent[c] > rcvd[c]
  /\ rcvd' = [rcvd EXCEPT ![c] = Received(c)]
  /\ UNCHANGED <<phase, backlog, fdConn, sent, peer, told, heard>>

RecvEnd(c) ==
  /\ sent[c] = rcvd[c]
  /\ peer[c] # "live"
  /\ peer' = [peer EXCEPT ![c] = IF @ = "rst" THEN "gone" ELSE @]
  /\ UNCHANGED <<phase, backlog, fdConn, sent, rcvd, told, heard>>

\* A blocking send of k remaining units: it sleeps while there is no room.
SendSome(c, k) ==
  /\ peer[c] \in {"live", "fin"}
  /\ told[c] - heard[c] < SendRoom
  /\ told' = [told EXCEPT ![c] = @ + Least(k, SendRoom - (@ - heard[c]))]
  /\ UNCHANGED <<phase, backlog, fdConn, sent, rcvd, peer, heard>>

SendFails(c) ==
  /\ peer[c] = "rst"
  /\ peer' = [peer EXCEPT ![c] = "gone"]
  /\ UNCHANGED <<phase, backlog, fdConn, sent, rcvd, told, heard>>

\* Unread data turns the close into a reset, which also destroys the answer.
Abandoned(c) == sent[c] > rcvd[c]

CloseFd(f) ==
  LET c == fdConn[f]
  IN /\ fdConn' = [fdConn EXCEPT ![f] = NoConn]
     /\ phase' = [phase EXCEPT ![c] = "closed"]
     /\ peer' = [peer EXCEPT ![c] = IF Abandoned(c) THEN "gone" ELSE @]
     /\ UNCHANGED <<backlog, sent, rcvd, told, heard>>

\* The process ends: the kernel closes the listener and every descriptor.
CloseAll ==
  /\ fdConn' = [f \in Fds |-> NoConn]
  /\ backlog' = <<>>
  /\ phase' = [c \in Conns |-> IF phase[c] = "new" THEN "new" ELSE "closed"]
  /\ peer' = [c \in Conns |->
                IF phase[c] = "queued" \/ (phase[c] = "open" /\ Abandoned(c))
                THEN "gone" ELSE peer[c]]
  /\ UNCHANGED <<sent, rcvd, told, heard>>
=============================================================================
