----------------------------- MODULE EchoServer -----------------------------
(***************************************************************************)
(* What the echo servers of Lecture 2 have in common: one thread that      *)
(* reads once from a socket its loop picked and sends back what it read,   *)
(* with one blocking send whose result nobody looks at.  Their clients     *)
(* send what they like, stop sending, or disappear.                        *)
(***************************************************************************)
EXTENDS Sockets

CONSTANTS
  MaxSay,     \* the units a client sends at most
  MayReset,   \* clients may disappear
  Nul         \* the units that hold a NUL byte

ASSUME EchoAssumption ==
  /\ MaxSay \in Nat \ {0}
  /\ MayReset \in BOOLEAN
  /\ Nul \subseteq Nat

VARIABLES
  pc,     \* where the server's thread is; "down" when the process has ended
  cur,    \* the descriptor it reads from
  owed    \* what the send in progress still has to hand to the kernel

echoVars == <<pc, cur, owed>>

EchoTypeOK ==
  /\ pc \in {"wait", "accept", "scan", "read", "send", "down"}
  /\ cur \in Fds
  /\ owed \in Nat

EchoInit ==
  /\ NetInit
  /\ pc = "wait"
  /\ cur = 1
  /\ owed = 0

Conn == fdConn[cur]
-----------------------------------------------------------------------------
Ask(c)    == pc # "down" /\ Connect(c)
Say(c)    == \E n \in 1 .. MaxSay : Deliver(c, n)
Leave(c)  == EndStream(c)
Vanish(c) == MayReset /\ Reset(c)

ClientStep ==
  /\ \E c \in Conns : Ask(c) \/ Say(c) \/ Leave(c) \/ Vanish(c) \/ Hear(c)
  /\ UNCHANGED echoVars
-----------------------------------------------------------------------------
\* The process returns from main, exits or is killed by a signal.
EndProcess ==
  /\ CloseAll
  /\ pc' = "down"
  /\ owed' = 0
  /\ UNCHANGED cur

\* read returned data, of which the server means to send back n units.
ReadThenSend(n) ==
  /\ pc = "read"
  /\ RecvData(Conn)
  /\ owed' = n
  /\ pc' = "send"
  /\ UNCHANGED cur

\* read returns 0: the stream ended, or its reset was reported before.
ReadEnd == pc = "read" /\ sent[Conn] = rcvd[Conn] /\ peer[Conn] \in {"fin", "gone"}

(***************************************************************************)
(* read returns -1: the epoll server exits, the others go on to send on    *)
(* the connection that was reset, which is SIGPIPE whatever the length.    *)
(***************************************************************************)
ReadError == pc = "read" /\ sent[Conn] = rcvd[Conn] /\ peer[Conn] = "rst"

\* Mutants: all that was ever sent taken off what this send owes; a short
\* send taken for a whole one; no echo for who has ended its stream.
SendOnTotal(next) ==
  /\ pc = "send"
  /\ owed > 0
  /\ SendSome(Conn, owed)
  /\ owed' = owed - told'[Conn]
  /\ pc' = IF owed' = 0 THEN next ELSE "send"
  /\ UNCHANGED cur

SendOnShort(next) ==
  /\ pc = "send"
  /\ owed > 0
  /\ SendSome(Conn, owed)
  /\ owed' = 0
  /\ pc' = next
  /\ UNCHANGED cur

SendOnLive(next) ==
  /\ pc = "send"
  /\ owed > 0
  /\ IF peer[Conn] = "live" THEN SendSome(Conn, owed) ELSE UNCHANGED netVars
  /\ owed' = 0
  /\ pc' = next
  /\ UNCHANGED cur

\* send sleeps until the kernel has taken everything.
SendOn(next) ==
  /\ pc = "send"
  /\ owed > 0
  /\ SendSome(Conn, owed)
  /\ owed' = owed - (told'[Conn] - told[Conn])
  /\ pc' = IF owed' = 0 THEN next ELSE "send"
  /\ UNCHANGED cur

\* The connection was reset after the read: send fails, unnoticed.
SendLost(next) ==
  /\ pc = "send"
  /\ SendFails(Conn)
  /\ owed' = 0
  /\ pc' = next
  /\ UNCHANGED cur

BrokenPipe == pc = "send" /\ peer[Conn] = "gone"

AllServed == \A c \in Conns : phase[c] = "closed"
-----------------------------------------------------------------------------
(* Properties of an echo server, whichever loop drives it. *)

(***************************************************************************)
(* A read never blocks: what the loop's system call reported of a socket is *)
(* still true when the loop, which accepts and closes connections before   *)
(* it gets there, reads from it.                                           *)
(***************************************************************************)
NoBlindRead == pc = "read" => FdReady(cur)

(***************************************************************************)
(* A client whose connection is closed, and not reset, was sent back all   *)
(* that it had sent: whether the server closed it, or the process ended,   *)
(* on the account of another client or for want of a descriptor, and the   *)
(* kernel did.  No client sees an orderly end in the middle of its echo.   *)
(***************************************************************************)
EchoedInFull ==
  \A c \in Conns :
    phase[c] = "closed" /\ peer[c] \in {"live", "fin"} => told[c] = sent[c]

(***************************************************************************)
(* A client that sends and stays is eventually sent back all it has sent,  *)
(* whether or not the other clients say anything.                          *)
(***************************************************************************)
EchoEventually ==
  \A c \in Conns :
    sent[c] > 0 ~> told[c] = sent[c] \/ peer[c] \notin {"live", "fin"} \/ pc = "down"
=============================================================================
