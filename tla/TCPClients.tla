----------------------------- MODULE TCPClients -----------------------------
(***************************************************************************)
(* The client programs of Lectures 1 and 2: connect, send one message,     *)
(* read once, close.  They differ in how they wait.  The sync and select   *)
(* clients block in connect and read, the epoll client waits without a     *)
(* limit, and the poll client gives up on the connection after ten         *)
(* seconds and on the answer after five.                                   *)
(*                                                                         *)
(* "done" is a program that has ended; its kernel still delivers what was  *)
(* sent, then ends the stream, and answers with RST what nobody will read. *)
(***************************************************************************)
EXTENDS Sockets

CONSTANTS
  Kind,       \* the program each client runs
  Message     \* the units of the one message it sends

ASSUME ClientsAssumption ==
  /\ Kind \in [Conns -> {"sync", "select", "poll", "epoll"}]
  /\ Message \in Nat \ {0}

VARIABLE at   \* where each client program is

ClientsTypeOK == at \in [Conns -> {"start", "connect", "await", "done"}]

ClientsInit == at = [c \in Conns |-> "start"]

Goes(c, from, to) == at[c] = from /\ at' = [at EXCEPT ![c] = to]
-----------------------------------------------------------------------------
Begin(c) == Goes(c, "start", "connect") /\ UNCHANGED netVars

\* connect succeeds, and send hands the message to the kernel.
Greet(c) == Goes(c, "connect", "await") /\ Connect(c)

(***************************************************************************)
(* Nobody listens.  The poll and the epoll client see the socket writable, *)
(* do not look at the error, and send: SIGPIPE for one, an answer of       *)
(* nothing for the other.  All of them end.                                *)
(***************************************************************************)
Refused(c) == Goes(c, "connect", "done") /\ UNCHANGED netVars

ConnectTimeout(c) ==
  /\ Kind[c] = "poll"
  /\ Goes(c, "connect", "done")
  /\ UNCHANGED netVars

\* Killed between connect and send.
Interrupted(c) == sent[c] = 0 /\ Goes(c, "await", "done") /\ EndStream(c)

\* The one read, of what has arrived by then, and close with the rest unread.
ReadAnswer(c) == Goes(c, "await", "done") /\ Hear(c)

\* Mutant: a reset taken for something that passes.
AnswerEndsFin(c) ==
  /\ phase[c] = "closed"
  /\ told[c] = heard[c] /\ peer[c] # "gone"
  /\ Goes(c, "await", "done")
  /\ UNCHANGED netVars

\* The server's end, or its reset, which may overtake the answer.
AnswerEnds(c) ==
  /\ phase[c] = "closed"
  /\ told[c] = heard[c] \/ peer[c] = "gone"
  /\ Goes(c, "await", "done")
  /\ UNCHANGED netVars

AnswerTimeout(c) ==
  /\ Kind[c] = "poll"
  /\ Goes(c, "await", "done")
  /\ UNCHANGED netVars

-----------------------------------------------------------------------------
(* The client's kernel. *)

\* Mutant: the message sent once more.
SegmentAgain(c) ==
  /\ at[c] \in {"await", "done"}
  /\ \E n \in 1 .. 2 * Message : Deliver(c, n)
  /\ UNCHANGED at

Segment(c) ==
  /\ at[c] \in {"await", "done"}
  /\ \E n \in 1 .. Message : Deliver(c, n)
  /\ UNCHANGED at

Fin(c) ==
  /\ at[c] = "done"
  /\ sent[c] = Message
  /\ EndStream(c)
  /\ UNCHANGED at

\* More of the answer than was read.
Rst(c) ==
  /\ at[c] = "done"
  /\ told[c] > heard[c]
  /\ Reset(c)
  /\ UNCHANGED at

\* What happens by itself once a client runs, without anybody's patience ending.
Proceeds(c, listening) ==
  \/ listening /\ Greet(c)
  \/ ~listening /\ Refused(c)
  \/ ReadAnswer(c) \/ AnswerEnds(c)
  \/ Segment(c) \/ Fin(c) \/ Rst(c)

Client(c, listening) ==
  \/ Begin(c) \/ Interrupted(c) \/ ConnectTimeout(c) \/ AnswerTimeout(c)
  \/ Proceeds(c, listening)

AllDone == \A c \in Conns : at[c] = "done"
-----------------------------------------------------------------------------
(***************************************************************************)
(* Every client program that was started comes to its end, whatever became *)
(* of the server, of its message and of the answer.                        *)
(***************************************************************************)
ClientsEnd == \A c \in Conns : at[c] = "connect" ~> at[c] = "done"
=============================================================================
