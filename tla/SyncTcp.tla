------------------------------ MODULE SyncTcp ------------------------------
(***************************************************************************)
(* The TCP server of Lecture 1, with the client programs: accept one       *)
(* connection, recv once, send "Echo: " and what came, close both sockets, *)
(* return.  Who else has connected by then is reset.                       *)
(***************************************************************************)
EXTENDS TCPClients

VARIABLES
  syncPc,     \* where the server is; "off" if it was not started
  syncOwed    \* what send still has to hand to the kernel

syncVars == <<syncPc, syncOwed>>

Greeting  == 1    \* the "Echo: " of the response, as one unit
client_fd == 1    \* the only descriptor it ever has for a client
SyncConn  == fdConn[client_fd]

SyncTypeOK ==
  /\ syncPc \in {"off", "accept", "recv", "send", "close", "shut", "down"}
  /\ syncOwed \in Nat

SyncAccept ==
  /\ syncPc = "accept"
  /\ Accepted(client_fd)
  /\ syncPc' = "recv"
  /\ UNCHANGED <<at, syncOwed>>

\* Data, or nothing when recv returns 0 or -1: it is answered in any case.
SyncRecv ==
  /\ syncPc = "recv"
  /\ \/ RecvData(SyncConn) /\ syncOwed' = Greeting + Received(SyncConn) - rcvd[SyncConn]
     \/ RecvEnd(SyncConn) /\ syncOwed' = Greeting
  /\ syncPc' = "send"
  /\ UNCHANGED at

\* Mutant: a short send taken for a whole one.
SyncSendOnce ==
  /\ syncPc = "send"
  /\ SendSome(SyncConn, syncOwed) \/ SendFails(SyncConn)
  /\ syncOwed' = 0
  /\ syncPc' = "close"
  /\ UNCHANGED at

SyncSend ==
  /\ syncPc = "send"
  /\ \/ SendSome(SyncConn, syncOwed) /\ syncOwed' = syncOwed - (told'[SyncConn] - told[SyncConn])
     \/ SendFails(SyncConn) /\ syncOwed' = 0
  /\ syncPc' = IF syncOwed' = 0 THEN "close" ELSE "send"
  /\ UNCHANGED at

SyncClose ==
  /\ syncPc = "close"
  /\ CloseFd(client_fd)
  /\ syncPc' = "shut"
  /\ UNCHANGED <<at, syncOwed>>

\* close(server_fd) and return; or SIGPIPE, when the client is gone.
SyncExit ==
  /\ syncPc = "shut" \/ (syncPc = "send" /\ peer[SyncConn] = "gone")
  /\ CloseAll
  /\ syncPc' = "down"
  /\ syncOwed' = 0
  /\ UNCHANGED at

SyncStep == SyncAccept \/ SyncRecv \/ SyncSend \/ SyncClose \/ SyncExit
-----------------------------------------------------------------------------
(***************************************************************************)
(* A client whose whole message was read is answered although the server   *)
(* returns right after its send: as long as the client waits, the closed   *)
(* connection holds the whole response, which no reset can destroy any     *)
(* more, and it does not end, unless by its timeout, before its read has   *)
(* returned some of it.                                                    *)
(***************************************************************************)
WholeMessageAnswered ==
  syncPc # "off" => \A c \in Conns : rcvd[c] = Message =>
    /\ at[c] = "await" /\ phase[c] = "closed" =>
         told[c] = Greeting + Message /\ peer[c] # "gone"
    /\ at[c] = "done" /\ Kind[c] # "poll" => heard[c] > 0
=============================================================================
