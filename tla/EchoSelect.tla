----------------------------- MODULE EchoSelect -----------------------------
(***************************************************************************)
(* The select echo server of Lecture 2, with its table of max_clients      *)
(* slots.  A connection accepted when no slot is free is in no set and     *)
(* nobody closes it; and the echo is as long as strlen says.               *)
(***************************************************************************)
EXTENDS EchoServer, FiniteSetsExt

CONSTANT MaxClients   \* max_clients

ASSUME SelectAssumption == MaxClients \in Nat \ {0}

Slots == 1 .. MaxClients
Free  == 0             \* what an unused slot holds

VARIABLES
  client_sockets,   \* the table of max_clients slots
  readfds,          \* the descriptors select left in the set
  slot              \* the slot the scan is on

selectLoopVars == <<client_sockets, readfds, slot>>
selectVars     == <<netVars, echoVars, selectLoopVars>>

SelectTypeOK ==
  /\ NetTypeOK
  /\ EchoTypeOK
  /\ client_sockets \in [Slots -> Fds \cup {Free}]
  /\ readfds \subseteq Fds \cup {ListenFd}
  /\ slot \in 1 .. MaxClients + 1

SelectInit ==
  /\ EchoInit
  /\ client_sockets = [s \in Slots |-> Free]
  /\ readfds = {}
  /\ slot = 1

Watched == {client_sockets[s] : s \in Slots} \ {Free}

SelectWait ==
  LET ready == {f \in Watched : FdReady(f)}
      new   == IF backlog # <<>> THEN {ListenFd} ELSE {}
  IN /\ pc = "wait"
     /\ ready \cup new # {}
     /\ readfds' = ready \cup new
     /\ slot' = 1
     /\ pc' = IF new # {} THEN "accept" ELSE "scan"
     /\ UNCHANGED <<netVars, cur, owed, client_sockets>>

\* Mutant: the result of std::find not compared with the table's end.
EnterUnchecked(f) ==
  LET free == {s \in Slots : client_sockets[s] = Free}
      at   == IF free = {} THEN MaxClients + 1 ELSE Min(free)
  IN client_sockets' = [s \in Slots \cup {at} |-> IF s = at THEN f ELSE client_sockets[s]]

\* std::find for a free slot; without one the descriptor is forgotten.
Enter(f) ==
  LET free == {s \in Slots : client_sockets[s] = Free}
  IN client_sockets' = IF free = {} THEN client_sockets
                      ELSE [client_sockets EXCEPT ![Min(free)] = f]

\* Mutant: the new client put into the set that is about to be scanned.
SelectAcceptScanned ==
  /\ pc = "accept"
  /\ \E f \in Fds : Accepted(f) /\ Enter(f) /\ readfds' = readfds \cup {f}
  /\ pc' = "scan"
  /\ UNCHANGED <<cur, owed, slot>>

SelectAccept ==
  /\ pc = "accept"
  /\ \E f \in Fds : Accepted(f) /\ Enter(f)
  /\ pc' = "scan"
  /\ UNCHANGED <<cur, owed, readfds, slot>>

\* accept fails for want of a descriptor: exit.
SelectAcceptFailed ==
  /\ pc = "accept"
  /\ TableFull
  /\ EndProcess

\* FD_ISSET of an unused slot asks for descriptor 0, which is never in the set.
InSet(s) == client_sockets[s] # Free /\ client_sockets[s] \in readfds

SelectSkip ==
  /\ pc = "scan"
  /\ slot \in Slots
  /\ ~InSet(slot)
  /\ slot' = slot + 1
  /\ UNCHANGED <<netVars, echoVars, client_sockets, readfds>>

SelectRead ==
  /\ pc = "scan"
  /\ slot \in Slots
  /\ InSet(slot)
  /\ cur' = client_sockets[slot]
  /\ pc' = "read"
  /\ UNCHANGED <<netVars, owed, selectLoopVars>>

\* Mutant: the first byte not counted.
StrLenShort(first, last) ==
  LET nuls == {n \in Nul : first < n /\ n <= last}
  IN IF nuls = {} THEN last - first - 1 ELSE Min(nuls) - first - 1

\* strlen stops at the first NUL among the bytes read.
StrLen(first, last) ==
  LET nuls == {n \in Nul : first < n /\ n <= last}
  IN IF nuls = {} THEN last - first ELSE Min(nuls) - first - 1

SelectEcho ==
  /\ ReadThenSend(StrLen(rcvd[Conn], Received(Conn)))
  /\ UNCHANGED selectLoopVars

\* send(sd, buffer, 0): nothing is sent.
SendNothing ==
  /\ pc = "send"
  /\ owed = 0
  /\ peer[Conn] \in {"live", "fin"}
  /\ pc' = "scan"
  /\ slot' = slot + 1
  /\ UNCHANGED <<netVars, cur, owed, client_sockets, readfds>>

SelectSent ==
  /\ SendOn("scan") \/ SendLost("scan")
  /\ slot' = IF pc' = "scan" THEN slot + 1 ELSE slot
  /\ UNCHANGED <<client_sockets, readfds>>

\* Mutant: closed and the slot not freed.
SelectHangUpKept ==
  /\ ReadEnd
  /\ CloseFd(cur)
  /\ slot' = slot + 1
  /\ pc' = "scan"
  /\ UNCHANGED <<cur, owed, client_sockets, readfds>>

SelectHangUp ==
  /\ ReadEnd
  /\ CloseFd(cur)
  /\ client_sockets' = [client_sockets EXCEPT ![slot] = Free]
  /\ slot' = slot + 1
  /\ pc' = "scan"
  /\ UNCHANGED <<cur, owed, readfds>>

SelectScanned ==
  /\ pc = "scan"
  /\ slot > MaxClients
  /\ pc' = "wait"
  /\ readfds' = {}   \* dead until the next turn, which zeroes it first
  /\ UNCHANGED <<netVars, cur, owed, client_sockets, slot>>

SelectFails == SelectAcceptFailed \/ ((ReadError \/ BrokenPipe) /\ EndProcess)

SelectStep ==
  \/ SelectWait \/ SelectAccept \/ SelectSkip \/ SelectRead \/ SelectEcho
  \/ SendNothing \/ SelectSent \/ SelectHangUp \/ SelectScanned
  \/ SelectFails /\ UNCHANGED selectLoopVars

Forgotten(c) == phase[c] = "open" /\ \A s \in Slots :
                  client_sockets[s] # Free => fdConn[client_sockets[s]] # c

SelectIdle ==
  /\ pc = "down" \/ (pc = "wait" /\ \A c \in Conns : phase[c] = "closed" \/ Forgotten(c))
  /\ UNCHANGED selectVars

SelectNext ==
  \/ ClientStep /\ UNCHANGED selectLoopVars
  \/ SelectStep
  \/ SelectIdle

SelectSpec == SelectInit /\ [][SelectNext]_selectVars
-----------------------------------------------------------------------------
(***************************************************************************)
(* No two slots hold the same descriptor, and a slot that is not free      *)
(* holds an open one.                                                      *)
(***************************************************************************)
SlotsDistinct ==
  pc # "down" =>
    \A s, t \in Slots : client_sockets[s] # Free =>
      /\ fdConn[client_sockets[s]] # NoConn
      /\ client_sockets[t] = client_sockets[s] => s = t

(***************************************************************************)
(* A NUL among what a client sent costs it a part of its echo, and nothing *)
(* else does: who sent none has been sent back all of it when its          *)
(* connection is closed, and nobody is sent back more than was sent.       *)
(***************************************************************************)
EchoedUpToNul ==
  \A c \in Conns :
    phase[c] = "closed" /\ peer[c] \in {"live", "fin"} =>
      /\ told[c] <= sent[c]
      /\ told[c] < sent[c] => Nul \cap 1 .. sent[c] # {}
=============================================================================
