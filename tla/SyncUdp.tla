------------------------------ MODULE SyncUdp ------------------------------
(***************************************************************************)
(* The UDP programs of Lecture 1: every client sends one datagram and      *)
(* waits for one, without a limit; the server answers the first datagram   *)
(* it gets with a copy and returns.  The network loses, duplicates and     *)
(* reorders datagrams; both sockets are unconnected, so nobody learns of   *)
(* a lost one, or of one sent before the server had bound its socket.      *)
(***************************************************************************)
EXTENDS Naturals, FiniteSets

CONSTANTS
  UdpClients,
  MaxCopies    \* the copies of one datagram the network carries at most

ASSUME UdpAssumption == UdpClients # {} /\ MaxCopies \in Nat \ {0}

VARIABLES
  client,    \* where each client is
  toServer,  \* copies of each client's datagram on their way
  toClient,  \* copies of the answer on their way to each client
  server,    \* where the server is; "off" if it is not that one that is used
  from,      \* client_addr: who sent what recvfrom returned
  lost       \* the network has lost something

udpVars == <<client, toServer, toClient, server, from, lost>>

UdpTypeOK ==
  /\ client \in [UdpClients -> {"start", "await", "done"}]
  /\ toServer \in [UdpClients -> 0 .. MaxCopies]
  /\ toClient \in [UdpClients -> 0 .. MaxCopies]
  /\ server \in {"off", "unbound", "recvfrom", "sendto", "down"}
  /\ from \in UdpClients
  /\ lost \in BOOLEAN

UdpInit(used) ==
  /\ client = [c \in UdpClients |-> "start"]
  /\ toServer = [c \in UdpClients |-> 0] /\ toClient = toServer
  /\ server = IF used THEN "unbound" ELSE "off"
  /\ from = CHOOSE c \in UdpClients : TRUE   \* not set yet
  /\ lost = FALSE

\* socket and bind: somebody starts the server, or nobody ever does.
ServerStart ==
  /\ server = "unbound"
  /\ server' = "recvfrom"
  /\ UNCHANGED <<client, toServer, toClient, from, lost>>

\* Where no socket is bound, a datagram that arrives is dropped.
SendTo(c) ==
  /\ client[c] = "start"
  /\ server # "off"
  /\ client' = [client EXCEPT ![c] = "await"]
  /\ \/ toServer' = [toServer EXCEPT ![c] = 1] /\ lost' = lost
     \/ server = "unbound" /\ lost' = TRUE /\ UNCHANGED toServer
  /\ UNCHANGED <<toClient, server, from>>

\* Nobody asks which address the answer came from.
RecvFrom(c) ==
  /\ client[c] = "await"
  /\ toClient[c] > 0
  /\ toClient' = [toClient EXCEPT ![c] = @ - 1]
  /\ client' = [client EXCEPT ![c] = "done"]
  /\ UNCHANGED <<toServer, server, from, lost>>

\* Mutant: the address not written by recvfrom.
ServerRecvAnonymous ==
  /\ server = "recvfrom"
  /\ \E c \in UdpClients :
       toServer[c] > 0 /\ toServer' = [toServer EXCEPT ![c] = @ - 1]
  /\ server' = "sendto"
  /\ UNCHANGED <<client, toClient, from, lost>>

ServerRecv ==
  /\ server = "recvfrom"
  /\ \E c \in UdpClients :
       /\ toServer[c] > 0
       /\ toServer' = [toServer EXCEPT ![c] = @ - 1]
       /\ from' = c
  /\ server' = "sendto"
  /\ UNCHANGED <<client, toClient, lost>>

\* Mutant: back to recvfrom.
ServerSendLoop ==
  /\ server = "sendto"
  /\ toClient[from] < MaxCopies
  /\ toClient' = [toClient EXCEPT ![from] = @ + 1]
  /\ server' = "recvfrom"
  /\ UNCHANGED <<client, toServer, from, lost>>

ServerSend ==
  /\ server = "sendto"
  /\ toClient' = [toClient EXCEPT ![from] = @ + 1]
  /\ server' = "down"
  /\ UNCHANGED <<client, toServer, from, lost>>

Lose ==
  /\ \/ \E c \in UdpClients :
          toServer[c] > 0 /\ toServer' = [toServer EXCEPT ![c] = @ - 1] /\ UNCHANGED toClient
     \/ \E c \in UdpClients :
          toClient[c] > 0 /\ toClient' = [toClient EXCEPT ![c] = @ - 1] /\ UNCHANGED toServer
  /\ lost' = TRUE
  /\ UNCHANGED <<client, server, from>>

Duplicate ==
  /\ \/ \E c \in UdpClients :
          /\ toServer[c] \in 1 .. MaxCopies - 1
          /\ toServer' = [toServer EXCEPT ![c] = @ + 1] /\ UNCHANGED toClient
     \/ \E c \in UdpClients :
          /\ toClient[c] \in 1 .. MaxCopies - 1
          /\ toClient' = [toClient EXCEPT ![c] = @ + 1] /\ UNCHANGED toServer
  /\ UNCHANGED <<client, server, from, lost>>

UdpProgram == ServerRecv \/ ServerSend \/ \E c \in UdpClients : RecvFrom(c)

UdpStep ==
  ServerStart \/ (\E c \in UdpClients : SendTo(c)) \/ UdpProgram \/ Lose \/ Duplicate
-----------------------------------------------------------------------------
(***************************************************************************)
(* However often the network delivers a datagram, the server answers once: *)
(* at most one client ever gets an answer, and it is one that asked.       *)
(***************************************************************************)
OneAnswer ==
  \A c \in UdpClients :
    client[c] = "done" \/ toClient[c] > 0 => c = from /\ client[c] # "start" /\ server = "down"

(***************************************************************************)
(* If anybody asks a server that was started, before or after, somebody is *)
(* answered, unless a datagram got lost: then both sides may wait for good.*)
(***************************************************************************)
SomebodyAnswered ==
  (\E c \in UdpClients : client[c] = "await") /\ server # "unbound"
    ~> (\E c \in UdpClients : client[c] = "done") \/ lost
=============================================================================
