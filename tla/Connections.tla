---------------------------- MODULE Connections ----------------------------
(* The names of the TCP connections, shared by every module. *)
CONSTANTS
  Conns,      \* the connections clients may open, each used once
  NoConn      \* stands for no connection

ASSUME ConnectionsAssumption == NoConn \notin Conns
=============================================================================
