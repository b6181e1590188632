------------------------------- MODULE MCPoll -------------------------------
(* Instances of StoragePoll for TLC. *)
EXTENDS StoragePoll, MCStorage
=============================================================================
