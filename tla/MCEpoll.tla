------------------------------ MODULE MCEpoll -------------------------------
(* Instances of StorageEpoll for TLC. *)
EXTENDS StorageEpoll, MCStorage
=============================================================================
