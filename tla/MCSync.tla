------------------------------- MODULE MCSync -------------------------------
(* Instances of StorageSync for TLC. *)
EXTENDS StorageSync, MCStorage
=============================================================================
