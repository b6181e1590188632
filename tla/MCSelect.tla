------------------------------ MODULE MCSelect ------------------------------
(* Instances of StorageSelect for TLC. *)
EXTENDS StorageSelect, MCStorage
=============================================================================
