---------------------------- MODULE MCEchoSelect ----------------------------
(* Instances of EchoSelect for TLC. *)
EXTENDS EchoSelect, TLC

ConnSymmetry == Permutations(Conns)
=============================================================================
