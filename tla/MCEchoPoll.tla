----------------------------- MODULE MCEchoPoll -----------------------------
(* Instances of EchoPoll for TLC. *)
EXTENDS EchoPoll, TLC

ConnSymmetry == Permutations(Conns)
=============================================================================
