----------------------------- MODULE MCPrograms -----------------------------
(* Instances of Programs for TLC. *)
EXTENDS Programs, TLC

CONSTANTS c1, c2

PollAndEpoll == (c1 :> "poll") @@ (c2 :> "epoll")

UdpSymmetry == Permutations(UdpClients)
=============================================================================
