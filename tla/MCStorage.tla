----------------------------- MODULE MCStorage -----------------------------
(* Instances shared by the runs of the four storage loops: two file names, *)
(* of which the longer reads as the shorter when it is cut, and requests.  *)
EXTENDS StorageHandler, TLC

CONSTANTS c1, c2, c3, a, ab

ShorterNames == [n \in Names |-> a]

Get(n)    == [op |-> "GET", name |-> n, len |-> 0]
Delete(n) == [op |-> "DELETE", name |-> n, len |-> 0]
Put(n, l) == [op |-> "PUT", name |-> n, len |-> l]
Unknown   == [op |-> "OTHER", name |-> a, len |-> 0]

OneFile   == {Get(a), Put(a, 2), Delete(a), Unknown}
OneName   == {Get(a), Put(a, 2), Delete(a)}
EmptyToo  == {Get(a), Put(a, 0), Put(a, 2), Delete(a)}
TwoFiles  == {Get(a), Put(a, 2), Put(ab, 2), Delete(ab)}
OneUpload == {Put(a, 2)}
SmallUpload == {Put(a, 1)}

ConnSymmetry == Permutations(Conns)
=============================================================================
