----------------------------- MODULE MCSessions -----------------------------
(* Small instances of Sessions. *)
EXTENDS Sessions, TLC

CONSTANTS r1, r2

TwoRequests == {r1, r2}
Symmetry == Permutations(Request)
=============================================================================
