------------------------------ MODULE MCOutbox ------------------------------
(* Small instances of Outbox. *)
EXTENDS Outbox, TLC

CONSTANTS m1, m2, w1, w2

OneMessage == {m1}
TwoMessages == {m1, m2}
TwoWorkers == {w1, w2}
Symmetry == Permutations({m1, m2}) \cup Permutations({w1, w2})
=============================================================================
