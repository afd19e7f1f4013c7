--------------------------- MODULE MCStoredRows ---------------------------
(* Small instances of StoredRows. *)
EXTENDS StoredRows, TLC

CONSTANTS d1, d2, r1, r2, w1, w2

TwoDeliveries == {d1, d2}
TwoRows == {r1, r2}
OneWorker == {w1}
TwoWorkers == {w1, w2}
Overlapping == [d \in {d1, d2} |-> IF d = d1 THEN {r1, r2} ELSE {r2}]
Symmetry == Permutations({w1, w2})
Honest == Fault \ {"blind"}
=============================================================================
