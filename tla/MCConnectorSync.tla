-------------------------- MODULE MCConnectorSync --------------------------
(* Small instances of ConnectorSync. *)
EXTENDS ConnectorSync, TLC

CONSTANTS q1, w1, w2

OneRequester == {q1}
OneWorker == {w1}
TwoWorkers == {w1, w2}
Symmetry == Permutations({w1, w2})
AnyFault == Fault
=============================================================================
