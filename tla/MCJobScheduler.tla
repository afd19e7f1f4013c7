--------------------------- MODULE MCJobScheduler ---------------------------
(* Small instances of JobScheduler. *)
EXTENDS JobScheduler

CONSTANTS a, b

TwoProcesses == {a, b}
NoSkew == [i \in {a, b} |-> 0]
=============================================================================
