-------------------------- MODULE MCTenantDeletion --------------------------
(* Small instances of TenantDeletion. *)
EXTENDS TenantDeletion, TLC

CONSTANTS r1, r2, w1, w2, own, new

TwoRequests == {r1, r2}
TwoWorkers == {w1, w2}
TwoRoles == {own, new}
=============================================================================
