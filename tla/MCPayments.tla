----------------------------- MODULE MCPayments -----------------------------
(* A small instance of Payments. *)
EXTENDS Payments

CONSTANTS t1, p1, p2

OnePayment == {t1}
TwoProcessors == {p1, p2}
CaptureAndRefund == {[kind |-> k, txn |-> t1] : k \in {"captured", "refund"}}
=============================================================================
