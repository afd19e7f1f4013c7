--------------------------- MODULE MCSubscription ---------------------------
(* A small instance of Subscription. *)
EXTENDS Subscription, TLC

CONSTANTS r1, r2, t1

TwoActors == {r1, r2}
OnePayment == {t1}
ThreePlans == {"free", "low", "high"}
Tiers == [p \in ThreePlans |-> CASE p = "free" -> 0 [] p = "low" -> 1 [] OTHER -> 2]
JustLow == (t1 :> "low")
OneTick == [t \in OnePayment |-> 1]
Requests ==
  {[op |-> "provision"], [op |-> "reactivate"],
   [op |-> "cancel", immediate |-> FALSE], [op |-> "cancel", immediate |-> TRUE],
   [op |-> "change", plan |-> "free"], [op |-> "change", plan |-> "high"],
   [op |-> "setPlan", plan |-> "low"],
   [op |-> "setState", state |-> "restricted"], [op |-> "setState", state |-> "active"]}
Symmetry == Permutations(TwoActors)
=============================================================================
