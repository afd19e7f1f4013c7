------------------------------ MODULE Payments ------------------------------
(***************************************************************************)
(* From an order at the payment provider to the prepaid term it buys       *)
(* (src/src/services/billing.service.js, billingWebhook.service.js,        *)
(* billingReconcile.service.js, billingLifecycle.service.js and the        *)
(* repositories of payment transactions and webhook events).               *)
(*                                                                         *)
(* Processors are activities of any process: the processing of a stored    *)
(* webhook event, the reconcile sweep's check of an open order, its        *)
(* re-application of a captured one, and the abandoning of a checkout.     *)
(* The provider moves on its own and its events may arrive late, out of    *)
(* order or never; a stored event is kicked again by every redelivery and  *)
(* by the sweep. Leases carry no clock: a lease lapses once its holder is  *)
(* gone, and at most MaxFaults times under a holder that is only slow.     *)
(* Of the subscription only lastTransactionId, the queued payment and the  *)
(* fact that updatedAt moved are kept; Subscription models the rest.       *)
(***************************************************************************)
EXTENDS Naturals, FiniteSets, FiniteSetsExt

CONSTANTS
  Txn,         \* payment transactions of one workspace
  Event,       \* webhook events: records of a kind and a transaction
  Processor,
  None,
  MaxAttempts, \* webhookMaxAttempts
  Batch,       \* DEFAULT_BATCH_LIMIT: rows one reconcile sweep lists
  Elsewhere,   \* captured rows of other workspaces that are refused again and again
  MaxFaults    \* bound on crashes, 5xx, stalls, other writes, holds and suspensions

Kind == {"authorized", "captured", "failed", "refund"}

ASSUME PaymentsAssumption ==
  /\ Event \subseteq [kind : Kind, txn : Txn]
  /\ None \notin Txn \cup Event \cup Processor
  /\ MaxAttempts \in Nat \ {0} /\ MaxFaults \in Nat /\ Batch \in Nat /\ Elsewhere \in Nat

VARIABLES
  paid,      \* external: what the provider holds for each order
  row,       \* the PaymentTransaction rows
  event,     \* the WebhookEvent rows
  proc,      \* what each processor is doing
  sub,       \* lastTransactionId and the queued payment of the subscription
  blocked,   \* the tenant is suspended, disabled or archived
  held,      \* the subscription is restricted by an administrator
  grants,    \* history: how often each transaction's term was applied
  lapsed,    \* history: transactions of which an apply claim lapsed, or an
             \* apply failed after it had written the term
  budget     \* faults that may still happen

vars == <<paid, row, event, proc, sub, blocked, held, grants, lapsed, budget>>

Status == {"none", "pending", "authorized", "captured", "failed", "refunded", "expired", "cancelled"}
CAPTURABLE_STATUSES == {"pending", "authorized", "failed", "expired"}
OPEN_STATUSES == {"pending", "authorized"}

Idle == [pc |-> "idle"]
Busy == [pc : {"recording", "fetching", "capturing", "closing", "claiming", "reading", "writing",
               "marking", "finishing"},
         job : {"event", "reconcile", "reapply", "abandon"}, txn : Txn, event : Event \cup {None},
         fresh : BOOLEAN]

TypeOK ==
  /\ paid \in [Txn -> {"unpaid", "authorized", "captured", "mismatched", "refunded"}]
  /\ row \in [Txn -> [status : Status, applied : BOOLEAN, claimed : BOOLEAN]]
  /\ event \in [Event -> [status : {"undelivered", "received", "processing", "finished", "failed"},
                          attempts : 0..MaxAttempts]]
  /\ proc \in [Processor -> {Idle} \cup Busy]
  /\ sub \in [last : Txn \cup {None}, queued : Txn \cup {None}]
  /\ blocked \in BOOLEAN /\ held \in BOOLEAN /\ grants \in [Txn -> Nat] /\ lapsed \subseteq Txn
  /\ budget \in 0..MaxFaults
  /\ \A t \in Txn : row[t].claimed => row[t].status \in {"captured", "refunded"} /\ ~row[t].applied

Init ==
  /\ paid = [t \in Txn |-> "unpaid"]
  /\ row = [t \in Txn |-> [status |-> "none", applied |-> FALSE, claimed |-> FALSE]]
  /\ event = [e \in Event |-> [status |-> "undelivered", attempts |-> 0]]
  /\ proc = [p \in Processor |-> Idle]
  /\ sub = [last |-> None, queued |-> None]
  /\ blocked = FALSE /\ held = FALSE /\ grants = [t \in Txn |-> 0] /\ lapsed = {}
  /\ budget = MaxFaults

----------------------------------------------------------------------------
\* The provider and the customer.

\* createCheckout: the order exists at the provider before its row is stored;
\* its look at the hold is some awaits old by then.
Checkout(t) ==
  /\ row[t].status = "none"
  /\ row' = [row EXCEPT ![t].status = "pending"]
  /\ UNCHANGED <<paid, event, proc, sub, blocked, held, grants, lapsed, budget>>

\* A payment of the order is authorized, captured (possibly in an amount that
\* does not match the order) or refunded; Checkout lets the customer pay
\* whatever the row says meanwhile.
ProviderMoves(t, to) ==
  /\ row[t].status # "none"
  /\ <<paid[t], to>> \in {<<"unpaid", "authorized">>, <<"unpaid", "captured">>, <<"unpaid", "mismatched">>,
                          <<"authorized", "captured">>, <<"captured", "refunded">>}
  /\ paid' = [paid EXCEPT ![t] = to]
  /\ UNCHANGED <<row, event, proc, sub, blocked, held, grants, lapsed, budget>>

\* What the provider reports has happened: a failed attempt at any time; the
\* report of a capture may run ahead of what the provider's API answers.
Happened(e) ==
  /\ row[e.txn].status # "none"
  /\ e.kind \in {"authorized", "captured"} => paid[e.txn] # "unpaid"
  /\ e.kind = "refund" => paid[e.txn] = "refunded"

\* ingest: one row per event id; a redelivery changes nothing.
Deliver(e) ==
  /\ event[e].status = "undelivered" /\ Happened(e)
  /\ event' = [event EXCEPT ![e].status = "received"]
  /\ UNCHANGED <<paid, row, proc, sub, blocked, held, grants, lapsed, budget>>

----------------------------------------------------------------------------
\* Beginning an activity.

Begin(p, pc, job, t, e) ==
  /\ proc[p] = Idle
  /\ proc' = [proc EXCEPT ![p] = [pc |-> pc, job |-> job, txn |-> t, event |-> e, fresh |-> FALSE]]

\* confirmAndApplyCapture's first look at the row it was given.
FirstLook(t) ==
  CASE row[t].status \in {"cancelled", "refunded"} -> "finishing"
    [] row[t].status = "captured" -> "claiming"
    [] OTHER -> "fetching"

\* processEvent, kicked by a delivery or by drainDue: the claim of the event
\* and findTransaction.
BeginEvent(p, e) ==
  /\ event[e].status = "received"
  /\ Begin(p, IF e.kind = "captured" THEN FirstLook(e.txn) ELSE "recording", "event", e.txn, e)
  /\ event' = [event EXCEPT ![e] = [status |-> "processing", attempts |-> Min({@.attempts + 1, MaxAttempts})]]
  /\ UNCHANGED <<paid, row, sub, blocked, held, grants, lapsed, budget>>

\* reconcileOne of a row listOpenDue returned.
BeginReconcile(p, t) ==
  /\ row[t].status \in OPEN_STATUSES
  /\ Begin(p, "fetching", "reconcile", t, None)
  /\ UNCHANGED <<paid, row, event, sub, blocked, held, grants, lapsed, budget>>

Waiting(t) == row[t].status = "captured" /\ ~row[t].applied /\ ~row[t].claimed

\* applyCapture of a row listCapturedUnapplied returned.
BeginReapply(p, t) ==
  /\ Waiting(t)
  /\ Begin(p, "claiming", "reapply", t, None)
  /\ UNCHANGED <<paid, row, event, sub, blocked, held, grants, lapsed, budget>>

\* cancelCheckout, and reconcileOpenForSwitch before another plan's checkout.
BeginAbandon(p, t) ==
  /\ row[t].status = "pending"
  /\ Begin(p, "fetching", "abandon", t, None)
  /\ UNCHANGED <<paid, row, event, sub, blocked, held, grants, lapsed, budget>>

----------------------------------------------------------------------------
\* The steps of an activity.

Goto(p, pc) == proc' = [proc EXCEPT ![p].pc = pc, ![p].fresh = FALSE]

\* The activity is over; only an event has an outcome to store.
Done(p) == IF proc[p].event = None THEN proc' = [proc EXCEPT ![p] = Idle] ELSE Goto(p, "finishing")

\* transitionStatus: only from one of the given statuses.
Transition(t, from, to) ==
  row' = IF row[t].status \in from THEN [row EXCEPT ![t].status = to] ELSE row

\* handle() of the events that only move the row; the trail that applyFailure
\* and applyRefund write is not modelled.
Record(p) ==
  /\ proc[p].pc = "recording"
  /\ CASE proc[p].event.kind = "authorized" -> Transition(proc[p].txn, {"pending"}, "authorized")
       [] proc[p].event.kind = "failed" -> Transition(proc[p].txn, OPEN_STATUSES, "failed")
       [] proc[p].event.kind = "refund" -> Transition(proc[p].txn, {"captured"}, "refunded")
  /\ Done(p)
  /\ UNCHANGED <<paid, event, sub, blocked, held, grants, lapsed, budget>>

\* Mutant: an authorized payment counts as money received.
CredulousFetch(p) ==
  LET t == proc[p].txn IN
  /\ proc[p].pc = "fetching"
  /\ Goto(p, IF paid[t] = "unpaid" THEN "closing" ELSE "capturing")
  /\ UNCHANGED <<paid, row, event, sub, blocked, held, grants, lapsed, budget>>

\* The provider's answer decides: a captured payment of the right amount is
\* taken over, a wrong amount fails the row, an authorized payment is
\* recorded, an order without a capture may be closed.
Fetch(p) ==
  LET t == proc[p].txn IN
  /\ proc[p].pc = "fetching"
  /\ \/ /\ paid[t] = "captured"
        /\ Goto(p, "capturing") /\ UNCHANGED row
     \/ /\ paid[t] = "mismatched" /\ proc[p].job # "abandon"
        /\ Transition(t, OPEN_STATUSES, "failed") /\ Done(p)
     \/ /\ paid[t] = "authorized" /\ proc[p].job = "event"
        /\ Transition(t, {"pending"}, "authorized") /\ Done(p)
     \/ /\ paid[t] = "refunded" /\ proc[p].job # "abandon"
        /\ Done(p) /\ UNCHANGED row
     \/ /\ paid[t] # "captured" /\ proc[p].job = "abandon"
        /\ Goto(p, "closing") /\ UNCHANGED row
     \/ /\ proc[p].job = "reconcile"   \* not paid, or the provider does not answer
        /\ Goto(p, "closing") /\ UNCHANGED row
  /\ UNCHANGED <<paid, event, sub, blocked, held, grants, lapsed, budget>>

\* expireIfStale closes a pending row that is too old or was
\* checked too often, cancelCheckout one that is still pending.
Close(p) ==
  /\ proc[p].pc = "closing"
  /\ \/ proc[p].job = "reconcile" /\ Transition(proc[p].txn, {"pending"}, "expired")
     \/ proc[p].job = "reconcile" /\ UNCHANGED row
     \/ proc[p].job = "abandon" /\ Transition(proc[p].txn, {"pending"}, "cancelled")
  /\ Done(p)
  /\ UNCHANGED <<paid, event, sub, blocked, held, grants, lapsed, budget>>

\* The capture flip, and the re-read when the row had moved.
TakeCapture(p) ==
  LET t == proc[p].txn IN
  /\ proc[p].pc = "capturing"
  /\ Transition(t, CAPTURABLE_STATUSES, "captured")
  /\ IF row'[t].status = "captured" THEN Goto(p, "claiming") ELSE Done(p)
  /\ UNCHANGED <<paid, event, sub, blocked, held, grants, lapsed, budget>>

\* claimForApply; an applied row or one being applied ends the activity.
ClaimForApply(p) ==
  LET t == proc[p].txn IN
  /\ proc[p].pc = "claiming"
  /\ IF Waiting(t)
     THEN row' = [row EXCEPT ![t].claimed = TRUE] /\ Goto(p, "reading")
     ELSE UNCHANGED row /\ Done(p)
  /\ UNCHANGED <<paid, event, sub, blocked, held, grants, lapsed, budget>>

\* releaseApply, whoever holds the claim by now.
ReleaseApply(t) == IF row[t].applied THEN row ELSE [row EXCEPT ![t].claimed = FALSE]

\* A 4xx: the claim is released and the event is finished as refused.
Refused(p) == row' = ReleaseApply(proc[p].txn) /\ Done(p)

\* Mutant: applyPaidTerm does not recognise the transaction it applied last.
ForgetfulReadTerm(p) ==
  /\ proc[p].pc = "reading" /\ ~blocked /\ ~held
  /\ UNCHANGED row /\ proc' = [proc EXCEPT ![p].pc = "writing", ![p].fresh = TRUE]
  /\ UNCHANGED <<paid, event, sub, blocked, held, grants, lapsed, budget>>

\* applyPaidTerm refuses under a hold, except a term it finds already applied.
UnderHold(t) == held /\ sub.last # t

\* loadTenantGuard, then applyPaidTerm's read of the subscription.
ReadTerm(p) ==
  LET t == proc[p].txn IN
  /\ proc[p].pc = "reading"
  /\ \/ (blocked \/ UnderHold(t)) /\ Refused(p)
     \/ ~blocked /\ sub.last = t /\ UNCHANGED row /\ Goto(p, "marking")
     \/ ~blocked /\ ~UnderHold(t) /\ sub.last # t /\ UNCHANGED row
        /\ proc' = [proc EXCEPT ![p].pc = "writing", ![p].fresh = TRUE]
  /\ UNCHANGED <<paid, event, sub, blocked, held, grants, lapsed, budget>>

\* The subscription's updatedAt moves: every read of it is stale, p's included.
Moved(p, pc) ==
  proc' = [q \in Processor |-> IF proc[q] = Idle THEN Idle
                               ELSE [proc[q] EXCEPT !.fresh = FALSE, !.pc = IF q = p THEN pc ELSE @]]

\* applyPaidTerm's compare-and-set: the term starts, or is queued behind the
\* running one. An overtaken write is fine if the other one applied this
\* transaction, and a conflict otherwise.
WriteTerm(p) ==
  LET t == proc[p].txn IN
  /\ proc[p].pc = "writing"
  /\ \/ /\ proc[p].fresh
        /\ \E queued \in {None, sub.queued, t} : sub' = [last |-> t, queued |-> queued]
        /\ grants' = [grants EXCEPT ![t] = @ + 1]
        /\ Moved(p, "marking") /\ UNCHANGED row
     \/ /\ ~proc[p].fresh /\ sub.last = t
        /\ Goto(p, "marking") /\ UNCHANGED <<row, sub, grants>>
     \/ /\ ~proc[p].fresh /\ sub.last # t
        /\ Refused(p) /\ UNCHANGED <<sub, grants>>
  /\ UNCHANGED <<paid, event, blocked, held, lapsed, budget>>

\* Mutant: markApplied leaves applyingUntil.
StickyMarkApplied(p) ==
  /\ proc[p].pc = "marking"
  /\ row' = [row EXCEPT ![proc[p].txn].applied = (row[proc[p].txn].status = "captured")]
  /\ Done(p)
  /\ UNCHANGED <<paid, event, sub, blocked, held, grants, lapsed, budget>>

\* markApplied, on a row that is still captured.
MarkApplied(p) ==
  LET t == proc[p].txn IN
  /\ proc[p].pc = "marking"
  /\ row' = IF row[t].status = "captured" THEN [row EXCEPT ![t].applied = TRUE, ![t].claimed = FALSE]
            ELSE row
  /\ Done(p)
  /\ UNCHANGED <<paid, event, sub, blocked, held, grants, lapsed, budget>>

\* finish(): the event is processed, ignored or refused for good.
Finish(p) ==
  /\ proc[p].pc = "finishing"
  /\ event' = [event EXCEPT ![proc[p].event].status = "finished"]
  /\ proc' = [proc EXCEPT ![p] = Idle]
  /\ UNCHANGED <<paid, row, sub, blocked, held, grants, lapsed, budget>>

\* A 5xx in the middle: applyCapture releases its claim, the event is put
\* back for a retry, or given up after MaxAttempts.
Fail(p) ==
  LET t == proc[p].txn
      e == proc[p].event
  IN
  /\ proc[p] # Idle /\ budget > 0
  /\ budget' = budget - 1
  /\ row' = IF proc[p].pc \in {"reading", "writing", "marking"} THEN ReleaseApply(t) ELSE row
  /\ lapsed' = IF proc[p].pc = "marking" THEN lapsed \cup {t} ELSE lapsed
  /\ event' = IF e = None THEN event
              ELSE [event EXCEPT ![e].status = IF event[e].attempts >= MaxAttempts THEN "failed" ELSE "received"]
  /\ proc' = [proc EXCEPT ![p] = Idle]
  /\ UNCHANGED <<paid, sub, blocked, held, grants>>

----------------------------------------------------------------------------
\* Faults and the rest of the system.

\* A process dies; its claims and leases stay behind.
Crash(p) ==
  /\ proc[p] # Idle /\ budget > 0
  /\ proc' = [proc EXCEPT ![p] = Idle]
  /\ budget' = budget - 1
  /\ UNCHANGED <<paid, row, event, sub, blocked, held, grants, lapsed>>

Applies(p, t) == proc[p] # Idle /\ proc[p].txn = t /\ proc[p].pc \in {"reading", "writing", "marking"}
Processes(p, e) == proc[p] # Idle /\ proc[p].event = e

\* Mutant: claimForApply and listCapturedUnapplied only take an empty applyingUntil.
NeverLapses(t) == FALSE /\ UNCHANGED vars

\* Over after APPLY_LEASE_MS, also under a holder that is still at work.
ClaimLapses(t) ==
  /\ row[t].claimed
  /\ IF \E p \in Processor : Applies(p, t)
     THEN budget > 0 /\ budget' = budget - 1
     ELSE budget' = budget
  /\ row' = [row EXCEPT ![t].claimed = FALSE] /\ lapsed' = lapsed \cup {t}
  /\ UNCHANGED <<paid, event, proc, sub, blocked, held, grants>>

\* Over after PROCESS_LEASE_MS: the event can be claimed again.
LeaseLapses(e) ==
  /\ event[e].status = "processing"
  /\ IF \E p \in Processor : Processes(p, e)
     THEN budget > 0 /\ budget' = budget - 1
     ELSE budget' = budget
  /\ event' = [event EXCEPT ![e].status = "received"]
  /\ UNCHANGED <<paid, row, proc, sub, blocked, held, grants, lapsed>>

\* Another operation writes the subscription.
OtherWrite ==
  /\ budget > 0 /\ budget' = budget - 1
  /\ Moved(None, "idle")
  /\ UNCHANGED <<paid, row, event, sub, blocked, held, grants, lapsed>>

\* advanceLifecycle starts the queued payment's term and makes it the last
\* transaction again; not while the subscription is restricted.
StartQueued ==
  /\ sub.queued # None /\ ~held
  /\ sub' = [last |-> sub.queued, queued |-> None]
  /\ Moved(None, "idle")
  /\ UNCHANGED <<paid, row, event, blocked, held, grants, lapsed, budget>>

\* setState: an administrator restricts the subscription, and lifts the hold.
Hold ==
  /\ ~held /\ held' = TRUE
  /\ budget > 0 /\ budget' = budget - 1
  /\ Moved(None, "idle")
  /\ UNCHANGED <<paid, row, event, sub, blocked, grants, lapsed>>

Lift ==
  /\ held /\ held' = FALSE
  /\ Moved(None, "idle")
  /\ UNCHANGED <<paid, row, event, sub, blocked, grants, lapsed, budget>>

\* An administrator suspends the tenant, and reinstates it.
Suspend ==
  /\ ~blocked /\ budget > 0
  /\ blocked' = TRUE /\ budget' = budget - 1
  /\ UNCHANGED <<paid, row, event, proc, sub, held, grants, lapsed>>

Reinstate ==
  /\ blocked /\ blocked' = FALSE
  /\ UNCHANGED <<paid, row, event, proc, sub, held, grants, lapsed, budget>>

Step(p) ==
  \/ Record(p) \/ Fetch(p) \/ Close(p) \/ TakeCapture(p) \/ ClaimForApply(p)
  \/ ReadTerm(p) \/ WriteTerm(p) \/ MarkApplied(p) \/ Finish(p)

Next ==
  \/ \E t \in Txn : Checkout(t) \/ ClaimLapses(t)
  \/ \E t \in Txn, to \in {"authorized", "captured", "mismatched", "refunded"} : ProviderMoves(t, to)
  \/ \E e \in Event : Deliver(e) \/ LeaseLapses(e)
  \/ \E p \in Processor, e \in Event : BeginEvent(p, e)
  \/ \E p \in Processor, t \in Txn : BeginReconcile(p, t) \/ BeginReapply(p, t) \/ BeginAbandon(p, t)
  \/ \E p \in Processor : Step(p) \/ Fail(p) \/ Crash(p)
  \/ OtherWrite \/ StartQueued \/ Hold \/ Lift \/ Suspend \/ Reinstate

Spec == Init /\ [][Next]_vars

\* The sweep lists Batch waiting rows, the longest captured first, and comes
\* back to the refused ones each time.
Listed(t) == Elsewhere + Cardinality({u \in Txn : Waiting(u)}) <= Batch /\ Waiting(t)

\* Activities go on, apply claims end, and the reconcile job comes back to a
\* row while its batch takes every waiting one. Nothing makes the provider's
\* events arrive, a stored event be processed, a customer pay or an
\* administrator act.
FairSpec ==
  /\ Spec
  /\ \A p \in Processor : WF_vars(Step(p))
  /\ \A t \in Txn : WF_vars(ClaimLapses(t)) /\ WF_vars(Listed(t) /\ \E p \in Processor : BeginReapply(p, t))

----------------------------------------------------------------------------
\* Redeliveries, concurrent processors, retries and the sweep apply a term at
\* most once, unless an apply was cut off between its write and markApplied
\* (or outlived its claim) and another transaction was applied meanwhile:
\* applyPaidTerm only recognises the last transaction.
SecondTermNeedsRival ==
  \A t \in Txn : grants[t] > 1 => t \in lapsed /\ \E u \in Txn \ {t} : grants[u] > 0

\* A term is granted only for money the provider captured, in the amount of
\* the order, whatever the events said and in whatever order they came.
GrantedWasPaid ==
  \A t \in Txn : grants[t] > 0 => paid[t] \in {"captured", "refunded"}

\* A captured row does not stay half done: crashes, lapsed claims, conflicts
\* and refusals over, its term is applied, unless the payment is refunded,
\* the tenant is suspended or the subscription held. A suspension or a hold
\* that ends leaves the promise standing.
CapturedIsApplied ==
  \A t \in Txn : row[t].status = "captured"
                   ~> row[t].applied \/ row[t].status = "refunded" \/ blocked \/ held
=============================================================================
