---------------------------- MODULE Subscription ----------------------------
(***************************************************************************)
(* One workspace's subscription row and everything that writes it          *)
(* (src/src/services/subscription.service.js and the controllers and the   *)
(* lifecycle sweep that call it): provisioning, captured payments,         *)
(* scheduled changes, cancellation, reactivation, the administrator's      *)
(* overrides and the billing lifecycle job.                                *)
(*                                                                         *)
(* Every operation reads the row, decides, and writes a patch. Some write  *)
(* only if the row's updatedAt is still the one they read (one that is     *)
(* overtaken is left with no row); the others write whatever happened      *)
(* since. Two actors overlap, and the clock may advance once while an      *)
(* operation is under way. The calendar is a line of ticks: addMonths(d,   *)
(* n) is d + n.                                                            *)
(***************************************************************************)
EXTENDS Integers

CONSTANTS
  Actor,       \* requests, payment processors and sweeps under way
  Txn,         \* payment transactions of this workspace
  Plan, Free,  \* DEFAULT_PLAN_CODE is the free plan
  TierOf,      \* tierOf of each plan
  PlanOf,      \* the plan a transaction buys
  TermOf,      \* termMonths
  TrialPlan,   \* the tenant record's plan, if it defines trialDays, else Free
  Trial,       \* trialDays
  Grace,       \* graceDaysFor, the same for every plan
  Window,      \* the default period: 30 days, or one month
  None,        \* an absent row, date or scheduled change
  Asked,       \* the requests a workspace or an administrator may make
  MaxTime, MaxRequests   \* bounds

ASSUME SubscriptionAssumption ==
  /\ Free \in Plan /\ TrialPlan \in Plan /\ None \notin Actor \cup Txn \cup Plan
  /\ TierOf \in [Plan -> Nat] /\ PlanOf \in [Txn -> Plan \ {Free}]
  /\ TermOf \in [Txn -> Nat \ {0}]
  /\ Trial \in Nat \ {0} /\ Grace \in Nat /\ Window \in Nat \ {0}
  /\ MaxTime \in Nat /\ MaxRequests \in Nat

VARIABLES
  now,
  sub,        \* the subscription row, None before provisioning
  order,      \* how far each transaction has come
  task,       \* what each actor is doing: the row it saw and since when
  requests,   \* requests made so far, provisioning not counted
  balance,    \* history: ticks of paid plan sold, on trial or given by an
              \* administrator, less the ticks had, grace not counted
  blind       \* history: a write was decided on a row that had moved since

vars == <<now, sub, order, task, requests, balance, blind>>

SUBSCRIPTION_STATES == {"trialing", "active", "past_due", "canceled", "expired", "restricted"}
Date == Nat
Change == [plan : Plan, at : Date, until : Date \cup {None}, paid : BOOLEAN]
Row == [plan : Plan, state : SUBSCRIPTION_STATES, end : Date, trial : Date \cup {None},
        grace : Date \cup {None}, change : Change \cup {None}, hold : BOOLEAN]

Op == [op : {"provision", "sweep", "reactivate", "clear"}]
      \cup [op : {"pay"}, txn : Txn]
      \cup [op : {"cancel"}, immediate : BOOLEAN]
      \cup [op : {"change"}, plan : Plan]
      \cup [op : {"setPlan"}, plan : Plan]
      \cup [op : {"setState"}, state : SUBSCRIPTION_STATES]

\* null is no date, change or row; payments, sweeps and withdrawals of a
\* change are not asked for as such.
ASSUME NoneAssumption == None \notin Date \cup Change \cup Row
ASSUME AskedAssumption == Asked \subseteq {o \in Op : o.op \notin {"pay", "sweep", "clear"}}

Idle == [pc |-> "idle"]

TypeOK ==
  /\ now \in 0 .. MaxTime
  /\ sub \in Row \cup {None}
  /\ order \in [Txn -> {"none", "open", "cancelled", "captured", "applied"}]
  /\ task \in [Actor -> {Idle} \cup [pc : {"checked", "read"}, op : Op, at : 0 .. now,
                                    seen : Row \cup {None}, firm : BOOLEAN]]
  /\ requests \in 0 .. MaxRequests /\ balance \in Int /\ blind \in BOOLEAN

Init ==
  /\ now = 0 /\ sub = None /\ order = [t \in Txn |-> "none"]
  /\ task = [a \in Actor |-> Idle]
  /\ requests = 0 /\ balance = 0 /\ blind = FALSE

----------------------------------------------------------------------------
\* assertTransition's graph.
Table ==
  [trialing |-> {"active", "canceled", "expired", "restricted", "past_due"},
   active |-> {"past_due", "canceled", "restricted", "expired"},
   past_due |-> {"active", "canceled", "expired", "restricted"},
   canceled |-> {"expired", "active", "restricted"},
   expired |-> {"active", "restricted"},
   restricted |-> {"active", "canceled"}]

Allowed(from, to) == from = to \/ to \in Table[from]

\* A scheduled change whose time has come and which still has a term to run.
Due(s, at) ==
  /\ s.change # None /\ at >= s.change.at
  /\ s.change.plan = Free \/ (s.change.until # None /\ at < s.change.until)

GraceEnd(s) == IF s.state = "past_due" /\ s.grace # None THEN s.grace ELSE s.end + Grace

\* Mutant: a paid plan stays active for as long as the job has not written it.
LateAccess(s, at) ==
  IF s.plan = Free THEN [state |-> IF s.state = "restricted" /\ s.hold THEN "restricted" ELSE "active",
                         plan |-> Free]
  ELSE [state |-> s.state, plan |-> s.plan]

\* computeAccess: the effective state and plan, from the stored row and the clock.
Access(s, at) ==
  LET is(state, plan) == [state |-> state, plan |-> plan] IN
  CASE s.plan = Free -> is(IF s.state = "restricted" /\ s.hold THEN "restricted" ELSE "active", Free)
    [] s.plan # Free /\ s.state \in {"restricted", "expired"} -> is(s.state, s.plan)
    [] s.plan # Free /\ s.state = "trialing" ->
         IF at < (IF s.trial # None THEN s.trial ELSE s.end) THEN is("trialing", s.plan)
         ELSE is("active", Free)
    [] s.plan # Free /\ s.state = "canceled" ->
         is(IF at < s.end THEN "canceled" ELSE "expired", s.plan)
    [] s.plan # Free /\ s.state \in {"active", "past_due"} ->
         IF s.state = "active" /\ at < s.end THEN is("active", s.plan)
         ELSE IF s.state = "active" /\ Due(s, at) THEN is("active", s.change.plan)
         ELSE is(IF at < GraceEnd(s) THEN "past_due" ELSE "restricted", s.plan)

\* A prepaid term or trial is running and its own plan is in force.
Running(s, at) ==
  /\ s.plan # Free
  /\ Access(s, at).state \in {"active", "trialing", "canceled"} /\ Access(s, at).plan = s.plan

Held(s) == s # None /\ s.state = "restricted" /\ s.hold
QueuedPayment(s) == s.change # None /\ s.change.paid

----------------------------------------------------------------------------
\* What each operation writes, decided on the row `s` it read: the fields it
\* sets, no field at all when it refuses or has nothing to do.
Nothing == [f \in {} |-> None]

\* `p` on top of `q`: $set on a row, or two parts of a patch.
Over(p, q) == [f \in DOMAIN p \cup DOMAIN q |-> IF f \in DOMAIN p THEN p[f] ELSE q[f]]

Later(d, e) == IF d < e THEN e ELSE d

\* createForTenant: the trial or free row, upserted whether or not one exists.
Provisioned(at) ==
  [plan |-> TrialPlan, state |-> IF TrialPlan = Free THEN "active" ELSE "trialing",
   trial |-> IF TrialPlan = Free THEN None ELSE at + Trial,
   end |-> at + (IF TrialPlan = Free THEN Window ELSE Trial), grace |-> None]

\* Mutant: a captured payment lifts an administrative hold.
LiftingPaidTerm(s, t, at) ==
  [state |-> "active", plan |-> PlanOf[t], end |-> Later(at, s.end) + TermOf[t],
   grace |-> None, change |-> None]

\* applyPaidTerm: renew from the period's end, queue a lower tier behind the
\* running term, or start the bought term now.
PaidTerm(s, t, at) ==
  LET newEnd == Later(at, s.end) + TermOf[t]
      same == QueuedPayment(s) /\ s.change.plan = PlanOf[t]
      start == IF same THEN s.change.until ELSE s.end
  IN CASE Held(s) -> Nothing
       [] ~Held(s) /\ Running(s, at) /\ s.plan = PlanOf[t] ->
            [state |-> "active", end |-> newEnd, grace |-> None,
             change |-> IF QueuedPayment(s)
                        THEN [s.change EXCEPT !.at = newEnd, !.until = @ + (newEnd - s.end)]
                        ELSE None]
       [] ~Held(s) /\ Running(s, at) /\ s.plan # PlanOf[t] /\ TierOf[PlanOf[t]] <= TierOf[s.plan] ->
            [change |-> [plan |-> PlanOf[t], at |-> IF same THEN s.change.at ELSE s.end,
                         until |-> start + TermOf[t], paid |-> TRUE]]
       [] OTHER ->
            [plan |-> PlanOf[t], state |-> "active", end |-> at + TermOf[t], grace |-> None,
             change |-> None]

\* advanceLifecycle: write down what Access already says.
Advanced(s, at) ==
  LET acc == Access(s, at)
      moves == acc.state # s.state /\ Allowed(s.state, acc.state)
      onFree == [plan |-> Free, state |-> "active", end |-> at + Window, change |-> None]
  IN CASE s.plan = Free -> IF s.end <= at /\ s.state # "restricted" THEN onFree ELSE Nothing
       [] s.plan # Free /\ s.state = "trialing" /\ acc.plan = Free -> onFree
       [] s.plan # Free /\ s.state = "active" /\ at >= s.end /\ Due(s, at) ->
            Over([plan |-> s.change.plan, grace |-> None,
                  end |-> IF s.change.plan = Free THEN at + Window ELSE s.change.until], onFree)
       [] OTHER ->
            CASE moves /\ acc.state = "past_due" -> [state |-> "past_due", grace |-> GraceEnd(s)]
              [] moves /\ acc.state = "restricted" -> [state |-> "restricted", hold |-> FALSE]
              [] moves /\ acc.state = "expired" -> [state |-> "expired"]
              [] OTHER -> Nothing

\* scheduleChange: at once when no term runs, else queued for the term's end.
Changed(s, plan, at) ==
  CASE Held(s) -> Nothing
    [] ~Held(s) /\ ~Running(s, at) ->
         [plan |-> plan, state |-> "active", end |-> at + Window, grace |-> None, change |-> None]
    [] ~Held(s) /\ Running(s, at) ->
         IF QueuedPayment(s) THEN Nothing
         ELSE [change |-> [plan |-> plan, at |-> s.end, until |-> None, paid |-> FALSE]]

\* clearScheduledChange: a queued payment stays.
Cleared(s) == IF s.change # None /\ ~s.change.paid THEN [change |-> None] ELSE Nothing

\* Mutant: an expired subscription can be canceled.
UncheckedCancelled(s, immediate, at) ==
  IF s.plan = Free \/ s.state \in {"canceled", "restricted"} THEN Nothing
  ELSE Over([state |-> "canceled", change |-> None], IF immediate THEN [end |-> at] ELSE Nothing)

\* Mutant: an immediate cancel leaves the row without a period end.
EndlessCancelled(s, immediate, at) ==
  IF s.state \in {"canceled", "expired", "restricted"} \/ s.plan = Free \/ QueuedPayment(s)
  THEN Nothing
  ELSE Over([state |-> "canceled", change |-> None], IF immediate THEN [end |-> None] ELSE Nothing)

\* cancel: not without a term, nor when a paid term is queued behind it.
Cancelled(s, immediate, at) ==
  IF s.state \in {"canceled", "expired", "restricted"} \/ s.plan = Free \/ QueuedPayment(s)
  THEN Nothing
  ELSE Over([state |-> "canceled", change |-> None], IF immediate THEN [end |-> at] ELSE Nothing)

\* reactivate: the period is kept as bought.
Reactivated(s, at) ==
  IF s.state = "active" \/ ~Allowed(s.state, "active") \/ s.end <= at THEN Nothing
  ELSE [state |-> "active", plan |-> s.plan, grace |-> None]

\* changePlan: the administrator's override, for a default period.
PlanSet(s, plan, at) ==
  IF s.plan = plan THEN Nothing ELSE [plan |-> plan, end |-> at + Window, change |-> None]

\* setState: an administrative restriction is a hold; activating a lapsed
\* term grants the default period.
StateSet(s, state, at) ==
  IF ~Allowed(s.state, state) THEN Nothing
  ELSE Over([state |-> state, hold |-> state = "restricted",
             grace |-> IF state = "past_due" THEN at + Grace ELSE None],
            IF state \in {"active", "trialing"} /\ s.end <= at THEN [end |-> at + Window] ELSE Nothing)

Patch(o, s, at) ==
  CASE o.op = "provision" -> IF s = None THEN Provisioned(at) ELSE Nothing
    [] o.op = "pay" -> PaidTerm(s, o.txn, at)
    [] o.op = "sweep" -> Advanced(s, at)
    [] o.op = "change" -> Changed(s, o.plan, at)
    [] o.op = "clear" -> Cleared(s)
    [] o.op = "cancel" -> Cancelled(s, o.immediate, at)
    [] o.op = "reactivate" -> Reactivated(s, at)
    [] o.op = "setPlan" -> PlanSet(s, o.plan, at)
    [] o.op = "setState" -> StateSet(s, o.state, at)

----------------------------------------------------------------------------
Start(a, pc, o) ==
  /\ task[a] = Idle
  /\ task' = [task EXCEPT ![a] = [pc |-> pc, op |-> o, at |-> now,
                                  seen |-> IF pc = "read" THEN sub ELSE None,
                                  firm |-> TRUE]]

\* The controllers' own reads: change-plan accepts the free plan or the
\* current one, reactivate a canceled or active subscription.
Accepts(o) ==
  /\ o.op = "provision" <=> sub = None
  /\ o.op = "change" => o.plan \in {Free, sub.plan}
  /\ o.op = "reactivate" => sub.state \in {"canceled", "active"}

\* A workspace or administrator request reads the row; change-plan and
\* reactivate read it again before they decide.
Request(a, o) ==
  /\ Accepts(o)
  /\ IF o.op = "provision" THEN requests' = requests
     ELSE requests < MaxRequests /\ requests' = requests + 1
  /\ Start(a, IF o.op \in {"change", "reactivate"} THEN "checked" ELSE "read", o)
  /\ UNCHANGED <<now, sub, order, balance, blind>>

\* applyCapture, holding the transaction's claim, before applyPaidTerm reads
\* the row: the clock value is its caller's.
Pay(a, t) ==
  /\ order[t] = "captured" /\ sub # None
  /\ \A b \in Actor : task[b] # Idle => task[b].op # [op |-> "pay", txn |-> t]
  /\ Start(a, "checked", [op |-> "pay", txn |-> t])
  /\ UNCHANGED <<now, sub, order, requests, balance, blind>>

\* Mutant: rows in their grace time are not listed.
GracelessDue(s, at) ==
  \/ s.state \in {"active", "trialing", "canceled"} /\ s.end <= at
  \/ s.state = "trialing" /\ s.trial # None /\ s.trial <= at

\* listLifecycleDue.
LifecycleDue(s, at) ==
  \/ s.state \in {"active", "trialing", "canceled"} /\ s.end <= at
  \/ s.state = "trialing" /\ s.trial # None /\ s.trial <= at
  \/ s.state = "past_due" /\ s.grace # None /\ s.grace <= at
  \/ s.state = "active" /\ s.change # None /\ s.change.at <= at

\* The lifecycle sweep lists the row; advanceLifecycle reads it again.
Sweep(a) ==
  /\ sub # None /\ LifecycleDue(sub, now) /\ Start(a, "checked", [op |-> "sweep"])
  /\ UNCHANGED <<now, sub, order, requests, balance, blind>>

\* The service's read. scheduleChange to the current plan is a withdrawal,
\* which reads once more; the sweep and a payment keep the clock value they
\* began with and had decided nothing yet.
Reread(a) ==
  /\ task[a].pc = "checked"
  /\ LET o == task[a].op
         late == o.op \in {"sweep", "pay"}
         withdraw == o.op = "change" /\ sub.plan = o.plan
     IN task' = [task EXCEPT ![a] =
          [pc |-> IF withdraw THEN "checked" ELSE "read",
           op |-> IF withdraw THEN [op |-> "clear"] ELSE o,
           at |-> IF late THEN @.at ELSE now, seen |-> sub,
           firm |-> @.firm \/ late]]
  /\ UNCHANGED <<now, sub, order, requests, balance, blind>>

\* casUpdate and applyPaidTerm compare updatedAt; the other writers do not.
Guarded(o) == o.op \in {"pay", "sweep", "change", "clear"}

\* The operations that read the clock after the row.
Clock(a) == IF Guarded(task[a].op) THEN {task[a].at} ELSE task[a].at .. now

\* Ticks of paid plan that a write sells, tries out or gives away.
Grant(o, row, at) ==
  CASE o.op = "pay" -> TermOf[o.txn]
    [] o.op = "provision" -> IF row.plan = Free THEN 0 ELSE Trial
    [] o.op \in {"setPlan", "setState"} ->
         IF row.plan = Free \/ row.end <= at THEN 0 ELSE row.end - at
    [] OTHER -> 0

Fresh == [plan |-> Free, state |-> "active", end |-> 0, trial |-> None, grace |-> None,
          change |-> None, hold |-> FALSE]

Written(a, row, at) ==
  /\ sub' = row
  /\ task' = [b \in Actor |->
       IF b = a \/ task[b] = Idle THEN Idle
       ELSE [task[b] EXCEPT !.firm = FALSE, !.seen = IF Guarded(task[b].op) THEN None ELSE @]]
  /\ order' = IF task[a].op.op = "pay" THEN [order EXCEPT ![task[a].op.txn] = "applied"] ELSE order
  /\ balance' = balance + Grant(task[a].op, row, at)
  /\ blind' = (blind \/ ~task[a].firm)

\* The write. A refused or overtaken operation ends in an error for its
\* caller; a payment stays captured and is applied later.
Commit(a) ==
  /\ task[a].pc = "read"
  /\ \E at \in Clock(a) :
       LET o == task[a].op
           p == IF Guarded(o) /\ task[a].seen = None THEN Nothing ELSE Patch(o, task[a].seen, at)
           row == Over(p, IF sub = None THEN Fresh ELSE sub)
       IN IF DOMAIN p # {}
          THEN Written(a, row, at)
          ELSE /\ task' = [task EXCEPT ![a] = Idle]
               /\ UNCHANGED <<sub, order, balance, blind>>
  /\ UNCHANGED <<now, requests>>

\* createCheckout: refused under a hold or behind another queued plan; an
\* equivalent open order is reused, open orders for other plans are cancelled.
Checkout(t) ==
  /\ sub # None /\ ~Held(sub) /\ order[t] = "none"
  /\ QueuedPayment(sub) => sub.change.plan = PlanOf[t]
  /\ \A u \in Txn : order[u] = "open" => <<PlanOf[u], TermOf[u]>> # <<PlanOf[t], TermOf[t]>>
  /\ order' = [u \in Txn |-> IF u = t THEN "open"
                             ELSE IF order[u] = "open" /\ PlanOf[u] # PlanOf[t] THEN "cancelled"
                             ELSE order[u]]
  /\ UNCHANGED <<now, sub, task, requests, balance, blind>>

\* The provider confirms the payment of an open order.
Capture(t) ==
  /\ order[t] = "open"
  /\ order' = [order EXCEPT ![t] = "captured"]
  /\ UNCHANGED <<now, sub, task, requests, balance, blind>>

\* Paid access, grace not counted.
Enjoyed == sub # None /\ Access(sub, now).plan # Free
           /\ Access(sub, now).state \in {"active", "trialing", "canceled"}

\* At most one tick falls into an operation.
Pass ==
  /\ now < MaxTime /\ \A a \in Actor : task[a] # Idle => task[a].at = now
  /\ now' = now + 1
  /\ balance' = balance - (IF Enjoyed THEN 1 ELSE 0)
  /\ UNCHANGED <<sub, order, task, requests, blind>>

Work(a) ==
  \/ \E o \in Asked : Request(a, o)
  \/ \E t \in Txn : Pay(a, t)
  \/ Sweep(a) \/ Reread(a) \/ Commit(a)

Next == \/ \E a \in Actor : Work(a)
        \/ \E t \in Txn : Checkout(t) \/ Capture(t)
        \/ Pass

Spec == Init /\ [][Next]_vars

----------------------------------------------------------------------------
\* Access to a paid plan never adds up to more than was sold, tried out or
\* given by an administrator, however late the lifecycle job is and however
\* payments overlap with it, unless a writer that compares nothing (cancel,
\* reactivate, the overrides, change-plan's first check) wrote on a row that
\* had moved since it read it.
PaidAccessBudget == blind \/ balance >= 0

\* An administrative hold ends only by an administrator's setState, never by
\* a payment, the lifecycle job or a workspace request that was decided on
\* the current row.
HoldStands ==
  [][Held(sub) /\ ~Held(sub') =>
       \/ blind'
       \/ \E a \in Actor : task[a] # Idle /\ task'[a] = Idle /\ task[a].op.op = "setState"]_vars

\* The stored state only moves along assertTransition's graph, also where the
\* lifecycle job and provisioning do not ask it; once a write was decided on a
\* row that had moved (blind), it may move anyhow.
StateGraph ==
  [][sub # None /\ sub' # None /\ ~blind' => Allowed(sub.state, sub'.state)]_vars

\* A late lifecycle job loses nothing: whenever the stored state or plan of a
\* paid subscription lags what computeAccess enforces, the sweep's query
\* lists the row and one advance brings it in line.
LagIsSwept ==
  sub # None /\ sub.plan # Free /\ Access(sub, now) # [state |-> sub.state, plan |-> sub.plan]
    => LET next == Over(Advanced(sub, now), sub)
       IN LifecycleDue(sub, now) /\ Access(next, now) = [state |-> next.state, plan |-> next.plan]

\* A queued prepaid term starts at the end of the term before it: from then
\* on its plan is in force (applyPaidTerm queues it "to start at the period
\* end").
QueuedTermStarts ==
  sub # None /\ QueuedPayment(sub) /\ sub.change.at <= now /\ now < sub.change.until /\ ~blind
    => Access(sub, now) = [state |-> "active", plan |-> sub.change.plan]
=============================================================================
