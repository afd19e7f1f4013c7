------------------------- MODULE Subscription_proofs -------------------------
(***************************************************************************)
(* What holds of Subscription for any number of actors, any plans, tiers   *)
(* and transactions, and any lengths of terms, trials, grace and periods.  *)
(***************************************************************************)
EXTENDS Subscription, TLAPS

----------------------------------------------------------------------------
(* The inductive invariant.                                                *)

\* A row whose past_due state has a grace end and whose queued payment has
\* an end of its own.
Sound == {s \in Row : /\ s.state = "past_due" => s.grace # None
                      /\ QueuedPayment(s) => s.change.until # None}

Job(n) == [pc : {"checked", "read"}, op : Op, at : 0 .. n, seen : Row \cup {None}, firm : BOOLEAN]

\* What an operation `j` under way on the row `s` has read.
Reads(j, s) ==
  /\ j.seen \in Sound \cup {None}
  /\ j.op.op # "provision" => s # None
  /\ j.pc = "checked" => j.op.op \in {"change", "reactivate", "pay", "sweep", "clear"}
  /\ j.pc = "read" /\ ~Guarded(j.op) /\ j.op.op # "provision" => j.seen # None

Typed ==
  /\ TypeOK
  /\ sub \in Sound \cup {None}
  /\ \A a \in Actor : task[a] # Idle => Reads(task[a], sub)

\* What it knows of that row: a compared read is the row itself or
\* worthless, and so is any read that nothing was written after.
Knows(j, s) ==
  /\ j.pc = "read" /\ j.seen # None /\ (Guarded(j.op) \/ j.firm) => j.seen = s
  /\ j.firm /\ j.op.op = "provision" => s = None
  /\ j.firm /\ j.op.op = "reactivate" => s.state \in {"canceled", "active"}
  /\ j.firm /\ j.op.op = "change" =>
       /\ j.op.plan \in {Free, s.plan}
       /\ j.pc = "read" => j.op.plan # s.plan

Aware == \A a \in Actor : task[a] # Idle => task[a].at + 1 >= now /\ Knows(task[a], sub)

\* Ticks from `at` to `d`.
Ahead(d, at) == IF at < d THEN d - at ELSE 0

\* Paid access a row still stands for: the running term or trial, and the
\* term queued behind it, which a trial keeps whole.
Bought(s, at) == IF s.plan = Free THEN 0 ELSE Ahead(s.end, at)
Tried(s, at) == IF s.state = "trialing" /\ s.trial # None THEN Ahead(s.trial, at) ELSE 0
Term(s, at) == Later(Bought(s, at), Tried(s, at))
Queue(s, at) ==
  IF s.change = None \/ s.change.plan = Free \/ s.change.until = None THEN 0
  ELSE Ahead(s.change.until, Later(s.end, IF s.state = "trialing" THEN 0 ELSE at))
Owed(s, at) == IF s = None THEN 0 ELSE Term(s, at) + Queue(s, at)

\* A scheduled change waits for no longer than the term, and for another plan.
Ordered(s) == s.change # None => s.change.at <= s.end /\ s.change.plan # s.plan

Covered == blind \/ (balance >= Owed(sub, now) /\ (sub # None => Ordered(sub)))

----------------------------------------------------------------------------
(* Rows and patches.                                                       *)

\* A patch keeps a row well formed whatever row it lands on.
IsPatch(p) ==
  /\ DOMAIN p \subseteq {"plan", "state", "end", "trial", "grace", "change", "hold"}
  /\ "plan" \in DOMAIN p => p.plan \in Plan
  /\ "state" \in DOMAIN p => /\ p.state \in SUBSCRIPTION_STATES
                             /\ p.state = "past_due" => "grace" \in DOMAIN p /\ p.grace # None
  /\ "end" \in DOMAIN p => p.end \in Date
  /\ "trial" \in DOMAIN p => p.trial \in Date \cup {None}
  /\ "grace" \in DOMAIN p => p.grace \in Date \cup {None} /\ (p.grace = None => "state" \in DOMAIN p)
  /\ "change" \in DOMAIN p => /\ p.change \in Change \cup {None}
                              /\ p.change # None /\ p.change.paid => p.change.until # None
  /\ "hold" \in DOMAIN p => p.hold \in BOOLEAN

\* What `Over` makes of each field of a row.
LEMMA OverFields ==
  ASSUME NEW p, NEW q \in Row
  PROVE  /\ Over(p, q).plan = IF "plan" \in DOMAIN p THEN p.plan ELSE q.plan
         /\ Over(p, q).state = IF "state" \in DOMAIN p THEN p.state ELSE q.state
         /\ Over(p, q).end = IF "end" \in DOMAIN p THEN p.end ELSE q.end
         /\ Over(p, q).trial = IF "trial" \in DOMAIN p THEN p.trial ELSE q.trial
         /\ Over(p, q).grace = IF "grace" \in DOMAIN p THEN p.grace ELSE q.grace
         /\ Over(p, q).change = IF "change" \in DOMAIN p THEN p.change ELSE q.change
         /\ Over(p, q).hold = IF "hold" \in DOMAIN p THEN p.hold ELSE q.hold
BY DEF Over, Row

\* A patched row is well formed.
LEMMA OverSound ==
  ASSUME NEW p, IsPatch(p), NEW q \in Sound
  PROVE  Over(p, q) \in Sound
<1> DEFINE r == Over(p, q)
<1>0. q \in Row BY DEF Sound
<1>1. /\ r.plan = IF "plan" \in DOMAIN p THEN p.plan ELSE q.plan
      /\ r.state = IF "state" \in DOMAIN p THEN p.state ELSE q.state
      /\ r.end = IF "end" \in DOMAIN p THEN p.end ELSE q.end
      /\ r.trial = IF "trial" \in DOMAIN p THEN p.trial ELSE q.trial
      /\ r.grace = IF "grace" \in DOMAIN p THEN p.grace ELSE q.grace
      /\ r.change = IF "change" \in DOMAIN p THEN p.change ELSE q.change
      /\ r.hold = IF "hold" \in DOMAIN p THEN p.hold ELSE q.hold
  BY <1>0, OverFields
<1>2. r = [f \in {"plan", "state", "end", "trial", "grace", "change", "hold"} |-> r[f]]
  BY <1>0 DEF Over, Row, IsPatch
<1> HIDE DEF r
<1>3. /\ r.plan \in Plan /\ r.state \in SUBSCRIPTION_STATES /\ r.end \in Date
      /\ r.trial \in Date \cup {None} /\ r.grace \in Date \cup {None}
      /\ r.change \in Change \cup {None} /\ r.hold \in BOOLEAN
  BY <1>0, <1>1 DEF IsPatch, Row
<1>4. r \in Row
  BY <1>2, <1>3 DEF Row
<1>5. r.state = "past_due" => r.grace # None
  BY <1>1 DEF IsPatch, Sound
<1>6. QueuedPayment(r) => r.change.until # None
  BY <1>1 DEF IsPatch, Sound, QueuedPayment
<1>7. QED BY <1>4, <1>5, <1>6 DEF Sound, r

\* The states computeAccess gives a paid plan's row, state by state.
LEMMA AccessOf ==
  ASSUME NEW s \in Sound, NEW at \in Nat
  PROVE  /\ s.plan = Free => /\ Access(s, at).plan = Free
                             /\ Access(s, at).state = IF s.state = "restricted" /\ s.hold
                                                      THEN "restricted" ELSE "active"
         /\ s.plan # Free /\ s.state \in {"restricted", "expired"} =>
              Access(s, at).state = s.state /\ Access(s, at).plan = s.plan
         /\ s.plan # Free /\ s.state = "trialing" =>
              LET runs == at < (IF s.trial # None THEN s.trial ELSE s.end) IN
              /\ Access(s, at).state = IF runs THEN "trialing" ELSE "active"
              /\ Access(s, at).plan = IF runs THEN s.plan ELSE Free
         /\ s.plan # Free /\ s.state = "canceled" =>
              /\ Access(s, at).state = IF at < s.end THEN "canceled" ELSE "expired"
              /\ Access(s, at).plan = s.plan
         /\ s.plan # Free /\ s.state = "active" =>
              /\ at < s.end => Access(s, at).state = "active" /\ Access(s, at).plan = s.plan
              /\ at >= s.end /\ Due(s, at) =>
                   Access(s, at).state = "active" /\ Access(s, at).plan = s.change.plan
              /\ at >= s.end /\ ~Due(s, at) =>
                   /\ Access(s, at).state = IF at < s.end + Grace THEN "past_due" ELSE "restricted"
                   /\ Access(s, at).plan = s.plan
         /\ s.plan # Free /\ s.state = "past_due" =>
              /\ Access(s, at).state = IF at < s.grace THEN "past_due" ELSE "restricted"
              /\ Access(s, at).plan = s.plan
<1>1. CASE s.plan = Free BY <1>1 DEF Access
<1>2. CASE s.plan # Free /\ s.state \in {"restricted", "expired"} BY <1>2 DEF Access
<1>3. CASE s.plan # Free /\ s.state = "trialing" BY <1>3 DEF Access
<1>4. CASE s.plan # Free /\ s.state = "canceled" BY <1>4 DEF Access
<1>5. CASE s.plan # Free /\ s.state = "active"
  BY <1>5, SubscriptionAssumption DEF Access, GraceEnd, Sound, Row, Date
<1>6. CASE s.plan # Free /\ s.state = "past_due"
  BY <1>6 DEF Access, GraceEnd, Sound
<1>7. s.state \in SUBSCRIPTION_STATES BY DEF Sound, Row
<1>8. QED BY <1>1, <1>2, <1>3, <1>4, <1>5, <1>6, <1>7 DEF SUBSCRIPTION_STATES
----------------------------------------------------------------------------
(* What each operation writes: a patch, a step of the graph, and no end of *)
(* a hold.                                                                 *)

\* A patch that keeps to assertTransition's graph, and one that also leaves a
\* hold alone.
Legal(p, s) == IsPatch(p) /\ ("state" \in DOMAIN p => Allowed(s.state, p.state))
Lawful(p, s) ==
  /\ Legal(p, s)
  /\ Held(s) => "state" \notin DOMAIN p /\ "hold" \notin DOMAIN p

LEMMA NothingLawful == \A s : Lawful(Nothing, s)
BY DEF Nothing, Lawful, Legal, IsPatch

\* Every state may become active.
LEMMA ToActive == \A s \in Sound : Allowed(s.state, "active")
BY DEF Sound, Row, SUBSCRIPTION_STATES, Allowed, Table

LEMMA ProvisionedPatch == \A at \in Nat : IsPatch(Provisioned(at))
BY SubscriptionAssumption DEF Provisioned, IsPatch, Date, SUBSCRIPTION_STATES

\* A running term is not a hold, and its stored state is one of three.
LEMMA RunningState ==
  ASSUME NEW s \in Sound, NEW at \in Nat, Running(s, at)
  PROVE  s.state \in {"active", "trialing", "canceled"}
<1>1. s.state \in SUBSCRIPTION_STATES BY DEF Sound, Row
<1>2. s.state \notin {"restricted", "expired"} BY AccessOf DEF Running
<1>3. s.state # "past_due" BY AccessOf DEF Running
<1>4. QED BY <1>1, <1>2, <1>3 DEF SUBSCRIPTION_STATES

LEMMA PaidTermLawful ==
  ASSUME NEW s \in Sound, NEW t \in Txn, NEW at \in Nat
  PROVE  Lawful(PaidTerm(s, t, at), s)
<1> DEFINE newEnd == Later(at, s.end) + TermOf[t]
           same == QueuedPayment(s) /\ s.change.plan = PlanOf[t]
           start == IF same THEN s.change.until ELSE s.end
<1>0. /\ s \in Row /\ s.end \in Nat /\ s.change \in Change \cup {None}
      /\ TermOf[t] \in Nat /\ PlanOf[t] \in Plan
  BY SubscriptionAssumption DEF Sound, Row, Date
<1>1. newEnd \in Nat /\ newEnd >= s.end BY <1>0 DEF Later
<1> HIDE DEF newEnd
<1>2. QueuedPayment(s) => s.change \in Change /\ s.change.until \in Nat /\ s.change.at \in Nat
  BY <1>0 DEF Sound, QueuedPayment, Change, Date
<1>3. start \in Nat BY <1>0, <1>2
<1> HIDE DEF start
<1>4. CASE Held(s) BY <1>4, NothingLawful DEF PaidTerm
<1>5. CASE ~Held(s) /\ Running(s, at) /\ s.plan = PlanOf[t]
  <2> DEFINE c == [s.change EXCEPT !.at = newEnd, !.until = s.change.until + (newEnd - s.end)]
             d == IF QueuedPayment(s) THEN c ELSE None
             p == [state |-> "active", end |-> newEnd, grace |-> None, change |-> d]
  <2>1. PaidTerm(s, t, at) = p BY <1>5 DEF PaidTerm, newEnd
  <2>2. QueuedPayment(s) => c \in Change /\ c.until \in Nat
    <3>1. SUFFICES ASSUME QueuedPayment(s) PROVE c \in Change /\ c.until \in Nat
      OBVIOUS
    <3>2. s.change.until + (newEnd - s.end) \in Nat BY <1>0, <1>1, <1>2, <3>1
    <3>3. QED BY <1>1, <1>2, <3>1, <3>2 DEF Change, Date
  <2> HIDE DEF c
  <2>3. d \in Change \cup {None} /\ (d # None /\ d.paid => d.until # None)
    BY <2>2, NoneAssumption DEF Date
  <2> HIDE DEF d
  <2>4. IsPatch(p) BY <1>1, <2>3 DEF IsPatch, SUBSCRIPTION_STATES, Date
  <2>5. QED BY <1>5, <2>1, <2>4, ToActive DEF Lawful, Legal
<1>6. CASE ~Held(s) /\ Running(s, at) /\ s.plan # PlanOf[t] /\ TierOf[PlanOf[t]] <= TierOf[s.plan]
  <2> DEFINE c == [plan |-> PlanOf[t], at |-> IF same THEN s.change.at ELSE s.end,
                   until |-> start + TermOf[t], paid |-> TRUE]
             p == [change |-> c]
  <2>1. PaidTerm(s, t, at) = p BY <1>6 DEF PaidTerm, start
  <2>2. c \in Change /\ c.until \in Nat BY <1>0, <1>2, <1>3 DEF Change, Date
  <2> HIDE DEF c
  <2>3. IsPatch(p) BY <2>2, NoneAssumption DEF IsPatch, Date
  <2>4. QED BY <1>6, <2>1, <2>3 DEF Lawful, Legal
<1>7. CASE ~Held(s) /\ ~(Running(s, at) /\ (s.plan = PlanOf[t] \/ TierOf[PlanOf[t]] <= TierOf[s.plan]))
  <2> DEFINE p == [plan |-> PlanOf[t], state |-> "active", end |-> at + TermOf[t], grace |-> None,
                   change |-> None]
  <2>1. PaidTerm(s, t, at) = p BY <1>7 DEF PaidTerm
  <2>2. IsPatch(p) BY <1>0 DEF IsPatch, SUBSCRIPTION_STATES, Date
  <2>3. QED BY <1>7, <2>1, <2>2, ToActive DEF Lawful, Legal
<1>8. QED BY <1>4, <1>5, <1>6, <1>7

LEMMA ChangedLawful ==
  ASSUME NEW s \in Sound, NEW plan \in Plan, NEW at \in Nat
  PROVE  Lawful(Changed(s, plan, at), s)
<1>0. s.end \in Nat BY DEF Sound, Row, Date
<1>1. CASE Held(s) BY <1>1, NothingLawful DEF Changed
<1>2. CASE ~Held(s) /\ ~Running(s, at)
  <2> DEFINE p == [plan |-> plan, state |-> "active", end |-> at + Window, grace |-> None, change |-> None]
  <2>1. Changed(s, plan, at) = p BY <1>2 DEF Changed
  <2>2. IsPatch(p) BY SubscriptionAssumption DEF IsPatch, SUBSCRIPTION_STATES, Date
  <2>3. QED BY <1>2, <2>1, <2>2, ToActive DEF Lawful, Legal
<1>3. CASE ~Held(s) /\ Running(s, at) /\ QueuedPayment(s) BY <1>3, NothingLawful DEF Changed
<1>4. CASE ~Held(s) /\ Running(s, at) /\ ~QueuedPayment(s)
  <2> DEFINE c == [plan |-> plan, at |-> s.end, until |-> None, paid |-> FALSE]
             p == [change |-> c]
  <2>1. Changed(s, plan, at) = p BY <1>4 DEF Changed
  <2>2. c \in Change /\ ~c.paid BY <1>0 DEF Change, Date
  <2> HIDE DEF c
  <2>3. IsPatch(p) BY <2>2 DEF IsPatch
  <2>4. QED BY <1>4, <2>1, <2>3 DEF Lawful, Legal
<1>5. QED BY <1>1, <1>2, <1>3, <1>4

LEMMA ClearedLawful == \A s \in Sound : Lawful(Cleared(s), s)
<1>1. IsPatch([change |-> None]) BY DEF IsPatch
<1>2. QED BY <1>1, NothingLawful DEF Cleared, Lawful, Legal

LEMMA CancelledLawful ==
  ASSUME NEW s \in Sound, NEW immediate \in BOOLEAN, NEW at \in Nat
  PROVE  Lawful(Cancelled(s, immediate, at), s)
<1> DEFINE p == Over([state |-> "canceled", change |-> None], IF immediate THEN [end |-> at] ELSE Nothing)
<1>1. IsPatch(p) BY DEF IsPatch, Over, SUBSCRIPTION_STATES, Date, Nothing
<1>2. p.state = "canceled" BY DEF Over
<1>3. s.state \in SUBSCRIPTION_STATES BY DEF Sound, Row
<1> HIDE DEF p
<1>4. CASE Cancelled(s, immediate, at) = Nothing BY <1>4, NothingLawful
<1>5. CASE Cancelled(s, immediate, at) # Nothing
  <2>1. /\ Cancelled(s, immediate, at) = p
        /\ s.state \notin {"canceled", "expired", "restricted"}
    BY <1>5 DEF Cancelled, p
  <2>2. QED BY <1>1, <1>2, <1>3, <2>1 DEF Lawful, Legal, Allowed, Table, SUBSCRIPTION_STATES, Held
<1>6. QED BY <1>4, <1>5

LEMMA PlanSetLawful ==
  ASSUME NEW s \in Sound, NEW plan \in Plan, NEW at \in Nat
  PROVE  Lawful(PlanSet(s, plan, at), s)
<1>1. IsPatch([plan |-> plan, end |-> at + Window, change |-> None])
  BY SubscriptionAssumption DEF IsPatch, Date
<1>2. QED BY <1>1, NothingLawful DEF PlanSet, Lawful, Legal
LEMMA ReactivatedLegal ==
  ASSUME NEW s \in Sound, NEW at \in Nat
  PROVE  Legal(Reactivated(s, at), s)
<1>1. s.plan \in Plan BY DEF Sound, Row
<1>2. IsPatch([state |-> "active", plan |-> s.plan, grace |-> None])
  BY <1>1 DEF IsPatch, SUBSCRIPTION_STATES
<1>3. QED BY <1>2, ToActive, NothingLawful DEF Reactivated, Lawful, Legal

LEMMA StateSetLegal ==
  ASSUME NEW s \in Sound, NEW state \in SUBSCRIPTION_STATES, NEW at \in Nat
  PROVE  Legal(StateSet(s, state, at), s)
<1> DEFINE g == IF state = "past_due" THEN at + Grace ELSE None
           e == IF state \in {"active", "trialing"} /\ s.end <= at THEN [end |-> at + Window] ELSE Nothing
           p == Over([state |-> state, hold |-> state = "restricted", grace |-> g], e)
<1>1. g \in Date \cup {None} /\ (state = "past_due" => g # None)
  BY SubscriptionAssumption, NoneAssumption DEF Date
<1> HIDE DEF g
<1>2. DOMAIN e \subseteq {"end"} /\ ("end" \in DOMAIN e => e.end \in Date)
  BY SubscriptionAssumption DEF Nothing, Date
<1> HIDE DEF e
<1>3. /\ DOMAIN p \subseteq {"state", "hold", "grace", "end"}
      /\ p.state = state /\ p.grace = g
      /\ "state" \in DOMAIN p /\ "grace" \in DOMAIN p
      /\ "end" \in DOMAIN p => p.end \in Date
  BY <1>2 DEF Over
<1>4. p.hold \in BOOLEAN BY <1>2 DEF Over
<1> HIDE DEF p
<1>5. IsPatch(p) BY <1>1, <1>3, <1>4 DEF IsPatch
<1>6. CASE ~Allowed(s.state, state) BY <1>6, NothingLawful DEF StateSet, Lawful
<1>7. CASE Allowed(s.state, state)
  <2>1. StateSet(s, state, at) = p BY <1>7 DEF StateSet, p, e, g
  <2>2. QED BY <2>1, <1>3, <1>5, <1>7 DEF Legal
<1>8. QED BY <1>6, <1>7

LEMMA AdvancedLawful ==
  ASSUME NEW s \in Sound, NEW at \in Nat
  PROVE  Lawful(Advanced(s, at), s)
<1> DEFINE acc == Access(s, at)
           onFree == [plan |-> Free, state |-> "active", end |-> at + Window, change |-> None]
<1>0. s \in Row /\ s.state \in SUBSCRIPTION_STATES /\ s.end \in Nat BY DEF Sound, Row, Date
<1>1. IsPatch(onFree) BY SubscriptionAssumption DEF IsPatch, SUBSCRIPTION_STATES, Date
<1>2. onFree.state = "active" /\ Legal(onFree, s) BY <1>1, ToActive DEF Legal
<1> HIDE DEF onFree
<1>3. CASE s.plan = Free
  <2>1. Advanced(s, at) = IF s.end <= at /\ s.state # "restricted" THEN onFree ELSE Nothing
    BY <1>3 DEF Advanced, onFree
  <2>2. QED BY <1>2, <2>1, NothingLawful DEF Lawful, Held
<1>4. CASE s.plan # Free /\ s.state = "trialing" /\ acc.plan = Free
  <2>1. Advanced(s, at) = onFree BY <1>4 DEF Advanced, onFree
  <2>2. QED BY <1>2, <1>4, <2>1 DEF Lawful, Held
<1>5. CASE s.plan # Free /\ s.state = "active" /\ at >= s.end /\ Due(s, at)
  <2> DEFINE e == IF s.change.plan = Free THEN at + Window ELSE s.change.until
             p == Over([plan |-> s.change.plan, grace |-> None, end |-> e], onFree)
  <2>1. Advanced(s, at) = p BY <1>5 DEF Advanced, onFree
  <2>2. s.change \in Change BY <1>0, <1>5 DEF Row, Due
  <2>3. e \in Date BY <2>2, <1>5, SubscriptionAssumption DEF Due, Change, Date
  <2> HIDE DEF e
  <2>4. /\ DOMAIN p \subseteq {"plan", "grace", "end", "state", "change"} /\ "state" \in DOMAIN p
        /\ p.plan = s.change.plan /\ p.state = "active" /\ p.end = e /\ p.grace = None /\ p.change = None
    BY DEF Over, onFree
  <2> HIDE DEF p
  <2>5. IsPatch(p) BY <2>2, <2>3, <2>4 DEF IsPatch, SUBSCRIPTION_STATES, Change
  <2>6. QED BY <1>5, <2>1, <2>4, <2>5, ToActive DEF Lawful, Legal, Held
<1>6. CASE ~(\/ s.plan = Free
             \/ s.plan # Free /\ s.state = "trialing" /\ acc.plan = Free
             \/ s.plan # Free /\ s.state = "active" /\ at >= s.end /\ Due(s, at))
  <2>1. CASE acc.state = s.state \/ ~Allowed(s.state, acc.state)
    BY <1>6, <2>1, NothingLawful DEF Advanced
  <2>2. CASE acc.state # s.state /\ Allowed(s.state, acc.state) /\ acc.state = "past_due"
    <3>1. Advanced(s, at) = [state |-> "past_due", grace |-> GraceEnd(s)]
      BY <1>6, <2>2 DEF Advanced
    <3>2. GraceEnd(s) \in Nat BY <1>0, SubscriptionAssumption DEF GraceEnd, Row, Date
    <3>3. IsPatch([state |-> "past_due", grace |-> GraceEnd(s)])
      BY <3>2, NoneAssumption DEF IsPatch, SUBSCRIPTION_STATES, Date
    <3>4. ~Held(s) BY <2>2 DEF Held, Allowed, Table
    <3>5. QED BY <2>2, <3>1, <3>3, <3>4 DEF Lawful, Legal
  <2>3. CASE acc.state # s.state /\ Allowed(s.state, acc.state) /\ acc.state = "restricted"
    <3>1. Advanced(s, at) = [state |-> "restricted", hold |-> FALSE]
      BY <1>6, <2>3 DEF Advanced
    <3>2. IsPatch([state |-> "restricted", hold |-> FALSE])
      BY DEF IsPatch, SUBSCRIPTION_STATES
    <3>3. QED BY <2>3, <3>1, <3>2 DEF Lawful, Legal, Held
  <2>4. CASE acc.state # s.state /\ Allowed(s.state, acc.state) /\ acc.state = "expired"
    <3>1. Advanced(s, at) = [state |-> "expired"] BY <1>6, <2>4 DEF Advanced
    <3>2. IsPatch([state |-> "expired"]) BY DEF IsPatch, SUBSCRIPTION_STATES
    <3>3. ~Held(s) BY <2>4 DEF Held, Allowed, Table
    <3>4. QED BY <2>4, <3>1, <3>2, <3>3 DEF Lawful, Legal
  <2>5. CASE acc.state # s.state /\ Allowed(s.state, acc.state)
             /\ acc.state \notin {"past_due", "restricted", "expired"}
    BY <1>6, <2>5, NothingLawful DEF Advanced
  <2>6. QED BY <2>1, <2>2, <2>3, <2>4, <2>5
<1>7. QED BY <1>3, <1>4, <1>5, <1>6
----------------------------------------------------------------------------
(* Operations and their patches.                                           *)

LEMMA OpFields ==
  ASSUME NEW o \in Op
  PROVE  /\ o.op \in {"provision", "sweep", "reactivate", "clear", "pay", "cancel", "change", "setPlan",
                      "setState"}
         /\ o.op = "pay" => o.txn \in Txn
         /\ o.op = "cancel" => o.immediate \in BOOLEAN
         /\ o.op = "change" => o.plan \in Plan
         /\ o.op = "setPlan" => o.plan \in Plan
         /\ o.op = "setState" => o.state \in SUBSCRIPTION_STATES
BY DEF Op

\* null is no sound row.
LEMMA NullAway == None \notin Sound /\ None \notin Row /\ None \notin Nat
BY NoneAssumption DEF Sound, Date

LEMMA PatchLegal ==
  ASSUME NEW o \in Op, NEW s \in Sound, NEW at \in Nat
  PROVE  /\ Legal(Patch(o, s, at), s)
         /\ o.op \notin {"setState", "reactivate"} => Lawful(Patch(o, s, at), s)
<1>1. CASE o.op = "provision" BY <1>1, NullAway, NothingLawful DEF Patch, Lawful
<1>2. CASE o.op = "pay" BY <1>2, OpFields, PaidTermLawful DEF Patch, Lawful
<1>3. CASE o.op = "sweep" BY <1>3, AdvancedLawful DEF Patch, Lawful
<1>4. CASE o.op = "change" BY <1>4, OpFields, ChangedLawful DEF Patch, Lawful
<1>5. CASE o.op = "clear" BY <1>5, ClearedLawful DEF Patch, Lawful
<1>6. CASE o.op = "cancel" BY <1>6, OpFields, CancelledLawful DEF Patch, Lawful
<1>7. CASE o.op = "reactivate" BY <1>7, ReactivatedLegal DEF Patch
<1>8. CASE o.op = "setPlan" BY <1>8, OpFields, PlanSetLawful DEF Patch, Lawful
<1>9. CASE o.op = "setState" BY <1>9, OpFields, StateSetLegal DEF Patch
<1>10. QED BY OpFields, <1>1, <1>2, <1>3, <1>4, <1>5, <1>6, <1>7, <1>8, <1>9

LEMMA FreshSound == Fresh \in Sound
<1>1. Fresh \in Row BY SubscriptionAssumption DEF Fresh, Row, SUBSCRIPTION_STATES, Date
<1>2. QED BY <1>1 DEF Sound, Fresh, QueuedPayment

----------------------------------------------------------------------------
(* Typed is an invariant.                                                  *)

LEMMA InitTyped == Init => Typed
<1> SUFFICES ASSUME Init PROVE Typed OBVIOUS
<1>1. TypeOK
  <2>1. now \in 0 .. MaxTime /\ requests \in 0 .. MaxRequests /\ balance \in Int
    BY SubscriptionAssumption DEF Init
  <2>2. blind \in BOOLEAN BY DEF Init
  <2>3. sub \in Row \cup {None} /\ order \in [Txn -> {"none", "open", "cancelled", "captured", "applied"}]
    BY DEF Init
  <2>4. task \in [Actor -> {Idle} \cup [pc : {"checked", "read"}, op : Op, at : 0 .. now,
                                       seen : Row \cup {None}, firm : BOOLEAN]]
    BY DEF Init
  <2>5. QED BY <2>1, <2>2, <2>3, <2>4 DEF TypeOK
<1>2. QED BY <1>1 DEF Init, Typed

\* One actor's task moves on, and nothing is written.
LEMMA TaskStep ==
  ASSUME Typed, NEW a \in Actor, NEW j \in Job(now), Reads(j, sub),
         task' = [task EXCEPT ![a] = j], requests' \in 0 .. MaxRequests,
         UNCHANGED <<now, sub, order, balance, blind>>
  PROVE  Typed'
<1>1. task \in [Actor -> {Idle} \cup Job(now)] BY DEF Typed, TypeOK, Job
<1>2. task' \in [Actor -> {Idle} \cup Job(now)] BY <1>1
<1>3. TypeOK' BY <1>2 DEF Typed, TypeOK, Job
<1>4. ASSUME NEW b \in Actor, task'[b] # Idle PROVE Reads(task'[b], sub')
  BY <1>1, <1>4 DEF Typed
<1>5. sub' \in Sound \cup {None} BY DEF Typed
<1>6. QED BY <1>3, <1>4, <1>5 DEF Typed

LEMMA StartTyped ==
  ASSUME Typed, NEW a \in Actor, NEW o \in Op, NEW pc \in {"checked", "read"}, Start(a, pc, o),
         o.op # "provision" => sub # None,
         pc = "checked" <=> o.op \in {"change", "reactivate", "pay", "sweep", "clear"},
         requests' \in 0 .. MaxRequests, UNCHANGED <<now, sub, order, balance, blind>>
  PROVE  Typed'
<1> DEFINE j == [pc |-> pc, op |-> o, at |-> now, seen |-> IF pc = "read" THEN sub ELSE None, firm |-> TRUE]
<1>1. sub \in Sound \cup {None} /\ now \in Nat BY SubscriptionAssumption DEF Typed, TypeOK
<1>2. sub \in Row \cup {None} BY <1>1 DEF Sound
<1>3. j \in Job(now) BY <1>1, <1>2 DEF Job
<1>4. Reads(j, sub) BY <1>1 DEF Reads
<1>5. task' = [task EXCEPT ![a] = j] BY DEF Start
<1> HIDE DEF j
<1>6. QED BY <1>3, <1>4, <1>5, TaskStep

LEMMA RequestTyped ==
  ASSUME Typed, NEW a \in Actor, NEW o \in Asked, Request(a, o)
  PROVE  Typed'
<1>1. o \in Op /\ o.op \notin {"pay", "sweep", "clear"} BY AskedAssumption
<1>2. requests' \in 0 .. MaxRequests
  BY SubscriptionAssumption DEF Request, Typed, TypeOK
<1>3. o.op # "provision" => sub # None BY DEF Request, Accepts
<1>4. CASE o.op \in {"change", "reactivate"}
  <2>1. Start(a, "checked", o) BY <1>4 DEF Request
  <2>2. QED BY <1>1, <1>2, <1>3, <1>4, <2>1, StartTyped DEF Request
<1>5. CASE o.op \notin {"change", "reactivate"}
  <2>1. Start(a, "read", o) BY <1>5 DEF Request
  <2>2. QED BY <1>1, <1>2, <1>3, <1>5, <2>1, StartTyped DEF Request
<1>6. QED BY <1>4, <1>5

LEMMA PayTyped ==
  ASSUME Typed, NEW a \in Actor, NEW t \in Txn, Pay(a, t)
  PROVE  Typed'
<1> DEFINE o == [op |-> "pay", txn |-> t]
<1>1. o \in Op /\ o.op = "pay" BY DEF Op
<1>2. Start(a, "checked", o) /\ sub # None BY DEF Pay
<1> HIDE DEF o
<1>3. QED BY <1>1, <1>2, StartTyped DEF Pay, Typed, TypeOK

LEMMA SweepTyped ==
  ASSUME Typed, NEW a \in Actor, Sweep(a)
  PROVE  Typed'
<1> DEFINE o == [op |-> "sweep"]
<1>1. o \in Op /\ o.op = "sweep" BY DEF Op
<1>2. Start(a, "checked", o) /\ sub # None BY DEF Sweep
<1> HIDE DEF o
<1>3. QED BY <1>1, <1>2, StartTyped DEF Sweep, Typed, TypeOK

\* An operation at its first check is under way.
LEMMA CheckedJob ==
  ASSUME Typed, NEW a \in Actor, task[a].pc \in {"checked", "read"}
  PROVE  task[a] # Idle /\ task[a] \in Job(now) /\ Reads(task[a], sub)
<1>1. task[a] \in {Idle} \cup Job(now) BY DEF Typed, TypeOK, Job
<1>2. task[a] # Idle BY DEF Idle
<1>3. QED BY <1>1, <1>2 DEF Typed

LEMMA RereadTyped ==
  ASSUME Typed, NEW a \in Actor, Reread(a)
  PROVE  Typed'
<1> DEFINE k == task[a]
           o == k.op
           late == o.op \in {"sweep", "pay"}
           withdraw == o.op = "change" /\ sub.plan = o.plan
           j == [pc |-> IF withdraw THEN "checked" ELSE "read",
                 op |-> IF withdraw THEN [op |-> "clear"] ELSE o,
                 at |-> IF late THEN k.at ELSE now, seen |-> sub, firm |-> k.firm \/ late]
<1>1. k.pc = "checked" /\ k \in Job(now) /\ Reads(k, sub) BY CheckedJob DEF Reread
<1>2. o \in Op /\ k.at \in 0 .. now /\ k.firm \in BOOLEAN BY <1>1 DEF Job
<1>3. o.op \in {"change", "reactivate", "pay", "sweep", "clear"} /\ sub # None
  BY <1>1 DEF Reads
<1>4. sub \in Sound /\ sub \in Row /\ now \in Nat
  BY <1>3, SubscriptionAssumption DEF Typed, TypeOK, Sound
<1>5. [op |-> "clear"] \in Op BY DEF Op
<1>6. j \in Job(now) BY <1>2, <1>4, <1>5 DEF Job
<1>7. Reads(j, sub) BY <1>3, <1>4 DEF Reads
<1>8. task' = [task EXCEPT ![a] = j] BY DEF Reread
<1> HIDE DEF j
<1>9. requests' \in 0 .. MaxRequests /\ UNCHANGED <<now, sub, order, balance, blind>>
  BY DEF Reread, Typed, TypeOK
<1>10. QED BY <1>6, <1>7, <1>8, <1>9, TaskStep
\* The clock a write is decided by.
LEMMA ClockIs ==
  ASSUME Typed, NEW a \in Actor, task[a].pc = "read", NEW at \in Clock(a)
  PROVE  at \in Nat /\ at <= now /\ at >= task[a].at
<1>1. task[a] \in Job(now) BY CheckedJob
<1>2. task[a].at \in 0 .. now /\ now \in Nat BY <1>1, SubscriptionAssumption DEF Job, Typed, TypeOK
<1>3. QED BY <1>2 DEF Clock

\* The row a write leaves.
LEMMA RowWritten ==
  ASSUME Typed, NEW a \in Actor, task[a].pc = "read", NEW at \in Clock(a),
         ~(Guarded(task[a].op) /\ task[a].seen = None)
  PROVE  /\ Over(Patch(task[a].op, task[a].seen, at), IF sub = None THEN Fresh ELSE sub) \in Sound
         /\ IsPatch(Patch(task[a].op, task[a].seen, at))
<1> DEFINE o == task[a].op
           s == task[a].seen
<1>1. task[a] \in Job(now) /\ Reads(task[a], sub) BY CheckedJob
<1>2. o \in Op /\ s \in Sound \cup {None} BY <1>1 DEF Job, Reads
<1>3. at \in Nat BY ClockIs
<1>4. IsPatch(Patch(o, s, at))
  <2>1. CASE s \in Sound BY <2>1, <1>2, <1>3, PatchLegal DEF Legal
  <2>2. CASE s \notin Sound
    <3>1. s = None /\ o.op = "provision" BY <2>2, <1>1, <1>2 DEF Reads
    <3>2. Patch(o, s, at) = Provisioned(at) BY <3>1 DEF Patch
    <3>3. QED BY <1>3, <3>2, ProvisionedPatch
  <2>3. QED BY <2>1, <2>2
<1>5. (IF sub = None THEN Fresh ELSE sub) \in Sound BY FreshSound DEF Typed
<1>6. QED BY <1>4, <1>5, OverSound

LEMMA GrantInt ==
  ASSUME NEW o \in Op, NEW row \in Sound, NEW at \in Nat
  PROVE  Grant(o, row, at) \in Nat
<1>1. row.end \in Nat BY DEF Sound, Row, Date
<1>2. o.op = "pay" => TermOf[o.txn] \in Nat BY OpFields, SubscriptionAssumption
<1>3. QED BY <1>1, <1>2, SubscriptionAssumption DEF Grant

LEMMA WrittenTyped ==
  ASSUME Typed, NEW a \in Actor, task[a].pc = "read", NEW at \in Nat, NEW row \in Sound,
         Written(a, row, at), UNCHANGED <<now, requests>>
  PROVE  Typed'
<1>1. task \in [Actor -> {Idle} \cup Job(now)] /\ task[a] \in Job(now)
  BY CheckedJob DEF Typed, TypeOK, Job
<1>2. task[a].op \in Op BY <1>1 DEF Job
<1>3. ASSUME NEW b \in Actor
      PROVE  task'[b] \in {Idle} \cup Job(now) /\ (task'[b] # Idle => Reads(task'[b], row))
  <2>1. CASE b = a \/ task[b] = Idle BY <2>1 DEF Written
  <2>2. CASE ~(b = a \/ task[b] = Idle)
    <3> DEFINE s == IF Guarded(task[b].op) THEN None ELSE task[b].seen
               k == [task[b] EXCEPT !.firm = FALSE, !.seen = s]
    <3>1. task[b] \in Job(now) /\ Reads(task[b], sub) BY <1>1, <2>2 DEF Typed
    <3>2. task'[b] = k BY <2>2 DEF Written
    <3>3. s \in Sound \cup {None} /\ s \in Row \cup {None} BY <3>1 DEF Reads, Sound
    <3>4. ~Guarded(task[b].op) => s = task[b].seen OBVIOUS
    <3> HIDE DEF s
    <3>5. k \in Job(now) /\ k.seen = s /\ k.op = task[b].op /\ k.pc = task[b].pc
      BY <3>1, <3>3 DEF Job
    <3> HIDE DEF k
    <3>6. Reads(k, row) BY <3>1, <3>3, <3>4, <3>5, NullAway DEF Reads
    <3>7. QED BY <3>2, <3>5, <3>6
  <2>3. QED BY <2>1, <2>2
<1>4. task' = [b \in Actor |-> task'[b]] BY DEF Written
<1>5. task' \in [Actor -> {Idle} \cup Job(now)] BY <1>3, <1>4
<1>6. sub' = row /\ row \in Row BY DEF Written, Sound
<1>7. order' \in [Txn -> {"none", "open", "cancelled", "captured", "applied"}]
  BY DEF Written, Typed, TypeOK
<1>8. balance' \in Int
  <2>1. balance' = balance + Grant(task[a].op, row, at) BY DEF Written
  <2>2. Grant(task[a].op, row, at) \in Nat BY <1>2, GrantInt
  <2>3. balance \in Int BY DEF Typed, TypeOK
  <2>4. QED BY <2>1, <2>2, <2>3
<1>9. blind' \in BOOLEAN BY DEF Written, Typed, TypeOK
<1>10. TypeOK' BY <1>5, <1>6, <1>7, <1>8, <1>9 DEF Typed, TypeOK, Job
<1>11. QED BY <1>3, <1>6, <1>10 DEF Typed

\* The two ways an operation's last step goes: it writes its patch, or it
\* ends with nothing written.
Decided(a, at) ==
  IF Guarded(task[a].op) /\ task[a].seen = None THEN Nothing
  ELSE Patch(task[a].op, task[a].seen, at)
Base == IF sub = None THEN Fresh ELSE sub

LEMMA CommitCases ==
  ASSUME NEW a \in Actor, Commit(a)
  PROVE  /\ task[a].pc = "read" /\ UNCHANGED <<now, requests>>
         /\ \/ task' = [task EXCEPT ![a] = Idle] /\ UNCHANGED <<sub, order, balance, blind>>
            \/ \E at \in Clock(a) :
                 /\ ~(Guarded(task[a].op) /\ task[a].seen = None)
                 /\ DOMAIN Patch(task[a].op, task[a].seen, at) # {}
                 /\ Written(a, Over(Patch(task[a].op, task[a].seen, at), Base), at)
<1>1. PICK at \in Clock(a) :
        IF DOMAIN Decided(a, at) # {} THEN Written(a, Over(Decided(a, at), Base), at)
        ELSE task' = [task EXCEPT ![a] = Idle] /\ UNCHANGED <<sub, order, balance, blind>>
  BY DEF Commit, Decided, Base
<1>2. CASE DOMAIN Decided(a, at) # {}
  <2>1. ~(Guarded(task[a].op) /\ task[a].seen = None) BY <1>2 DEF Decided, Nothing
  <2>2. Decided(a, at) = Patch(task[a].op, task[a].seen, at) BY <2>1 DEF Decided
  <2>3. QED BY <1>1, <1>2, <2>1, <2>2 DEF Commit
<1>3. CASE DOMAIN Decided(a, at) = {} BY <1>1, <1>3 DEF Commit
<1>4. QED BY <1>2, <1>3

LEMMA CommitTyped ==
  ASSUME Typed, NEW a \in Actor, Commit(a)
  PROVE  Typed'
<1>1. task[a].pc = "read" /\ UNCHANGED <<now, requests>> BY CommitCases
<1>2. CASE task' = [task EXCEPT ![a] = Idle] /\ UNCHANGED <<sub, order, balance, blind>>
  <2>1. task \in [Actor -> {Idle} \cup Job(now)] BY DEF Typed, TypeOK, Job
  <2>2. task' \in [Actor -> {Idle} \cup Job(now)] BY <1>2, <2>1
  <2>3. TypeOK' BY <1>1, <1>2, <2>2 DEF Typed, TypeOK, Job
  <2>4. ASSUME NEW b \in Actor, task'[b] # Idle PROVE Reads(task'[b], sub')
    BY <1>2, <2>1, <2>4 DEF Typed
  <2>5. sub' \in Sound \cup {None} BY <1>2 DEF Typed
  <2>6. QED BY <2>3, <2>4, <2>5 DEF Typed
<1>3. ASSUME NEW at \in Clock(a), ~(Guarded(task[a].op) /\ task[a].seen = None),
             Written(a, Over(Patch(task[a].op, task[a].seen, at), Base), at)
      PROVE  Typed'
  <2> DEFINE row == Over(Patch(task[a].op, task[a].seen, at), Base)
  <2>1. row \in Sound BY <1>1, <1>3, RowWritten DEF Base
  <2>2. at \in Nat BY <1>1, ClockIs
  <2>3. Written(a, row, at) BY <1>3
  <2> HIDE DEF row
  <2>4. QED BY <1>1, <2>1, <2>2, <2>3, WrittenTyped
<1>4. QED BY <1>2, <1>3, CommitCases

LEMMA RestTyped ==
  ASSUME Typed, (\E t \in Txn : Checkout(t) \/ Capture(t)) \/ Pass \/ UNCHANGED vars
  PROVE  Typed'
<1>1. task \in [Actor -> {Idle} \cup Job(now)] BY DEF Typed, TypeOK, Job
<1>2. ASSUME NEW t \in Txn, Checkout(t) \/ Capture(t) PROVE Typed'
  <2>1. order' \in [Txn -> {"none", "open", "cancelled", "captured", "applied"}]
    BY <1>2 DEF Checkout, Capture, Typed, TypeOK
  <2>2. UNCHANGED <<now, sub, task, requests, balance, blind>> BY <1>2 DEF Checkout, Capture
  <2>3. TypeOK' BY <2>1, <2>2 DEF Typed, TypeOK
  <2>4. QED BY <2>2, <2>3 DEF Typed
<1>3. CASE Pass
  <2>1. now' \in 0 .. MaxTime /\ now \in Nat /\ now' = now + 1 /\ balance' \in Int
    BY <1>3, SubscriptionAssumption DEF Pass, Typed, TypeOK
  <2>2. UNCHANGED <<sub, order, task, requests, blind>> BY <1>3 DEF Pass
  <2>3. ASSUME NEW j \in Job(now) PROVE j \in Job(now')
    BY <2>1 DEF Job
  <2>4. task' \in [Actor -> {Idle} \cup Job(now')] BY <1>1, <2>2, <2>3
  <2>5. TypeOK' BY <2>1, <2>2, <2>4 DEF Typed, TypeOK, Job
  <2>6. QED BY <2>2, <2>5 DEF Typed
<1>4. CASE UNCHANGED vars BY <1>4 DEF vars, Typed, TypeOK
<1>5. QED BY <1>2, <1>3, <1>4

LEMMA NextTyped == Typed /\ [Next]_vars => Typed'
<1> SUFFICES ASSUME Typed, [Next]_vars PROVE Typed' OBVIOUS
<1>1. ASSUME NEW a \in Actor, Work(a) PROVE Typed'
  BY <1>1, RequestTyped, PayTyped, SweepTyped, RereadTyped, CommitTyped DEF Work
<1>2. CASE (\E t \in Txn : Checkout(t) \/ Capture(t)) \/ Pass \/ UNCHANGED vars
  BY <1>2, RestTyped
<1>3. QED BY <1>1, <1>2 DEF Next

THEOREM TypedAlways == Spec => []Typed
BY InitTyped, NextTyped, PTL DEF Spec

\* The row, the transactions, the operations under way and the counters stay
\* within their types (the subscription schema of subscription.service.js).
THEOREM TypeInvariant == Spec => []TypeOK
<1>1. Typed => TypeOK BY DEF Typed
<1>2. QED BY <1>1, TypedAlways, PTL
----------------------------------------------------------------------------
(* Aware is an invariant.                                                  *)

LEMMA InitAware == Init => Aware
BY DEF Init, Aware

LEMMA TaskAware ==
  ASSUME Typed, Aware, NEW a \in Actor, NEW j, j.at + 1 >= now, Knows(j, sub),
         task' = [task EXCEPT ![a] = j], UNCHANGED <<now, sub>>
  PROVE  Aware'
<1>1. task \in [Actor -> {Idle} \cup Job(now)] BY DEF Typed, TypeOK, Job
<1>2. QED BY <1>1 DEF Aware

LEMMA StartAware ==
  ASSUME Typed, Aware, NEW a \in Actor, NEW o \in Op, NEW pc \in {"checked", "read"}, Start(a, pc, o),
         o.op = "provision" => sub = None,
         o.op = "reactivate" => sub.state \in {"canceled", "active"},
         o.op = "change" => pc = "checked" /\ o.plan \in {Free, sub.plan}, UNCHANGED <<now, sub>>
  PROVE  Aware'
<1> DEFINE j == [pc |-> pc, op |-> o, at |-> now, seen |-> IF pc = "read" THEN sub ELSE None, firm |-> TRUE]
<1>1. now \in Nat BY SubscriptionAssumption DEF Typed, TypeOK
<1>2. Knows(j, sub) BY DEF Knows
<1>3. task' = [task EXCEPT ![a] = j] BY DEF Start
<1>4. j.at + 1 >= now BY <1>1
<1> HIDE DEF j
<1>5. QED BY <1>2, <1>3, <1>4, TaskAware

LEMMA BeginAware ==
  ASSUME Typed, Aware, NEW a \in Actor,
         (\E o \in Asked : Request(a, o)) \/ (\E t \in Txn : Pay(a, t)) \/ Sweep(a)
  PROVE  Aware'
<1>1. ASSUME NEW o \in Asked, Request(a, o) PROVE Aware'
  <2>1. o \in Op BY AskedAssumption
  <2>2. /\ o.op = "provision" => sub = None
        /\ o.op = "reactivate" => sub.state \in {"canceled", "active"}
        /\ o.op = "change" => o.plan \in {Free, sub.plan}
    BY <1>1 DEF Request, Accepts
  <2>3. CASE o.op \in {"change", "reactivate"}
    <3>1. Start(a, "checked", o) BY <1>1, <2>3 DEF Request
    <3>2. QED BY <1>1, <2>1, <2>2, <3>1, StartAware DEF Request
  <2>4. CASE o.op \notin {"change", "reactivate"}
    <3>1. Start(a, "read", o) BY <1>1, <2>4 DEF Request
    <3>2. QED BY <1>1, <2>1, <2>2, <2>4, <3>1, StartAware DEF Request
  <2>5. QED BY <2>3, <2>4
<1>2. ASSUME NEW t \in Txn, Pay(a, t) PROVE Aware'
  <2> DEFINE o == [op |-> "pay", txn |-> t]
  <2>1. o \in Op /\ o.op = "pay" BY DEF Op
  <2>2. Start(a, "checked", o) BY <1>2 DEF Pay
  <2> HIDE DEF o
  <2>3. QED BY <1>2, <2>1, <2>2, StartAware DEF Pay
<1>3. ASSUME Sweep(a) PROVE Aware'
  <2> DEFINE o == [op |-> "sweep"]
  <2>1. o \in Op /\ o.op = "sweep" BY DEF Op
  <2>2. Start(a, "checked", o) BY <1>3 DEF Sweep
  <2> HIDE DEF o
  <2>3. QED BY <1>3, <2>1, <2>2, StartAware DEF Sweep
<1>4. QED BY <1>1, <1>2, <1>3

LEMMA RereadAware ==
  ASSUME Typed, Aware, NEW a \in Actor, Reread(a)
  PROVE  Aware'
<1> DEFINE k == task[a]
           o == k.op
           late == o.op \in {"sweep", "pay"}
           withdraw == o.op = "change" /\ sub.plan = o.plan
           j == [pc |-> IF withdraw THEN "checked" ELSE "read",
                 op |-> IF withdraw THEN [op |-> "clear"] ELSE o,
                 at |-> IF late THEN k.at ELSE now, seen |-> sub, firm |-> k.firm \/ late]
<1>1. k # Idle /\ k.pc = "checked" /\ k \in Job(now) /\ Reads(k, sub) BY CheckedJob DEF Reread
<1>2. k.at + 1 >= now /\ Knows(k, sub) BY <1>1 DEF Aware
<1>3. now \in Nat BY SubscriptionAssumption DEF Typed, TypeOK
<1>4. j.at + 1 >= now BY <1>2, <1>3
<1>5. Knows(j, sub)
  <2>1. CASE withdraw BY <2>1 DEF Knows
  <2>2. CASE ~withdraw
    <3>1. j.op = o /\ j.seen = sub /\ j.pc = "read" /\ j.firm = (k.firm \/ late) BY <2>2
    <3> HIDE DEF j
    <3>2. late => o.op \notin {"provision", "reactivate", "change"} OBVIOUS
    <3>3. QED BY <1>2, <2>2, <3>1, <3>2 DEF Knows
  <2>3. QED BY <2>1, <2>2
<1>6. task' = [task EXCEPT ![a] = j] /\ UNCHANGED <<now, sub>> BY DEF Reread
<1> HIDE DEF j
<1>7. QED BY <1>4, <1>5, <1>6, TaskAware

LEMMA CommitAware ==
  ASSUME Typed, Aware, NEW a \in Actor, Commit(a)
  PROVE  Aware'
<1>1. task \in [Actor -> {Idle} \cup Job(now)] BY DEF Typed, TypeOK, Job
<1>2. UNCHANGED now BY CommitCases
<1>3. CASE task' = [task EXCEPT ![a] = Idle] /\ UNCHANGED <<sub, order, balance, blind>>
  BY <1>1, <1>2, <1>3 DEF Aware
<1>4. ASSUME NEW row, NEW at, Written(a, row, at) PROVE Aware'
  <2>1. ASSUME NEW b \in Actor, task'[b] # Idle PROVE task'[b].at + 1 >= now /\ Knows(task'[b], sub')
    <3>1. b # a /\ task[b] # Idle BY <1>4, <2>1 DEF Written
    <3>2. task'[b] = [task[b] EXCEPT !.firm = FALSE,
                                     !.seen = IF Guarded(task[b].op) THEN None ELSE task[b].seen]
      BY <1>4, <3>1 DEF Written
    <3>3. task[b] \in Job(now) BY <1>1, <3>1
    <3>4. /\ task'[b].firm = FALSE /\ task'[b].at = task[b].at /\ task'[b].op = task[b].op
          /\ Guarded(task[b].op) => task'[b].seen = None
      BY <3>2, <3>3 DEF Job
    <3>5. task[b].at + 1 >= now BY <3>1 DEF Aware
    <3>6. Knows(task'[b], sub') BY <3>4 DEF Knows
    <3>7. QED BY <3>4, <3>5, <3>6
  <2>2. QED BY <1>2, <2>1 DEF Aware
<1>5. QED BY <1>3, <1>4, CommitCases

LEMMA RestAware ==
  ASSUME Typed, Aware, (\E t \in Txn : Checkout(t) \/ Capture(t)) \/ Pass \/ UNCHANGED vars
  PROVE  Aware'
<1>1. CASE (\E t \in Txn : Checkout(t) \/ Capture(t)) \/ UNCHANGED vars
  <2>1. UNCHANGED <<now, sub, task>> BY <1>1 DEF Checkout, Capture, vars
  <2>2. QED BY <2>1 DEF Aware
<1>2. CASE Pass
  <2>1. now \in Nat /\ now' = now + 1 /\ UNCHANGED <<sub, task>>
    BY <1>2, SubscriptionAssumption DEF Pass, Typed, TypeOK
  <2>2. \A a \in Actor : task[a] # Idle => task[a].at = now BY <1>2 DEF Pass
  <2>3. ASSUME NEW a \in Actor, task'[a] # Idle PROVE task'[a].at + 1 >= now' /\ Knows(task'[a], sub')
    BY <2>1, <2>2, <2>3 DEF Aware
  <2>4. QED BY <2>3 DEF Aware
<1>3. QED BY <1>1, <1>2

LEMMA NextAware == Typed /\ Aware /\ [Next]_vars => Aware'
<1> SUFFICES ASSUME Typed, Aware, [Next]_vars PROVE Aware' OBVIOUS
<1>1. ASSUME NEW a \in Actor, Work(a) PROVE Aware'
  BY <1>1, BeginAware, RereadAware, CommitAware DEF Work
<1>2. CASE (\E t \in Txn : Checkout(t) \/ Capture(t)) \/ Pass \/ UNCHANGED vars
  BY <1>2, RestAware
<1>3. QED BY <1>1, <1>2 DEF Next

THEOREM AwareAlways == Spec => [](Typed /\ Aware)
<1>1. Init => Typed /\ Aware BY InitTyped, InitAware
<1>2. Typed /\ Aware /\ [Next]_vars => (Typed /\ Aware)' BY NextTyped, NextAware
<1>3. QED BY <1>1, <1>2, PTL DEF Spec
----------------------------------------------------------------------------
(* What one step may do to the row.                                        *)

\* A write decided on the current row patches the row it read.
LEMMA FirmWrite ==
  ASSUME Typed, Aware, NEW a \in Actor, task[a].pc = "read", task[a].firm, NEW at \in Clock(a),
         ~(Guarded(task[a].op) /\ task[a].seen = None), sub # None
  PROVE  /\ task[a].op \in Op /\ task[a].seen = sub /\ sub \in Sound /\ at \in Nat
         /\ task[a].op.op # "provision"
         /\ task[a].op.op = "reactivate" => sub.state \in {"canceled", "active"}
         /\ task[a].op.op = "change" => task[a].op.plan = Free /\ sub.plan # Free
<1>1. task[a] # Idle /\ task[a] \in Job(now) /\ Reads(task[a], sub) BY CheckedJob
<1>2. Knows(task[a], sub) BY <1>1 DEF Aware
<1>3. task[a].op.op # "provision" BY <1>2 DEF Knows
<1>4. task[a].seen # None BY <1>1, <1>3 DEF Reads
<1>5. task[a].seen = sub BY <1>2, <1>4 DEF Knows
<1>6. sub \in Sound BY DEF Typed
<1>7. at \in Nat BY ClockIs
<1>8. /\ task[a].op.op = "reactivate" => sub.state \in {"canceled", "active"}
      /\ task[a].op.op = "change" => task[a].op.plan = Free /\ sub.plan # Free
  BY <1>2 DEF Knows
<1>9. QED BY <1>1, <1>3, <1>5, <1>6, <1>7, <1>8 DEF Job

\* The row changes only by an operation's write.
LEMMA Writer ==
  ASSUME Typed, Aware, [Next]_vars, sub # None, sub' # sub, ~blind'
  PROVE  \E a \in Actor : \E at \in Nat :
           /\ task[a] # Idle /\ task'[a] = Idle /\ task[a].op \in Op
           /\ sub \in Sound /\ sub' = Over(Patch(task[a].op, sub, at), sub)
           /\ task[a].op.op = "reactivate" => sub.state \in {"canceled", "active"}
<1>1. PICK a \in Actor : Commit(a)
  BY DEF Next, Work, Request, Pay, Sweep, Reread, Checkout, Capture, Pass, vars
<1>2. PICK at \in Clock(a) :
        /\ ~(Guarded(task[a].op) /\ task[a].seen = None)
        /\ Written(a, Over(Patch(task[a].op, task[a].seen, at), Base), at)
  BY <1>1, CommitCases
<1>3. task[a].pc = "read" BY <1>1, CommitCases
<1>4. task[a].firm BY <1>2, <1>3, CheckedJob DEF Written, Job
<1>5. /\ task[a].op \in Op /\ task[a].seen = sub /\ sub \in Sound /\ at \in Nat
      /\ task[a].op.op = "reactivate" => sub.state \in {"canceled", "active"}
  BY <1>2, <1>3, <1>4, FirmWrite
<1>6. sub' = Over(Patch(task[a].op, sub, at), sub) /\ task'[a] = Idle
  BY <1>2, <1>5 DEF Written, Base
<1>7. task[a] # Idle BY <1>3, CheckedJob
<1>8. QED BY <1>5, <1>6, <1>7

LEMMA GraphStep ==
  ASSUME Typed, Aware, [Next]_vars, sub # None, sub' # None, ~blind'
  PROVE  Allowed(sub.state, sub'.state)
<1>1. CASE sub' = sub BY <1>1 DEF Allowed
<1>2. CASE sub' # sub
  <2>1. PICK a \in Actor : \E at \in Nat :
          task[a].op \in Op /\ sub \in Sound /\ sub' = Over(Patch(task[a].op, sub, at), sub)
    BY <1>2, Writer
  <2>2. PICK at \in Nat : sub' = Over(Patch(task[a].op, sub, at), sub) BY <2>1
  <2>3. Legal(Patch(task[a].op, sub, at), sub) BY <2>1, PatchLegal
  <2>4. sub \in Row BY <2>1 DEF Sound
  <2> DEFINE p == Patch(task[a].op, sub, at)
  <2>5. sub'.state = IF "state" \in DOMAIN p THEN p.state ELSE sub.state BY <2>2, <2>4, OverFields
  <2> HIDE DEF p
  <2>6. "state" \in DOMAIN p => Allowed(sub.state, p.state) BY <2>3 DEF Legal, p
  <2>7. QED BY <2>5, <2>6 DEF Allowed
<1>3. QED BY <1>1, <1>2

LEMMA HoldStep ==
  ASSUME Typed, Aware, [Next]_vars, Held(sub), ~Held(sub'), ~blind'
  PROVE  \E a \in Actor : task[a] # Idle /\ task'[a] = Idle /\ task[a].op.op = "setState"
<1>1. sub # None /\ sub.state = "restricted" /\ sub.hold /\ sub' # sub BY DEF Held
<1>2. PICK a \in Actor : \E at \in Nat :
        /\ task[a] # Idle /\ task'[a] = Idle /\ task[a].op \in Op
        /\ sub \in Sound /\ sub' = Over(Patch(task[a].op, sub, at), sub)
        /\ task[a].op.op = "reactivate" => sub.state \in {"canceled", "active"}
  BY <1>1, Writer
<1>3. PICK at \in Nat : sub' = Over(Patch(task[a].op, sub, at), sub) BY <1>2
<1>4. SUFFICES ASSUME task[a].op.op # "setState" PROVE FALSE BY <1>2
<1>5. Lawful(Patch(task[a].op, sub, at), sub) BY <1>1, <1>2, <1>4, PatchLegal
<1>6. sub \in Row BY <1>2 DEF Sound
<1> DEFINE p == Patch(task[a].op, sub, at)
<1>7. "state" \notin DOMAIN p /\ "hold" \notin DOMAIN p BY <1>5 DEF Lawful
<1>8. sub'.state = sub.state /\ sub'.hold = sub.hold BY <1>3, <1>6, <1>7, OverFields
<1>9. sub' # None
  <2>1. Over(p, sub) \in Sound BY <1>2, <1>5, OverSound DEF Lawful, Legal
  <2>2. QED BY <1>3, <2>1, NullAway
<1>10. QED BY <1>1, <1>8, <1>9 DEF Held

\* An administrative hold ends only by an administrator's setState, unless a
\* writer that compares nothing wrote on a row that had moved
\* (applyPaidTerm, scheduleChange and advanceLifecycle all look at the hold).
THEOREM HoldsStand == Spec => HoldStands
<1> DEFINE A == Held(sub) /\ ~Held(sub') =>
                  \/ blind'
                  \/ \E a \in Actor : task[a] # Idle /\ task'[a] = Idle /\ task[a].op.op = "setState"
<1>1. Typed /\ Aware /\ [Next]_vars => [A]_vars BY HoldStep
<1> HIDE DEF A
<1>2. Spec => [][A]_vars BY <1>1, AwareAlways, PTL DEF Spec
<1>3. QED BY <1>2 DEF HoldStands, A

\* Until a write was decided on a row that had moved (blind), stored states
\* move only along assertTransition's graph, also where the lifecycle job and
\* captured payments write without asking it.
THEOREM GraphKept == Spec => StateGraph
<1> DEFINE A == sub # None /\ sub' # None /\ ~blind' => Allowed(sub.state, sub'.state)
<1>1. Typed /\ Aware /\ [Next]_vars => [A]_vars BY GraphStep
<1> HIDE DEF A
<1>2. Spec => [][A]_vars BY <1>1, AwareAlways, PTL DEF Spec
<1>3. QED BY <1>2 DEF StateGraph, A
----------------------------------------------------------------------------
(* A row the job has not looked at for a while.                            *)

\* computeAccess returns a state and a plan.
LEMMA AccessPair ==
  ASSUME NEW s \in Sound, NEW at \in Nat, NEW state, NEW plan
  PROVE  Access(s, at) = [state |-> state, plan |-> plan]
           <=> Access(s, at).state = state /\ Access(s, at).plan = plan
<1>1. Access(s, at) = [state |-> Access(s, at).state, plan |-> Access(s, at).plan]
  <2>1. s.state \in SUBSCRIPTION_STATES BY DEF Sound, Row
  <2>2. CASE s.plan = Free BY <2>2 DEF Access
  <2>3. CASE s.plan # Free /\ s.state \in {"restricted", "expired"} BY <2>3 DEF Access
  <2>4. CASE s.plan # Free /\ s.state = "trialing" BY <2>4 DEF Access
  <2>5. CASE s.plan # Free /\ s.state = "canceled" BY <2>5 DEF Access
  <2>6. CASE s.plan # Free /\ s.state \in {"active", "past_due"} BY <2>6 DEF Access
  <2>7. QED BY <2>1, <2>2, <2>3, <2>4, <2>5, <2>6 DEF SUBSCRIPTION_STATES
<1>2. QED BY <1>1

\* A row's access lags its state and plan in one of five ways, and then one
\* advance writes what the access says.
LEMMA LagStep ==
  ASSUME NEW s \in Sound, NEW at \in Nat, s.plan # Free,
         Access(s, at).state # s.state \/ Access(s, at).plan # s.plan
  PROVE  /\ LifecycleDue(s, at)
         /\ Access(Over(Advanced(s, at), s), at).state = Over(Advanced(s, at), s).state
         /\ Access(Over(Advanced(s, at), s), at).plan = Over(Advanced(s, at), s).plan
<1> DEFINE p == Advanced(s, at)
           n == Over(p, s)
           onFree == [plan |-> Free, state |-> "active", end |-> at + Window, change |-> None]
<1>0. /\ s \in Row /\ s.state \in SUBSCRIPTION_STATES /\ s.end \in Nat
      /\ s.trial \in Nat \cup {None} /\ s.grace \in Nat \cup {None} /\ s.change \in Change \cup {None}
  BY DEF Sound, Row, Date
<1>1. n \in Sound BY AdvancedLawful, OverSound DEF Lawful, Legal
<1>2. /\ n.plan = IF "plan" \in DOMAIN p THEN p.plan ELSE s.plan
      /\ n.state = IF "state" \in DOMAIN p THEN p.state ELSE s.state
      /\ n.end = IF "end" \in DOMAIN p THEN p.end ELSE s.end
      /\ n.grace = IF "grace" \in DOMAIN p THEN p.grace ELSE s.grace
      /\ n.hold = IF "hold" \in DOMAIN p THEN p.hold ELSE s.hold
  BY <1>0, OverFields
<1> HIDE DEF n, p
<1>3. CASE s.state \in {"restricted", "expired"} BY <1>3, AccessOf
<1>4. CASE s.state = "trialing"
  <2>1. Access(s, at).plan = Free /\ at >= (IF s.trial # None THEN s.trial ELSE s.end)
    BY <1>0, <1>4, AccessOf
  <2>2. p = onFree BY <1>4, <2>1 DEF Advanced, p
  <2>3. n.plan = Free /\ n.state = "active" BY <1>2, <2>2
  <2>4. Access(n, at).plan = Free /\ Access(n, at).state = "active" BY <1>1, <2>3, AccessOf
  <2>5. LifecycleDue(s, at) BY <1>0, <1>4, <2>1 DEF LifecycleDue
  <2>6. QED BY <2>3, <2>4, <2>5 DEF n, p
<1>5. CASE s.state = "canceled"
  <2>1. at >= s.end /\ Access(s, at).state = "expired" BY <1>0, <1>5, AccessOf
  <2>2. p = [state |-> "expired"] BY <1>5, <2>1 DEF Advanced, p, Allowed, Table
  <2>3. n.plan = s.plan /\ n.state = "expired" BY <1>2, <2>2
  <2>4. Access(n, at).plan = s.plan /\ Access(n, at).state = "expired" BY <1>1, <2>3, AccessOf
  <2>5. LifecycleDue(s, at) BY <1>0, <1>5, <2>1 DEF LifecycleDue
  <2>6. QED BY <2>3, <2>4, <2>5 DEF n, p
<1>6. CASE s.state = "active" /\ Due(s, at)
  <2>1. at >= s.end BY <1>0, <1>6, AccessOf
  <2>2. LifecycleDue(s, at) BY <1>6, <2>1 DEF LifecycleDue
  <2> DEFINE e == IF s.change.plan = Free THEN at + Window ELSE s.change.until
  <2>3. p = Over([plan |-> s.change.plan, grace |-> None, end |-> e], onFree)
    BY <1>6, <2>1 DEF Advanced, p
  <2>4. p.plan = s.change.plan /\ p.state = "active" /\ p.end = e /\ {"plan", "state", "end"} \subseteq DOMAIN p
    BY <2>3 DEF Over
  <2>5. n.plan = s.change.plan /\ n.state = "active" /\ n.end = e BY <1>2, <2>4
  <2>6. n.plan # Free => at < n.end BY <1>6, <2>5 DEF Due
  <2>7. Access(n, at).plan = n.plan /\ Access(n, at).state = "active" BY <1>1, <2>5, <2>6, AccessOf
  <2>8. QED BY <2>2, <2>5, <2>7 DEF n, p
<1>7. CASE s.state = "active" /\ ~Due(s, at)
  <2>1. at >= s.end BY <1>0, <1>7, AccessOf
  <2>2. LifecycleDue(s, at) BY <1>7, <2>1 DEF LifecycleDue
  <2>3. CASE at < s.end + Grace
    <3>1. Access(s, at).state = "past_due" BY <1>7, <2>1, <2>3, AccessOf
    <3>2. GraceEnd(s) = s.end + Grace BY <1>7 DEF GraceEnd
    <3>3. p = [state |-> "past_due", grace |-> s.end + Grace]
      BY <1>7, <3>1, <3>2 DEF Advanced, p, Allowed, Table
    <3>4. n.plan = s.plan /\ n.state = "past_due" /\ n.grace = s.end + Grace BY <1>2, <3>3
    <3>5. Access(n, at).plan = s.plan /\ Access(n, at).state = "past_due" BY <1>1, <2>3, <3>4, AccessOf
    <3>6. QED BY <2>2, <3>4, <3>5 DEF n, p
  <2>4. CASE ~(at < s.end + Grace)
    <3>1. Access(s, at).state = "restricted" BY <1>7, <2>1, <2>4, AccessOf
    <3>2. p = [state |-> "restricted", hold |-> FALSE]
      BY <1>7, <3>1 DEF Advanced, p, Allowed, Table
    <3>3. n.plan = s.plan /\ n.state = "restricted" BY <1>2, <3>2
    <3>4. Access(n, at).plan = s.plan /\ Access(n, at).state = "restricted" BY <1>1, <3>3, AccessOf
    <3>5. QED BY <2>2, <3>3, <3>4 DEF n, p
  <2>5. QED BY <2>3, <2>4
<1>8. CASE s.state = "past_due"
  <2>1. s.grace # None BY <1>8 DEF Sound
  <2>2. at >= s.grace /\ Access(s, at).state = "restricted" BY <1>0, <1>8, <2>1, AccessOf
  <2>3. p = [state |-> "restricted", hold |-> FALSE]
    BY <1>8, <2>2 DEF Advanced, p, Allowed, Table
  <2>4. n.plan = s.plan /\ n.state = "restricted" BY <1>2, <2>3
  <2>5. Access(n, at).plan = s.plan /\ Access(n, at).state = "restricted" BY <1>1, <2>4, AccessOf
  <2>6. LifecycleDue(s, at) BY <1>8, <2>1, <2>2 DEF LifecycleDue
  <2>7. QED BY <2>4, <2>5, <2>6 DEF n, p
<1>9. QED BY <1>0, <1>3, <1>4, <1>5, <1>6, <1>7, <1>8 DEF SUBSCRIPTION_STATES

LEMMA LagHolds == Typed => LagIsSwept
<1> SUFFICES ASSUME Typed, sub # None, sub.plan # Free,
                    Access(sub, now) # [state |-> sub.state, plan |-> sub.plan]
             PROVE  LET next == Over(Advanced(sub, now), sub)
                    IN  LifecycleDue(sub, now) /\ Access(next, now) = [state |-> next.state, plan |-> next.plan]
  BY DEF LagIsSwept
<1> DEFINE n == Over(Advanced(sub, now), sub)
<1>1. sub \in Sound /\ now \in Nat BY SubscriptionAssumption DEF Typed, TypeOK
<1>2. Access(sub, now).state # sub.state \/ Access(sub, now).plan # sub.plan BY <1>1, AccessPair
<1>3. LifecycleDue(sub, now) /\ Access(n, now).state = n.state /\ Access(n, now).plan = n.plan
  BY <1>1, <1>2, LagStep
<1>4. n \in Sound BY <1>1, AdvancedLawful, OverSound DEF Lawful, Legal
<1> HIDE DEF n
<1>5. Access(n, now) = [state |-> n.state, plan |-> n.plan] BY <1>1, <1>3, <1>4, AccessPair
<1>6. QED BY <1>3, <1>5 DEF n

\* Whenever the stored state or plan of a paid subscription lags what
\* computeAccess enforces, listLifecycleDue lists the row and one
\* advanceLifecycle brings it in line.
THEOREM LagsAreSwept == Spec => []LagIsSwept
BY LagHolds, TypedAlways, PTL
----------------------------------------------------------------------------
(* The budget of paid access.                                              *)

LEMMA OwedNat ==
  ASSUME NEW s \in Sound, NEW n \in Nat
  PROVE  /\ Bought(s, n) \in Nat /\ Tried(s, n) \in Nat /\ Term(s, n) \in Nat /\ Queue(s, n) \in Nat
         /\ Bought(s, n) <= Term(s, n) /\ Tried(s, n) <= Term(s, n)
         /\ Owed(s, n) = Term(s, n) + Queue(s, n)
<1>1. /\ s.end \in Nat /\ s.trial \in Nat \cup {None} /\ s.change \in Change \cup {None}
  BY DEF Sound, Row, Date
<1>2. Bought(s, n) \in Nat BY <1>1 DEF Bought, Ahead
<1>3. Tried(s, n) \in Nat BY <1>1 DEF Tried, Ahead
<1>4. Term(s, n) \in Nat /\ Bought(s, n) <= Term(s, n) /\ Tried(s, n) <= Term(s, n)
  BY <1>2, <1>3 DEF Term, Later
<1>5. s.change # None /\ s.change.until # None => s.change.until \in Nat
  BY <1>1 DEF Change, Date
<1>6. Queue(s, n) \in Nat BY <1>1, <1>5 DEF Queue, Ahead, Later
<1>7. QED BY <1>2, <1>3, <1>4, <1>6, NullAway DEF Owed

LEMMA OwedIn == ASSUME NEW s \in Sound, NEW n \in Nat PROVE Owed(s, n) \in Nat
<1>1. Term(s, n) \in Nat /\ Queue(s, n) \in Nat /\ Owed(s, n) = Term(s, n) + Queue(s, n) BY OwedNat
<1>2. QED BY <1>1

\* The parts that a write leaves of the running term and the trial.
LEMMA TermLe ==
  ASSUME NEW s \in Sound, NEW r \in Sound, NEW n \in Nat, NEW g \in Nat,
         r.state = "trialing" => s.state = "trialing" /\ r.trial = s.trial,
         Bought(r, n) <= Term(s, n) + g
  PROVE  Term(r, n) <= Term(s, n) + g
<1>1. Tried(r, n) <= Tried(s, n)
  <2>1. Tried(r, n) \in {0, Tried(s, n)} BY DEF Tried
  <2>2. Tried(s, n) \in Nat BY OwedNat
  <2>3. QED BY <2>1, <2>2
<1>2. QED BY <1>1, OwedNat DEF Term, Later

\* A write that leaves no change scheduled.
LEMMA UnscheduledLe ==
  ASSUME NEW s \in Sound, NEW r \in Sound, NEW n \in Nat, NEW g \in Nat,
         r.state = "trialing" => s.state = "trialing" /\ r.trial = s.trial,
         Bought(r, n) <= Term(s, n) + g, r.change = None
  PROVE  Ordered(r) /\ Owed(r, n) <= Owed(s, n) + g
<1>1. Term(r, n) <= Term(s, n) + g BY TermLe
<1>2. Queue(r, n) = 0 BY DEF Queue
<1>3. Owed(r, n) = Term(r, n) + Queue(r, n) /\ Owed(s, n) = Term(s, n) + Queue(s, n)
      /\ Term(r, n) \in Nat /\ Term(s, n) \in Nat /\ Queue(s, n) \in Nat
  BY OwedNat
<1>4. QED BY <1>1, <1>2, <1>3 DEF Ordered

\* A write that leaves the plan and the scheduled change, and no earlier end.
LEMMA KeptLe ==
  ASSUME NEW s \in Sound, NEW r \in Sound, NEW n \in Nat, NEW g \in Nat, Ordered(s),
         r.state = "trialing" => s.state = "trialing" /\ r.trial = s.trial,
         Bought(r, n) <= Term(s, n) + g, r.change = s.change, r.plan = s.plan, r.end >= s.end
  PROVE  Ordered(r) /\ Owed(r, n) <= Owed(s, n) + g
<1>1. Term(r, n) <= Term(s, n) + g BY TermLe
<1>2. /\ s.end \in Nat /\ r.end \in Nat /\ s.change \in Change \cup {None}
  BY DEF Sound, Row, Date
<1>3. s.change # None => s.change.at \in Nat BY <1>2 DEF Change, Date
<1>4. s.change # None /\ s.change.until # None => s.change.until \in Nat BY <1>2 DEF Change, Date
<1>5. Ordered(r) BY <1>2, <1>3 DEF Ordered
<1>6. Queue(r, n) <= Queue(s, n)
  <2> DEFINE ls == Later(s.end, IF s.state = "trialing" THEN 0 ELSE n)
             lr == Later(r.end, IF r.state = "trialing" THEN 0 ELSE n)
  <2>1. ls \in Nat /\ lr \in Nat /\ ls <= lr BY <1>2 DEF Later
  <2> HIDE DEF ls, lr
  <2>2. Queue(s, n) = IF s.change = None \/ s.change.plan = Free \/ s.change.until = None THEN 0
                      ELSE Ahead(s.change.until, ls)
    BY DEF Queue, ls
  <2>3. Queue(r, n) = IF s.change = None \/ s.change.plan = Free \/ s.change.until = None THEN 0
                      ELSE Ahead(s.change.until, lr)
    BY DEF Queue, lr
  <2>4. QED BY <1>4, <2>1, <2>2, <2>3 DEF Ahead
<1>7. Owed(r, n) = Term(r, n) + Queue(r, n) /\ Owed(s, n) = Term(s, n) + Queue(s, n)
      /\ Term(r, n) \in Nat /\ Term(s, n) \in Nat /\ Queue(s, n) \in Nat /\ Queue(r, n) \in Nat
  BY OwedNat
<1>8. QED BY <1>1, <1>5, <1>6, <1>7

\* A row and its fields.
LEMMA RowFields ==
  ASSUME NEW s \in Sound
  PROVE  /\ s \in Row /\ s.plan \in Plan /\ s.end \in Nat /\ s.state \in SUBSCRIPTION_STATES
         /\ s.trial \in Nat \cup {None} /\ s.grace \in Nat \cup {None}
         /\ s.change \in Change \cup {None}
BY DEF Sound, Row, Date
LEMMA ChangeFields ==
  ASSUME NEW s \in Sound, s.change # None
  PROVE  /\ s.change \in Change /\ s.change.plan \in Plan /\ s.change.at \in Nat
         /\ s.change.until \in Nat \cup {None} /\ (s.change.paid => s.change.until \in Nat)
<1>1. s.change \in Change BY DEF Sound, Row
<1>2. QED BY <1>1 DEF Sound, Change, Date, QueuedPayment

\* A tick passes: what a row stands for never grows, and a tick of paid
\* access is taken from it.
LEMMA TickLe ==
  ASSUME NEW s \in Sound, NEW n \in Nat, Ordered(s)
  PROVE  /\ Owed(s, n + 1) <= Owed(s, n)
         /\ Access(s, n).plan # Free /\ Access(s, n).state \in {"active", "trialing", "canceled"}
              => Owed(s, n + 1) + 1 <= Owed(s, n)
<1>0. n + 1 \in Nat OBVIOUS
<1>1. /\ Owed(s, n) = Term(s, n) + Queue(s, n) /\ Owed(s, n + 1) = Term(s, n + 1) + Queue(s, n + 1)
      /\ Term(s, n) \in Nat /\ Queue(s, n) \in Nat /\ Term(s, n + 1) \in Nat /\ Queue(s, n + 1) \in Nat
      /\ Bought(s, n) \in Nat /\ Tried(s, n) \in Nat /\ Bought(s, n + 1) \in Nat /\ Tried(s, n + 1) \in Nat
  BY <1>0, OwedNat
<1>2. Bought(s, n + 1) <= Bought(s, n) /\ (Bought(s, n) > 0 => Bought(s, n + 1) < Bought(s, n))
  BY RowFields DEF Bought, Ahead
<1>3. Tried(s, n + 1) <= Tried(s, n) /\ (Tried(s, n) > 0 => Tried(s, n + 1) < Tried(s, n))
  BY RowFields DEF Tried, Ahead
<1>4. Term(s, n + 1) <= Term(s, n) /\ (Term(s, n) > 0 => Term(s, n + 1) < Term(s, n))
  BY <1>1, <1>2, <1>3 DEF Term, Later
<1>5. Queue(s, n + 1) <= Queue(s, n)
  <2>1. CASE s.change = None BY <2>1 DEF Queue
  <2>2. CASE s.change # None
    <3>1. s.end \in Nat /\ s.change.until \in Nat \cup {None} BY <2>2, RowFields, ChangeFields
    <3>2. QED BY <3>1 DEF Queue, Ahead, Later
  <2>3. QED BY <2>1, <2>2
<1>6. ASSUME Access(s, n).plan # Free, Access(s, n).state \in {"active", "trialing", "canceled"}
      PROVE  Term(s, n) > 0 \/ Queue(s, n + 1) < Queue(s, n)
  <2>1. s.plan # Free BY <1>6, AccessOf
  <2>2. s.state \notin {"restricted", "expired"} BY <1>6, <2>1, AccessOf
  <2>3. s.state # "past_due" BY <1>6, <2>1, AccessOf
  <2>4. CASE s.state = "canceled"
    <3>1. n < s.end BY <1>6, <2>1, <2>4, AccessOf
    <3>2. Bought(s, n) > 0 BY <2>1, <3>1, RowFields DEF Bought, Ahead
    <3>3. QED BY <3>2, <1>1 DEF Term, Later
  <2>5. CASE s.state = "trialing"
    <3>1. n < (IF s.trial # None THEN s.trial ELSE s.end) BY <1>6, <2>1, <2>5, AccessOf
    <3>2. Bought(s, n) > 0 \/ Tried(s, n) > 0 BY <2>1, <2>5, <3>1, RowFields DEF Bought, Tried, Ahead
    <3>3. QED BY <3>2, <1>1 DEF Term, Later
  <2>6. CASE s.state = "active" /\ n < s.end
    <3>1. Bought(s, n) > 0 BY <2>1, <2>6, RowFields DEF Bought, Ahead
    <3>2. QED BY <3>1, <1>1 DEF Term, Later
  <2>7. CASE s.state = "active" /\ ~(n < s.end)
    <3>1. n >= s.end /\ s.end \in Nat BY <2>7, RowFields
    <3>2. Due(s, n) BY <1>6, <2>1, <2>7, <3>1, AccessOf
    <3>3. Access(s, n).plan = s.change.plan BY <2>1, <2>7, <3>1, <3>2, AccessOf
    <3>4. s.change # None /\ s.change.plan # Free /\ s.change.until # None /\ n < s.change.until
      BY <1>6, <3>2, <3>3 DEF Due
    <3>5. s.change.until \in Nat BY <3>4, ChangeFields
    <3>6. Queue(s, n) = Ahead(s.change.until, Later(s.end, n)) BY <2>7, <3>4 DEF Queue
    <3>7. Queue(s, n + 1) = Ahead(s.change.until, Later(s.end, n + 1)) BY <2>7, <3>4 DEF Queue
    <3>8. QED BY <3>1, <3>4, <3>5, <3>6, <3>7 DEF Ahead, Later
  <2>8. QED BY <2>2, <2>3, <2>4, <2>5, <2>6, <2>7, RowFields DEF SUBSCRIPTION_STATES
<1>7. Owed(s, n + 1) <= Owed(s, n) BY <1>1, <1>4, <1>5
<1>8. QED BY <1>1, <1>4, <1>5, <1>6, <1>7
\* A bought term is added once: behind the running term, in the queue, or
\* from now.
LEMMA PaidTermLe ==
  ASSUME NEW s \in Sound, Ordered(s), NEW t \in Txn, NEW at \in Nat, NEW n \in Nat, at <= n, n <= at + 1,
         DOMAIN PaidTerm(s, t, at) # {}
  PROVE  LET r == Over(PaidTerm(s, t, at), s)
         IN  Ordered(r) /\ Owed(r, n) <= Owed(s, n) + TermOf[t]
<1> DEFINE p == PaidTerm(s, t, at)
           r == Over(p, s)
           g == TermOf[t]
<1>0. g \in Nat /\ g > 0 /\ PlanOf[t] \in Plan /\ PlanOf[t] # Free BY SubscriptionAssumption
<1>1. r \in Sound BY PaidTermLawful, OverSound DEF Lawful, Legal
<1>2. /\ r.plan = IF "plan" \in DOMAIN p THEN p.plan ELSE s.plan
      /\ r.state = IF "state" \in DOMAIN p THEN p.state ELSE s.state
      /\ r.end = IF "end" \in DOMAIN p THEN p.end ELSE s.end
      /\ r.trial = IF "trial" \in DOMAIN p THEN p.trial ELSE s.trial
      /\ r.change = IF "change" \in DOMAIN p THEN p.change ELSE s.change
  BY RowFields, OverFields
<1>3. ~Held(s) BY DEF PaidTerm, Nothing
<1> HIDE DEF r, g
<1>4. s.end \in Nat BY RowFields
<1>5. CASE Running(s, at) /\ s.plan = PlanOf[t]
  <2> DEFINE newEnd == Later(at, s.end) + g
             c == [s.change EXCEPT !.at = newEnd, !.until = s.change.until + (newEnd - s.end)]
             d == IF QueuedPayment(s) THEN c ELSE None
  <2>1. p = [state |-> "active", end |-> newEnd, grace |-> None, change |-> d]
    BY <1>3, <1>5 DEF PaidTerm, g
  <2>2. newEnd \in Nat /\ newEnd >= s.end /\ newEnd >= n BY <1>0, <1>4 DEF Later
  <2>3. Bought(r, n) <= Bought(s, n) + g
    <3>1. Bought(s, n) = Ahead(s.end, n) /\ r.plan = s.plan /\ r.end = newEnd
      BY <1>0, <1>2, <1>5, <2>1 DEF Bought
    <3>2. Bought(r, n) = Ahead(newEnd, n) BY <1>0, <1>5, <3>1 DEF Bought
    <3>3. QED BY <1>0, <1>4, <3>1, <3>2 DEF Ahead, Later
  <2>4. Bought(r, n) <= Term(s, n) + g BY <1>0, <1>1, <2>3, OwedNat
  <2>5. r.state = "active" /\ r.plan = s.plan /\ r.end = newEnd /\ r.change = d BY <1>2, <2>1
  <2> HIDE DEF newEnd
  <2>6. CASE ~QueuedPayment(s) BY <1>0, <1>1, <2>4, <2>5, <2>6, UnscheduledLe DEF r, g
  <2>7. CASE QueuedPayment(s)
    <3>1. /\ s.change \in Change /\ s.change.until \in Nat /\ s.change.at \in Nat
          /\ s.change.at <= s.end /\ s.change.plan # s.plan
      BY <2>7, ChangeFields DEF QueuedPayment, Ordered
    <3>2. d = c BY <2>7
    <3>3. d.plan = s.change.plan /\ d.at = newEnd /\ d.until = s.change.until + (newEnd - s.end)
      BY <3>1, <3>2 DEF Change
    <3>4. Ordered(r) BY <2>2, <2>5, <3>1, <3>3 DEF Ordered
    <3> HIDE DEF d, c
    <3>5. r.change # None /\ r.change.until # None
      <4>1. s.change.until + (newEnd - s.end) \in Nat BY <2>2, <3>1, <1>4
      <4>2. c \in Change BY <2>2, <3>1, <4>1 DEF c, Change, Date
      <4>3. d # None BY <3>2, <4>2, NoneAssumption
      <4>4. QED BY <2>5, <3>3, <4>1, <4>3, NullAway
    <3>6. Queue(r, n) <= Queue(s, n)
      <4>1. CASE s.change.plan = Free
        <5>1. Queue(r, n) = 0 BY <2>5, <3>3, <4>1 DEF Queue
        <5>2. QED BY <5>1, OwedNat
      <4>2. CASE s.change.plan # Free
        <5>1. s.state = "trialing" \/ s.end >= n
          <6>1. CASE s.state = "trialing" BY <6>1
          <6>2. CASE s.state # "trialing"
            <7>1. s.state \in {"active", "canceled"} BY <1>5, <6>2, RunningState
            <7>2. CASE at < s.end BY <7>2, <1>4
            <7>3. CASE ~(at < s.end)
              <8>1. s.state # "canceled" BY <1>4, <1>5, <7>3, AccessOf DEF Running
              <8>2. s.state = "active" /\ at >= s.end /\ s.plan # Free BY <1>4, <1>5, <7>1, <7>3, <8>1 DEF Running
              <8>3. ~Due(s, at) BY <1>5, <3>1, <8>2, AccessOf DEF Running
              <8>4. QED BY <1>5, <8>2, <8>3, AccessOf DEF Running
            <7>4. QED BY <7>2, <7>3
          <6>3. QED BY <6>1, <6>2
        <5>2. Later(s.end, IF s.state = "trialing" THEN 0 ELSE n) = s.end BY <1>4, <5>1 DEF Later
        <5>3. Queue(s, n) = Ahead(s.change.until, s.end)
          BY <2>7, <3>1, <4>2, <5>2, NullAway DEF Queue, QueuedPayment
        <5>4. Later(r.end, IF r.state = "trialing" THEN 0 ELSE n) = newEnd BY <2>2, <2>5 DEF Later
        <5>5. Queue(r, n) = Ahead(s.change.until + (newEnd - s.end), newEnd)
          BY <2>5, <3>3, <3>5, <4>2, <5>4 DEF Queue
        <5>6. QED BY <1>4, <2>2, <3>1, <5>3, <5>5 DEF Ahead
      <4>3. QED BY <4>1, <4>2
    <3>7. Term(r, n) <= Term(s, n) + g BY <1>0, <1>1, <2>4, <2>5, TermLe
    <3>8. Owed(r, n) = Term(r, n) + Queue(r, n) /\ Owed(s, n) = Term(s, n) + Queue(s, n)
          /\ Term(r, n) \in Nat /\ Term(s, n) \in Nat /\ Queue(s, n) \in Nat /\ Queue(r, n) \in Nat
      BY <1>1, OwedNat
    <3>9. QED BY <1>0, <3>4, <3>6, <3>7, <3>8 DEF r, g
  <2>8. QED BY <2>6, <2>7
<1>6. CASE Running(s, at) /\ s.plan # PlanOf[t] /\ TierOf[PlanOf[t]] <= TierOf[s.plan]
  <2> DEFINE same == QueuedPayment(s) /\ s.change.plan = PlanOf[t]
             start == IF same THEN s.change.until ELSE s.end
             from == IF same THEN s.change.at ELSE s.end
             c == [plan |-> PlanOf[t], at |-> from, until |-> start + g, paid |-> TRUE]
             ls == Later(s.end, IF s.state = "trialing" THEN 0 ELSE n)
  <2>1. p = [change |-> c] BY <1>3, <1>6 DEF PaidTerm, g
  <2>2. same => /\ s.change # None /\ s.change.until \in Nat /\ s.change.at \in Nat
                /\ s.change.at <= s.end
    BY ChangeFields DEF QueuedPayment, Ordered
  <2>3. start \in Nat /\ from \in Nat /\ from <= s.end /\ ls \in Nat /\ ls >= s.end
    BY <1>4, <2>2 DEF Later
  <2>4. /\ r.change = c /\ r.plan = s.plan /\ r.state = s.state /\ r.end = s.end /\ r.trial = s.trial
    BY <1>2, <2>1
  <2>5. c # None
    <3>1. c \in Change BY <1>0, <2>3 DEF Change, Date
    <3>2. QED BY <3>1, NoneAssumption
  <2>6. Ordered(r) BY <1>6, <2>3, <2>4 DEF Ordered
  <2>7. start + g \in Nat BY <1>0, <2>3
  <2>8. Queue(r, n) = Ahead(start + g, ls)
    BY <1>0, <2>4, <2>5, <2>7, NullAway DEF Queue
  <2>9. Queue(r, n) <= Queue(s, n) + g
    <3>1. CASE same
      <4>1. Queue(s, n) = Ahead(s.change.until, ls)
        BY <1>0, <2>2, <3>1, NullAway DEF Queue
      <4>2. start = s.change.until BY <3>1
      <4> HIDE DEF ls
      <4>3. QED BY <1>0, <2>2, <2>3, <2>8, <3>1, <4>1, <4>2 DEF Ahead
    <3>2. CASE ~same
      <4>1. start = s.end BY <3>2
      <4>2. Queue(s, n) \in Nat BY OwedNat
      <4> HIDE DEF ls
      <4>3. QED BY <1>0, <1>4, <2>3, <2>8, <4>1, <4>2 DEF Ahead
    <3>3. QED BY <3>1, <3>2
  <2>10. Term(r, n) = Term(s, n) BY <2>4 DEF Term, Bought, Tried
  <2>11. Owed(r, n) = Term(r, n) + Queue(r, n) /\ Owed(s, n) = Term(s, n) + Queue(s, n)
         /\ Term(r, n) \in Nat /\ Term(s, n) \in Nat /\ Queue(s, n) \in Nat /\ Queue(r, n) \in Nat
    BY <1>1, OwedNat
  <2>12. QED BY <1>0, <2>6, <2>9, <2>10, <2>11 DEF r, g
<1>7. CASE ~(Running(s, at) /\ (s.plan = PlanOf[t] \/ TierOf[PlanOf[t]] <= TierOf[s.plan]))
  <2>1. p = [plan |-> PlanOf[t], state |-> "active", end |-> at + g, grace |-> None, change |-> None]
    BY <1>3, <1>7 DEF PaidTerm, g
  <2>2. r.plan = PlanOf[t] /\ r.state = "active" /\ r.end = at + g /\ r.change = None BY <1>2, <2>1
  <2>3. Bought(r, n) <= g BY <1>0, <2>2 DEF Bought, Ahead
  <2>4. Bought(r, n) <= Term(s, n) + g BY <1>0, <1>1, <2>3, OwedNat
  <2>5. QED BY <1>0, <1>1, <2>2, <2>4, UnscheduledLe DEF r, g
<1>8. QED BY <1>5, <1>6, <1>7
\* The lifecycle job gives nothing away: it ends terms, or starts the queued
\* one with what is left of it.
LEMMA AdvancedLe ==
  ASSUME NEW s \in Sound, Ordered(s), NEW at \in Nat, NEW n \in Nat, at <= n,
         DOMAIN Advanced(s, at) # {}
  PROVE  LET r == Over(Advanced(s, at), s) IN Ordered(r) /\ Owed(r, n) <= Owed(s, n)
<1> DEFINE p == Advanced(s, at)
           r == Over(p, s)
           acc == Access(s, at)
           onFree == [plan |-> Free, state |-> "active", end |-> at + Window, change |-> None]
<1>1. r \in Sound BY AdvancedLawful, OverSound DEF Lawful, Legal
<1>2. /\ r.plan = IF "plan" \in DOMAIN p THEN p.plan ELSE s.plan
      /\ r.state = IF "state" \in DOMAIN p THEN p.state ELSE s.state
      /\ r.end = IF "end" \in DOMAIN p THEN p.end ELSE s.end
      /\ r.trial = IF "trial" \in DOMAIN p THEN p.trial ELSE s.trial
      /\ r.change = IF "change" \in DOMAIN p THEN p.change ELSE s.change
  BY RowFields, OverFields
<1>3. s.end \in Nat BY RowFields
<1> HIDE DEF r
<1>4. CASE p = onFree
  <2>1. r.plan = Free /\ r.state = "active" /\ r.change = None BY <1>2, <1>4
  <2>2. Bought(r, n) = 0 BY <2>1 DEF Bought
  <2>3. Bought(r, n) <= Term(s, n) + 0 BY <2>2, OwedNat
  <2>4. Ordered(r) /\ Owed(r, n) <= Owed(s, n) + 0 BY <1>1, <2>1, <2>3, UnscheduledLe
  <2>5. QED BY <1>1, <2>4, OwedNat DEF r
<1>5. CASE s.plan # Free /\ s.state = "active" /\ at >= s.end /\ Due(s, at)
  <2> DEFINE e == IF s.change.plan = Free THEN at + Window ELSE s.change.until
             q == [plan |-> s.change.plan, grace |-> None, end |-> e]
  <2>1. p = Over(q, onFree) BY <1>5 DEF Advanced
  <2>2. /\ p.plan = s.change.plan /\ p.state = "active" /\ p.end = e /\ p.change = None
        /\ {"plan", "state", "end", "change"} \subseteq DOMAIN p
    BY <2>1 DEF Over
  <2>3. r.plan = s.change.plan /\ r.state = "active" /\ r.end = e /\ r.change = None BY <1>2, <2>2
  <2>4. Ordered(r) BY <2>3 DEF Ordered
  <2>5. Tried(r, n) = 0 /\ Queue(r, n) = 0 BY <2>3 DEF Tried, Queue
  <2>6. Bought(r, n) <= Queue(s, n)
    <3>1. CASE s.change.plan = Free BY <2>3, <3>1, OwedNat DEF Bought
    <3>2. CASE s.change.plan # Free
      <4>1. s.change # None /\ s.change.until # None BY <1>5, <3>2 DEF Due
      <4>2. s.change.until \in Nat BY <4>1, ChangeFields
      <4>3. Later(s.end, IF s.state = "trialing" THEN 0 ELSE n) = n BY <1>3, <1>5 DEF Later
      <4>4. Queue(s, n) = Ahead(s.change.until, n) BY <3>2, <4>1, <4>3 DEF Queue
      <4>5. Bought(r, n) = Ahead(s.change.until, n) BY <2>3, <3>2 DEF Bought
      <4>6. QED BY <4>2, <4>4, <4>5 DEF Ahead
    <3>3. QED BY <3>1, <3>2
  <2>7. Term(r, n) <= Queue(s, n) BY <1>1, <2>5, <2>6, OwedNat DEF Term, Later
  <2>8. Owed(r, n) = Term(r, n) + Queue(r, n) /\ Owed(s, n) = Term(s, n) + Queue(s, n)
        /\ Term(r, n) \in Nat /\ Term(s, n) \in Nat /\ Queue(s, n) \in Nat
    BY <1>1, OwedNat
  <2>9. QED BY <2>4, <2>5, <2>7, <2>8 DEF r
<1>6. CASE p # onFree /\ ~(s.plan # Free /\ s.state = "active" /\ at >= s.end /\ Due(s, at))
  <2>1. \/ p = [state |-> "past_due", grace |-> GraceEnd(s)]
        \/ p = [state |-> "restricted", hold |-> FALSE]
        \/ p = [state |-> "expired"]
    <3>1. s.plan # Free BY <1>6 DEF Advanced, Nothing
    <3>2. ~(s.state = "trialing" /\ acc.plan = Free) BY <1>6, <3>1 DEF Advanced
    <3> DEFINE moves == acc.state # s.state /\ Allowed(s.state, acc.state)
    <3>3. moves /\ acc.state \in {"past_due", "restricted", "expired"}
      BY <1>6, <3>1, <3>2 DEF Advanced, Nothing
    <3>4. CASE acc.state = "past_due" BY <1>6, <3>1, <3>2, <3>3, <3>4 DEF Advanced
    <3>5. CASE acc.state = "restricted" BY <1>6, <3>1, <3>2, <3>3, <3>5 DEF Advanced
    <3>6. CASE acc.state = "expired" BY <1>6, <3>1, <3>2, <3>3, <3>6 DEF Advanced
    <3>7. QED BY <3>3, <3>4, <3>5, <3>6
  <2>2. /\ r.plan = s.plan /\ r.end = s.end /\ r.change = s.change /\ r.state # "trialing"
    BY <1>2, <2>1
  <2>3. Bought(r, n) = Bought(s, n) BY <2>2 DEF Bought
  <2>4. Bought(r, n) <= Term(s, n) + 0 BY <2>3, OwedNat
  <2>5. r.end >= s.end BY <1>3, <2>2
  <2>6. Ordered(r) /\ Owed(r, n) <= Owed(s, n) + 0 BY <1>1, <2>2, <2>4, <2>5, KeptLe
  <2>7. QED BY <1>1, <2>6, OwedNat DEF r
<1>7. QED BY <1>4, <1>5, <1>6

\* A workspace's move to the free plan, at once or at the term's end.
LEMMA ChangedLe ==
  ASSUME NEW s \in Sound, Ordered(s), s.plan # Free, NEW at \in Nat, NEW n \in Nat,
         DOMAIN Changed(s, Free, at) # {}
  PROVE  LET r == Over(Changed(s, Free, at), s) IN Ordered(r) /\ Owed(r, n) <= Owed(s, n)
<1> DEFINE p == Changed(s, Free, at)
           r == Over(p, s)
<1>0. Free \in Plan BY SubscriptionAssumption
<1>1. r \in Sound BY <1>0, ChangedLawful, OverSound DEF Lawful, Legal
<1>2. /\ r.plan = IF "plan" \in DOMAIN p THEN p.plan ELSE s.plan
      /\ r.state = IF "state" \in DOMAIN p THEN p.state ELSE s.state
      /\ r.end = IF "end" \in DOMAIN p THEN p.end ELSE s.end
      /\ r.trial = IF "trial" \in DOMAIN p THEN p.trial ELSE s.trial
      /\ r.change = IF "change" \in DOMAIN p THEN p.change ELSE s.change
  BY RowFields, OverFields
<1>3. s.end \in Nat BY RowFields
<1> HIDE DEF r
<1>4. ~Held(s) BY DEF Changed, Nothing
<1>5. CASE ~Running(s, at)
  <2>1. p = [plan |-> Free, state |-> "active", end |-> at + Window, grace |-> None, change |-> None]
    BY <1>4, <1>5 DEF Changed
  <2>2. r.plan = Free /\ r.state = "active" /\ r.change = None BY <1>2, <2>1
  <2>3. Bought(r, n) = 0 BY <2>2 DEF Bought
  <2>4. Bought(r, n) <= Term(s, n) + 0 BY <2>3, OwedNat
  <2>5. Ordered(r) /\ Owed(r, n) <= Owed(s, n) + 0 BY <1>1, <2>2, <2>4, UnscheduledLe
  <2>6. QED BY <1>1, <2>5, OwedNat DEF r
<1>6. CASE Running(s, at)
  <2> DEFINE c == [plan |-> Free, at |-> s.end, until |-> None, paid |-> FALSE]
  <2>1. p = [change |-> c] BY <1>4, <1>6 DEF Changed, Nothing
  <2>2. r.change = c /\ r.plan = s.plan /\ r.state = s.state /\ r.end = s.end /\ r.trial = s.trial
    BY <1>2, <2>1
  <2>3. Ordered(r) BY <1>3, <2>2 DEF Ordered
  <2>4. Queue(r, n) = 0 BY <2>2 DEF Queue
  <2>5. Term(r, n) = Term(s, n) BY <2>2 DEF Term, Bought, Tried
  <2>6. Owed(r, n) = Term(r, n) + Queue(r, n) /\ Owed(s, n) = Term(s, n) + Queue(s, n)
        /\ Term(s, n) \in Nat /\ Queue(s, n) \in Nat
    BY <1>1, OwedNat
  <2>7. QED BY <2>3, <2>4, <2>5, <2>6 DEF r
<1>7. QED BY <1>5, <1>6

LEMMA ClearedLe ==
  ASSUME NEW s \in Sound, NEW n \in Nat, DOMAIN Cleared(s) # {}
  PROVE  LET r == Over(Cleared(s), s) IN Ordered(r) /\ Owed(r, n) <= Owed(s, n)
<1> DEFINE p == Cleared(s)
           r == Over(p, s)
<1>1. r \in Sound BY ClearedLawful, OverSound DEF Lawful, Legal
<1>2. /\ r.plan = IF "plan" \in DOMAIN p THEN p.plan ELSE s.plan
      /\ r.state = IF "state" \in DOMAIN p THEN p.state ELSE s.state
      /\ r.end = IF "end" \in DOMAIN p THEN p.end ELSE s.end
      /\ r.trial = IF "trial" \in DOMAIN p THEN p.trial ELSE s.trial
      /\ r.change = IF "change" \in DOMAIN p THEN p.change ELSE s.change
  BY RowFields, OverFields
<1> HIDE DEF r
<1>3. p = [change |-> None] BY DEF Cleared, Nothing
<1>4. r.change = None /\ r.plan = s.plan /\ r.state = s.state /\ r.end = s.end /\ r.trial = s.trial
  BY <1>2, <1>3
<1>5. Bought(r, n) = Bought(s, n) BY <1>4 DEF Bought
<1>6. Bought(r, n) <= Term(s, n) + 0 BY <1>5, OwedNat
<1>7. Ordered(r) /\ Owed(r, n) <= Owed(s, n) + 0 BY <1>1, <1>4, <1>6, UnscheduledLe
<1>8. QED BY <1>1, <1>7, OwedNat DEF r

LEMMA CancelledLe ==
  ASSUME NEW s \in Sound, NEW immediate \in BOOLEAN, NEW at \in Nat, NEW n \in Nat, at <= n,
         DOMAIN Cancelled(s, immediate, at) # {}
  PROVE  LET r == Over(Cancelled(s, immediate, at), s) IN Ordered(r) /\ Owed(r, n) <= Owed(s, n)
<1> DEFINE p == Cancelled(s, immediate, at)
           r == Over(p, s)
<1>1. r \in Sound BY CancelledLawful, OverSound DEF Lawful, Legal
<1>2. /\ r.plan = IF "plan" \in DOMAIN p THEN p.plan ELSE s.plan
      /\ r.state = IF "state" \in DOMAIN p THEN p.state ELSE s.state
      /\ r.end = IF "end" \in DOMAIN p THEN p.end ELSE s.end
      /\ r.trial = IF "trial" \in DOMAIN p THEN p.trial ELSE s.trial
      /\ r.change = IF "change" \in DOMAIN p THEN p.change ELSE s.change
  BY RowFields, OverFields
<1>3. s.end \in Nat /\ r.end \in Nat BY <1>1, RowFields
<1> HIDE DEF r
<1>4. p = Over([state |-> "canceled", change |-> None], IF immediate THEN [end |-> at] ELSE Nothing)
  BY DEF Cancelled, Nothing
<1>5. /\ p.state = "canceled" /\ p.change = None /\ "state" \in DOMAIN p /\ "change" \in DOMAIN p
      /\ "plan" \notin DOMAIN p /\ ("end" \in DOMAIN p => p.end = at)
  BY <1>4 DEF Over, Nothing
<1>6. r.state = "canceled" /\ r.change = None /\ r.plan = s.plan /\ r.end \in {at, s.end}
  BY <1>2, <1>5
<1>7. Bought(r, n) <= Bought(s, n) BY <1>3, <1>6 DEF Bought, Ahead
<1>8. Bought(r, n) <= Term(s, n) + 0 BY <1>1, <1>7, OwedNat
<1>9. Ordered(r) /\ Owed(r, n) <= Owed(s, n) + 0 BY <1>1, <1>6, <1>8, UnscheduledLe
<1>10. QED BY <1>1, <1>9, OwedNat DEF r

LEMMA ReactivatedLe ==
  ASSUME NEW s \in Sound, Ordered(s), NEW at \in Nat, NEW n \in Nat, DOMAIN Reactivated(s, at) # {}
  PROVE  LET r == Over(Reactivated(s, at), s) IN Ordered(r) /\ Owed(r, n) <= Owed(s, n)
<1> DEFINE p == Reactivated(s, at)
           r == Over(p, s)
<1>1. r \in Sound BY ReactivatedLegal, OverSound DEF Legal
<1>2. /\ r.plan = IF "plan" \in DOMAIN p THEN p.plan ELSE s.plan
      /\ r.state = IF "state" \in DOMAIN p THEN p.state ELSE s.state
      /\ r.end = IF "end" \in DOMAIN p THEN p.end ELSE s.end
      /\ r.trial = IF "trial" \in DOMAIN p THEN p.trial ELSE s.trial
      /\ r.change = IF "change" \in DOMAIN p THEN p.change ELSE s.change
  BY RowFields, OverFields
<1>3. s.end \in Nat BY RowFields
<1> HIDE DEF r
<1>4. p = [state |-> "active", plan |-> s.plan, grace |-> None] BY DEF Reactivated, Nothing
<1>5. r.state = "active" /\ r.plan = s.plan /\ r.end = s.end /\ r.change = s.change BY <1>2, <1>4
<1>6. Bought(r, n) = Bought(s, n) BY <1>5 DEF Bought
<1>7. Bought(r, n) <= Term(s, n) + 0 BY <1>6, OwedNat
<1>8. r.end >= s.end BY <1>3, <1>5
<1>9. Ordered(r) /\ Owed(r, n) <= Owed(s, n) + 0 BY <1>1, <1>5, <1>7, <1>8, KeptLe
<1>10. QED BY <1>1, <1>9, OwedNat DEF r

\* The administrator's overrides give at most the rest of the row's period.
LEMMA PlanSetLe ==
  ASSUME NEW s \in Sound, NEW plan \in Plan, NEW at \in Nat, NEW n \in Nat, at <= n,
         DOMAIN PlanSet(s, plan, at) # {}
  PROVE  LET r == Over(PlanSet(s, plan, at), s)
         IN  Ordered(r)
             /\ Owed(r, n) <= Owed(s, n) + (IF r.plan = Free \/ r.end <= at THEN 0 ELSE r.end - at)
<1> DEFINE p == PlanSet(s, plan, at)
           r == Over(p, s)
           g == IF r.plan = Free \/ r.end <= at THEN 0 ELSE r.end - at
<1>1. r \in Sound BY PlanSetLawful, OverSound DEF Lawful, Legal
<1>2. /\ r.plan = IF "plan" \in DOMAIN p THEN p.plan ELSE s.plan
      /\ r.state = IF "state" \in DOMAIN p THEN p.state ELSE s.state
      /\ r.end = IF "end" \in DOMAIN p THEN p.end ELSE s.end
      /\ r.trial = IF "trial" \in DOMAIN p THEN p.trial ELSE s.trial
      /\ r.change = IF "change" \in DOMAIN p THEN p.change ELSE s.change
  BY RowFields, OverFields
<1>3. r.end \in Nat BY <1>1, RowFields
<1>4. p = [plan |-> plan, end |-> at + Window, change |-> None] BY DEF PlanSet, Nothing
<1>5. r.change = None /\ r.state = s.state /\ r.trial = s.trial BY <1>2, <1>4
<1> HIDE DEF r
<1>6. g \in Nat BY <1>3
<1>7. Bought(r, n) <= g BY <1>3 DEF Bought, Ahead
<1> HIDE DEF g
<1>8. Bought(r, n) <= Term(s, n) + g BY <1>1, <1>6, <1>7, OwedNat
<1>9. Ordered(r) /\ Owed(r, n) <= Owed(s, n) + g BY <1>1, <1>5, <1>6, <1>8, UnscheduledLe
<1>10. QED BY <1>9 DEF r, g

LEMMA StateSetLe ==
  ASSUME NEW s \in Sound, Ordered(s), NEW state \in SUBSCRIPTION_STATES, NEW at \in Nat, NEW n \in Nat,
         at <= n, DOMAIN StateSet(s, state, at) # {}
  PROVE  LET r == Over(StateSet(s, state, at), s)
         IN  Ordered(r)
             /\ Owed(r, n) <= Owed(s, n) + (IF r.plan = Free \/ r.end <= at THEN 0 ELSE r.end - at)
<1> DEFINE p == StateSet(s, state, at)
           r == Over(p, s)
           g == IF r.plan = Free \/ r.end <= at THEN 0 ELSE r.end - at
           e == IF state \in {"active", "trialing"} /\ s.end <= at THEN [end |-> at + Window] ELSE Nothing
           b == [state |-> state, hold |-> state = "restricted",
                 grace |-> IF state = "past_due" THEN at + Grace ELSE None]
<1>1. r \in Sound BY StateSetLegal, OverSound DEF Legal
<1>2. /\ r.plan = IF "plan" \in DOMAIN p THEN p.plan ELSE s.plan
      /\ r.state = IF "state" \in DOMAIN p THEN p.state ELSE s.state
      /\ r.end = IF "end" \in DOMAIN p THEN p.end ELSE s.end
      /\ r.trial = IF "trial" \in DOMAIN p THEN p.trial ELSE s.trial
      /\ r.change = IF "change" \in DOMAIN p THEN p.change ELSE s.change
  BY RowFields, OverFields
<1>3. r.end \in Nat /\ s.end \in Nat BY <1>1, RowFields
<1>4. Allowed(s.state, state) /\ p = Over(b, e) BY DEF StateSet, Nothing
<1>5. DOMAIN e \subseteq {"end"} /\ ("end" \in DOMAIN e => e.end = at + Window /\ s.end <= at)
  BY DEF Nothing
<1> HIDE DEF e
<1>6. /\ p.state = state /\ "state" \in DOMAIN p
      /\ "plan" \notin DOMAIN p /\ "change" \notin DOMAIN p /\ "trial" \notin DOMAIN p
      /\ "end" \in DOMAIN p => p.end = at + Window /\ s.end <= at
  BY <1>4, <1>5 DEF Over
<1> HIDE DEF p
<1>7. /\ r.plan = s.plan /\ r.change = s.change /\ r.trial = s.trial /\ r.state = state
  BY <1>2, <1>6
<1>8. r.end >= s.end BY <1>2, <1>3, <1>6, SubscriptionAssumption
<1>9. r.state = "trialing" => s.state = "trialing"
  BY <1>4, <1>7, RowFields DEF Allowed, Table, SUBSCRIPTION_STATES
<1> HIDE DEF r
<1>10. g \in Nat BY <1>3
<1>11. Bought(r, n) <= g BY <1>3 DEF Bought, Ahead
<1> HIDE DEF g
<1>12. Bought(r, n) <= Term(s, n) + g BY <1>1, <1>10, <1>11, OwedNat
<1>13. Ordered(r) /\ Owed(r, n) <= Owed(s, n) + g BY <1>1, <1>7, <1>8, <1>9, <1>10, <1>12, KeptLe
<1>14. QED BY <1>13 DEF r, g, p
LEMMA ProvisionedLe ==
  ASSUME NEW at \in Nat, NEW n \in Nat, at <= n
  PROVE  LET r == Over(Provisioned(at), Fresh)
         IN  Ordered(r) /\ Owed(r, n) <= (IF r.plan = Free THEN 0 ELSE Trial)
<1> DEFINE p == Provisioned(at)
           r == Over(p, Fresh)
<1>0. Trial \in Nat BY SubscriptionAssumption
<1>1. r \in Sound BY ProvisionedPatch, FreshSound, OverSound
<1>2. /\ r.plan = TrialPlan /\ r.change = None
      /\ r.state = IF TrialPlan = Free THEN "active" ELSE "trialing"
      /\ r.trial = IF TrialPlan = Free THEN None ELSE at + Trial
      /\ r.end = at + (IF TrialPlan = Free THEN Window ELSE Trial)
  BY DEF Over, Provisioned, Fresh
<1> HIDE DEF r
<1>3. Ordered(r) /\ Queue(r, n) = 0 BY <1>2 DEF Ordered, Queue
<1>4. CASE TrialPlan = Free
  <2>1. Bought(r, n) = 0 /\ Tried(r, n) = 0 BY <1>2, <1>4 DEF Bought, Tried
  <2>2. QED BY <1>1, <1>2, <1>3, <1>4, <2>1, OwedNat DEF Term, Later, r
<1>5. CASE TrialPlan # Free
  <2>1. r.plan # Free /\ r.end = at + Trial /\ r.trial = at + Trial BY <1>2, <1>5
  <2>2. Bought(r, n) <= Trial BY <1>0, <2>1 DEF Bought, Ahead
  <2>3. Tried(r, n) <= Trial BY <1>0, <2>1 DEF Tried, Ahead
  <2>4. Term(r, n) <= Trial BY <1>0, <1>1, <2>2, <2>3, OwedNat DEF Term, Later
  <2>5. Owed(r, n) = Term(r, n) + 0 BY <1>1, <1>3, OwedNat
  <2>6. Owed(r, n) <= Trial BY <1>0, <1>1, <2>4, <2>5, OwedNat
  <2>7. QED BY <1>3, <2>1, <2>6 DEF r
<1>6. QED BY <1>4, <1>5

\* No operation adds more than it grants.
LEMMA PatchLe ==
  ASSUME NEW o \in Op, NEW s \in Sound, Ordered(s), NEW at \in Nat, NEW n \in Nat, at <= n, n <= at + 1,
         o.op # "provision", o.op = "change" => o.plan = Free /\ s.plan # Free,
         DOMAIN Patch(o, s, at) # {}
  PROVE  LET r == Over(Patch(o, s, at), s)
         IN  Ordered(r) /\ Owed(r, n) <= Owed(s, n) + Grant(o, r, at)
<1> DEFINE p == Patch(o, s, at)
           r == Over(p, s)
<1>0. IsPatch(p) BY PatchLegal DEF Legal
<1>1. r \in Sound BY <1>0, OverSound
<1>2. Owed(r, n) \in Nat /\ Owed(s, n) \in Nat
  <2> HIDE DEF r
  <2>1. QED BY <1>1, OwedIn
<1>3. CASE o.op = "pay"
  <2>1. p = PaidTerm(s, o.txn, at) /\ o.txn \in Txn BY <1>3, OpFields DEF Patch
  <2>2. Grant(o, r, at) = TermOf[o.txn] BY <1>3 DEF Grant
  <2>3. QED BY <2>1, <2>2, PaidTermLe
<1>4. ASSUME Grant(o, r, at) = 0, Ordered(r) /\ Owed(r, n) <= Owed(s, n)
      PROVE  Ordered(r) /\ Owed(r, n) <= Owed(s, n) + Grant(o, r, at)
  <2> HIDE DEF r
  <2>1. QED BY <1>2, <1>4
<1>5. o.op \in {"sweep", "change", "clear", "cancel", "reactivate"} => Grant(o, r, at) = 0 BY DEF Grant
<1>6. CASE o.op = "sweep"
  <2>1. p = Advanced(s, at) BY <1>6 DEF Patch
  <2>2. QED BY <1>4, <1>5, <1>6, <2>1, AdvancedLe
<1>7. CASE o.op = "change"
  <2>1. p = Changed(s, Free, at) BY <1>7 DEF Patch
  <2>2. QED BY <1>4, <1>5, <1>7, <2>1, ChangedLe
<1>8. CASE o.op = "clear"
  <2>1. p = Cleared(s) BY <1>8 DEF Patch
  <2>2. QED BY <1>4, <1>5, <1>8, <2>1, ClearedLe
<1>9. CASE o.op = "cancel"
  <2>1. p = Cancelled(s, o.immediate, at) /\ o.immediate \in BOOLEAN BY <1>9, OpFields DEF Patch
  <2>2. QED BY <1>4, <1>5, <1>9, <2>1, CancelledLe
<1>10. CASE o.op = "reactivate"
  <2>1. p = Reactivated(s, at) BY <1>10 DEF Patch
  <2>2. QED BY <1>4, <1>5, <1>10, <2>1, ReactivatedLe
<1>11. CASE o.op = "setPlan"
  <2>1. p = PlanSet(s, o.plan, at) /\ o.plan \in Plan BY <1>11, OpFields DEF Patch
  <2>2. Grant(o, r, at) = IF r.plan = Free \/ r.end <= at THEN 0 ELSE r.end - at BY <1>11 DEF Grant
  <2>3. QED BY <2>1, <2>2, PlanSetLe
<1>12. CASE o.op = "setState"
  <2>1. p = StateSet(s, o.state, at) /\ o.state \in SUBSCRIPTION_STATES BY <1>12, OpFields DEF Patch
  <2>2. Grant(o, r, at) = IF r.plan = Free \/ r.end <= at THEN 0 ELSE r.end - at BY <1>12 DEF Grant
  <2>3. QED BY <2>1, <2>2, StateSetLe
<1>13. QED BY OpFields, <1>3, <1>6, <1>7, <1>8, <1>9, <1>10, <1>11, <1>12

LEMMA InitCovered == Init => Covered
BY DEF Init, Covered, Owed

LEMMA CommitCovered ==
  ASSUME Typed, Aware, Covered, NEW a \in Actor, Commit(a)
  PROVE  Covered'
<1> SUFFICES ASSUME ~blind'
             PROVE  balance' >= Owed(sub', now') /\ (sub' # None => Ordered(sub'))
  BY DEF Covered
<1>1. task[a].pc = "read" /\ now' = now BY CommitCases
<1>2. CASE UNCHANGED <<sub, order, balance, blind>> BY <1>1, <1>2 DEF Covered
<1>3. ASSUME NEW at \in Clock(a), ~(Guarded(task[a].op) /\ task[a].seen = None),
             DOMAIN Patch(task[a].op, task[a].seen, at) # {},
             Written(a, Over(Patch(task[a].op, task[a].seen, at), Base), at)
      PROVE  balance' >= Owed(sub', now') /\ (sub' # None => Ordered(sub'))
  <2> DEFINE o == task[a].op
             r == Over(Patch(o, task[a].seen, at), Base)
  <2>1. ~blind /\ task[a].firm BY <1>1, <1>3, CheckedJob DEF Written, Job
  <2>2. balance >= Owed(sub, now) /\ (sub # None => Ordered(sub)) BY <2>1 DEF Covered
  <2>3. task[a] # Idle /\ task[a] \in Job(now) /\ Reads(task[a], sub) BY <1>1, CheckedJob
  <2>4. task[a].at + 1 >= now /\ Knows(task[a], sub) /\ task[a].at \in Nat
    BY <2>3, SubscriptionAssumption DEF Aware, Job, Typed, TypeOK
  <2>5. at \in Nat /\ at <= now /\ at >= task[a].at BY <1>1, ClockIs
  <2>6. now \in Nat /\ balance \in Int BY SubscriptionAssumption DEF Typed, TypeOK
  <2>7. now <= at + 1 BY <2>4, <2>5, <2>6
  <2>8. o \in Op BY <2>3 DEF Job
  <2>9. sub' = r /\ balance' = balance + Grant(o, r, at) BY <1>3 DEF Written
  <2>10. r \in Sound BY <1>1, <1>3, RowWritten DEF Base
  <2>11. Grant(o, r, at) \in Nat BY <2>5, <2>8, <2>10, GrantInt
  <2>12. Owed(r, now) \in Nat BY <2>6, <2>10, OwedIn
  <2>13. CASE sub # None
    <3>1. /\ task[a].seen = sub /\ sub \in Sound /\ o.op # "provision"
          /\ o.op = "change" => o.plan = Free /\ sub.plan # Free
      BY <1>1, <1>3, <2>1, <2>13, FirmWrite
    <3>2. r = Over(Patch(o, sub, at), sub) BY <2>13, <3>1 DEF Base
    <3>3. DOMAIN Patch(o, sub, at) # {} BY <1>3, <3>1
    <3> HIDE DEF r, o
    <3>4. Ordered(r) /\ Owed(r, now) <= Owed(sub, now) + Grant(o, r, at)
      BY <2>2, <2>5, <2>6, <2>7, <2>8, <2>13, <3>1, <3>2, <3>3, PatchLe
    <3>5. Owed(sub, now) \in Nat BY <2>6, <3>1, OwedIn
    <3>6. QED BY <1>1, <2>2, <2>6, <2>9, <2>11, <2>12, <3>4, <3>5
  <2>14. CASE sub = None
    <3>1. o.op = "provision" BY <2>3, <2>14 DEF Reads
    <3>2. task[a].seen = None BY <1>1, <2>1, <2>4, <2>14 DEF Knows
    <3>3. r = Over(Provisioned(at), Fresh) BY <2>14, <3>1, <3>2 DEF Patch, Base
    <3>4. Grant(o, r, at) = IF r.plan = Free THEN 0 ELSE Trial BY <3>1 DEF Grant
    <3>5. Owed(sub, now) = 0 BY <2>14 DEF Owed
    <3> HIDE DEF r, o
    <3>6. Ordered(r) /\ Owed(r, now) <= Grant(o, r, at) BY <2>5, <2>6, <3>3, <3>4, ProvisionedLe
    <3>7. QED BY <1>1, <2>2, <2>6, <2>9, <2>11, <2>12, <3>5, <3>6
  <2>15. QED BY <2>13, <2>14
<1>4. QED BY <1>2, <1>3, CommitCases

LEMMA PassCovered ==
  ASSUME Typed, Covered, Pass
  PROVE  Covered'
<1> SUFFICES ASSUME ~blind'
             PROVE  balance' >= Owed(sub', now') /\ (sub' # None => Ordered(sub'))
  BY DEF Covered
<1>1. /\ now' = now + 1 /\ sub' = sub /\ ~blind
      /\ balance' = balance - (IF Enjoyed THEN 1 ELSE 0)
  BY DEF Pass
<1>2. balance >= Owed(sub, now) /\ (sub # None => Ordered(sub)) BY <1>1 DEF Covered
<1>3. now \in Nat /\ balance \in Int BY SubscriptionAssumption DEF Typed, TypeOK
<1>4. CASE sub = None
  <2>1. ~Enjoyed BY <1>4 DEF Enjoyed
  <2>2. QED BY <1>1, <1>2, <1>3, <1>4, <2>1 DEF Owed
<1>5. CASE sub # None
  <2>1. sub \in Sound /\ Ordered(sub) BY <1>2, <1>5 DEF Typed
  <2>2. /\ Owed(sub, now + 1) <= Owed(sub, now)
        /\ Enjoyed => Owed(sub, now + 1) + 1 <= Owed(sub, now)
    BY <1>3, <2>1, TickLe DEF Enjoyed
  <2>3. Owed(sub, now) \in Nat /\ Owed(sub, now + 1) \in Nat BY <1>3, <2>1, OwedIn
  <2>4. balance' >= Owed(sub, now + 1)
    <3>1. CASE Enjoyed BY <1>1, <1>2, <1>3, <2>2, <2>3, <3>1
    <3>2. CASE ~Enjoyed BY <1>1, <1>2, <1>3, <2>2, <2>3, <3>2
    <3>3. QED BY <3>1, <3>2
  <2>5. QED BY <1>1, <2>1, <2>4
<1>6. QED BY <1>4, <1>5

LEMMA NextCovered == Typed /\ Aware /\ Covered /\ [Next]_vars => Covered'
<1> SUFFICES ASSUME Typed, Aware, Covered, [Next]_vars PROVE Covered' OBVIOUS
<1>1. CASE \E a \in Actor : Commit(a) BY <1>1, CommitCovered
<1>2. CASE Pass BY <1>2, PassCovered
<1>3. CASE ~(\E a \in Actor : Commit(a)) /\ ~Pass
  <2>1. UNCHANGED <<now, sub, balance, blind>>
    BY <1>3 DEF Next, Work, Request, Pay, Sweep, Reread, Checkout, Capture, vars
  <2>2. QED BY <2>1 DEF Covered
<1>4. QED BY <1>1, <1>2, <1>3

\* Access to a paid plan never adds up to more than was sold, tried out or
\* given, however late the lifecycle job is and however captured payments,
\* scheduled changes and overrides overlap with it, unless a write was
\* decided on a row that had moved.
THEOREM BudgetKept == Spec => []PaidAccessBudget
<1>1. Init => Typed /\ Aware /\ Covered BY InitTyped, InitAware, InitCovered
<1>2. Typed /\ Aware /\ Covered /\ [Next]_vars => (Typed /\ Aware /\ Covered)'
  BY NextTyped, NextAware, NextCovered
<1>3. Typed /\ Covered => PaidAccessBudget
  <2> SUFFICES ASSUME Typed, Covered, ~blind PROVE balance >= 0 BY DEF PaidAccessBudget
  <2>1. balance >= Owed(sub, now) BY DEF Covered
  <2>2. now \in Nat /\ balance \in Int /\ sub \in Sound \cup {None}
    BY SubscriptionAssumption DEF Typed, TypeOK
  <2>3. Owed(sub, now) \in Nat
    <3>1. CASE sub = None BY <3>1 DEF Owed
    <3>2. CASE sub # None BY <2>2, <3>2, OwedNat
    <3>3. QED BY <3>1, <3>2
  <2>4. QED BY <2>1, <2>2, <2>3
<1>4. QED BY <1>1, <1>2, <1>3, PTL DEF Spec
=============================================================================
