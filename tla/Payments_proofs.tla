--------------------------- MODULE Payments_proofs ---------------------------
(***************************************************************************)
(* Proofs about Payments, for every set of transactions, events and        *)
(* processors and any number of faults.                                    *)
(***************************************************************************)
EXTENDS Payments, TLAPS

\* The provider has, or had, the money of the order, in its amount.
Received(t) == paid[t] \in {"captured", "refunded"}

\* A processor past the provider's answer that granted access, whatever has
\* become of the row since.
Granting == {"capturing", "claiming", "reading", "writing", "marking"}

\* Every place where a capture is remembered is backed by the provider.
Backed ==
  /\ \A t \in Txn : row[t].status \in {"captured", "refunded"} \/ grants[t] > 0 => Received(t)
  /\ \A p \in Processor : proc[p].pc \in Granting => Received(proc[p].txn)

\* Only an activity with an event records or stores its outcome, and only
\* events that do not capture are recorded.
EventAtHand ==
  \A p \in Processor :
    /\ proc[p].pc \in {"recording", "finishing"} => proc[p].event \in Event
    /\ proc[p].pc = "recording" =>
         proc[p].event.kind \in {"authorized", "failed", "refund"} /\ proc[p].event.txn = proc[p].txn

IInv == TypeOK /\ EventAtHand /\ Backed

----------------------------------------------------------------------------
(* The helpers of the steps.                                               *)

\* The attempts of an event stop at their limit.
LEMMA MinOfTwo ==
  ASSUME NEW a \in Nat, NEW b \in Nat
  PROVE  Min({a, b}) \in {a, b} /\ Min({a, b}) <= a /\ Min({a, b}) <= b
<1>1. \E x \in {a, b} : \A y \in {a, b} : x <= y
  OBVIOUS
<1> QED
  BY <1>1 DEF Min

\* A processor at work has a typed activity, one at rest has no other place.
LEMMA AtWork ==
  ASSUME TypeOK, NEW p \in Processor, proc[p].pc # "idle"
  PROVE  proc[p] \in Busy /\ proc[p] # Idle
BY DEF TypeOK, Idle

Places == {"recording", "fetching", "capturing", "closing", "claiming", "reading", "writing",
           "marking", "finishing"}

ProcOK == proc \in [Processor -> {Idle} \cup Busy] /\ EventAtHand
RowOK ==
  /\ row \in [Txn -> [status : Status, applied : BOOLEAN, claimed : BOOLEAN]]
  /\ \A t \in Txn : row[t].claimed => row[t].status \in {"captured", "refunded"} /\ ~row[t].applied

\* Moving an activity on keeps it typed.
LEMMA GotoTyped ==
  ASSUME TypeOK, EventAtHand, NEW p \in Processor, proc[p].pc # "idle",
         NEW pc \in Places, pc # "recording", pc = "finishing" => proc[p].event \in Event,
         NEW fresh \in BOOLEAN,
         proc' = [proc EXCEPT ![p].pc = pc, ![p].fresh = fresh]
  PROVE  ProcOK'
<1>1. proc[p] \in Busy
  BY AtWork
<1> DEFINE b == [proc[p] EXCEPT !.pc = pc, !.fresh = fresh]
<1>2. b \in Busy /\ b.event = proc[p].event /\ b.pc = pc
  BY <1>1 DEF Busy, Places
<1>3. proc' = [proc EXCEPT ![p] = b]
  BY <1>1 DEF TypeOK
<1> HIDE DEF b
<1>4. \A q \in Processor : proc'[q] = IF q = p THEN b ELSE proc[q]
  BY <1>3 DEF TypeOK
<1>5. proc' \in [Processor -> {Idle} \cup Busy]
  BY <1>2, <1>3 DEF TypeOK
<1> QED
  BY <1>2, <1>4, <1>5 DEF EventAtHand, ProcOK

\* So does its end.
LEMMA DoneTyped ==
  ASSUME TypeOK, EventAtHand, NEW p \in Processor, proc[p].pc # "idle", Done(p)
  PROVE  ProcOK'
<1>1. CASE proc[p].event = None
  <2>1. proc' = [proc EXCEPT ![p] = Idle]
    BY <1>1 DEF Done
  <2>2. \A q \in Processor : proc'[q] = IF q = p THEN Idle ELSE proc[q]
    BY <2>1 DEF TypeOK
  <2>3. proc' \in [Processor -> {Idle} \cup Busy]
    BY <2>1 DEF TypeOK
  <2> QED
    BY <2>2, <2>3 DEF EventAtHand, ProcOK, Idle
<1>2. CASE proc[p].event # None
  <2>1. proc[p].event \in Event
    BY <1>2, AtWork DEF Busy
  <2> QED
    BY <1>2, <2>1, GotoTyped DEF Done, Goto, Places
<1> QED
  BY <1>1, <1>2

\* A status that a row takes is one of the model's, and a claimed row keeps
\* its claim only through a refund.
LEMMA TransitionTyped ==
  ASSUME TypeOK, NEW t \in Txn, NEW from, NEW to \in Status, Transition(t, from, to),
         from \cap {"captured", "refunded"} = {} \/ to \in {"captured", "refunded"}
  PROVE  RowOK'
BY DEF TypeOK, RowOK, Transition

\* Marking and claiming are typed.
LEMMA FlagsTyped ==
  ASSUME TypeOK, NEW t \in Txn, NEW applied \in BOOLEAN, NEW claimed \in BOOLEAN,
         claimed => row[t].status = "captured" /\ ~applied,
         row' = [row EXCEPT ![t].applied = applied, ![t].claimed = claimed]
  PROVE  RowOK'
<1> DEFINE r == [row[t] EXCEPT !.applied = applied, !.claimed = claimed]
<1>1. /\ r \in [status : Status, applied : BOOLEAN, claimed : BOOLEAN]
      /\ r.status = row[t].status /\ r.applied = applied /\ r.claimed = claimed
  <2>1. row[t] \in [status : Status, applied : BOOLEAN, claimed : BOOLEAN]
    BY DEF TypeOK
  <2> QED
    BY <2>1
<1>2. row' = [row EXCEPT ![t] = r]
  BY DEF TypeOK
<1> HIDE DEF r
<1>3. \A u \in Txn : row'[u] = IF u = t THEN r ELSE row[u]
  BY <1>2 DEF TypeOK
<1> QED
  BY <1>1, <1>2, <1>3 DEF TypeOK, RowOK

\* Releasing a claim is typed.
LEMMA ReleaseTyped ==
  ASSUME TypeOK, NEW t \in Txn, row' = ReleaseApply(t)
  PROVE  RowOK'
<1>1. CASE row[t].applied
  BY <1>1 DEF TypeOK, RowOK, ReleaseApply
<1>2. CASE ~row[t].applied
  <2>1. row' = [row EXCEPT ![t].claimed = FALSE]
    BY <1>2 DEF ReleaseApply
  <2>2. row' = [row EXCEPT ![t].applied = row[t].applied, ![t].claimed = FALSE]
    BY <2>1 DEF TypeOK
  <2> QED
    BY <2>2, FlagsTyped DEF TypeOK
<1> QED
  BY <1>1, <1>2

\* The part of TypeOK and EventAtHand about the other variables.
RestOK ==
  /\ paid \in [Txn -> {"unpaid", "authorized", "captured", "mismatched", "refunded"}]
  /\ event \in [Event -> [status : {"undelivered", "received", "processing", "finished", "failed"},
                          attempts : 0..MaxAttempts]]
  /\ sub \in [last : Txn \cup {None}, queued : Txn \cup {None}]
  /\ blocked \in BOOLEAN /\ held \in BOOLEAN /\ grants \in [Txn -> Nat] /\ lapsed \subseteq Txn
  /\ budget \in 0..MaxFaults

\* Types are checked part by part, in this state and in the next.
LEMMA TypeParts == TypeOK /\ EventAtHand <=> RowOK /\ ProcOK /\ RestOK
BY DEF TypeOK, RowOK, ProcOK, RestOK

LEMMA TypeAfter == RowOK' /\ ProcOK' /\ RestOK' => TypeOK' /\ EventAtHand'
BY DEF TypeOK, RowOK, ProcOK, RestOK

\* An activity begins in a typed state.
LEMMA BeginTyped ==
  ASSUME TypeOK, EventAtHand, NEW p \in Processor, NEW pc \in Places,
         NEW job \in {"event", "reconcile", "reapply", "abandon"}, NEW t \in Txn,
         NEW e \in Event \cup {None}, Begin(p, pc, job, t, e),
         pc \in {"recording", "finishing"} => e \in Event,
         pc = "recording" => e.kind \in {"authorized", "failed", "refund"} /\ e.txn = t
  PROVE  ProcOK'
<1> DEFINE b == [pc |-> pc, job |-> job, txn |-> t, event |-> e, fresh |-> FALSE]
<1>1. b \in Busy /\ b.pc = pc /\ b.event = e /\ b.txn = t
  BY DEF Busy, Places
<1>2. proc' = [proc EXCEPT ![p] = b]
  BY DEF Begin
<1> HIDE DEF b
<1>3. \A q \in Processor : proc'[q] = IF q = p THEN b ELSE proc[q]
  BY <1>2 DEF TypeOK
<1>4. proc' \in [Processor -> {Idle} \cup Busy]
  BY <1>1, <1>2 DEF TypeOK
<1> QED
  BY <1>1, <1>3, <1>4 DEF EventAtHand, ProcOK

\* An activity that ends or dies leaves the others.
LEMMA EndTyped ==
  ASSUME TypeOK, EventAtHand, NEW p \in Processor, proc' = [proc EXCEPT ![p] = Idle]
  PROVE  ProcOK'
<1>1. \A q \in Processor : proc'[q] = IF q = p THEN Idle ELSE proc[q]
  BY DEF TypeOK
<1>2. proc' \in [Processor -> {Idle} \cup Busy]
  BY DEF TypeOK
<1> QED
  BY <1>1, <1>2 DEF EventAtHand, ProcOK, Idle

\* A write of the subscription makes every read of it stale.
LEMMA MovedTyped ==
  ASSUME TypeOK, EventAtHand, NEW p, NEW pc, Moved(p, pc),
         p \in Processor => pc \in Places \ {"recording", "finishing"}
  PROVE  ProcOK'
<1>1. \A q \in Processor : proc[q] # Idle => proc[q] \in Busy
  BY DEF TypeOK
<1>2. \A q \in Processor : proc'[q] = IF proc[q] = Idle THEN Idle
          ELSE [proc[q] EXCEPT !.fresh = FALSE, !.pc = IF q = p THEN pc ELSE @]
  BY DEF Moved
<1>3. ASSUME NEW q \in Processor, proc[q] # Idle
      PROVE  /\ proc'[q] \in Busy /\ proc'[q].event = proc[q].event /\ proc'[q].txn = proc[q].txn
             /\ proc'[q].pc = IF q = p THEN pc ELSE proc[q].pc
  <2> DEFINE place == IF q = p THEN pc ELSE proc[q].pc
  <2>1. proc[q] \in Busy /\ place \in Places
    BY <1>1, <1>3 DEF Busy, Places
  <2>2. proc'[q] = [proc[q] EXCEPT !.fresh = FALSE, !.pc = place]
    BY <1>2, <1>3
  <2> HIDE DEF place
  <2>3. [proc[q] EXCEPT !.fresh = FALSE, !.pc = place] \in Busy
    BY <2>1 DEF Busy, Places
  <2> QED
    BY <2>1, <2>2, <2>3 DEF place, Busy
<1>4. proc' \in [Processor -> {Idle} \cup Busy]
  <2>1. \A q \in Processor : proc'[q] \in {Idle} \cup Busy
    BY <1>2, <1>3
  <2>2. proc' = [q \in Processor |-> proc'[q]]
    BY DEF Moved
  <2> QED
    BY <2>1, <2>2, Zenon
<1>5. \A q \in Processor : proc[q] = Idle => proc'[q] = Idle
  BY <1>2, Zenon
<1>6. Idle.pc = "idle"
  BY DEF Idle
<1> QED
  BY <1>3, <1>4, <1>5, <1>6 DEF EventAtHand, ProcOK

----------------------------------------------------------------------------
(* Type correctness.                                                       *)

LEMMA InitTyped == Init => TypeOK /\ EventAtHand
<1> SUFFICES ASSUME Init PROVE TypeOK /\ EventAtHand
  OBVIOUS
<1>1. RowOK
  BY DEF Init, RowOK, Status
<1>2. ProcOK
  BY DEF Init, ProcOK, EventAtHand, Idle
<1>3. RestOK
  <2>1. blocked \in BOOLEAN /\ held \in BOOLEAN /\ lapsed \subseteq Txn
    BY Zenon DEF Init
  <2>2. event \in [Event -> [status : {"undelivered", "received", "processing", "finished", "failed"},
                            attempts : 0..MaxAttempts]]
    BY PaymentsAssumption DEF Init
  <2>3. grants \in [Txn -> Nat] /\ budget \in 0..MaxFaults
    BY PaymentsAssumption DEF Init
  <2> QED
    BY <2>1, <2>2, <2>3 DEF Init, RestOK
<1> QED
  BY <1>1, <1>2, <1>3, TypeParts

\* The beginning of an activity keeps the types.
LEMMA BeginsTyped ==
  ASSUME TypeOK, EventAtHand, NEW p \in Processor,
         \/ \E e \in Event : BeginEvent(p, e)
         \/ \E t \in Txn : BeginReconcile(p, t) \/ BeginReapply(p, t) \/ BeginAbandon(p, t)
  PROVE  TypeOK' /\ EventAtHand'
<1>1. CASE \E e \in Event : BeginEvent(p, e)
  <2>1. PICK e \in Event : BeginEvent(p, e)
    BY <1>1
  <2>2. e.kind \in Kind /\ e.txn \in Txn
    BY PaymentsAssumption
  <2>3. ProcOK'
    <3> DEFINE pc == IF e.kind = "captured" THEN FirstLook(e.txn) ELSE "recording"
    <3>1. Begin(p, pc, "event", e.txn, e)
      BY <2>1 DEF BeginEvent
    <3>2. pc \in Places /\ (pc = "recording" => e.kind \in {"authorized", "failed", "refund"})
      BY <2>2 DEF FirstLook, Places, Kind
    <3> HIDE DEF pc
    <3> QED
      BY <2>2, <3>1, <3>2, BeginTyped
  <2>4. RestOK'
    <3> DEFINE n == Min({event[e].attempts + 1, MaxAttempts})
    <3>1. event[e].attempts \in 0..MaxAttempts /\ MaxAttempts \in Nat
      BY PaymentsAssumption DEF TypeOK
    <3>2. n \in 0..MaxAttempts
      BY <3>1, MinOfTwo
    <3>3. event' = [event EXCEPT ![e] = [status |-> "processing", attempts |-> n]]
      BY <2>1 DEF BeginEvent
    <3> HIDE DEF n
    <3> QED
      BY <2>1, <3>2, <3>3 DEF BeginEvent, TypeOK, RestOK
  <2>5. RowOK'
    BY <2>1 DEF BeginEvent, TypeOK, RowOK
  <2> QED
    BY <2>3, <2>4, <2>5, TypeParts, TypeAfter
<1>2. ASSUME NEW t \in Txn, BeginReconcile(p, t) \/ BeginReapply(p, t) \/ BeginAbandon(p, t)
      PROVE  TypeOK' /\ EventAtHand'
  <2>1. ProcOK'
    BY <1>2, BeginTyped DEF BeginReconcile, BeginReapply, BeginAbandon, Places
  <2>2. RowOK' /\ RestOK'
    BY <1>2 DEF BeginReconcile, BeginReapply, BeginAbandon, TypeOK, RowOK, RestOK
  <2> QED
    BY <2>1, <2>2, TypeParts, TypeAfter
<1> QED
  BY <1>1, <1>2

\* The steps of an activity keep the types.
LEMMA StepTyped ==
  ASSUME TypeOK, EventAtHand, NEW p \in Processor, Step(p)
  PROVE  TypeOK' /\ EventAtHand'
<1> DEFINE t == proc[p].txn
<1>1. CASE Record(p)
  <2>1. proc[p].pc = "recording" /\ proc[p].pc # "idle"
    BY <1>1 DEF Record
  <2>2. t \in Txn
    BY <2>1, AtWork DEF Busy
  <2>3. proc[p].event.kind \in {"authorized", "failed", "refund"}
    BY <2>1 DEF EventAtHand
  <2>4. RowOK'
    <3>1. CASE proc[p].event.kind = "authorized"
      BY <1>1, <2>2, <3>1, TransitionTyped DEF Record, Status
    <3>2. CASE proc[p].event.kind = "failed"
      BY <1>1, <2>2, <3>2, TransitionTyped DEF Record, Status, OPEN_STATUSES
    <3>3. CASE proc[p].event.kind = "refund"
      BY <1>1, <2>2, <3>3, TransitionTyped DEF Record, Status
    <3> QED
      BY <2>3, <3>1, <3>2, <3>3
  <2>5. ProcOK'
    BY <1>1, <2>1, DoneTyped DEF Record
  <2> QED
    BY <1>1, <2>4, <2>5, TypeParts, TypeAfter DEF Record, RestOK
<1>2. CASE Fetch(p)
  <2>1. proc[p].pc = "fetching" /\ proc[p].pc # "idle"
    BY <1>2 DEF Fetch
  <2>2. t \in Txn
    BY <2>1, AtWork DEF Busy
  <2>3. ProcOK'
    <3>1. CASE Done(p)
      BY <2>1, <3>1, DoneTyped
    <3>2. CASE \E pc \in {"capturing", "closing"} : Goto(p, pc)
      BY <2>1, <3>2, GotoTyped DEF Goto, Places
    <3> QED
      BY <1>2, <3>1, <3>2 DEF Fetch
  <2>4. RowOK'
    <3>1. CASE UNCHANGED row
      BY <3>1 DEF TypeOK, RowOK
    <3>2. CASE Transition(t, OPEN_STATUSES, "failed") \/ Transition(t, {"pending"}, "authorized")
      BY <2>2, <3>2, TransitionTyped DEF Status, OPEN_STATUSES
    <3> QED
      BY <1>2, <3>1, <3>2 DEF Fetch
  <2> QED
    BY <1>2, <2>3, <2>4, TypeParts, TypeAfter DEF Fetch, RestOK
<1>3. CASE Close(p)
  <2>1. proc[p].pc = "closing" /\ proc[p].pc # "idle"
    BY <1>3 DEF Close
  <2>2. t \in Txn
    BY <2>1, AtWork DEF Busy
  <2>3. RowOK'
    <3>1. CASE UNCHANGED row
      BY <3>1 DEF TypeOK, RowOK
    <3>2. CASE \E to \in {"expired", "cancelled"} : Transition(t, {"pending"}, to)
      BY <2>2, <3>2, TransitionTyped DEF Status
    <3> QED
      BY <1>3, <3>1, <3>2 DEF Close
  <2>4. ProcOK'
    BY <1>3, <2>1, DoneTyped DEF Close
  <2> QED
    BY <1>3, <2>3, <2>4, TypeParts, TypeAfter DEF Close, RestOK
<1>4. CASE TakeCapture(p)
  <2>1. proc[p].pc = "capturing" /\ proc[p].pc # "idle"
    BY <1>4 DEF TakeCapture
  <2>2. t \in Txn
    BY <2>1, AtWork DEF Busy
  <2>3. RowOK'
    BY <1>4, <2>2, TransitionTyped DEF TakeCapture, Status, CAPTURABLE_STATUSES
  <2>4. ProcOK'
    <3>1. CASE Done(p)
      BY <2>1, <3>1, DoneTyped
    <3>2. CASE Goto(p, "claiming")
      BY <2>1, <3>2, GotoTyped DEF Goto, Places
    <3> QED
      BY <1>4, <3>1, <3>2 DEF TakeCapture
  <2> QED
    BY <1>4, <2>3, <2>4, TypeParts, TypeAfter DEF TakeCapture, RestOK
<1>5. CASE ClaimForApply(p)
  <2>1. proc[p].pc = "claiming" /\ proc[p].pc # "idle"
    BY <1>5 DEF ClaimForApply, Waiting
  <2>2. t \in Txn
    BY <2>1, AtWork DEF Busy
  <2>3. CASE row[t].status = "captured" /\ ~row[t].applied /\ ~row[t].claimed
    <3>1. row' = [row EXCEPT ![t].claimed = TRUE] /\ Goto(p, "reading")
      BY <1>5, <2>3 DEF ClaimForApply, Waiting
    <3>2. row' = [row EXCEPT ![t].applied = row[t].applied, ![t].claimed = TRUE]
      BY <2>2, <3>1 DEF TypeOK
    <3>3. RowOK'
      <4>1. row[t].applied \in BOOLEAN
        BY <2>2 DEF TypeOK
      <4> QED
        BY <2>2, <2>3, <3>2, <4>1, FlagsTyped, Zenon
    <3>4. ProcOK'
      BY <2>1, <3>1, GotoTyped DEF Goto, Places
    <3> QED
      BY <1>5, <3>3, <3>4, TypeParts, TypeAfter DEF ClaimForApply, Waiting, RestOK
  <2>4. CASE ~(row[t].status = "captured" /\ ~row[t].applied /\ ~row[t].claimed)
    <3>1. UNCHANGED row /\ Done(p)
      BY <1>5, <2>4 DEF ClaimForApply, Waiting
    <3>2. ProcOK'
      BY <2>1, <3>1, DoneTyped
    <3> QED
      BY <1>5, <3>1, <3>2, TypeParts, TypeAfter DEF ClaimForApply, Waiting, RestOK, RowOK
  <2> QED
    BY <2>3, <2>4
<1>6. CASE ReadTerm(p)
  <2>1. proc[p].pc = "reading" /\ proc[p].pc # "idle"
    BY <1>6 DEF ReadTerm
  <2>2. t \in Txn
    BY <2>1, AtWork DEF Busy
  <2>3. RowOK'
    BY <1>6, <2>2, ReleaseTyped, TypeParts, TypeAfter DEF ReadTerm, Refused, RowOK
  <2>4. ProcOK'
    <3>1. CASE Refused(p)
      BY <2>1, <3>1, DoneTyped DEF Refused
    <3>2. CASE Goto(p, "marking")
      BY <2>1, <3>2, GotoTyped DEF Goto, Places
    <3>3. CASE proc' = [proc EXCEPT ![p].pc = "writing", ![p].fresh = TRUE]
      BY <2>1, <3>3, GotoTyped DEF Places
    <3> QED
      BY <1>6, <3>1, <3>2, <3>3 DEF ReadTerm
  <2> QED
    BY <1>6, <2>3, <2>4, TypeParts, TypeAfter DEF ReadTerm, RestOK
<1>7. CASE WriteTerm(p)
  <2>1. proc[p].pc = "writing" /\ proc[p].pc # "idle"
    BY <1>7 DEF WriteTerm
  <2>2. t \in Txn
    BY <2>1, AtWork DEF Busy
  <2>3. RowOK'
    BY <1>7, <2>2, ReleaseTyped, TypeParts, TypeAfter DEF WriteTerm, Refused, RowOK
  <2>4. ProcOK'
    <3>1. CASE Refused(p)
      BY <2>1, <3>1, DoneTyped DEF Refused
    <3>2. CASE Goto(p, "marking")
      BY <2>1, <3>2, GotoTyped DEF Goto, Places
    <3>3. CASE Moved(p, "marking")
      BY <3>3, MovedTyped DEF Places
    <3> QED
      BY <1>7, <3>1, <3>2, <3>3 DEF WriteTerm
  <2>5. RestOK'
    <3>1. CASE proc[p].fresh
      <4>1. PICK queued \in {None, sub.queued, t} : sub' = [last |-> t, queued |-> queued]
        BY <1>7, <3>1 DEF WriteTerm
      <4>2. sub' \in [last : Txn \cup {None}, queued : Txn \cup {None}]
        BY <2>2, <4>1 DEF TypeOK
      <4>3. grants' \in [Txn -> Nat]
        BY <1>7, <2>2, <3>1 DEF WriteTerm, TypeOK
      <4> QED
        BY <1>7, <4>2, <4>3 DEF WriteTerm, TypeOK, RestOK
    <3>2. CASE ~proc[p].fresh
      BY <1>7, <3>2 DEF WriteTerm, TypeOK, RestOK
    <3> QED
      BY <3>1, <3>2
  <2> QED
    BY <2>3, <2>4, <2>5, TypeParts, TypeAfter
<1>8. CASE MarkApplied(p)
  <2>1. proc[p].pc = "marking" /\ proc[p].pc # "idle"
    BY <1>8 DEF MarkApplied
  <2>2. t \in Txn
    BY <2>1, AtWork DEF Busy
  <2>3. RowOK'
    <3>1. CASE row[t].status = "captured"
      BY <1>8, <2>2, <3>1, FlagsTyped DEF MarkApplied
    <3>2. CASE row[t].status # "captured"
      BY <1>8, <3>2, TypeParts, TypeAfter DEF MarkApplied, RowOK
    <3> QED
      BY <3>1, <3>2
  <2>4. ProcOK'
    BY <1>8, <2>1, DoneTyped DEF MarkApplied
  <2> QED
    BY <1>8, <2>3, <2>4, TypeParts, TypeAfter DEF MarkApplied, RestOK
<1>9. CASE Finish(p)
  <2>1. proc[p].event \in Event
    BY <1>9 DEF Finish, EventAtHand
  <2>2. RestOK'
    BY <1>9, <2>1 DEF Finish, TypeOK, RestOK
  <2>3. ProcOK'
    BY <1>9, EndTyped DEF Finish
  <2> QED
    BY <1>9, <2>2, <2>3, TypeParts, TypeAfter DEF Finish, RowOK
<1> QED
  BY <1>1, <1>2, <1>3, <1>4, <1>5, <1>6, <1>7, <1>8, <1>9 DEF Step

\* Failures, crashes and the provider keep the types.
LEMMA EnvironmentTyped ==
  ASSUME TypeOK, EventAtHand,
         \/ \E t \in Txn : Checkout(t) \/ ClaimLapses(t)
         \/ \E t \in Txn, to \in {"authorized", "captured", "mismatched", "refunded"} : ProviderMoves(t, to)
         \/ \E e \in Event : Deliver(e) \/ LeaseLapses(e)
         \/ \E p \in Processor : Fail(p) \/ Crash(p)
         \/ OtherWrite \/ StartQueued \/ Hold \/ Lift \/ Suspend \/ Reinstate
  PROVE  TypeOK' /\ EventAtHand'
<1>0. RowOK /\ ProcOK /\ RestOK
  BY TypeParts
<1>1. ASSUME NEW t \in Txn, Checkout(t) PROVE TypeOK' /\ EventAtHand'
  <2>1. Transition(t, {"none"}, "pending")
    BY <1>1 DEF Checkout, Transition
  <2>2. RowOK'
    BY <2>1, TransitionTyped DEF Status
  <2> QED
    BY <1>0, <1>1, <2>2, TypeAfter DEF Checkout, ProcOK, EventAtHand, RestOK
<1>2. ASSUME NEW t \in Txn, ClaimLapses(t) PROVE TypeOK' /\ EventAtHand'
  <2>1. ~row[t].applied
    BY <1>2 DEF ClaimLapses, TypeOK
  <2>2. RowOK'
    BY <1>2, <2>1, ReleaseTyped DEF ClaimLapses, ReleaseApply
  <2>3. budget' \in 0..MaxFaults
    BY <1>2, PaymentsAssumption DEF ClaimLapses, TypeOK
  <2> QED
    BY <1>0, <1>2, <2>2, <2>3, TypeAfter DEF ClaimLapses, ProcOK, EventAtHand, RestOK
<1>3. ASSUME NEW t \in Txn, NEW to \in {"authorized", "captured", "mismatched", "refunded"},
             ProviderMoves(t, to)
      PROVE  TypeOK' /\ EventAtHand'
  <2>1. paid' \in [Txn -> {"unpaid", "authorized", "captured", "mismatched", "refunded"}]
    BY <1>3 DEF ProviderMoves, TypeOK
  <2> QED
    BY <1>0, <1>3, <2>1, TypeAfter DEF ProviderMoves, RowOK, ProcOK, EventAtHand, RestOK
<1>4. ASSUME NEW e \in Event, Deliver(e) \/ LeaseLapses(e) PROVE TypeOK' /\ EventAtHand'
  <2>1. budget' \in 0..MaxFaults
    BY <1>4, PaymentsAssumption DEF Deliver, LeaseLapses, TypeOK
  <2>2. event' \in [Event -> [status : {"undelivered", "received", "processing", "finished", "failed"},
                              attempts : 0..MaxAttempts]]
    BY <1>4 DEF Deliver, LeaseLapses, TypeOK
  <2> QED
    BY <1>0, <1>4, <2>1, <2>2, TypeAfter DEF Deliver, LeaseLapses, RowOK, ProcOK, EventAtHand, RestOK
<1>5. ASSUME NEW p \in Processor, Fail(p) PROVE TypeOK' /\ EventAtHand'
  <2>1. proc[p] \in Busy
    BY <1>5 DEF Fail, TypeOK
  <2>2. proc[p].txn \in Txn /\ proc[p].event \in Event \cup {None}
    BY <2>1 DEF Busy
  <2>3. RowOK'
    BY <1>0, <1>5, <2>2, ReleaseTyped DEF Fail, RowOK
  <2>4. ProcOK'
    BY <1>5, EndTyped DEF Fail
  <2>5. event' \in [Event -> [status : {"undelivered", "received", "processing", "finished", "failed"},
                              attempts : 0..MaxAttempts]]
    <3>1. CASE proc[p].event = None
      BY <1>5, <3>1 DEF Fail, TypeOK
    <3>2. CASE proc[p].event # None
      BY <1>5, <2>2, <3>2 DEF Fail, TypeOK
    <3> QED
      BY <3>1, <3>2
  <2>6. budget' \in 0..MaxFaults
    BY <1>5, PaymentsAssumption DEF Fail, TypeOK
  <2>7. lapsed' \subseteq Txn
    BY <1>5, <2>2 DEF Fail, TypeOK
  <2> QED
    BY <1>0, <1>5, <2>3, <2>4, <2>5, <2>6, <2>7, TypeAfter DEF Fail, RestOK
<1>6. ASSUME NEW p \in Processor, Crash(p) PROVE TypeOK' /\ EventAtHand'
  <2>1. ProcOK'
    BY <1>6, EndTyped DEF Crash
  <2>2. budget' \in 0..MaxFaults
    BY <1>6, PaymentsAssumption DEF Crash, TypeOK
  <2> QED
    BY <1>0, <1>6, <2>1, <2>2, TypeAfter DEF Crash, RowOK, RestOK
<1>7. CASE OtherWrite \/ StartQueued \/ Hold \/ Lift
  <2>1. ProcOK'
    BY <1>7, PaymentsAssumption, MovedTyped DEF OtherWrite, StartQueued, Hold, Lift
  <2>2. budget' \in 0..MaxFaults
    BY <1>7, PaymentsAssumption DEF OtherWrite, StartQueued, Hold, Lift, TypeOK
  <2>3. sub' \in [last : Txn \cup {None}, queued : Txn \cup {None}]
    BY <1>7 DEF OtherWrite, StartQueued, Hold, Lift, TypeOK
  <2>4. held' \in BOOLEAN
    <3>1. held \in BOOLEAN
      BY DEF TypeOK
    <3> QED
      BY <1>7, <3>1, Zenon DEF OtherWrite, StartQueued, Hold, Lift
  <2> QED
    BY <1>0, <1>7, <2>1, <2>2, <2>3, <2>4, TypeAfter DEF OtherWrite, StartQueued, Hold, Lift, RowOK, RestOK
<1>8. CASE Suspend \/ Reinstate
  <2>1. budget' \in 0..MaxFaults
    BY <1>8, PaymentsAssumption DEF Suspend, Reinstate, TypeOK
  <2>2. blocked' \in BOOLEAN
    BY <1>8, Zenon DEF Suspend, Reinstate
  <2> QED
    BY <1>0, <1>8, <2>1, <2>2, TypeAfter DEF Suspend, Reinstate, RowOK, ProcOK, EventAtHand, RestOK
<1> QED
  BY <1>1, <1>2, <1>3, <1>4, <1>5, <1>6, <1>7, <1>8

\* Every step keeps the types and the events at hand.
LEMMA NextTyped == TypeOK /\ EventAtHand /\ [Next]_vars => TypeOK' /\ EventAtHand'
<1> SUFFICES ASSUME TypeOK, EventAtHand, [Next]_vars PROVE TypeOK' /\ EventAtHand'
  OBVIOUS
<1>1. CASE Next
  BY <1>1, BeginsTyped, StepTyped, EnvironmentTyped DEF Next
<1>2. CASE UNCHANGED vars
  BY <1>2 DEF vars, TypeOK, EventAtHand
<1> QED
  BY <1>1, <1>2

\* The rows, events, claims and activities stay within their types; a claim
\* is held only on a captured or refunded row whose term is not marked applied.
THEOREM TypeInvariant == Spec => []TypeOK
<1>1. Spec => [](TypeOK /\ EventAtHand)
  BY InitTyped, NextTyped, PTL DEF Spec
<1> QED
  BY <1>1, PTL

----------------------------------------------------------------------------
(* Money before terms.                                                     *)

LEMMA InitBacked == Init => Backed
BY PaymentsAssumption DEF Init, Backed, Granting, Idle

\* A step that leaves the provider alone remembers only captures it knew of,
\* or asked the provider about.
RowsKnown == \A t \in Txn : row'[t].status \in {"captured", "refunded"} => Received(t)
TermsKnown == \A t \in Txn : grants'[t] > 0 => Received(t)
WorkKnown == \A q \in Processor : proc'[q].pc \in Granting => Received(proc'[q].txn)

LEMMA KnownIsBacked ==
  ASSUME UNCHANGED paid, RowsKnown, TermsKnown, WorkKnown
  PROVE  Backed'
BY DEF Backed, Received, RowsKnown, TermsKnown, WorkKnown

\* What does not change was known before.
LEMMA UnchangedKnown ==
  ASSUME Backed
  PROVE  (row' = row => RowsKnown) /\ (grants' = grants => TermsKnown) /\ (proc' = proc => WorkKnown)
BY DEF Backed, RowsKnown, TermsKnown, WorkKnown

\* A row becomes captured or refunded only where the money is known.
LEMMA TransitionKnown ==
  ASSUME TypeOK, Backed, NEW t \in Txn, NEW from, NEW to, Transition(t, from, to),
         to \in {"captured", "refunded"} => from \subseteq {"captured", "refunded"} \/ Received(t)
  PROVE  RowsKnown
BY DEF TypeOK, Backed, RowsKnown, Transition

\* Releasing a claim moves no status.
LEMMA ReleaseKnown ==
  ASSUME TypeOK, Backed, NEW t \in Txn, row' = ReleaseApply(t)
  PROVE  RowsKnown
BY DEF TypeOK, Backed, RowsKnown, ReleaseApply

\* An activity that moves on keeps its transaction.
LEMMA GotoKnown ==
  ASSUME TypeOK, Backed, NEW p \in Processor, proc[p].pc # "idle", NEW pc, NEW fresh,
         proc' = [proc EXCEPT ![p].pc = pc, ![p].fresh = fresh],
         pc \in Granting => proc[p].pc \in Granting \/ Received(proc[p].txn)
  PROVE  WorkKnown
<1>1. proc[p] \in Busy
  BY AtWork
<1> DEFINE b == [proc[p] EXCEPT !.pc = pc, !.fresh = fresh]
<1>2. b.txn = proc[p].txn /\ b.pc = pc
  BY <1>1 DEF Busy
<1>3. proc' = [proc EXCEPT ![p] = b]
  BY <1>1 DEF TypeOK
<1> HIDE DEF b
<1>4. \A q \in Processor : proc'[q] = IF q = p THEN b ELSE proc[q]
  BY <1>3 DEF TypeOK
<1> QED
  BY <1>2, <1>4 DEF Backed, WorkKnown

\* One that ends grants nothing any more.
LEMMA EndKnown ==
  ASSUME TypeOK, Backed, NEW p \in Processor, proc' = [proc EXCEPT ![p] = Idle]
  PROVE  WorkKnown
<1>1. \A q \in Processor : proc'[q] = IF q = p THEN Idle ELSE proc[q]
  BY DEF TypeOK
<1> QED
  BY <1>1 DEF Backed, WorkKnown, Granting, Idle

LEMMA DoneKnown ==
  ASSUME TypeOK, Backed, NEW p \in Processor, proc[p].pc # "idle", Done(p)
  PROVE  WorkKnown
BY EndKnown, GotoKnown DEF Done, Goto, Granting

\* One that begins past the provider's answer begins from a captured row.
LEMMA BeginKnown ==
  ASSUME TypeOK, Backed, NEW p \in Processor, NEW pc, NEW job, NEW t \in Txn, NEW e,
         Begin(p, pc, job, t, e), pc \in Granting => row[t].status = "captured"
  PROVE  WorkKnown
<1> DEFINE b == [pc |-> pc, job |-> job, txn |-> t, event |-> e, fresh |-> FALSE]
<1>1. b.pc = pc /\ b.txn = t
  BY DEF b
<1>2. proc' = [proc EXCEPT ![p] = b]
  BY DEF Begin
<1> HIDE DEF b
<1>3. \A q \in Processor : proc'[q] = IF q = p THEN b ELSE proc[q]
  BY <1>2 DEF TypeOK
<1> QED
  BY <1>1, <1>3 DEF Backed, WorkKnown

\* A write of the subscription moves at most its writer, who was granting.
LEMMA MovedKnown ==
  ASSUME TypeOK, Backed, NEW p, NEW pc, Moved(p, pc), p \in Processor => proc[p].pc \in Granting
  PROVE  WorkKnown
<1>1. SUFFICES ASSUME NEW q \in Processor, proc'[q].pc \in Granting PROVE Received(proc'[q].txn)
  BY DEF WorkKnown
<1>2. proc'[q] = IF proc[q] = Idle THEN Idle
                 ELSE [proc[q] EXCEPT !.fresh = FALSE, !.pc = IF q = p THEN pc ELSE @]
  BY DEF Moved
<1>3. proc[q] # Idle
  BY <1>1, <1>2 DEF Granting, Idle
<1>4. proc[q] \in Busy
  BY <1>3 DEF TypeOK
<1> DEFINE place == IF q = p THEN pc ELSE proc[q].pc
<1>5. proc'[q] = [proc[q] EXCEPT !.fresh = FALSE, !.pc = place]
  BY <1>2, <1>3
<1> HIDE DEF place
<1>6. proc'[q].txn = proc[q].txn /\ proc'[q].pc = place
  BY <1>4, <1>5 DEF Busy
<1>7. proc[q].pc \in Granting
  BY <1>1, <1>6 DEF place
<1> QED
  BY <1>6, <1>7 DEF Backed

\* The money and the work that rests on it stay together in every step.
LEMMA StepBacked ==
  ASSUME TypeOK, EventAtHand, Backed, NEW p \in Processor, Step(p)
  PROVE  Backed'
<1> DEFINE t == proc[p].txn
<1>0. /\ proc[p].pc # "idle" => t \in Txn
      /\ proc[p].pc \in Granting => Received(t)
  BY AtWork DEF Busy, Backed
<1>1. CASE Record(p)
  <2>1. proc[p].pc = "recording" /\ t \in Txn
    BY <1>0, <1>1 DEF Record
  <2>2. proc[p].event.kind \in {"authorized", "failed", "refund"}
    BY <2>1 DEF EventAtHand
  <2>3. RowsKnown
    <3>1. CASE proc[p].event.kind = "authorized"
      BY <1>1, <2>1, <3>1, TransitionKnown DEF Record
    <3>2. CASE proc[p].event.kind = "failed"
      BY <1>1, <2>1, <3>2, TransitionKnown DEF Record
    <3>3. CASE proc[p].event.kind = "refund"
      BY <1>1, <2>1, <3>3, TransitionKnown DEF Record
    <3> QED
      BY <2>2, <3>1, <3>2, <3>3
  <2> QED
    BY <1>1, <2>1, <2>3, DoneKnown, UnchangedKnown, KnownIsBacked DEF Record
<1>2. CASE Fetch(p)
  <2>1. proc[p].pc = "fetching" /\ t \in Txn
    BY <1>0, <1>2 DEF Fetch
  <2>2. RowsKnown
    <3>1. CASE UNCHANGED row
      BY <3>1, UnchangedKnown
    <3>2. CASE Transition(t, OPEN_STATUSES, "failed") \/ Transition(t, {"pending"}, "authorized")
      BY <2>1, <3>2, TransitionKnown
    <3> QED
      BY <1>2, <3>1, <3>2 DEF Fetch
  <2>3. WorkKnown
    <3>1. CASE Done(p)
      BY <2>1, <3>1, DoneKnown
    <3>2. CASE Goto(p, "capturing") /\ paid[t] = "captured"
      BY <2>1, <3>2, GotoKnown DEF Goto, Received
    <3>3. CASE Goto(p, "closing")
      BY <2>1, <3>3, GotoKnown DEF Goto, Granting
    <3> QED
      BY <1>2, <3>1, <3>2, <3>3 DEF Fetch
  <2> QED
    BY <1>2, <2>2, <2>3, UnchangedKnown, KnownIsBacked DEF Fetch
<1>3. CASE Close(p)
  <2>1. proc[p].pc = "closing" /\ t \in Txn
    BY <1>0, <1>3 DEF Close
  <2>2. RowsKnown
    <3>1. CASE UNCHANGED row
      BY <3>1, UnchangedKnown
    <3>2. CASE \E to \in {"expired", "cancelled"} : Transition(t, {"pending"}, to)
      BY <2>1, <3>2, TransitionKnown
    <3> QED
      BY <1>3, <3>1, <3>2 DEF Close
  <2> QED
    BY <1>3, <2>1, <2>2, DoneKnown, UnchangedKnown, KnownIsBacked DEF Close
<1>4. CASE TakeCapture(p)
  <2>1. proc[p].pc = "capturing" /\ t \in Txn /\ Received(t)
    BY <1>0, <1>4 DEF TakeCapture, Granting
  <2>2. RowsKnown
    BY <1>4, <2>1, TransitionKnown DEF TakeCapture
  <2>3. WorkKnown
    BY <1>4, <2>1, DoneKnown, GotoKnown DEF TakeCapture, Goto
  <2> QED
    BY <1>4, <2>2, <2>3, UnchangedKnown, KnownIsBacked DEF TakeCapture
<1>5. CASE ClaimForApply(p)
  <2>1. proc[p].pc = "claiming" /\ t \in Txn /\ Received(t)
    BY <1>0, <1>5 DEF ClaimForApply, Waiting, Granting
  <2>2. RowsKnown
    BY <1>5, <2>1 DEF ClaimForApply, Waiting, TypeOK, Backed, RowsKnown
  <2>3. WorkKnown
    BY <1>5, <2>1, DoneKnown, GotoKnown DEF ClaimForApply, Waiting, Goto
  <2> QED
    BY <1>5, <2>2, <2>3, UnchangedKnown, KnownIsBacked DEF ClaimForApply, Waiting
<1>6. CASE ReadTerm(p)
  <2>1. proc[p].pc = "reading" /\ t \in Txn /\ Received(t)
    BY <1>0, <1>6 DEF ReadTerm, Granting
  <2>2. RowsKnown
    BY <1>6, <2>1, ReleaseKnown, UnchangedKnown DEF ReadTerm, Refused
  <2>3. WorkKnown
    <3>1. CASE Refused(p)
      BY <2>1, <3>1, DoneKnown DEF Refused
    <3>2. CASE Goto(p, "marking")
      BY <2>1, <3>2, GotoKnown DEF Goto
    <3>3. CASE proc' = [proc EXCEPT ![p].pc = "writing", ![p].fresh = TRUE]
      BY <2>1, <3>3, GotoKnown
    <3> QED
      BY <1>6, <3>1, <3>2, <3>3 DEF ReadTerm
  <2> QED
    BY <1>6, <2>2, <2>3, UnchangedKnown, KnownIsBacked DEF ReadTerm
<1>7. CASE WriteTerm(p)
  <2>1. proc[p].pc = "writing" /\ t \in Txn /\ Received(t)
    BY <1>0, <1>7 DEF WriteTerm, Granting
  <2>2. RowsKnown
    BY <1>7, <2>1, ReleaseKnown, UnchangedKnown DEF WriteTerm, Refused
  <2>3. WorkKnown
    <3>1. CASE Refused(p)
      BY <2>1, <3>1, DoneKnown DEF Refused
    <3>2. CASE Goto(p, "marking")
      BY <2>1, <3>2, GotoKnown DEF Goto
    <3>3. CASE Moved(p, "marking")
      BY <2>1, <3>3, MovedKnown DEF Granting
    <3> QED
      BY <1>7, <3>1, <3>2, <3>3 DEF WriteTerm
  <2>4. TermsKnown
    <3>1. CASE grants' = grants
      BY <3>1, UnchangedKnown
    <3>2. CASE grants' = [grants EXCEPT ![t] = @ + 1]
      BY <2>1, <3>2 DEF TypeOK, Backed, TermsKnown
    <3> QED
      BY <1>7, <3>1, <3>2 DEF WriteTerm
  <2> QED
    BY <1>7, <2>2, <2>3, <2>4, KnownIsBacked DEF WriteTerm
<1>8. CASE MarkApplied(p)
  <2>1. proc[p].pc = "marking" /\ t \in Txn /\ Received(t)
    BY <1>0, <1>8 DEF MarkApplied, Granting
  <2>2. RowsKnown
    BY <1>8, <2>1 DEF MarkApplied, TypeOK, Backed, RowsKnown
  <2> QED
    BY <1>8, <2>1, <2>2, DoneKnown, UnchangedKnown, KnownIsBacked DEF MarkApplied
<1>9. CASE Finish(p)
  BY <1>9, EndKnown, UnchangedKnown, KnownIsBacked DEF Finish
<1> QED
  BY <1>1, <1>2, <1>3, <1>4, <1>5, <1>6, <1>7, <1>8, <1>9 DEF Step

\* And in the steps of everything else.
LEMMA NextBacked == TypeOK /\ EventAtHand /\ Backed /\ [Next]_vars => Backed'
<1> SUFFICES ASSUME TypeOK, EventAtHand, Backed, [Next]_vars PROVE Backed'
  OBVIOUS
<1>1. ASSUME NEW t \in Txn, Checkout(t) PROVE Backed'
  <2>1. Transition(t, {"none"}, "pending")
    BY <1>1 DEF Checkout, Transition
  <2> QED
    BY <1>1, <2>1, TransitionKnown, UnchangedKnown, KnownIsBacked DEF Checkout
<1>2. ASSUME NEW t \in Txn, ClaimLapses(t) PROVE Backed'
  <2>1. RowsKnown
    BY <1>2 DEF ClaimLapses, TypeOK, Backed, RowsKnown
  <2> QED
    BY <1>2, <2>1, UnchangedKnown, KnownIsBacked DEF ClaimLapses
<1>3. ASSUME NEW t \in Txn, NEW to \in {"authorized", "captured", "mismatched", "refunded"},
             ProviderMoves(t, to)
      PROVE  Backed'
  <2>1. \A u \in Txn : Received(u) => Received(u)'
    BY <1>3 DEF ProviderMoves, TypeOK, Received
  <2>2. \A q \in Processor : proc[q].pc \in Granting => proc[q].txn \in Txn
    BY AtWork DEF Busy, Granting
  <2> QED
    BY <1>3, <2>1, <2>2 DEF ProviderMoves, Backed
<1>4. ASSUME NEW e \in Event, Deliver(e) \/ LeaseLapses(e) PROVE Backed'
  BY <1>4, UnchangedKnown, KnownIsBacked DEF Deliver, LeaseLapses
<1>5. ASSUME NEW p \in Processor, NEW e \in Event, BeginEvent(p, e) PROVE Backed'
  <2> DEFINE pc == IF e.kind = "captured" THEN FirstLook(e.txn) ELSE "recording"
  <2>1. e.txn \in Txn
    BY PaymentsAssumption
  <2>2. Begin(p, pc, "event", e.txn, e)
    BY <1>5 DEF BeginEvent
  <2>3. pc \in Granting => row[e.txn].status = "captured"
    BY DEF FirstLook, Granting
  <2> HIDE DEF pc
  <2>4. WorkKnown
    BY <2>1, <2>2, <2>3, BeginKnown
  <2> QED
    BY <1>5, <2>4, UnchangedKnown, KnownIsBacked DEF BeginEvent
<1>6. ASSUME NEW p \in Processor, NEW t \in Txn,
             BeginReconcile(p, t) \/ BeginReapply(p, t) \/ BeginAbandon(p, t)
      PROVE  Backed'
  <2>1. WorkKnown
    <3>1. CASE BeginReapply(p, t)
      <4>1. row[t].status = "captured" /\ Begin(p, "claiming", "reapply", t, None)
        BY <3>1 DEF BeginReapply, Waiting
      <4> QED
        BY <4>1, BeginKnown
    <3>2. CASE \E job \in {"reconcile", "abandon"} : Begin(p, "fetching", job, t, None)
      BY <3>2, BeginKnown DEF Granting
    <3> QED
      BY <1>6, <3>1, <3>2 DEF BeginReconcile, BeginAbandon
  <2> QED
    BY <1>6, <2>1, UnchangedKnown, KnownIsBacked DEF BeginReconcile, BeginReapply, BeginAbandon
<1>7. ASSUME NEW p \in Processor, Fail(p) \/ Crash(p) PROVE Backed'
  <2>1. proc[p].txn \in Txn
    BY <1>7 DEF Fail, Crash, TypeOK, Busy
  <2>2. RowsKnown
    BY <1>7, <2>1, ReleaseKnown, UnchangedKnown DEF Fail, Crash
  <2> QED
    BY <1>7, <2>2, EndKnown, UnchangedKnown, KnownIsBacked DEF Fail, Crash
<1>8. CASE OtherWrite \/ StartQueued \/ Hold \/ Lift
  BY <1>8, PaymentsAssumption, MovedKnown, UnchangedKnown, KnownIsBacked DEF OtherWrite, StartQueued, Hold, Lift
<1>9. CASE Suspend \/ Reinstate \/ UNCHANGED vars
  BY <1>9, UnchangedKnown, KnownIsBacked DEF Suspend, Reinstate, vars
<1> QED
  BY <1>1, <1>2, <1>3, <1>4, <1>5, <1>6, <1>7, <1>8, <1>9, StepBacked DEF Next

\* A term is granted only for money the provider captured in the amount of the
\* order: whatever the events say, in whatever order they arrive and however
\* often they are processed, an activity comes to grant only from a captured
\* row or the provider's own answer.
THEOREM PaidBeforeGranted == Spec => []GrantedWasPaid
<1>1. Init => IInv
  BY InitTyped, InitBacked DEF IInv
<1>2. IInv /\ [Next]_vars => IInv'
  BY NextTyped, NextBacked DEF IInv
<1>3. IInv => GrantedWasPaid
  BY DEF IInv, Backed, Received, GrantedWasPaid
<1> QED
  BY <1>1, <1>2, <1>3, PTL DEF Spec

----------------------------------------------------------------------------
(* One term per payment.                                                   *)

Applying == {"reading", "writing", "marking"}

\* While no apply claim of `t` lapsed, the claim has one holder, and a term
\* that was granted is marked, or its claim is still there.
SoloAt(t) ==
  /\ \A p \in Processor : Applies(p, t) => row[t].claimed /\ (grants[t] > 0 => proc[p].pc = "marking")
  /\ \A p, q \in Processor : Applies(p, t) /\ Applies(q, t) => p = q
  /\ grants[t] > 0 => grants[t] = 1 /\ (row[t].applied \/ row[t].claimed)
Solo == \A t \in Txn : t \notin lapsed => SoloAt(t)

\* The subscription names only granted transactions, and one that was granted
\* as long as there is no other; a fresh read named another than its reader's.
Rival(t) == \E u \in Txn \ {t} : grants[u] > 0
Remembered ==
  /\ \A t \in Txn : grants[t] > 0 => sub.last = t \/ Rival(t)
  /\ \A t \in Txn : grants[t] > 1 => Rival(t)
  /\ sub.last # None => grants[sub.last] > 0
  /\ sub.queued # None => grants[sub.queued] > 0
  /\ \A p \in Processor : proc[p].pc = "writing" /\ proc[p].fresh => sub.last # proc[p].txn

\* Who applies is told by the place and the transaction of the activity.
LEMMA AppliesIs ==
  \A q \in Processor, u \in Txn :
    /\ Applies(q, u) <=> proc[q].txn = u /\ proc[q].pc \in Applying
    /\ Applies(q, u)' <=> proc'[q].txn = u /\ proc'[q].pc \in Applying
BY DEF Applies, Idle, Applying

\* Only the activity of `p` moves.
Others(p) == \A q \in Processor \ {p} : proc'[q] = proc[q]

\* It moves to where it does not apply.
Away(p) == Others(p) /\ proc'[p].pc \notin Applying

\* It moves on with its transaction.
Onto(p, pc, fresh) ==
  Others(p) /\ proc'[p].txn = proc[p].txn /\ proc'[p].pc = pc /\ proc'[p].fresh = fresh

LEMMA GotoOnto ==
  ASSUME TypeOK, NEW p \in Processor, proc[p].pc # "idle", NEW pc, NEW fresh,
         proc' = [proc EXCEPT ![p].pc = pc, ![p].fresh = fresh]
  PROVE  Onto(p, pc, fresh)
<1>1. proc[p] \in Busy
  BY AtWork
<1> DEFINE b == [proc[p] EXCEPT !.pc = pc, !.fresh = fresh]
<1>2. b.txn = proc[p].txn /\ b.pc = pc /\ b.fresh = fresh
  BY <1>1 DEF Busy
<1>3. proc' = [proc EXCEPT ![p] = b]
  BY <1>1 DEF TypeOK
<1> HIDE DEF b
<1>4. \A q \in Processor : proc'[q] = IF q = p THEN b ELSE proc[q]
  BY <1>3 DEF TypeOK
<1> QED
  BY <1>2, <1>4 DEF Onto, Others

LEMMA EndAway ==
  ASSUME TypeOK, NEW p \in Processor, proc' = [proc EXCEPT ![p] = Idle]
  PROVE  Away(p)
<1>1. \A q \in Processor : proc'[q] = IF q = p THEN Idle ELSE proc[q]
  BY DEF TypeOK
<1> QED
  BY <1>1 DEF Away, Others, Applying, Idle

LEMMA DoneAway ==
  ASSUME TypeOK, NEW p \in Processor, proc[p].pc # "idle", Done(p)
  PROVE  Away(p)
<1>1. CASE proc' = [proc EXCEPT ![p] = Idle]
  BY <1>1, EndAway
<1>2. CASE Goto(p, "finishing")
  <2>1. Onto(p, "finishing", FALSE)
    BY <1>2, GotoOnto DEF Goto
  <2> QED
    BY <2>1 DEF Onto, Away, Applying
<1> QED
  BY <1>1, <1>2 DEF Done

LEMMA BeginAway ==
  ASSUME TypeOK, NEW p \in Processor, NEW pc, NEW job, NEW t, NEW e, Begin(p, pc, job, t, e),
         pc \notin Applying
  PROVE  Away(p)
<1> DEFINE b == [pc |-> pc, job |-> job, txn |-> t, event |-> e, fresh |-> FALSE]
<1>1. b.pc = pc
  OBVIOUS
<1>2. proc' = [proc EXCEPT ![p] = b]
  BY DEF Begin
<1> HIDE DEF b
<1>3. \A q \in Processor : proc'[q] = IF q = p THEN b ELSE proc[q]
  BY <1>2 DEF TypeOK
<1> QED
  BY <1>1, <1>3 DEF Away, Others

\* A write of the subscription moves only its writer, and no read stays fresh.
LEMMA MovedAt ==
  ASSUME TypeOK, NEW p, NEW pc, Moved(p, pc), p \in Processor => proc[p].pc # "idle"
  PROVE  \A q \in Processor :
           /\ proc'[q].pc = IF q = p THEN pc ELSE proc[q].pc
           /\ proc'[q].pc \in Applying => proc'[q].txn = proc[q].txn /\ ~proc'[q].fresh
<1> SUFFICES ASSUME NEW q \in Processor
             PROVE  /\ proc'[q].pc = IF q = p THEN pc ELSE proc[q].pc
                    /\ proc'[q].pc \in Applying => proc'[q].txn = proc[q].txn /\ ~proc'[q].fresh
  OBVIOUS
<1>1. proc'[q] = IF proc[q] = Idle THEN Idle
                 ELSE [proc[q] EXCEPT !.fresh = FALSE, !.pc = IF q = p THEN pc ELSE @]
  BY DEF Moved
<1>2. CASE proc[q] = Idle
  <2>1. proc'[q] = Idle /\ q # p
    BY <1>1, <1>2 DEF Idle
  <2> QED
    BY <1>2, <2>1 DEF Idle, Applying
<1>3. CASE proc[q] # Idle
  <2>1. proc[q] \in Busy
    BY <1>3 DEF TypeOK
  <2> DEFINE place == IF q = p THEN pc ELSE proc[q].pc
  <2>2. proc'[q] = [proc[q] EXCEPT !.fresh = FALSE, !.pc = place]
    BY <1>1, <1>3
  <2> HIDE DEF place
  <2>3. proc'[q].txn = proc[q].txn /\ proc'[q].pc = place /\ proc'[q].fresh = FALSE
    BY <2>1, <2>2 DEF Busy
  <2> QED
    BY <2>3 DEF place
<1> QED
  BY <1>2, <1>3

\* The claim and the mark of a row, and the terms granted for it.
Same(u) ==
  row'[u].claimed = row[u].claimed /\ row'[u].applied = row[u].applied /\ grants'[u] = grants[u]

LEMMA TransitionSame ==
  ASSUME TypeOK, NEW t \in Txn, NEW from, NEW to, Transition(t, from, to), UNCHANGED grants
  PROVE  \A u \in Txn : Same(u)
BY DEF TypeOK, Transition, Same

LEMMA RowSame == row' = row /\ grants' = grants => \A u \in Txn : Same(u)
BY DEF Same

\* A transaction nobody newly applies, and nobody moves back from marking,
\* keeps its one holder.
LEMMA SoloKeptAt ==
  ASSUME NEW u \in Txn, SoloAt(u), Same(u),
         \A q \in Processor : Applies(q, u)' =>
           Applies(q, u) /\ (proc[q].pc = "marking" => proc'[q].pc = "marking")
  PROVE  SoloAt(u)'
BY DEF SoloAt, Same

LEMMA AwaySolo ==
  ASSUME NEW p \in Processor, Away(p), NEW u \in Txn, SoloAt(u), Same(u)
  PROVE  SoloAt(u)'
<1>1. \A q \in Processor : Applies(q, u)' => Applies(q, u) /\ proc'[q].pc = proc[q].pc
  BY AppliesIs DEF Away, Others
<1> QED
  BY <1>1, SoloKeptAt

LEMMA StillSolo ==
  ASSUME proc' = proc, NEW u \in Txn, SoloAt(u), Same(u)
  PROVE  SoloAt(u)'
<1>1. \A q \in Processor : Applies(q, u)' => Applies(q, u) /\ proc'[q].pc = proc[q].pc
  BY AppliesIs
<1> QED
  BY <1>1, SoloKeptAt

\* A holder that gives its claim back before the write leaves nothing behind.
LEMMA ReleaseSolo ==
  ASSUME TypeOK, NEW p \in Processor, NEW t \in Txn, Applies(p, t), proc[p].pc # "marking",
         Away(p), row' = ReleaseApply(t), UNCHANGED grants, NEW u \in Txn, SoloAt(u)
  PROVE  SoloAt(u)'
<1>1. CASE u = t
  <2>1. \A q \in Processor : Applies(q, u)' => q # p /\ Applies(q, u)
    BY AppliesIs DEF Away, Others
  <2>2. \A q \in Processor : ~Applies(q, u)'
    BY <1>1, <2>1 DEF SoloAt
  <2>3. ~(grants[u] > 0)
    BY <1>1 DEF SoloAt
  <2>4. ~(grants'[u] > 0)
    BY <2>3
  <2> QED
    BY <2>2, <2>4 DEF SoloAt
<1>2. CASE u # t
  <2>1. Same(u)
    BY <1>2 DEF ReleaseApply, Same, TypeOK
  <2> QED
    BY <2>1, AwaySolo
<1> QED
  BY <1>1, <1>2

\* The steps of an activity keep one holder per claim.
LEMMA StepSolo ==
  ASSUME TypeOK, EventAtHand, Solo, NEW p \in Processor, Step(p), NEW u \in Txn, u \notin lapsed'
  PROVE  SoloAt(u)'
<1> DEFINE t == proc[p].txn
<1>0. SoloAt(u)
  BY DEF Solo, Step, Record, Fetch, Close, TakeCapture, ClaimForApply, ReadTerm, WriteTerm, MarkApplied, Finish
<1>a. proc[p].pc # "idle" => t \in Txn
  BY AtWork DEF Busy
<1>1. CASE Record(p)
  <2>1. proc[p].pc # "idle" /\ Away(p)
    BY <1>1, DoneAway DEF Record
  <2>2. Same(u)
    <3>1. row' = row \/ \E from, to : Transition(t, from, to)
      <4>1. proc[p].event.kind = "authorized" => Transition(t, {"pending"}, "authorized")
        BY <1>1 DEF Record
      <4>2. proc[p].event.kind = "failed" => Transition(t, OPEN_STATUSES, "failed")
        BY <1>1 DEF Record
      <4>3. proc[p].event.kind = "refund" => Transition(t, {"captured"}, "refunded")
        BY <1>1 DEF Record
      <4>4. proc[p].event.kind \in {"authorized", "failed", "refund"}
        BY <1>1 DEF Record, EventAtHand
      <4> QED
        BY <4>1, <4>2, <4>3, <4>4, Zenon
    <3> QED
      BY <1>a, <1>1, <2>1, <3>1, TransitionSame, RowSame DEF Record
  <2> QED
    BY <1>0, <2>1, <2>2, AwaySolo
<1>2. CASE Fetch(p)
  <2>1. proc[p].pc # "idle"
    BY <1>2 DEF Fetch
  <2>2. Away(p)
    <3>1. CASE Done(p)
      BY <2>1, <3>1, DoneAway
    <3>2. CASE \E pc \in {"capturing", "closing"} : Goto(p, pc)
      <4>1. \E pc \in {"capturing", "closing"} : Onto(p, pc, FALSE)
        BY <2>1, <3>2, GotoOnto DEF Goto
      <4> QED
        BY <4>1 DEF Onto, Away, Applying
    <3> QED
      BY <1>2, <3>1, <3>2 DEF Fetch
  <2>3. Same(u)
    <3>1. row' = row \/ Transition(t, OPEN_STATUSES, "failed") \/ Transition(t, {"pending"}, "authorized")
      BY <1>2 DEF Fetch
    <3> QED
      BY <1>a, <1>2, <2>1, <3>1, TransitionSame, RowSame DEF Fetch
  <2> QED
    BY <1>0, <2>2, <2>3, AwaySolo
<1>3. CASE Close(p)
  <2>1. proc[p].pc # "idle" /\ Away(p)
    BY <1>3, DoneAway DEF Close
  <2>2. Same(u)
    <3>1. row' = row \/ Transition(t, {"pending"}, "expired") \/ Transition(t, {"pending"}, "cancelled")
      BY <1>3 DEF Close
    <3> QED
      BY <1>a, <1>3, <2>1, <3>1, TransitionSame, RowSame DEF Close
  <2> QED
    BY <1>0, <2>1, <2>2, AwaySolo
<1>4. CASE TakeCapture(p)
  <2>1. proc[p].pc # "idle" /\ Transition(t, CAPTURABLE_STATUSES, "captured") /\ UNCHANGED grants
    BY <1>4 DEF TakeCapture
  <2>2. Away(p)
    <3>1. CASE Done(p)
      BY <2>1, <3>1, DoneAway
    <3>2. CASE Goto(p, "claiming")
      <4>1. Onto(p, "claiming", FALSE)
        BY <2>1, <3>2, GotoOnto DEF Goto
      <4> QED
        BY <4>1 DEF Onto, Away, Applying
    <3> QED
      BY <1>4, <3>1, <3>2 DEF TakeCapture
  <2> QED
    BY <1>0, <1>a, <2>1, <2>2, TransitionSame, AwaySolo
<1>5. CASE ClaimForApply(p)
  <2>1. proc[p].pc = "claiming" /\ t \in Txn /\ UNCHANGED grants
    BY <1>a, <1>5 DEF ClaimForApply, Waiting
  <2>2. CASE row[t].status = "captured" /\ ~row[t].applied /\ ~row[t].claimed
    <3>1. row' = [row EXCEPT ![t].claimed = TRUE] /\ Onto(p, "reading", FALSE)
      BY <1>5, <2>1, <2>2, GotoOnto DEF ClaimForApply, Waiting, Goto
    <3>2. CASE u = t
      <4>1. ~(grants[u] > 0) /\ \A q \in Processor : ~Applies(q, u)
        BY <1>0, <2>2, <3>2 DEF SoloAt
      <4>2. \A q \in Processor : Applies(q, u)' => q = p
        BY <3>1, <4>1, AppliesIs DEF Onto, Others
      <4>3. row'[u].claimed /\ ~(grants'[u] > 0)
        BY <2>1, <3>1, <3>2, <4>1 DEF TypeOK
      <4> QED
        BY <4>2, <4>3 DEF SoloAt
    <3>3. CASE u # t
      <4>1. Same(u)
        BY <2>1, <3>1, <3>3 DEF Same, TypeOK
      <4>2. \A q \in Processor : Applies(q, u)' => Applies(q, u) /\ proc'[q].pc = proc[q].pc
        BY <3>1, <3>3, AppliesIs DEF Onto, Others
      <4> QED
        BY <1>0, <4>1, <4>2, SoloKeptAt
    <3> QED
      BY <3>2, <3>3
  <2>3. CASE ~(row[t].status = "captured" /\ ~row[t].applied /\ ~row[t].claimed)
    <3>1. row' = row /\ Away(p)
      BY <1>5, <2>1, <2>3, DoneAway DEF ClaimForApply, Waiting
    <3> QED
      BY <1>0, <2>1, <3>1, RowSame, AwaySolo
  <2> QED
    BY <2>2, <2>3
<1>6. CASE ReadTerm(p)
  <2>1. proc[p].pc = "reading" /\ t \in Txn /\ UNCHANGED grants
    BY <1>a, <1>6 DEF ReadTerm
  <2>2. Applies(p, t)
    BY <2>1, AppliesIs DEF Applying
  <2>3. CASE Refused(p)
    <3>1. Away(p) /\ row' = ReleaseApply(t)
      BY <2>1, <2>3, DoneAway DEF Refused
    <3> QED
      BY <1>0, <2>1, <2>2, <3>1, ReleaseSolo
  <2>4. CASE row' = row /\ \E pc, fresh : Onto(p, pc, fresh)
    <3>1. \A q \in Processor : Applies(q, u)' =>
            Applies(q, u) /\ (proc[q].pc = "marking" => proc'[q].pc = "marking")
      BY <2>1, <2>2, <2>4, AppliesIs DEF Onto, Others
    <3> QED
      BY <1>0, <2>1, <2>4, <3>1, RowSame, SoloKeptAt
  <2> QED
    <3>1. \/ Refused(p)
          \/ row' = row /\ Goto(p, "marking")
          \/ row' = row /\ proc' = [proc EXCEPT ![p].pc = "writing", ![p].fresh = TRUE]
      BY <1>6 DEF ReadTerm
    <3>2. Goto(p, "marking") => Onto(p, "marking", FALSE)
      BY <2>1, GotoOnto DEF Goto
    <3>3. proc' = [proc EXCEPT ![p].pc = "writing", ![p].fresh = TRUE] => Onto(p, "writing", TRUE)
      BY <2>1, GotoOnto
    <3> QED
      BY <2>3, <2>4, <3>1, <3>2, <3>3, Zenon
<1>7. CASE WriteTerm(p)
  <2>1. proc[p].pc = "writing" /\ t \in Txn
    BY <1>a, <1>7 DEF WriteTerm
  <2>2. Applies(p, t)
    BY <2>1, AppliesIs DEF Applying
  <2>3. CASE Moved(p, "marking") /\ row' = row /\ grants' = [grants EXCEPT ![t] = @ + 1]
    <3>1. \A q \in Processor : Applies(q, u)' =>
            Applies(q, u) /\ proc'[q].pc = IF q = p THEN "marking" ELSE proc[q].pc
      BY <2>1, <2>2, <2>3, MovedAt, AppliesIs DEF Applying
    <3>2. CASE u = t
      <4>1. row[u].claimed /\ ~(grants[u] > 0) /\ \A q \in Processor : Applies(q, u) => q = p
        BY <1>0, <2>1, <2>2, <3>2 DEF SoloAt
      <4>2. grants[u] \in Nat /\ grants'[u] = grants[u] + 1
        BY <2>1, <2>3, <3>2 DEF TypeOK
      <4>3. grants'[u] = 1
        BY <4>1, <4>2
      <4>4. \A q \in Processor : Applies(q, u)' => q = p /\ proc'[q].pc = "marking"
        BY <3>1, <4>1
      <4>5. row'[u].claimed
        BY <2>3, <4>1
      <4> QED
        BY <4>3, <4>4, <4>5 DEF SoloAt
    <3>3. CASE u # t
      <4>1. Same(u)
        BY <2>1, <2>3, <3>3 DEF Same, TypeOK
      <4>2. \A q \in Processor : Applies(q, u) => q # p
        BY <3>3, AppliesIs
      <4> QED
        BY <1>0, <3>1, <4>1, <4>2, SoloKeptAt
    <3> QED
      BY <3>2, <3>3
  <2>4. CASE Goto(p, "marking") /\ row' = row /\ grants' = grants
    <3>1. Onto(p, "marking", FALSE)
      BY <2>1, <2>4, GotoOnto DEF Goto
    <3>2. \A q \in Processor : Applies(q, u)' =>
            Applies(q, u) /\ (proc[q].pc = "marking" => proc'[q].pc = "marking")
      BY <2>2, <3>1, AppliesIs DEF Onto, Others
    <3> QED
      BY <1>0, <2>4, <3>2, RowSame, SoloKeptAt
  <2>5. CASE Refused(p) /\ grants' = grants
    <3>1. Away(p) /\ row' = ReleaseApply(t)
      BY <2>1, <2>5, DoneAway DEF Refused
    <3> QED
      BY <1>0, <2>1, <2>2, <2>5, <3>1, ReleaseSolo
  <2> QED
    BY <1>7, <2>3, <2>4, <2>5 DEF WriteTerm
<1>8. CASE MarkApplied(p)
  <2>1. proc[p].pc = "marking" /\ t \in Txn /\ UNCHANGED grants
    BY <1>a, <1>8 DEF MarkApplied
  <2>2. Applies(p, t) /\ Away(p)
    BY <1>8, <2>1, AppliesIs, DoneAway DEF Applying, MarkApplied
  <2>3. CASE u = t /\ row[t].status = "captured"
    <3>1. row' = [row EXCEPT ![t].applied = TRUE, ![t].claimed = FALSE]
      BY <1>8, <2>3 DEF MarkApplied
    <3>2. row'[u].applied
      BY <2>1, <2>3, <3>1 DEF TypeOK
    <3>3. \A q \in Processor : ~Applies(q, u)'
      <4>1. \A q \in Processor : Applies(q, u)' => q # p /\ Applies(q, u)
        BY <2>1, <2>2, AppliesIs DEF Away, Others
      <4> QED
        BY <1>0, <2>2, <2>3, <4>1 DEF SoloAt
    <3>4. grants'[u] > 0 => grants'[u] = 1
      BY <1>0, <2>1 DEF SoloAt
    <3> QED
      BY <3>2, <3>3, <3>4 DEF SoloAt
  <2>4. CASE u # t \/ row[t].status # "captured"
    <3>1. Same(u)
      BY <1>8, <2>1, <2>4 DEF MarkApplied, Same, TypeOK
    <3> QED
      BY <1>0, <2>2, <3>1, AwaySolo
  <2> QED
    BY <2>3, <2>4
<1>9. CASE Finish(p)
  <2>1. Away(p) /\ Same(u)
    BY <1>9, EndAway, RowSame DEF Finish
  <2> QED
    BY <1>0, <2>1, AwaySolo
<1> QED
  BY <1>1, <1>2, <1>3, <1>4, <1>5, <1>6, <1>7, <1>8, <1>9 DEF Step

\* And so do those of everything else.
LEMMA NextSolo == TypeOK /\ EventAtHand /\ Solo /\ [Next]_vars => Solo'
<1> SUFFICES ASSUME TypeOK, EventAtHand, Solo, [Next]_vars, NEW u \in Txn, u \notin lapsed'
             PROVE  SoloAt(u)'
  BY DEF Solo
<1>0. u \notin lapsed => SoloAt(u)
  BY DEF Solo
<1>1. ASSUME NEW t \in Txn, Checkout(t) PROVE SoloAt(u)'
  <2>1. Transition(t, {"none"}, "pending")
    BY <1>1 DEF Checkout, Transition
  <2> QED
    BY <1>0, <1>1, <2>1, TransitionSame, StillSolo DEF Checkout
<1>2. ASSUME NEW t \in Txn, ClaimLapses(t) PROVE SoloAt(u)'
  <2>1. u # t /\ u \notin lapsed
    BY <1>2 DEF ClaimLapses
  <2>2. Same(u)
    BY <1>2, <2>1 DEF ClaimLapses, Same, TypeOK
  <2> QED
    BY <1>0, <1>2, <2>1, <2>2, StillSolo DEF ClaimLapses
<1>3. ASSUME NEW t \in Txn, NEW to, ProviderMoves(t, to) PROVE SoloAt(u)'
  BY <1>0, <1>3, RowSame, StillSolo DEF ProviderMoves
<1>4. ASSUME NEW e \in Event, Deliver(e) \/ LeaseLapses(e) PROVE SoloAt(u)'
  BY <1>0, <1>4, RowSame, StillSolo DEF Deliver, LeaseLapses
<1>5. ASSUME NEW p \in Processor, NEW e \in Event, BeginEvent(p, e) PROVE SoloAt(u)'
  <2> DEFINE pc == IF e.kind = "captured" THEN FirstLook(e.txn) ELSE "recording"
  <2>1. Begin(p, pc, "event", e.txn, e)
    BY <1>5 DEF BeginEvent
  <2>2. pc \notin Applying
    BY DEF FirstLook, Applying
  <2> HIDE DEF pc
  <2>3. Away(p)
    BY <2>1, <2>2, BeginAway
  <2> QED
    BY <1>0, <1>5, <2>3, RowSame, AwaySolo DEF BeginEvent
<1>6. ASSUME NEW p \in Processor, NEW t \in Txn,
             BeginReconcile(p, t) \/ BeginReapply(p, t) \/ BeginAbandon(p, t)
      PROVE  SoloAt(u)'
  <2>1. Away(p)
    BY <1>6, BeginAway DEF BeginReconcile, BeginReapply, BeginAbandon, Applying
  <2> QED
    BY <1>0, <1>6, <2>1, RowSame, AwaySolo DEF BeginReconcile, BeginReapply, BeginAbandon
<1>7. ASSUME NEW p \in Processor, Fail(p) PROVE SoloAt(u)'
  <2> DEFINE t == proc[p].txn
  <2>1. t \in Txn /\ Away(p) /\ UNCHANGED grants
    BY <1>7, EndAway DEF Fail, TypeOK, Busy
  <2>2. SoloAt(u)
    BY <1>0, <1>7 DEF Fail
  <2>3. CASE proc[p].pc \in {"reading", "writing"}
    <3>1. row' = ReleaseApply(t) /\ Applies(p, t)
      BY <1>7, <2>1, <2>3, AppliesIs DEF Fail, Applying
    <3> QED
      BY <2>1, <2>2, <2>3, <3>1, ReleaseSolo
  <2>4. CASE proc[p].pc = "marking"
    <3>1. u # t /\ row' = ReleaseApply(t)
      BY <1>7, <2>4 DEF Fail
    <3>2. Same(u)
      BY <2>1, <3>1 DEF ReleaseApply, Same, TypeOK
    <3> QED
      BY <2>1, <2>2, <3>2, AwaySolo
  <2>5. CASE proc[p].pc \notin Applying
    <3>1. row' = row
      BY <1>7, <2>5 DEF Fail, Applying
    <3> QED
      BY <2>1, <2>2, <3>1, RowSame, AwaySolo
  <2> QED
    BY <2>3, <2>4, <2>5 DEF Applying
<1>8. ASSUME NEW p \in Processor, Crash(p) PROVE SoloAt(u)'
  BY <1>0, <1>8, EndAway, RowSame, AwaySolo DEF Crash
<1>9. CASE OtherWrite \/ StartQueued \/ Hold \/ Lift
  <2>1. Moved(None, "idle") /\ None \notin Processor
    BY <1>9, PaymentsAssumption DEF OtherWrite, StartQueued, Hold, Lift
  <2>2. \A q \in Processor : Applies(q, u)' => Applies(q, u) /\ proc'[q].pc = proc[q].pc
    BY <2>1, MovedAt, AppliesIs
  <2>3. Same(u) /\ SoloAt(u)
    BY <1>0, <1>9, RowSame DEF OtherWrite, StartQueued, Hold, Lift
  <2> QED
    BY <2>2, <2>3, SoloKeptAt
<1>10. CASE Suspend \/ Reinstate \/ UNCHANGED vars
  BY <1>0, <1>10, RowSame, StillSolo DEF Suspend, Reinstate, vars
<1> QED
  BY <1>1, <1>2, <1>3, <1>4, <1>5, <1>6, <1>7, <1>8, <1>9, <1>10, StepSolo DEF Next

\* A step that grants nothing and leaves the subscription keeps what it names,
\* if every fresh read was one before.
LEMMA RememberedKept ==
  ASSUME Remembered, UNCHANGED <<sub, grants>>,
         \A q \in Processor : proc'[q].pc = "writing" /\ proc'[q].fresh =>
           \/ proc[q].pc = "writing" /\ proc[q].fresh /\ proc'[q].txn = proc[q].txn
           \/ sub.last # proc'[q].txn
  PROVE  Remembered'
BY DEF Remembered, Rival

LEMMA AwayRemembered ==
  ASSUME Remembered, UNCHANGED <<sub, grants>>, NEW p \in Processor, Away(p)
  PROVE  Remembered'
BY RememberedKept DEF Away, Others, Applying

LEMMA OntoRemembered ==
  ASSUME Remembered, UNCHANGED <<sub, grants>>, NEW p \in Processor, NEW pc, NEW fresh,
         Onto(p, pc, fresh), pc = "writing" => sub.last # proc[p].txn
  PROVE  Remembered'
BY RememberedKept DEF Onto, Others

\* The steps of an activity: only a write that no read of its own transaction
\* preceded grants, and it names what it granted.
LEMMA StepRemembered ==
  ASSUME TypeOK, Remembered, NEW p \in Processor, Step(p)
  PROVE  Remembered'
<1> DEFINE t == proc[p].txn
<1>1. CASE Away(p) /\ UNCHANGED <<sub, grants>>
  BY <1>1, AwayRemembered
<1>2. CASE (\E pc \in Places \ {"writing"} : Goto(p, pc)) /\ proc[p].pc # "idle" /\ UNCHANGED <<sub, grants>>
  <2>1. PICK pc \in Places \ {"writing"} : Goto(p, pc)
    BY <1>2
  <2>2. Onto(p, pc, FALSE) /\ pc # "writing"
    BY <1>2, <2>1, GotoOnto DEF Goto
  <2> QED
    BY <1>2, <2>2, OntoRemembered
<1>3. CASE Record(p) \/ Close(p) \/ MarkApplied(p)
  BY <1>1, <1>3, DoneAway DEF Record, Close, MarkApplied
<1>4. CASE Fetch(p) \/ TakeCapture(p)
  <2>1. proc[p].pc # "idle" /\ UNCHANGED <<sub, grants>>
    BY <1>4 DEF Fetch, TakeCapture
  <2>2. Done(p) \/ \E pc \in {"capturing", "closing", "claiming"} : Goto(p, pc)
    BY <1>4 DEF Fetch, TakeCapture
  <2> QED
    BY <1>1, <1>2, <2>1, <2>2, DoneAway DEF Places
<1>5. CASE ClaimForApply(p)
  <2>1. proc[p].pc # "idle" /\ UNCHANGED <<sub, grants>>
    BY <1>5 DEF ClaimForApply, Waiting
  <2>2. Done(p) \/ Goto(p, "reading")
    BY <1>5 DEF ClaimForApply, Waiting
  <2> QED
    BY <1>1, <1>2, <2>1, <2>2, DoneAway DEF Places
<1>6. CASE ReadTerm(p)
  <2>1. proc[p].pc # "idle" /\ UNCHANGED <<sub, grants>>
    BY <1>6 DEF ReadTerm
  <2>2. CASE sub.last # t /\ proc' = [proc EXCEPT ![p].pc = "writing", ![p].fresh = TRUE]
    BY <2>1, <2>2, GotoOnto, OntoRemembered
  <2>3. Done(p) \/ Goto(p, "marking")
        \/ (sub.last # t /\ proc' = [proc EXCEPT ![p].pc = "writing", ![p].fresh = TRUE])
    BY <1>6 DEF ReadTerm, Refused
  <2> QED
    BY <1>1, <1>2, <2>1, <2>2, <2>3, DoneAway DEF Places
<1>7. CASE WriteTerm(p)
  <2>1. proc[p].pc = "writing" /\ t \in Txn
    BY <1>7, AtWork DEF WriteTerm, Busy
  <2>2. CASE ~proc[p].fresh
    <3>1. (Done(p) \/ Goto(p, "marking")) /\ UNCHANGED <<sub, grants>>
      BY <1>7, <2>2 DEF WriteTerm, Refused
    <3> QED
      BY <1>1, <1>2, <2>1, <3>1, DoneAway DEF Places
  <2>3. CASE proc[p].fresh
    <3>1. /\ Moved(p, "marking") /\ grants' = [grants EXCEPT ![t] = @ + 1]
          /\ sub'.last = t /\ sub'.queued \in {None, sub.queued, t}
      BY <1>7, <2>3 DEF WriteTerm
    <3>2. sub.last # t
      BY <2>1, <2>3 DEF Remembered
    <3>3. \A u \in Txn : grants[u] \in Nat /\ grants'[u] = IF u = t THEN grants[t] + 1 ELSE grants[u]
      BY <2>1, <3>1 DEF TypeOK
    <3>4. \A u \in Txn : grants[u] > 0 => grants'[u] > 0
      BY <3>3
    <3>5. \A u \in Txn : u = t => grants'[u] > 0
      BY <2>1, <3>3
    <3>6. \A u \in Txn : Rival(u) => Rival(u)'
      BY <3>4 DEF Rival
    <3>7. \A u \in Txn : u # t => Rival(u)'
      BY <2>1, <3>5 DEF Rival
    <3>8. \A u \in Txn : u = t => grants[u] = 0 \/ Rival(u)
      <4>1. \A u \in Txn : u = t => ~(grants[u] > 0) \/ Rival(u)
        BY <3>2 DEF Remembered
      <4> QED
        BY <3>3, <4>1
    <3>9. \A u \in Txn : u = t => grants'[u] = 1 \/ Rival(u)'
      <4>1. \A u \in Txn : u = t /\ grants[u] = 0 => grants'[u] = 1
        BY <3>3
      <4> QED
        BY <3>6, <3>8, <4>1
    <3>10. \A q \in Processor : proc'[q].pc = "writing" => ~proc'[q].fresh
      BY <2>1, <3>1, MovedAt DEF Applying
    <3>11. sub'.queued # None => grants'[sub'.queued] > 0
      <4>1. sub.queued \in Txn \cup {None}
        BY DEF TypeOK
      <4>2. sub.queued # None => grants'[sub.queued] > 0
        BY <3>4, <4>1 DEF Remembered
      <4> QED
        BY <2>1, <3>1, <3>5, <4>2
    <3>12. /\ \A u \in Txn : grants'[u] > 0 => sub'.last = u \/ Rival(u)'
           /\ sub'.last # None => grants'[sub'.last] > 0
      BY <2>1, <3>1, <3>5, <3>7
    <3>13. \A u \in Txn : grants'[u] > 1 => Rival(u)'
      BY <3>7, <3>9
    <3> QED
      BY <3>10, <3>11, <3>12, <3>13 DEF Remembered
  <2> QED
    BY <2>2, <2>3
<1>8. CASE Finish(p)
  BY <1>1, <1>8, EndAway DEF Finish
<1> QED
  BY <1>3, <1>4, <1>5, <1>6, <1>7, <1>8 DEF Step

LEMMA NextRemembered == TypeOK /\ Remembered /\ [Next]_vars => Remembered'
<1> SUFFICES ASSUME TypeOK, Remembered, [Next]_vars PROVE Remembered'
  OBVIOUS
<1>1. CASE UNCHANGED <<proc, sub, grants>>
  BY <1>1, RememberedKept
<1>2. ASSUME NEW p \in Processor, NEW e \in Event, BeginEvent(p, e) PROVE Remembered'
  <2> DEFINE pc == IF e.kind = "captured" THEN FirstLook(e.txn) ELSE "recording"
  <2>1. Begin(p, pc, "event", e.txn, e)
    BY <1>2 DEF BeginEvent
  <2>2. pc \notin Applying
    BY DEF FirstLook, Applying
  <2> HIDE DEF pc
  <2> QED
    BY <1>2, <2>1, <2>2, BeginAway, AwayRemembered DEF BeginEvent
<1>3. ASSUME NEW p \in Processor, NEW t \in Txn,
             BeginReconcile(p, t) \/ BeginReapply(p, t) \/ BeginAbandon(p, t)
      PROVE  Remembered'
  <2>1. Away(p)
    BY <1>3, BeginAway DEF BeginReconcile, BeginReapply, BeginAbandon, Applying
  <2> QED
    BY <1>3, <2>1, AwayRemembered DEF BeginReconcile, BeginReapply, BeginAbandon
<1>4. ASSUME NEW p \in Processor, Fail(p) \/ Crash(p) PROVE Remembered'
  BY <1>4, EndAway, AwayRemembered DEF Fail, Crash
<1>5. CASE OtherWrite \/ StartQueued \/ Hold \/ Lift
  <2>1. Moved(None, "idle") /\ None \notin Processor /\ UNCHANGED grants
    BY <1>5, PaymentsAssumption DEF OtherWrite, StartQueued, Hold, Lift
  <2>2. \A q \in Processor : proc'[q].pc = "writing" => ~proc'[q].fresh
    BY <2>1, MovedAt DEF Applying
  <2>3. CASE OtherWrite \/ Hold \/ Lift
    BY <2>1, <2>2, <2>3, RememberedKept DEF OtherWrite, Hold, Lift
  <2>4. CASE StartQueued
    <3>1. sub.queued \in Txn /\ grants[sub.queued] > 0 /\ sub'.last = sub.queued /\ sub'.queued = None
      BY <2>4 DEF StartQueued, Remembered, TypeOK
    <3>2. \A u \in Txn : u # sub.queued => Rival(u)'
      BY <2>1, <3>1 DEF Rival
    <3>3. \A u \in Txn : grants'[u] > 1 => Rival(u)'
      BY <2>1 DEF Remembered, Rival
    <3> QED
      BY <2>1, <2>2, <3>1, <3>2, <3>3 DEF Remembered
  <2> QED
    BY <1>5, <2>3, <2>4
<1>6. ASSUME NEW t \in Txn, NEW to, Checkout(t) \/ ClaimLapses(t) \/ ProviderMoves(t, to)
      PROVE  Remembered'
  BY <1>1, <1>6 DEF Checkout, ClaimLapses, ProviderMoves
<1>7. ASSUME NEW e \in Event, Deliver(e) \/ LeaseLapses(e) PROVE Remembered'
  BY <1>1, <1>7 DEF Deliver, LeaseLapses
<1>8. CASE Suspend \/ Reinstate \/ UNCHANGED vars
  BY <1>1, <1>8 DEF Suspend, Reinstate, vars
<1> QED
  BY <1>2, <1>3, <1>4, <1>5, <1>6, <1>7, <1>8, StepRemembered DEF Next

LEMMA InitSolo == Init => Solo /\ Remembered
<1> SUFFICES ASSUME Init PROVE Solo /\ Remembered
  OBVIOUS
<1>1. \A t \in Txn : grants[t] = 0
  BY DEF Init
<1>2. \A p \in Processor : proc[p] = Idle /\ proc[p].pc = "idle"
  BY DEF Init, Idle
<1>3. sub.last = None /\ sub.queued = None
  BY DEF Init
<1> QED
  BY <1>1, <1>2, <1>3 DEF Solo, SoloAt, Remembered, Applies

\* Redeliveries, concurrent processors, retries and the sweeps grant a term a
\* second time only after an apply was cut off between its write and its mark
\* (or outlived its claim) and another transaction was applied: until a claim
\* lapses it has one holder, and only the holder's write grants; and the
\* subscription forgets a transaction only for another.
THEOREM SecondTermsHaveRivals == Spec => []SecondTermNeedsRival
<1> DEFINE Inv == TypeOK /\ EventAtHand /\ Solo /\ Remembered
<1>1. Init => Inv
  BY InitTyped, InitSolo
<1>2. Inv /\ [Next]_vars => Inv'
  BY NextTyped, NextSolo, NextRemembered
<1>3. Inv => SecondTermNeedsRival
  <2> SUFFICES ASSUME Inv, NEW t \in Txn, grants[t] > 1
               PROVE  t \in lapsed /\ \E u \in Txn \ {t} : grants[u] > 0
    BY DEF SecondTermNeedsRival
  <2>1. grants[t] > 0 /\ grants[t] # 1
    BY DEF TypeOK
  <2>2. t \in lapsed
    BY <2>1 DEF Solo, SoloAt
  <2> QED
    BY <2>2 DEF Remembered, Rival
<1> HIDE DEF Inv
<1> QED
  BY <1>1, <1>2, <1>3, PTL DEF Spec
=============================================================================
