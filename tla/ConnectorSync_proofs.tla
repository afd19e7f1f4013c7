------------------------ MODULE ConnectorSync_proofs ------------------------
(***************************************************************************)
(* Proofs about ConnectorSync, for any requests, workers, faults, attempts *)
(* and recovery budgets.                                                   *)
(***************************************************************************)
EXTENDS ConnectorSync, SequenceTheorems, WellFoundedInduction, TLAPS

Status == Open \cup Terminal \cup {"absent", "reserved"}

SlotOK == slot \in Slot /\ (InFlight <=> slot.owner # NoRun) /\ (slot.live => InFlight)

\* A call that has claimed the slot has its run.
HasRun(c) ==
  caller[c].pc \in {"claimed", "closing", "enqueueing", "failing", "releasing"} => caller[c].run \in Run

\* A worker that has a run to write to; it closes the run only with a verdict.
Resuming == {"renew", "retry"}
Writes == {"release", "finish", "renew", "retry"}

HasPlan(w) ==
  /\ worker[w].pc # "idle" => worker[w].run \in Run
  /\ worker[w].todo # <<>> => worker[w].pc \in {"writing", "givingup"}
  /\ worker[w].verdict = "none" => worker[w].todo \in Seq(Resuming)

Typed ==
  /\ SlotOK
  /\ run \in [Run -> Status] /\ recovery \in [Run -> Nat] /\ created \in Seq(Run)
  /\ msg \in [Run -> Message]
  /\ caller \in [Caller -> Call] /\ \A c \in Caller : HasRun(c)
  /\ worker \in [Worker -> Work] /\ \A w \in Worker : HasPlan(w)
  /\ faults \in 0 .. MaxFaults

\* A call between its claim and its SyncRun: the id is taken, for it alone.
Reserving(c) == caller[c].pc \in {"claimed", "closing"}

ReservedInv ==
  /\ \A c \in Caller : Reserving(c) => run[caller[c].run] = "reserved"
  /\ \A c, d \in Caller : Reserving(c) /\ Reserving(d) /\ caller[c].run = caller[d].run => c = d

\* What a step may do to the runs.
Respects ==
  /\ run' \in [Run -> Status]
  /\ \A r \in Run : run[r] \in Terminal => run'[r] = run[r]

Reserves == \A r \in Run : run[r] = "reserved" => run'[r] = "reserved"

----------------------------------------------------------------------------
(* Runs and the slot.                                                      *)

LEMMA FinishedRuns ==
  ASSUME Typed, NEW rs, NEW status \in Terminal, run' = Finished(rs, status)
  PROVE  Respects /\ Reserves
<1>1. \A r \in Run : run[r] \in Status
  BY DEF Typed
<1>2. \A r \in Run : run'[r] = IF r \in rs /\ run[r] \in Open THEN status ELSE run[r]
  BY DEF Finished
<1>3. \A r \in Run : run'[r] \in Status
  BY <1>1, <1>2 DEF Status
<1>4. run' \in [Run -> Status]
  BY <1>3 DEF Finished
<1>5. \A r \in Run : run[r] \in Terminal \/ run[r] = "reserved" => run[r] \notin Open
  BY DEF Open, Terminal
<1> QED
  BY <1>2, <1>4, <1>5 DEF Respects, Reserves

LEMMA SameRuns ==
  ASSUME Typed, run' = run
  PROVE  Respects /\ Reserves
BY DEF Typed, Respects, Reserves

\* A run that is not closed changes.
LEMMA OneRun ==
  ASSUME Typed, NEW r \in Run, NEW status \in Status, run[r] \notin Terminal, run' = [run EXCEPT ![r] = status]
  PROVE  Respects /\ \A s \in Run : s # r => run'[s] = run[s]
BY DEF Typed, Respects

LEMMA SlotTaken ==
  ASSUME NEW r \in Run, slot' = [status |-> "queued", owner |-> r, live |-> TRUE]
  PROVE  SlotOK'
BY DEF SlotOK, Slot, InFlight, Run, NoRun

LEMMA SlotReleased ==
  ASSUME NEW status \in {"succeeded", "failed"}, slot' = Released(status)
  PROVE  SlotOK'
BY DEF SlotOK, Slot, InFlight, Released, NoRun

LEMMA SlotMarked ==
  ASSUME Typed, NEW r \in Run, Holds(r), NEW status \in {"queued", "running"},
         slot' = [slot EXCEPT !.status = status, !.live = TRUE]
  PROVE  SlotOK'
<1>1. slot \in Slot /\ slot.owner = r /\ r # NoRun
  BY ConnectorSyncAssumption DEF Typed, SlotOK, Holds, Run, NoRun
<1>2. slot' \in Slot /\ slot'.status = status /\ slot'.owner = r
  BY <1>1 DEF Slot
<1> QED
  BY <1>1, <1>2 DEF SlotOK, InFlight

LEMMA SlotBeats ==
  ASSUME Typed, \/ InFlight /\ slot' = [slot EXCEPT !.live = TRUE]
                \/ slot' = [slot EXCEPT !.live = FALSE]
  PROVE  SlotOK'
BY DEF Typed, SlotOK, Slot, InFlight

LEMMA SlotSame == Typed /\ slot' = slot => SlotOK'
BY DEF Typed, SlotOK, Slot, InFlight

----------------------------------------------------------------------------
(* Calls and workers.                                                      *)

\* One call goes on.
LEMMA CallMoves ==
  ASSUME Typed, NEW c \in Caller, NEW b \in Call, caller' = [caller EXCEPT ![c] = b],
         b.pc \in {"claimed", "closing", "enqueueing", "failing", "releasing"} => b.run \in Run
  PROVE  /\ caller' \in [Caller -> Call] /\ \A d \in Caller : HasRun(d)'
         /\ \A d \in Caller : caller'[d] = IF d = c THEN b ELSE caller[d]
<1>1. \A d \in Caller : caller'[d] = IF d = c THEN b ELSE caller[d]
  BY DEF Typed
<1>2. caller' \in [Caller -> Call]
  BY DEF Typed
<1>3. \A d \in Caller : HasRun(d)'
  BY <1>1 DEF Typed, HasRun
<1> QED
  BY <1>1, <1>2, <1>3

\* It keeps what it reserved, or reserves nothing any more.
LEMMA CallKeepsReserved ==
  ASSUME Typed, ReservedInv, NEW c \in Caller, NEW b \in Call, caller' = [caller EXCEPT ![c] = b],
         b.pc \in {"claimed", "closing"} =>
           Reserving(c) /\ b.run = caller[c].run /\ run'[b.run] = "reserved",
         \A d \in Caller : d # c /\ Reserving(d) => run'[caller[d].run] = "reserved"
  PROVE  ReservedInv'
<1>1. \A d \in Caller : caller'[d] = IF d = c THEN b ELSE caller[d]
  BY DEF Typed
<1>2. \A d \in Caller : Reserving(d)' => Reserving(d) /\ caller'[d].run = caller[d].run
                                         /\ run'[caller'[d].run] = "reserved"
  BY <1>1 DEF Reserving
<1>3. \A d \in Caller : Reserving(d)' => run'[caller'[d].run] = "reserved"
  BY <1>2
<1>4. \A d, e \in Caller : Reserving(d)' /\ Reserving(e)' /\ caller'[d].run = caller'[e].run => d = e
  BY <1>2 DEF ReservedInv
<1> QED
  BY <1>3, <1>4 DEF ReservedInv

LEMMA OthersKeepReserved ==
  ASSUME Typed, ReservedInv, UNCHANGED caller, Reserves
  PROVE  ReservedInv' /\ (\A c \in Caller : HasRun(c)') /\ caller' \in [Caller -> Call]
<1>1. \A c \in Caller : Reserving(c) => caller[c].run \in Run
  BY DEF Typed, HasRun, Reserving
<1> QED
  BY <1>1 DEF Typed, HasRun, ReservedInv, Reserves, Reserving

\* One worker goes on.
LEMMA WorkerMoves ==
  ASSUME Typed, NEW w \in Worker, NEW b \in Work, worker' = [worker EXCEPT ![w] = b],
         b.pc # "idle" => b.run \in Run,
         b.todo # <<>> => b.pc \in {"writing", "givingup"},
         b.verdict = "none" => b.todo \in Seq(Resuming)
  PROVE  /\ worker' \in [Worker -> Work] /\ \A v \in Worker : HasPlan(v)'
<1>1. \A v \in Worker : worker'[v] = IF v = w THEN b ELSE worker[v]
  BY DEF Typed
<1>2. worker' \in [Worker -> Work]
  BY DEF Typed
<1>3. \A v \in Worker : HasPlan(v)'
  BY <1>1 DEF Typed, HasPlan
<1> QED
  BY <1>2, <1>3

LEMMA SameWorkers == Typed /\ worker' = worker => worker' \in [Worker -> Work] /\ \A v \in Worker : HasPlan(v)'
BY DEF Typed, HasPlan

LEMMA Plans ==
  /\ <<>> \in Seq(Resuming) /\ <<"renew", "retry">> \in Seq(Resuming)
  /\ <<>> \in Seq(Writes) /\ <<"renew", "retry">> \in Seq(Writes)
  /\ <<"release", "finish">> \in Seq(Writes) /\ <<"finish", "release">> \in Seq(Writes)
BY DEF Resuming, Writes

LEMMA NextWrite ==
  ASSUME Typed, NEW w \in Worker, worker[w].todo # <<>>
  PROVE  /\ Tail(worker[w].todo) \in Seq(Writes)
         /\ worker[w].run \in Run /\ worker[w].pc \in {"writing", "givingup"}
         /\ worker[w].verdict = "none" =>
              Tail(worker[w].todo) \in Seq(Resuming) /\ Head(worker[w].todo) \in Resuming
<1>1. worker[w].todo \in Seq(Writes)
  BY DEF Typed, Work, Writes
<1>2. Tail(worker[w].todo) \in Seq(Writes)
  BY <1>1, HeadTailProperties
<1>3. HasPlan(w)
  BY DEF Typed
<1>4. worker[w].verdict = "none" =>
        Tail(worker[w].todo) \in Seq(Resuming) /\ Head(worker[w].todo) \in Resuming
  BY <1>3, HeadTailProperties DEF HasPlan
<1> QED
  BY <1>2, <1>3, <1>4 DEF HasPlan

LEMMA FaultCounted ==
  ASSUME Typed, NEW kind, UNCHANGED faults \/ Goes(kind)
  PROVE  faults' \in 0 .. MaxFaults
BY ConnectorSyncAssumption DEF Typed, Goes

LEMMA Least ==
  ASSUME NEW S, S \subseteq Nat, S # {}
  PROVE  \E x \in S : \A y \in S : x <= y
<1> DEFINE less == {p \in Nat \X Nat : p[1] < p[2]}
<1>1. IsWellFoundedOn(less, Nat)
  BY NatLessThanWellFounded DEF OpToRel
<1>2. \A x, y \in Nat : ~(<<y, x>> \in less) => x <= y
  OBVIOUS
<1> HIDE DEF less
<1>3. PICK x \in S : \A y \in S : ~(<<y, x>> \in less)
  BY <1>1, WFMin
<1> QED
  BY <1>2, <1>3

LEMMA Greatest ==
  ASSUME NEW n \in Nat, NEW S, S \subseteq 1 .. n, S # {}
  PROVE  \E x \in S : \A y \in S : y <= x
<1> DEFINE T == {n - x : x \in S}
<1>0. \A x \in S : n - x \in Nat
  OBVIOUS
<1>1. T \subseteq Nat /\ T # {}
  BY <1>0
<1> HIDE DEF T
<1>2. PICK z \in T : \A y \in T : z <= y
  BY <1>1, Least
<1>3. PICK x \in S : z = n - x
  BY DEF T
<1>4. \A y \in S : z <= n - y
  BY <1>2 DEF T
<1> QED
  BY <1>3, <1>4

----------------------------------------------------------------------------
(* The initial state.                                                      *)

LEMMA QuietCall == Quiet \in Call /\ Quiet.pc = "idle"
BY DEF Quiet, Call

LEMMA FreeWork == Free \in Work /\ Free.pc = "idle" /\ Free.todo = <<>> /\ Free.verdict = "none"
<1>1. <<>> \in Seq({"release", "finish", "renew", "retry"})
  OBVIOUS
<1> QED
  BY <1>1 DEF Free, Work

LEMMA InitInv == Init => Typed /\ ReservedInv
<1> SUFFICES ASSUME Init PROVE Typed /\ ReservedInv
  OBVIOUS
<1>1. SlotOK
  BY DEF Init, SlotOK, Slot, InFlight, NoRun
<1>2. run \in [Run -> Status] /\ recovery \in [Run -> Nat] /\ created \in Seq(Run)
  BY DEF Init, Status
<1>3. msg \in [Run -> Message]
  <2>1. 0 \in 0 .. Attempts - 1 /\ 0 \in 0 .. 1
    BY ConnectorSyncAssumption
  <2> QED
    BY <2>1 DEF Init, Message
<1>4. caller \in [Caller -> Call] /\ \A c \in Caller : HasRun(c) /\ ~Reserving(c)
  BY QuietCall DEF Init, HasRun, Reserving
<1>5. worker \in [Worker -> Work] /\ \A w \in Worker : HasPlan(w)
  BY FreeWork, Plans DEF Init, HasPlan
<1>6. faults \in 0 .. MaxFaults
  BY ConnectorSyncAssumption DEF Init
<1> QED
  BY <1>1, <1>2, <1>3, <1>4, <1>5, <1>6 DEF Typed, ReservedInv

----------------------------------------------------------------------------
(* The steps of requests and of the reaper.                                *)

\* A call goes on with the run it has.
LEMMA CallGoesOn ==
  ASSUME Typed, NEW c \in Caller,
         NEW pc \in {"idle", "claimed", "closing", "enqueueing", "failing", "releasing",
                     "refused", "found", "reaped", "requeue"},
         Go(c, pc)
  PROVE  \E b \in Call : /\ caller' = [caller EXCEPT ![c] = b]
                         /\ b.pc = pc /\ b.run = caller[c].run
<1> DEFINE b == [caller[c] EXCEPT !.pc = pc]
<1>1. b \in Call /\ b.pc = pc /\ b.run = caller[c].run
  BY DEF Typed, Call
<1>2. caller' = [caller EXCEPT ![c] = b]
  BY DEF Go, Typed
<1> HIDE DEF b
<1> QED
  BY <1>1, <1>2

\* A step of a call which leaves the slot and the messages alone, and the runs
\* that others reserved.
LEMMA CallStep ==
  ASSUME Typed, ReservedInv, NEW c \in Caller, NEW b \in Call, caller' = [caller EXCEPT ![c] = b],
         b.pc \in {"claimed", "closing", "enqueueing", "failing", "releasing"} => b.run \in Run,
         b.pc \in {"claimed", "closing"} => Reserving(c) /\ b.run = caller[c].run,
         Respects, Reserves, SlotOK', UNCHANGED <<recovery, created, worker>>,
         msg' \in [Run -> Message], faults' \in 0 .. MaxFaults
  PROVE  Typed' /\ ReservedInv'
<1>1. caller' \in [Caller -> Call] /\ \A d \in Caller : HasRun(d)'
  BY CallMoves
<1>2. worker' \in [Worker -> Work] /\ \A w \in Worker : HasPlan(w)'
  BY SameWorkers
<1>3. \A d \in Caller : Reserving(d) => run'[caller[d].run] = "reserved"
  BY DEF Reserving, HasRun, Typed, ReservedInv, Reserves
<1>4. ReservedInv'
  BY <1>3, CallKeepsReserved
<1> QED
  BY <1>1, <1>2, <1>4 DEF Typed, Respects

LEMMA ClaimKeeps ==
  ASSUME Typed, ReservedInv, NEW c \in Caller, Claim(c)
  PROVE  Typed' /\ ReservedInv' /\ Respects
<1> DEFINE r == CHOOSE r \in Unused : \A other \in Unused : r <= other
           b == [pc |-> "claimed", run |-> r, seen |-> {}, attempt |-> caller[c].attempt]
<1>1. r \in Run /\ run[r] = "absent"
  <2>1. Unused \subseteq Nat /\ Unused # {}
    BY DEF Claim, Unused, Run
  <2>2. r \in Unused
    BY <2>1, Least
  <2> QED
    BY <2>2 DEF Unused
<1>2. /\ slot' = [status |-> "queued", owner |-> r, live |-> TRUE]
      /\ run' = [run EXCEPT ![r] = "reserved"] /\ caller' = [caller EXCEPT ![c] = b]
      /\ UNCHANGED <<recovery, created, msg, worker, faults>>
  BY DEF Claim
<1> HIDE DEF r
<1>3. b \in Call /\ b.pc = "claimed" /\ b.run = r
  BY <1>1 DEF Typed, Call
<1> HIDE DEF b
<1>4. Respects /\ \A s \in Run : s # r => run'[s] = run[s]
  BY <1>1, <1>2, OneRun DEF Status, Terminal
<1>5. run'[r] = "reserved"
  BY <1>1, <1>2 DEF Typed
<1>6. SlotOK'
  BY <1>1, <1>2, SlotTaken
<1>7. /\ caller' \in [Caller -> Call] /\ \A d \in Caller : HasRun(d)'
      /\ \A d \in Caller : caller'[d] = IF d = c THEN b ELSE caller[d]
  BY <1>1, <1>2, <1>3, CallMoves
<1>8. \A d \in Caller : d # c /\ Reserving(d)' =>
        Reserving(d) /\ caller'[d] = caller[d] /\ caller[d].run \in Run /\ caller[d].run # r
        /\ run'[caller[d].run] = "reserved"
  BY <1>1, <1>4, <1>7 DEF Reserving, ReservedInv, HasRun, Typed
<1>9. \A d \in Caller : Reserving(d)' => run'[caller'[d].run] = "reserved"
  BY <1>3, <1>5, <1>7, <1>8
<1>10. \A d, e \in Caller : Reserving(d)' /\ Reserving(e)' /\ caller'[d].run = caller'[e].run => d = e
  BY <1>3, <1>7, <1>8 DEF ReservedInv
<1> QED
  BY <1>2, <1>4, <1>6, <1>7, <1>9, <1>10, SameWorkers DEF Typed, ReservedInv, Respects

LEMMA FindKeeps ==
  ASSUME Typed, ReservedInv, NEW c \in Caller, FindOpen(c)
  PROVE  Typed' /\ ReservedInv' /\ Respects
<1>1. /\ caller[c].pc = "claimed" /\ UNCHANGED <<slot, run, recovery, created, msg, worker>>
      /\ UNCHANGED faults \/ Goes("unread")
  BY DEF FindOpen, At
<1>2. PICK rs \in {OpenRuns \ {caller[c].run}, {}} :
        caller' = [caller EXCEPT ![c] = [@ EXCEPT !.pc = "closing", !.seen = rs]]
  BY DEF FindOpen
<1> DEFINE b == [caller[c] EXCEPT !.pc = "closing", !.seen = rs]
<1>3. b \in Call /\ b.pc = "closing" /\ b.run = caller[c].run
  BY DEF Typed, Call, OpenRuns
<1>4. caller' = [caller EXCEPT ![c] = b]
  BY <1>2 DEF Typed
<1> HIDE DEF b
<1>5. caller[c].run \in Run /\ Reserving(c)
  BY <1>1 DEF Typed, HasRun, Reserving
<1>6. faults' \in 0 .. MaxFaults /\ SlotOK' /\ Respects /\ Reserves /\ msg' \in [Run -> Message]
  BY <1>1, FaultCounted, SlotSame, SameRuns DEF Typed
<1> QED
  BY <1>1, <1>5, <1>6, <1>3, <1>4, CallStep

\* A call goes on to the next of the runs it found.
LEMMA SeesOn ==
  ASSUME Typed, NEW c \in Caller, NEW r, caller' = [caller EXCEPT ![c].seen = @ \ {r}]
  PROVE  \E b \in Call : /\ caller' = [caller EXCEPT ![c] = b] /\ b.pc = caller[c].pc
                         /\ b.run = caller[c].run /\ b.seen = caller[c].seen \ {r}
<1> DEFINE b == [caller[c] EXCEPT !.seen = caller[c].seen \ {r}]
<1>1. /\ b \in Call /\ b.pc = caller[c].pc /\ b.run = caller[c].run
      /\ b.seen = caller[c].seen \ {r}
  BY DEF Typed, Call
<1>2. caller' = [caller EXCEPT ![c] = b]
  BY DEF Typed
<1> HIDE DEF b
<1> QED
  BY <1>1, <1>2

LEMMA CloseKeeps ==
  ASSUME Typed, ReservedInv, NEW c \in Caller, CloseOthers(c)
  PROVE  Typed' /\ ReservedInv' /\ Respects
<1>1. caller[c].pc = "closing" /\ UNCHANGED <<slot, recovery, created, msg, worker>>
  BY DEF CloseOthers, At
<1>2. PICK r : caller' = [caller EXCEPT ![c].seen = @ \ {r}]
  BY DEF CloseOthers
<1>3. PICK b \in Call : /\ caller' = [caller EXCEPT ![c] = b] /\ b.pc = caller[c].pc
                        /\ b.run = caller[c].run
  BY <1>2, SeesOn
<1>4. caller[c].run \in Run /\ Reserving(c)
  BY <1>1 DEF Typed, HasRun, Reserving
<1>5. Respects /\ Reserves /\ faults' \in 0 .. MaxFaults
  BY FinishedRuns, SameRuns, FaultCounted DEF CloseOthers, Terminal
<1>6. SlotOK' /\ msg' \in [Run -> Message]
  BY <1>1, SlotSame DEF Typed
<1> QED
  BY <1>1, <1>3, <1>4, <1>5, <1>6, CallStep

LEMMA CreateKeeps ==
  ASSUME Typed, ReservedInv, NEW c \in Caller, Create(c)
  PROVE  Typed' /\ ReservedInv' /\ Respects
<1> DEFINE r == caller[c].run
<1>1. /\ caller[c].pc = "closing" /\ UNCHANGED <<slot, msg, worker>>
      /\ Insert(c) \/ UNCHANGED <<run, recovery, created>>
      /\ Go(c, "enqueueing") \/ Go(c, "releasing")
      /\ UNCHANGED faults \/ Goes("write")
  BY DEF Create, At
<1>2. PICK b \in Call : /\ caller' = [caller EXCEPT ![c] = b]
                        /\ b.pc \in {"enqueueing", "releasing"} /\ b.run = r
  BY <1>1, CallGoesOn
<1>3. Reserving(c) /\ r \in Run /\ run[r] = "reserved" /\ caller[c].attempt \in Nat
  BY <1>1 DEF Typed, Call, HasRun, Reserving, ReservedInv
<1>4. /\ caller' \in [Caller -> Call] /\ \A d \in Caller : HasRun(d)'
  BY <1>2, <1>3, CallMoves
<1>5. Respects /\ (\A s \in Run : s # r => run'[s] = run[s])
      /\ recovery' \in [Run -> Nat] /\ created' \in Seq(Run)
  <2>1. CASE Insert(c)
    <3>1. Respects /\ \A s \in Run : s # r => run'[s] = run[s]
      BY <1>3, <2>1, OneRun DEF Insert, Status, Open, Terminal
    <3>2. recovery' \in [Run -> Nat]
      BY <1>3, <2>1 DEF Insert, Typed
    <3>3. created' \in Seq(Run)
      BY <1>3, <2>1, AppendProperties DEF Insert, Typed
    <3> QED
      BY <3>1, <3>2, <3>3
  <2>2. CASE UNCHANGED <<run, recovery, created>>
    BY <2>2, SameRuns DEF Typed
  <2> QED
    BY <1>1, <2>1, <2>2
<1>6. \A d \in Caller : d # c /\ Reserving(d) => run'[caller[d].run] = "reserved"
  BY <1>3, <1>5 DEF Reserving, ReservedInv, HasRun, Typed
<1>7. ReservedInv'
  BY <1>2, <1>6, CallKeepsReserved
<1> QED
  BY <1>1, <1>4, <1>5, <1>7, SlotSame, SameWorkers, FaultCounted DEF Typed, Respects

\* The steps of a call that has reserved nothing, or gives it up.
LEMMA LaterKeeps ==
  ASSUME Typed, ReservedInv, NEW c \in Caller, Enqueue(c) \/ FailRun(c) \/ FailSlot(c) \/ CrashCaller(c)
  PROVE  Typed' /\ ReservedInv' /\ Respects
<1>1. UNCHANGED <<recovery, created, worker>>
  BY DEF Enqueue, FailRun, FailSlot, CrashCaller
<1>2. PICK b \in Call : /\ caller' = [caller EXCEPT ![c] = b]
                        /\ b.pc \in {"idle", "refused"}
                           \/ (b.pc \in {"failing", "releasing"} /\ b.run = caller[c].run /\ b.run \in Run)
  <2>1. CASE caller' = [caller EXCEPT ![c] = Quiet]
    BY <2>1, QuietCall
  <2>2. ASSUME Go(c, "failing") \/ Go(c, "releasing"), caller[c].pc \in {"enqueueing", "failing"}
        PROVE  \E b \in Call : /\ caller' = [caller EXCEPT ![c] = b]
                               /\ b.pc \in {"failing", "releasing"} /\ b.run = caller[c].run /\ b.run \in Run
    <3>1. caller[c].run \in Run
      BY <2>2 DEF Typed, HasRun
    <3> QED
      BY <2>2, <3>1, CallGoesOn
  <2>3. ASSUME FailSlot(c), c # Reaper
        PROVE  \E b \in Call : caller' = [caller EXCEPT ![c] = b] /\ b.pc = "refused"
    <3> DEFINE b == [caller[c] EXCEPT !.pc = "refused", !.attempt = 0]
    <3>1. caller' = [caller EXCEPT ![c] = b]
      BY <2>3 DEF FailSlot, Typed
    <3>2. b \in Call /\ b.pc = "refused"
      BY DEF Typed, Call
    <3> HIDE DEF b
    <3> QED
      BY <3>1, <3>2
  <2>4. CASE Enqueue(c)
    BY <2>1, <2>2, <2>4 DEF Enqueue, At
  <2>5. CASE FailRun(c)
    BY <2>2, <2>5 DEF FailRun, At
  <2>6. CASE FailSlot(c)
    <3>1. CASE c = Reaper
      <4>1. caller' = [caller EXCEPT ![c] = Quiet]
        BY <2>6, <3>1 DEF FailSlot
      <4> QED
        BY <2>1, <4>1
    <3>2. CASE c # Reaper
      BY <2>3, <2>6, <3>2
    <3> QED
      BY <3>1, <3>2
  <2>7. CASE CrashCaller(c)
    BY <2>1, <2>7 DEF CrashCaller
  <2> QED
    BY <2>4, <2>5, <2>6, <2>7
<1>3. Respects /\ Reserves
  BY FinishedRuns, SameRuns DEF Enqueue, FailRun, FailSlot, CrashCaller, Terminal
<1>4. SlotOK'
  BY SlotSame, SlotReleased DEF Enqueue, FailRun, FailSlot, CrashCaller
<1>5. msg' \in [Run -> Message]
  <2>1. caller[c].pc = "enqueueing" => caller[c].run \in Run
    BY DEF Typed, HasRun
  <2>2. CASE Enqueue(c)
    <3> DEFINE taken == [msg EXCEPT ![caller[c].run].state = "waiting"]
    <3>1. caller[c].run \in Run
      BY <2>1, <2>2 DEF Enqueue, At
    <3>2. taken \in [Run -> Message]
      BY <3>1 DEF Typed, Message
    <3>3. msg' = taken \/ msg' = msg
      BY <2>2 DEF Enqueue
    <3> QED
      BY <3>2, <3>3 DEF Typed
  <2>3. CASE ~Enqueue(c)
    BY <2>3 DEF FailRun, FailSlot, CrashCaller, Typed
  <2> QED
    BY <2>2, <2>3
<1>6. faults' \in 0 .. MaxFaults
  BY FaultCounted DEF Enqueue, FailRun, FailSlot, CrashCaller
<1> QED
  BY <1>1, <1>2, <1>3, <1>4, <1>5, <1>6, CallStep

LEMMA PreviousTyped == Typed => Previous \in Nat
<1> SUFFICES ASSUME Typed PROVE Previous \in Nat
  OBVIOUS
<1> DEFINE open == {i \in 1 .. Len(created) : created[i] \in OpenRuns}
           last == CHOOSE i \in open : \A other \in open : other <= i
<1>1. CASE open = {}
  BY <1>1 DEF Previous
<1>2. CASE open # {}
  <2>1. open \subseteq 1 .. Len(created) /\ Len(created) \in Nat
    BY LenProperties DEF Typed
  <2>2. \E i \in open : \A other \in open : other <= i
    <3> HIDE DEF open
    <3> QED
      BY <1>2, <2>1, Greatest
  <2>3. last \in open
    <3> HIDE DEF open
    <3> QED
      BY <2>2
  <2>4. created[last] \in Run
    BY <2>3 DEF OpenRuns
  <2>5. Previous = recovery[created[last]]
    BY <1>2 DEF Previous
  <2> QED
    BY <2>4, <2>5 DEF Typed
<1> QED
  BY <1>1, <1>2

LEMMA ReapKeeps ==
  ASSUME Typed, ReservedInv, Scan \/ Reset \/ CloseFound \/ Recover \/ RequeueRefused
  PROVE  Typed' /\ ReservedInv' /\ Respects
<1>1. UNCHANGED <<recovery, created, msg, worker>> /\ Reaper \in Caller
  BY DEF Scan, Reset, CloseFound, Recover, RequeueRefused, Caller
<1>2. PICK b \in Call : caller' = [caller EXCEPT ![Reaper] = b] /\ b.pc \in {"idle", "found", "reaped", "requeue"}
  <2>1. CASE caller' = [caller EXCEPT ![Reaper] = Quiet]
    BY <2>1, QuietCall
  <2>2. CASE Scan
    <3> DEFINE b == [pc |-> "found", run |-> NoRun, seen |-> OpenRuns, attempt |-> Previous + 1]
    <3>1. Previous + 1 \in Nat
      BY PreviousTyped
    <3>2. b \in Call /\ b.pc = "found"
      BY <3>1 DEF Call, OpenRuns
    <3>3. caller' = [caller EXCEPT ![Reaper] = b]
      BY <2>2 DEF Scan
    <3> HIDE DEF b
    <3> QED
      BY <3>2, <3>3
  <2>3. CASE Reset
    <3>1. Go(Reaper, "reaped") \/ caller' = [caller EXCEPT ![Reaper] = Quiet]
      BY <2>3 DEF Reset
    <3> QED
      BY <1>1, <2>1, <3>1, CallGoesOn
  <2>4. CASE CloseFound
    <3>1. caller[Reaper].pc = "reaped"
      BY <2>4 DEF CloseFound, At
    <3>2. \/ \E r : caller' = [caller EXCEPT ![Reaper].seen = @ \ {r}]
          \/ caller' = [caller EXCEPT ![Reaper] = Quiet]
      BY <2>4 DEF CloseFound
    <3>3. CASE \E r : caller' = [caller EXCEPT ![Reaper].seen = @ \ {r}]
      <4>1. \E b \in Call : caller' = [caller EXCEPT ![Reaper] = b] /\ b.pc = caller[Reaper].pc
        BY <1>1, <3>3, SeesOn
      <4> QED
        BY <3>1, <4>1
    <3> QED
      BY <2>1, <3>2, <3>3
  <2>5. CASE Recover
    BY <1>1, <2>1, <2>5, CallGoesOn DEF Recover
  <2>6. CASE RequeueRefused
    BY <2>1, <2>6 DEF RequeueRefused
  <2> QED
    BY <2>2, <2>3, <2>4, <2>5, <2>6
<1>3. Respects /\ Reserves /\ faults' \in 0 .. MaxFaults
  <2>1. CASE CloseFound
    BY <2>1, FinishedRuns, SameRuns, FaultCounted DEF CloseFound, Terminal
  <2>2. CASE ~CloseFound
    BY <2>2, SameRuns DEF Scan, Reset, Recover, RequeueRefused, Typed
  <2> QED
    BY <2>1, <2>2
<1>4. SlotOK'
  BY SlotSame, SlotReleased DEF Scan, Reset, CloseFound, Recover, RequeueRefused
<1> QED
  BY <1>1, <1>2, <1>3, <1>4, CallStep DEF Typed

----------------------------------------------------------------------------
(* The steps of workers and of the queue.                                  *)

LEMMA WorkStep ==
  ASSUME Typed, ReservedInv, UNCHANGED <<caller, recovery, created>>, Respects, Reserves, SlotOK',
         worker' \in [Worker -> Work], \A w \in Worker : HasPlan(w)',
         msg' \in [Run -> Message], faults' \in 0 .. MaxFaults
  PROVE  Typed' /\ ReservedInv'
BY OthersKeepReserved DEF Typed, Respects

LEMMA Planned ==
  ASSUME Typed, NEW w \in Worker, worker[w].run \in Run, NEW pc \in {"writing", "givingup"},
         NEW todo \in Seq(Writes), NEW verdict \in Terminal \cup {"none"}, NEW throws \in BOOLEAN,
         verdict = "none" => todo \in Seq(Resuming), Plan(w, pc, todo, verdict, throws)
  PROVE  worker' \in [Worker -> Work] /\ \A v \in Worker : HasPlan(v)'
<1> DEFINE b == [pc |-> pc, run |-> worker[w].run, last |-> worker[w].last, todo |-> todo,
                 verdict |-> verdict, throws |-> throws]
<1>1. worker[w] \in Work
  BY DEF Typed
<1>2. b \in Work /\ b.pc = pc /\ b.run = worker[w].run /\ b.todo = todo /\ b.verdict = verdict
  BY <1>1 DEF Work, Writes
<1>3. worker' = [worker EXCEPT ![w] = b]
  BY DEF Plan
<1> HIDE DEF b
<1> QED
  BY <1>2, <1>3, WorkerMoves

\* The plans of the code.
LEMMA CodePlans ==
  ASSUME Typed, NEW w \in Worker, worker[w].run \in Run,
         \/ Plan(w, "writing", <<"finish", "release">>, "cancelled", FALSE)
         \/ Plan(w, "givingup", <<"finish", "release">>, "failed", TRUE)
         \/ \E throws \in BOOLEAN : Plan(w, "writing", <<>>, "none", throws)
         \/ Plan(w, "writing", <<"release", "finish">>, "succeeded", FALSE)
         \/ \E permanent \in BOOLEAN : Caught(w, permanent)
  PROVE  worker' \in [Worker -> Work] /\ \A v \in Worker : HasPlan(v)'
<1>1. CASE Plan(w, "writing", <<"finish", "release">>, "cancelled", FALSE)
  BY <1>1, Plans, Planned DEF Terminal
<1>2. CASE Plan(w, "givingup", <<"finish", "release">>, "failed", TRUE)
  BY <1>2, Plans, Planned DEF Terminal
<1>3. CASE \E throws \in BOOLEAN : Plan(w, "writing", <<>>, "none", throws)
  BY <1>3, Plans, Planned
<1>4. CASE Plan(w, "writing", <<"release", "finish">>, "succeeded", FALSE)
  BY <1>4, Plans, Planned DEF Terminal
<1>5. CASE Plan(w, "writing", <<"release", "finish">>, "failed", FALSE)
  BY <1>5, Plans, Planned DEF Terminal
<1>6. CASE Plan(w, "writing", <<"renew", "retry">>, "none", TRUE)
  BY <1>6, Plans, Planned
<1> QED
  BY <1>1, <1>2, <1>3, <1>4, <1>5, <1>6 DEF Caught

LEMMA Steps ==
  ASSUME Typed, NEW w \in Worker, worker[w].pc \in {"checking", "starting", "marking"},
         NEW pc \in {"starting", "marking", "ingesting"}, Step(w, pc)
  PROVE  worker' \in [Worker -> Work] /\ \A v \in Worker : HasPlan(v)'
<1> DEFINE b == [worker[w] EXCEPT !.pc = pc]
<1>1. worker[w] \in Work /\ HasPlan(w)
  BY DEF Typed
<1>2. b \in Work /\ b.pc = pc /\ b.run = worker[w].run /\ b.todo = worker[w].todo /\ b.verdict = worker[w].verdict
  BY <1>1 DEF Work
<1>3. worker' = [worker EXCEPT ![w] = b]
  BY DEF Step, Typed
<1> HIDE DEF b
<1>4. /\ b.pc # "idle" => b.run \in Run
      /\ b.todo # <<>> => b.pc \in {"writing", "givingup"}
      /\ b.verdict = "none" => b.todo \in Seq(Resuming)
  BY <1>1, <1>2 DEF HasPlan
<1> QED
  BY <1>2, <1>3, <1>4, WorkerMoves

LEMMA Frees ==
  ASSUME Typed, NEW w \in Worker, worker' = [worker EXCEPT ![w] = Free]
  PROVE  worker' \in [Worker -> Work] /\ \A v \in Worker : HasPlan(v)'
BY FreeWork, Plans, WorkerMoves

\* The writes it has left, after one more.
LEMMA WritesOn ==
  ASSUME Typed, NEW w \in Worker, worker[w].todo # <<>>, worker' = [worker EXCEPT ![w].todo = Tail(@)]
  PROVE  worker' \in [Worker -> Work] /\ \A v \in Worker : HasPlan(v)'
<1> DEFINE rest == Tail(worker[w].todo)
           b == [worker[w] EXCEPT !.todo = rest]
<1>1. worker[w] \in Work
  BY DEF Typed
<1>2. /\ rest \in Seq(Writes) /\ worker[w].run \in Run /\ worker[w].pc \in {"writing", "givingup"}
      /\ worker[w].verdict = "none" => rest \in Seq(Resuming)
  BY NextWrite
<1>3. worker' = [worker EXCEPT ![w] = b]
  BY DEF Typed
<1> HIDE DEF rest
<1>4. b \in Work /\ b.pc = worker[w].pc /\ b.run = worker[w].run /\ b.todo = rest /\ b.verdict = worker[w].verdict
  BY <1>1, <1>2 DEF Work, Writes
<1> HIDE DEF b
<1> QED
  BY <1>2, <1>3, <1>4, WorkerMoves

LEMMA AckedTyped ==
  ASSUME Typed, NEW r \in Run, NEW throws
  PROVE  Acked(r, throws) \in Message
<1>1. msg[r] \in Message
  BY DEF Typed
<1>2. CASE throws /\ msg[r].made + 1 < Attempts
  <2> DEFINE n == msg[r].made + 1
  <2>1. n \in 0 .. Attempts - 1
    BY <1>1, <1>2, ConnectorSyncAssumption DEF Message
  <2>2. Acked(r, throws) = [msg[r] EXCEPT !.state = "waiting", !.made = n, !.holder = Nobody]
    BY <1>2 DEF Acked
  <2> HIDE DEF n
  <2> QED
    BY <1>1, <2>1, <2>2 DEF Message
<1>3. CASE ~(throws /\ msg[r].made + 1 < Attempts)
  <2>1. Acked(r, throws) = [msg[r] EXCEPT !.state = "gone", !.holder = Nobody]
    BY <1>3 DEF Acked
  <2> QED
    BY <1>1, <2>1 DEF Message
<1> QED
  BY <1>2, <1>3

LEMMA DeliverKeeps ==
  ASSUME Typed, ReservedInv, NEW w \in Worker, NEW r \in Run, Deliver(w, r)
  PROVE  Typed' /\ ReservedInv' /\ Respects
<1>1. UNCHANGED <<slot, run, recovery, created, caller, faults>>
  BY DEF Deliver
<1>2. CASE run[r] \in Open
  <2> DEFINE last == msg[r].made + 1 >= Attempts
             b == [Free EXCEPT !.pc = "checking", !.run = r, !.last = last]
             n == [msg[r] EXCEPT !.state = "active", !.holder = w]
  <2>1. msg' = [msg EXCEPT ![r] = n] /\ worker' = [worker EXCEPT ![w] = b]
    BY <1>2 DEF Deliver, Typed
  <2>2. n \in Message
    BY DEF Typed, Message
  <2>3. last \in BOOLEAN
    OBVIOUS
  <2> HIDE DEF last, n
  <2>4. b \in Work /\ b.pc = "checking" /\ b.run = r /\ b.todo = <<>> /\ b.verdict = "none"
    BY <2>3, FreeWork DEF Work
  <2> HIDE DEF b
  <2>5. worker' \in [Worker -> Work] /\ \A v \in Worker : HasPlan(v)'
    BY <2>1, <2>4, Plans, WorkerMoves
  <2>6. msg' \in [Run -> Message]
    BY <2>1, <2>2 DEF Typed
  <2> QED
    BY <1>1, <2>5, <2>6, WorkStep, SameRuns, SlotSame DEF Typed
<1>3. CASE run[r] \notin Open
  <2>1. msg' = [msg EXCEPT ![r] = Acked(r, FALSE)] /\ UNCHANGED worker
    BY <1>3 DEF Deliver
  <2>2. msg' \in [Run -> Message]
    BY <2>1, AckedTyped DEF Typed
  <2> QED
    BY <1>1, <2>1, <2>2, WorkStep, SameRuns, SlotSame, SameWorkers DEF Typed
<1> QED
  BY <1>2, <1>3

LEMMA CheckKeeps ==
  ASSUME Typed, ReservedInv, NEW w \in Worker, Check(w) \/ Ingest(w)
  PROVE  Typed' /\ ReservedInv' /\ Respects
<1>1. /\ UNCHANGED <<slot, run, recovery, created, msg, caller>>
      /\ UNCHANGED faults \/ Goes("write")
  BY DEF Check, Ingest
<1>2. worker[w].run \in Run
  BY DEF Check, Ingest, Doing, Typed, HasPlan
<1>3. worker' \in [Worker -> Work] /\ \A v \in Worker : HasPlan(v)'
  <2>1. CASE Check(w)
    <3>1. CASE Step(w, "starting")
      BY <2>1, <3>1, Steps DEF Check, Doing
    <3>2. CASE ~Step(w, "starting")
      BY <1>2, <2>1, <3>2, CodePlans DEF Check
    <3> QED
      BY <3>1, <3>2
  <2>2. CASE Ingest(w)
    BY <1>2, <2>2, CodePlans DEF Ingest
  <2> QED
    BY <2>1, <2>2
<1> QED
  BY <1>1, <1>3, WorkStep, SameRuns, SlotSame, FaultCounted DEF Typed

LEMMA StartKeeps ==
  ASSUME Typed, ReservedInv, NEW w \in Worker, Start(w)
  PROVE  Typed' /\ ReservedInv' /\ Respects
<1>1. /\ UNCHANGED <<slot, recovery, created, msg, caller, faults>>
      /\ worker[w].pc = "starting" /\ worker[w].run \in Run
  BY DEF Start, Doing, Typed, HasPlan
<1>2. CASE run[worker[w].run] \in Open
  <2>1. run' = [run EXCEPT ![worker[w].run] = "running"] /\ Step(w, "marking")
    BY <1>2 DEF Start
  <2>2. "running" \in Status /\ run[worker[w].run] \notin Terminal /\ run[worker[w].run] # "reserved"
    BY <1>2 DEF Status, Open, Terminal
  <2>3. Respects /\ \A s \in Run : s # worker[w].run => run'[s] = run[s]
    BY <1>1, <2>1, <2>2, OneRun
  <2>4. Reserves
    BY <2>2, <2>3 DEF Reserves
  <2>5. worker' \in [Worker -> Work] /\ \A v \in Worker : HasPlan(v)'
    BY <1>1, <2>1, Steps
  <2> QED
    BY <1>1, <2>3, <2>4, <2>5, WorkStep, SlotSame DEF Typed
<1>3. CASE run[worker[w].run] \notin Open
  <2>1. Plan(w, "writing", <<>>, "none", FALSE) /\ UNCHANGED run
    BY <1>3 DEF Start
  <2>2. worker' \in [Worker -> Work] /\ \A v \in Worker : HasPlan(v)'
    BY <1>1, <2>1, CodePlans
  <2> QED
    BY <1>1, <2>1, <2>2, WorkStep, SlotSame, SameRuns DEF Typed
<1> QED
  BY <1>2, <1>3

LEMMA MarkRunningKeeps ==
  ASSUME Typed, ReservedInv, NEW w \in Worker, MarkRunning(w) \/ Beat(w)
  PROVE  Typed' /\ ReservedInv' /\ Respects
<1>1. UNCHANGED <<run, recovery, created, msg, caller, faults>>
  BY DEF MarkRunning, Beat
<1>2. CASE MarkRunning(w)
  <2>1. worker[w].pc = "marking" /\ worker[w].run \in Run
    BY <1>2 DEF MarkRunning, Doing, Typed, HasPlan
  <2>2. SlotOK'
    BY <1>2, <2>1, SlotSame, SlotMarked DEF MarkRunning
  <2>3. worker' \in [Worker -> Work] /\ \A v \in Worker : HasPlan(v)'
    BY <1>2, <2>1, Steps DEF MarkRunning
  <2> QED
    BY <1>1, <2>2, <2>3, WorkStep, SameRuns DEF Typed
<1>3. CASE Beat(w)
  <2>1. SlotOK' /\ UNCHANGED worker
    BY <1>3, SlotBeats DEF Beat
  <2> QED
    BY <1>1, <2>1, WorkStep, SameRuns, SameWorkers DEF Typed
<1> QED
  BY <1>2, <1>3

LEMMA WriteKeeps ==
  ASSUME Typed, ReservedInv, NEW w \in Worker, Write(w)
  PROVE  Typed' /\ ReservedInv' /\ Respects
<1> DEFINE r == worker[w].run
           write == Head(worker[w].todo)
           status == IF worker[w].verdict = "succeeded" THEN "succeeded" ELSE "failed"
<1>1. /\ worker[w].todo # <<>> /\ worker' = [worker EXCEPT ![w].todo = Tail(@)]
      /\ UNCHANGED <<recovery, created, msg, caller, faults>>
      /\ slot' = CASE write = "release" /\ Holds(r) -> Released(status)
                   [] write = "renew" /\ Holds(r) -> [slot EXCEPT !.status = "queued", !.live = TRUE]
                   [] OTHER -> slot
      /\ run' = CASE write = "finish" -> Finished({r}, worker[w].verdict)
                  [] write = "retry" /\ run[r] = "running" -> [run EXCEPT ![r] = "retrying"]
                  [] OTHER -> run
  BY DEF Write
<1>2. r \in Run /\ (worker[w].verdict = "none" => write \in Resuming) /\ status \in {"succeeded", "failed"}
  BY <1>1, NextWrite
<1>3. worker[w].verdict \in Terminal \cup {"none"}
  BY DEF Typed, Work
<1> HIDE DEF r, write, status
<1>4. SlotOK'
  <2>1. CASE write = "release" /\ Holds(r)
    BY <1>1, <1>2, <2>1, SlotReleased
  <2>2. CASE write = "renew" /\ Holds(r)
    BY <1>1, <1>2, <2>2, SlotMarked
  <2>3. CASE ~(write = "release" /\ Holds(r)) /\ ~(write = "renew" /\ Holds(r))
    BY <1>1, <2>3, SlotSame
  <2> QED
    BY <2>1, <2>2, <2>3
<1>5. Respects /\ Reserves
  <2>1. CASE write = "finish"
    <3>1. worker[w].verdict \in Terminal
      BY <1>2, <1>3, <2>1 DEF Resuming
    <3>2. run' = Finished({r}, worker[w].verdict)
      BY <1>1, <2>1
    <3> QED
      BY <3>1, <3>2, FinishedRuns
  <2>2. CASE write = "retry" /\ run[r] = "running"
    <3>1. run' = [run EXCEPT ![r] = "retrying"]
      BY <1>1, <2>2
    <3>2. Respects /\ \A s \in Run : s # r => run'[s] = run[s]
      BY <1>2, <2>2, <3>1, OneRun DEF Status, Open, Terminal
    <3> QED
      BY <2>2, <3>2 DEF Reserves
  <2>3. CASE write # "finish" /\ ~(write = "retry" /\ run[r] = "running")
    BY <1>1, <2>3, SameRuns
  <2> QED
    BY <2>1, <2>2, <2>3
<1>6. worker' \in [Worker -> Work] /\ \A v \in Worker : HasPlan(v)'
  BY <1>1, WritesOn
<1> QED
  BY <1>1, <1>4, <1>5, <1>6, WorkStep DEF Typed

LEMMA WriteFailsKeeps ==
  ASSUME Typed, ReservedInv, NEW w \in Worker, WriteFails(w)
  PROVE  Typed' /\ ReservedInv' /\ Respects
<1>1. /\ UNCHANGED <<slot, run, recovery, created, msg, caller>> /\ Goes("write")
      /\ worker[w].pc \in {"starting", "marking"} \/ worker[w].todo # <<>>
  BY DEF WriteFails
<1>2. worker[w].run \in Run
  BY <1>1, NextWrite DEF Typed, HasPlan
<1>3. worker' \in [Worker -> Work] /\ \A v \in Worker : HasPlan(v)'
  <2>1. CASE Doing(w, "givingup")
    <3>1. worker' = [worker EXCEPT ![w].todo = Tail(@)] /\ worker[w].todo # <<>>
      BY <1>1, <2>1 DEF WriteFails, Doing
    <3> QED
      BY <3>1, WritesOn
  <2>2. CASE ~Doing(w, "givingup") /\ worker[w].verdict = "succeeded"
    <3>1. Caught(w, FALSE)
      BY <2>2 DEF WriteFails
    <3> QED
      BY <1>2, <3>1, CodePlans
  <2>3. CASE ~Doing(w, "givingup") /\ worker[w].verdict # "succeeded"
    <3>1. Plan(w, "writing", <<>>, "none", TRUE)
      BY <2>3 DEF WriteFails
    <3> QED
      BY <1>2, <3>1, CodePlans
  <2> QED
    BY <2>1, <2>2, <2>3
<1> QED
  BY <1>1, <1>3, WorkStep, SameRuns, SlotSame, FaultCounted DEF Typed

LEMMA SettleKeeps ==
  ASSUME Typed, ReservedInv, NEW w \in Worker, Settle(w) \/ CrashWorker(w)
  PROVE  Typed' /\ ReservedInv' /\ Respects
<1> DEFINE r == worker[w].run
<1>1. /\ UNCHANGED <<slot, run, recovery, created, caller>> /\ worker' = [worker EXCEPT ![w] = Free]
      /\ \/ msg' = msg
         \/ \E throws \in {worker[w].throws, FALSE} : msg' = [msg EXCEPT ![r] = Acked(r, throws)]
      /\ UNCHANGED faults \/ Goes("crash")
  BY DEF Settle, CrashWorker
<1>2. r \in Run
  BY DEF Settle, CrashWorker, Doing, Typed, HasPlan
<1>3. msg' \in [Run -> Message]
  <2>1. CASE msg' = msg
    BY <2>1 DEF Typed
  <2>2. ASSUME NEW throws, msg' = [msg EXCEPT ![r] = Acked(r, throws)] PROVE msg' \in [Run -> Message]
    <3>1. Acked(r, throws) \in Message
      BY <1>2, AckedTyped
    <3> HIDE DEF r
    <3> QED
      BY <2>2, <3>1 DEF Typed
  <2> HIDE DEF r
  <2> QED
    BY <1>1, <2>1, <2>2
<1> QED
  BY <1>1, <1>3, Frees, WorkStep, SameRuns, SlotSame, FaultCounted

LEMMA QueueKeeps ==
  ASSUME Typed, ReservedInv, Expire \/ \E r \in Run : Stall(r) \/ Drop(r)
  PROVE  Typed' /\ ReservedInv' /\ Respects
<1>1. CASE Expire
  <2>1. SlotOK' /\ UNCHANGED <<run, recovery, created, msg, caller, worker, faults>>
    BY <1>1, SlotBeats DEF Expire
  <2> QED
    BY <2>1, WorkStep, SameRuns, SameWorkers DEF Typed
<1>2. CASE \E r \in Run : Stall(r) \/ Drop(r)
  <2> PICK r \in Run : Stall(r) \/ Drop(r)
    BY <1>2
  <2>1. UNCHANGED <<slot, run, recovery, created, caller, worker>> /\ faults' \in 0 .. MaxFaults
    BY FaultCounted DEF Stall, Drop
  <2>2. msg' \in [Run -> Message]
    <3>1. msg[r] \in Message
      BY DEF Typed
    <3>2. CASE Stall(r)
      <4> DEFINE again == [msg[r] EXCEPT !.state = "waiting", !.holder = Nobody, !.stalls = 1]
                 gone == [msg[r] EXCEPT !.state = "gone", !.holder = Nobody]
      <4>0. 1 \in 0 .. 1
        OBVIOUS
      <4>1. again \in Message /\ gone \in Message
        BY <3>1, <4>0 DEF Message
      <4>2. msg' = [msg EXCEPT ![r] = again] \/ msg' = [msg EXCEPT ![r] = gone]
        BY <3>2 DEF Stall, Typed
      <4> HIDE DEF again, gone
      <4> QED
        BY <4>1, <4>2 DEF Typed
    <3>3. CASE Drop(r)
      <4> DEFINE gone == [msg[r] EXCEPT !.state = "gone"]
      <4>1. gone \in Message
        BY <3>1 DEF Message
      <4>2. msg' = [msg EXCEPT ![r] = gone]
        BY <3>3 DEF Drop, Typed
      <4> HIDE DEF gone
      <4> QED
        BY <4>1, <4>2 DEF Typed
    <3> QED
      BY <3>2, <3>3
  <2> QED
    BY <2>1, <2>2, WorkStep, SameRuns, SlotSame, SameWorkers
<1> QED
  BY <1>1, <1>2

LEMMA NextInv == Typed /\ ReservedInv /\ [Next]_vars => Typed' /\ ReservedInv' /\ Respects
<1> SUFFICES ASSUME Typed, ReservedInv, [Next]_vars PROVE Typed' /\ ReservedInv' /\ Respects
  OBVIOUS
<1>1. ASSUME NEW c \in Caller, Claim(c) \/ Request(c) PROVE Typed' /\ ReservedInv' /\ Respects
  BY <1>1, ClaimKeeps, FindKeeps, CloseKeeps, CreateKeeps, LaterKeeps DEF Request
<1>2. CASE Reap
  <2>1. Reaper \in Caller
    BY DEF Caller
  <2> QED
    BY <1>1, <1>2, <2>1, ReapKeeps DEF Reap
<1>3. ASSUME NEW c \in Caller, CrashCaller(c) PROVE Typed' /\ ReservedInv' /\ Respects
  BY <1>3, LaterKeeps
<1>4. ASSUME NEW w \in Worker, Sync(w) \/ Beat(w) \/ WriteFails(w) \/ CrashWorker(w)
      PROVE  Typed' /\ ReservedInv' /\ Respects
  BY <1>4, CheckKeeps, StartKeeps, MarkRunningKeeps, WriteKeeps, WriteFailsKeeps, SettleKeeps DEF Sync
<1>5. ASSUME NEW w \in Worker, NEW r \in Run, Deliver(w, r) PROVE Typed' /\ ReservedInv' /\ Respects
  BY <1>5, DeliverKeeps
<1>6. CASE UNCHANGED vars
  <2>1. UNCHANGED <<slot, run, recovery, created, msg, caller, worker, faults>>
    BY <1>6 DEF vars
  <2> QED
    BY <2>1, WorkStep, SameRuns, SlotSame, SameWorkers DEF Typed
<1>7. Requester \subseteq Caller
  BY DEF Caller
<1> QED
  BY <1>1, <1>2, <1>3, <1>4, <1>5, <1>6, <1>7, QueueKeeps DEF Next

LEMMA AlwaysInv == Spec => [](Typed /\ ReservedInv)
<1> QED
  BY InitInv, NextInv, PTL DEF Spec

----------------------------------------------------------------------------
(* The theorems.                                                           *)

\* syncRun.repository.js finish: whatever request, worker, reaper and takeover
\* race to close a SyncRun, nothing changes it after its first verdict
\* (VerdictFinal). Its creation cannot either, because a call that has not
\* created its run yet has the id for itself (ReservedInv).
THEOREM FirstVerdictStands == Spec => VerdictFinal
<1>1. Typed /\ ReservedInv /\ [Next]_vars => [\A r \in Run : run[r] \in Terminal => run'[r] = run[r]]_vars
  BY NextInv DEF Respects
<1> QED
  BY <1>1, AlwaysInv, PTL DEF Spec, VerdictFinal

\* connector.repository.js slotFilter: no step of a worker whose run was
\* superseded touches the slot of the run that took over (SupersededIsSilent).
THEOREM SupersededStaysSilent == Spec => SupersededIsSilent
<1> DEFINE Silent == \A w \in Worker :
             worker'[w] # worker[w] /\ worker[w].run \notin {NoRun, slot.owner} => slot' = slot
<1>1. ASSUME Typed, Next PROVE Silent
  <2>1. CASE UNCHANGED slot
    BY <2>1
  <2>2. CASE UNCHANGED worker
    BY <2>2
  <2>3. ASSUME NEW v \in Worker, MarkRunning(v) \/ Write(v) PROVE Silent
    <3> SUFFICES ASSUME NEW w \in Worker, worker'[w] # worker[w], worker[w].run # slot.owner
                 PROVE  slot' = slot
      OBVIOUS
    <3>1. w = v
      BY <1>1, <2>3 DEF MarkRunning, Step, Write, Typed
    <3>2. ~Holds(worker[v].run)
      BY <3>1 DEF Holds
    <3> QED
      BY <2>3, <3>2 DEF MarkRunning, Write
  <2>4. ASSUME NEW c \in Caller, Claim(c) \/ Request(c) \/ CrashCaller(c) PROVE UNCHANGED worker
    BY <2>4 DEF Claim, Request, FindOpen, CloseOthers, Create, Enqueue, FailRun, FailSlot, CrashCaller
  <2>5. CASE Reap
    <3>1. Reaper \in Caller
      BY DEF Caller
    <3>2. UNCHANGED worker
      BY <2>4, <2>5, <3>1 DEF Reap, Scan, Reset, CloseFound, Recover, RequeueRefused
    <3> QED
      BY <2>2, <3>2
  <2>6. ASSUME NEW w \in Worker, Sync(w) \/ Beat(w) \/ WriteFails(w) \/ CrashWorker(w) PROVE Silent
    BY <2>1, <2>2, <2>3, <2>6 DEF Sync, Check, Start, Ingest, Settle, Beat, WriteFails, CrashWorker
  <2>7. ASSUME NEW w \in Worker, NEW r \in Run, Deliver(w, r) PROVE UNCHANGED slot
    BY <2>7 DEF Deliver
  <2>8. CASE Expire \/ \E r \in Run : Stall(r) \/ Drop(r)
    BY <2>2, <2>8 DEF Expire, Stall, Drop
  <2> HIDE DEF Silent
  <2> QED
    BY <1>1, <2>1, <2>2, <2>4, <2>5, <2>6, <2>7, <2>8 DEF Next, Caller
<1>2. Typed /\ ReservedInv /\ [Next]_vars => [Silent]_vars
  BY <1>1
<1>3. [Silent]_vars => [\A w \in Worker :
       /\ worker'[w] # worker[w] /\ worker[w].run \notin {NoRun, slot.owner}
       => slot' = slot]_vars
  OBVIOUS
<1> HIDE DEF Silent
<1> QED
  BY <1>2, <1>3, AlwaysInv, PTL DEF Spec, SupersededIsSilent

----------------------------------------------------------------------------
(* At most one open run that is not stray.                                 *)

\* A call that has the slot and closes what it found has found every open run
\* that is not stray; so there is none left when it creates its own.
Confined ==
  /\ stray \subseteq Run
  /\ \A c \in Caller : caller[c].pc = "closing" /\ Holds(caller[c].run) =>
       OpenRuns \ stray \subseteq caller[c].seen
  /\ \A r, s \in OpenRuns \ stray : r = s

\* No run is opened.
Evolves == \A r \in Run : run'[r] \in Open => run[r] \in Open

LEMMA FinishedEvolves ==
  ASSUME NEW rs, NEW status \in Terminal, run' = Finished(rs, status)
  PROVE  Evolves
BY DEF Finished, Evolves, Open, Terminal

LEMMA SameEvolves == run' = run => Evolves
BY DEF Evolves

\* A step that opens no run, gives the slot to nobody and leaves what calls
\* are still to close.
LEMMA ConfinedStep ==
  ASSUME Typed, Confined, Evolves, stray' = stray, slot'.owner \in {slot.owner, NoRun},
         \A c \in Caller : caller'[c].pc = "closing" => caller'[c] = caller[c]
  PROVE  Confined'
<1>1. OpenRuns' \subseteq OpenRuns
  BY DEF OpenRuns, Evolves
<1>2. \A c \in Caller : caller'[c].pc = "closing" /\ Holds(caller[c].run)' =>
        caller[c].pc = "closing" /\ Holds(caller[c].run) /\ caller'[c].seen = caller[c].seen
  BY DEF Typed, HasRun, Holds, Run, NoRun
<1>3. \A c \in Caller : caller'[c].pc = "closing" => caller'[c].run = caller[c].run
  OBVIOUS
<1> QED
  BY <1>1, <1>2, <1>3 DEF Confined, Holds

LEMMA ConfinedClaim ==
  ASSUME Typed, ReservedInv, Confined, NEW c \in Caller, Claim(c)
  PROVE  Confined'
<1>1. PICK r \in Run :
        /\ run[r] = "absent" /\ slot' = [status |-> "queued", owner |-> r, live |-> TRUE]
        /\ run' = [run EXCEPT ![r] = "reserved"] /\ UNCHANGED stray
        /\ caller' = [caller EXCEPT ![c] =
             [pc |-> "claimed", run |-> r, seen |-> {}, attempt |-> caller[c].attempt]]
  <2> DEFINE r == CHOOSE r \in Unused : \A other \in Unused : r <= other
  <2>1. Unused \subseteq Nat /\ Unused # {}
    BY DEF Claim, Unused, Run
  <2>2. r \in Unused
    BY <2>1, Least
  <2>3. r \in Run /\ run[r] = "absent"
    BY <2>2 DEF Unused
  <2> QED
    BY <2>3 DEF Claim
<1>2. OpenRuns' \subseteq OpenRuns
  BY <1>1 DEF OpenRuns, Open, Typed
<1>3. \A d \in Caller : caller'[d].pc = "closing" => caller[d].pc = "closing" /\ caller'[d].run = caller[d].run
  BY <1>1 DEF Typed
<1>4. \A d \in Caller : caller[d].pc = "closing" => caller[d].run # r
  BY <1>1 DEF ReservedInv, Reserving
<1>5. \A d \in Caller : caller'[d].pc = "closing" => slot'.owner # caller'[d].run
  BY <1>1, <1>3, <1>4 DEF Holds
<1> QED
  BY <1>1, <1>2, <1>5 DEF Confined, Holds

\* One call goes on to close what it found, and the slot stays as it is.
LEMMA ConfinedClosing ==
  ASSUME Typed, Confined, Evolves, UNCHANGED slot, NEW c \in Caller, NEW b,
         caller' = [caller EXCEPT ![c] = b], b.run = caller[c].run,
         stray \subseteq stray', stray' \subseteq Run,
         Holds(caller[c].run) => OpenRuns' \ stray' \subseteq b.seen
  PROVE  Confined'
<1>1. OpenRuns' \subseteq OpenRuns
  BY DEF OpenRuns, Evolves
<1>2. \A d \in Caller : caller'[d] = IF d = c THEN b ELSE caller[d]
  BY DEF Typed
<1>3. \A d \in Caller : caller'[d].pc = "closing" /\ slot'.owner = caller'[d].run =>
        OpenRuns' \ stray' \subseteq caller'[d].seen
  <2> SUFFICES ASSUME NEW d \in Caller, caller'[d].pc = "closing", slot'.owner = caller'[d].run
               PROVE  OpenRuns' \ stray' \subseteq caller'[d].seen
    OBVIOUS
  <2>1. CASE d = c
    BY <1>2, <2>1 DEF Holds
  <2>2. CASE d # c
    <3>1. OpenRuns \ stray \subseteq caller[d].seen
      BY <1>2, <2>2 DEF Confined, Holds
    <3> QED
      BY <1>1, <1>2, <2>2, <3>1
  <2> QED
    BY <2>1, <2>2
<1>4. \A r, s \in OpenRuns' \ stray' : r = s
  BY <1>1 DEF Confined
<1> QED
  BY <1>3, <1>4 DEF Confined, Holds

LEMMA ConfinedFind ==
  ASSUME Typed, ReservedInv, Confined, NEW c \in Caller, FindOpen(c)
  PROVE  Confined'
<1> DEFINE others == OpenRuns \ {caller[c].run}
           b(rs) == [caller[c] EXCEPT !.pc = "closing", !.seen = rs]
<1>1. UNCHANGED <<slot, run>> /\ caller[c].run \in Run /\ caller[c].run \notin OpenRuns
  BY DEF FindOpen, At, Typed, HasRun, ReservedInv, Reserving, OpenRuns, Open
<1>2. \/ caller' = [caller EXCEPT ![c] = b(others)] /\ stray' = stray
      \/ caller' = [caller EXCEPT ![c] = b({})] /\ Missed(c, others)
  BY DEF FindOpen, Typed
<1>3. \A rs : b(rs).run = caller[c].run /\ b(rs).seen = rs
  BY DEF Typed, Call
<1> HIDE DEF b
<1>4. OpenRuns' = OpenRuns /\ others = OpenRuns /\ OpenRuns \subseteq Run
  BY <1>1 DEF OpenRuns
<1> HIDE DEF others
<1>5. /\ stray \subseteq stray' /\ stray' \subseteq Run
      /\ caller' = [caller EXCEPT ![c] = b({})] /\ stray' # stray => stray' = stray \cup others
      /\ Missed(c, others) /\ Holds(caller[c].run) => stray' = stray \cup others
  BY <1>2, <1>4 DEF Missed, Confined
<1>6. PICK rs : /\ caller' = [caller EXCEPT ![c] = b(rs)]
                /\ Holds(caller[c].run) => OpenRuns' \ stray' \subseteq rs
  BY <1>2, <1>4, <1>5
<1> QED
  BY <1>1, <1>3, <1>5, <1>6, SameEvolves, ConfinedClosing

LEMMA ConfinedClose ==
  ASSUME Typed, ReservedInv, Confined, NEW c \in Caller, CloseOthers(c)
  PROVE  Confined'
<1>1. PICK r \in caller[c].seen :
        /\ caller' = [caller EXCEPT ![c].seen = @ \ {r}]
        /\ \/ run' = Finished({r}, "abandoned") /\ UNCHANGED stray
           \/ UNCHANGED run /\ Missed(c, {r})
  BY DEF CloseOthers
<1>2. UNCHANGED slot /\ caller[c].pc = "closing" /\ r \in Run
  BY DEF CloseOthers, At, Typed, Call
<1>3. PICK b \in Call : /\ caller' = [caller EXCEPT ![c] = b] /\ b.run = caller[c].run
                        /\ b.seen = caller[c].seen \ {r}
  BY <1>1, SeesOn
<1>4. Evolves
  BY <1>1, FinishedEvolves, SameEvolves DEF Terminal
<1>5. stray \subseteq stray' /\ stray' \subseteq Run
  BY <1>1, <1>2 DEF Missed, Confined
<1>6. Holds(caller[c].run) => OpenRuns' \ stray' \subseteq b.seen
  <2>1. OpenRuns' \subseteq OpenRuns
    BY <1>4 DEF OpenRuns, Evolves
  <2>2. Holds(caller[c].run) => OpenRuns \ stray \subseteq caller[c].seen
    BY <1>2 DEF Confined
  <2>3. Holds(caller[c].run) => r \notin OpenRuns' \/ r \in stray'
    BY <1>1 DEF Missed, OpenRuns, Finished, Open
  <2> QED
    BY <1>3, <1>5, <2>1, <2>2, <2>3
<1> QED
  BY <1>2, <1>3, <1>4, <1>5, <1>6, ConfinedClosing

LEMMA ConfinedCreate ==
  ASSUME Typed, ReservedInv, Confined, NEW c \in Caller, Create(c)
  PROVE  Confined'
<1> DEFINE own == caller[c].run
<1>1. /\ caller[c].pc = "closing" /\ caller[c].seen = {} /\ UNCHANGED slot
      /\ Insert(c) \/ UNCHANGED <<run, stray>>
      /\ Go(c, "enqueueing") \/ Go(c, "releasing")
  BY DEF Create, At
<1>2. own \in Run /\ Reserving(c) /\ (Holds(own) => OpenRuns \ stray = {})
  BY <1>1 DEF Typed, HasRun, Reserving, Confined
<1>3. \A d \in Caller : caller'[d].pc = "closing" => d # c /\ caller'[d] = caller[d]
  BY <1>1 DEF Go, Typed, Call
<1>4. CASE UNCHANGED <<run, stray>>
  BY <1>1, <1>3, <1>4, SameEvolves, ConfinedStep
<1>5. CASE Insert(c)
  <2>1. OpenRuns' \subseteq OpenRuns \cup {own}
    BY <1>2, <1>5 DEF Insert, Typed, OpenRuns
  <2>2. CASE Holds(own)
    <3>1. stray' = stray
      BY <1>5, <2>2 DEF Insert, Opened
    <3>2. OpenRuns' \ stray' \subseteq {own}
      BY <1>2, <2>1, <2>2, <3>1
    <3>3. \A d \in Caller : caller'[d].pc = "closing" => slot'.owner # caller'[d].run
      <4>1. \A d \in Caller : caller'[d].pc = "closing" => Reserving(d) /\ caller[d].run # own
        BY <1>2, <1>3 DEF Reserving, ReservedInv
      <4> QED
        BY <1>1, <1>3, <2>2, <4>1 DEF Holds
    <3> QED
      BY <3>1, <3>2, <3>3 DEF Confined, Holds
  <2>3. CASE ~Holds(own)
    <3>1. stray' = stray \cup {own}
      BY <1>5, <2>3 DEF Insert, Opened
    <3>2. OpenRuns' \ stray' \subseteq OpenRuns \ stray
      BY <2>1, <3>1
    <3>3. \A d \in Caller : caller'[d].pc = "closing" /\ slot'.owner = caller'[d].run =>
            caller[d].pc = "closing" /\ Holds(caller[d].run) /\ caller'[d].seen = caller[d].seen
      BY <1>1, <1>3 DEF Holds
    <3>4. \A d \in Caller : caller'[d].pc = "closing" /\ slot'.owner = caller'[d].run =>
            OpenRuns' \ stray' \subseteq caller'[d].seen
      <4>1. \A d \in Caller : caller[d].pc = "closing" /\ Holds(caller[d].run) =>
              OpenRuns \ stray \subseteq caller[d].seen
        BY DEF Confined
      <4> QED
        BY <3>2, <3>3, <4>1
    <3>5. stray' \subseteq Run /\ \A r, s \in OpenRuns' \ stray' : r = s
      BY <1>2, <3>1, <3>2 DEF Confined
    <3> QED
      BY <3>4, <3>5 DEF Confined, Holds
  <2> QED
    BY <2>2, <2>3
<1> QED
  BY <1>1, <1>4, <1>5

\* The other steps of calls.
LEMMA ConfinedLater ==
  ASSUME Typed, Confined, NEW c \in Caller,
         \/ Enqueue(c) \/ FailRun(c) \/ FailSlot(c) \/ CrashCaller(c)
         \/ c = Reaper /\ (Scan \/ Reset \/ CloseFound \/ Recover \/ RequeueRefused)
  PROVE  Confined'
<1>1. UNCHANGED stray
  BY DEF Enqueue, FailRun, FailSlot, CrashCaller, Scan, Reset, CloseFound, Recover, RequeueRefused
<1>2. slot'.owner \in {slot.owner, NoRun}
  BY DEF Enqueue, FailRun, FailSlot, CrashCaller, Scan, Reset, CloseFound, Recover, RequeueRefused, Released
<1>3. Evolves
  BY FinishedEvolves, SameEvolves DEF Enqueue, FailRun, FailSlot, CrashCaller, Scan, Reset, CloseFound,
     Recover, RequeueRefused, Terminal
<1>4. \E b : caller' = [caller EXCEPT ![c] = b] /\ b.pc # "closing"
  <2>1. CASE caller' = [caller EXCEPT ![c] = Quiet]
    BY <2>1, QuietCall
  <2>2. ASSUME NEW pc \in {"failing", "releasing", "reaped", "requeue"}, Go(c, pc)
        PROVE  \E b : caller' = [caller EXCEPT ![c] = b] /\ b.pc # "closing"
    BY <2>2, CallGoesOn
  <2>3. CASE Enqueue(c) \/ FailRun(c)
    BY <2>1, <2>2, <2>3 DEF Enqueue, FailRun
  <2>4. CASE FailSlot(c)
    <3> DEFINE b == [caller[c] EXCEPT !.pc = "refused", !.attempt = 0]
    <3>1. caller' = [caller EXCEPT ![c] = b] \/ caller' = [caller EXCEPT ![c] = Quiet]
      BY <2>4 DEF FailSlot, Typed
    <3>2. b.pc = "refused"
      BY DEF Typed, Call
    <3> HIDE DEF b
    <3> QED
      BY <2>1, <3>1, <3>2
  <2>5. CASE CrashCaller(c)
    BY <2>1, <2>5 DEF CrashCaller
  <2>6. CASE c = Reaper /\ Scan
    <3> DEFINE b == [pc |-> "found", run |-> NoRun, seen |-> OpenRuns, attempt |-> Previous + 1]
    <3>1. caller' = [caller EXCEPT ![c] = b] /\ b.pc # "closing"
      BY <2>6 DEF Scan
    <3> QED
      BY <3>1
  <2>7. CASE c = Reaper /\ (Reset \/ Recover \/ RequeueRefused)
    BY <2>1, <2>2, <2>7 DEF Reset, Recover, RequeueRefused
  <2>8. CASE c = Reaper /\ CloseFound
    <3>1. caller[c].pc = "reaped"
      BY <2>8 DEF CloseFound, At
    <3>2. \/ \E r : caller' = [caller EXCEPT ![c].seen = @ \ {r}]
          \/ caller' = [caller EXCEPT ![c] = Quiet]
      BY <2>8 DEF CloseFound
    <3>3. CASE \E r : caller' = [caller EXCEPT ![c].seen = @ \ {r}]
      <4>1. \E b \in Call : caller' = [caller EXCEPT ![c] = b] /\ b.pc = caller[c].pc
        BY <3>3, SeesOn
      <4> QED
        BY <3>1, <4>1
    <3> QED
      BY <2>1, <3>2, <3>3
  <2> QED
    BY <2>3, <2>4, <2>5, <2>6, <2>7, <2>8
<1>5. \A d \in Caller : caller'[d].pc = "closing" => caller'[d] = caller[d]
  BY <1>4 DEF Typed
<1> QED
  BY <1>1, <1>2, <1>3, <1>5, ConfinedStep

\* The steps of workers, of the queue and of time.
LEMMA ConfinedWork ==
  ASSUME Typed, Confined,
         \/ \E w \in Worker : Sync(w) \/ Beat(w) \/ WriteFails(w) \/ CrashWorker(w)
         \/ \E w \in Worker, r \in Run : Deliver(w, r)
         \/ \E r \in Run : Stall(r) \/ Drop(r)
         \/ Expire \/ UNCHANGED vars
  PROVE  Confined'
<1>1. UNCHANGED <<caller, stray>>
  BY DEF Sync, Check, Start, MarkRunning, Ingest, Write, Settle, Beat, WriteFails, CrashWorker,
     Deliver, Stall, Drop, Expire, vars
<1>2. ASSUME NEW w \in Worker, Start(w) PROVE Evolves
  BY <1>2 DEF Start, Doing, Typed, HasPlan, Evolves
<1>3. ASSUME NEW w \in Worker, Write(w) PROVE Evolves /\ slot'.owner \in {slot.owner, NoRun}
  <2> DEFINE r == worker[w].run
  <2>1. r \in Run /\ worker[w].verdict \in Terminal \cup {"none"}
        /\ (worker[w].verdict = "none" => Head(worker[w].todo) \in Resuming)
    BY <1>3, NextWrite DEF Write, Typed, Work
  <2>2. \/ run' = run
        \/ worker[w].verdict \in Terminal /\ run' = Finished({r}, worker[w].verdict)
        \/ run[r] = "running" /\ run' = [run EXCEPT ![r] = "retrying"]
    BY <1>3, <2>1 DEF Write, Resuming
  <2>3. \/ slot' = slot \/ \E status : slot' = Released(status)
        \/ slot' = [slot EXCEPT !.status = "queued", !.live = TRUE]
    BY <1>3 DEF Write
  <2> HIDE DEF r
  <2>4. run[r] = "running" /\ run' = [run EXCEPT ![r] = "retrying"] => Evolves
    BY <2>1 DEF Evolves, Typed, Open
  <2>5. slot'.owner \in {slot.owner, NoRun}
    <3>1. slot \in Slot
      BY DEF Typed, SlotOK
    <3>2. \A status : Released(status).owner = NoRun
      BY DEF Released
    <3>3. [slot EXCEPT !.status = "queued", !.live = TRUE].owner = slot.owner
      BY <3>1 DEF Slot
    <3> QED
      BY <2>3, <3>2, <3>3
  <2> QED
    BY <2>2, <2>4, <2>5, FinishedEvolves, SameEvolves
<1>4. ASSUME NEW w \in Worker, MarkRunning(w) \/ Beat(w) PROVE slot'.owner \in {slot.owner, NoRun}
  BY <1>4 DEF MarkRunning, Beat, Typed, SlotOK, Slot
<1>5. CASE Expire
  <2>1. slot'.owner = slot.owner
    BY <1>5 DEF Expire, Typed, SlotOK, Slot
  <2> QED
    BY <1>1, <1>5, <2>1, SameEvolves, ConfinedStep DEF Expire
<1>6. ASSUME NEW w \in Worker, Sync(w) \/ Beat(w) \/ WriteFails(w) \/ CrashWorker(w)
      PROVE  Evolves /\ slot'.owner \in {slot.owner, NoRun}
  BY <1>2, <1>3, <1>4, <1>6, SameEvolves
     DEF Sync, Check, Start, MarkRunning, Ingest, Settle, Beat, WriteFails, CrashWorker
<1>7. CASE \/ \E w \in Worker, r \in Run : Deliver(w, r)
           \/ \E r \in Run : Stall(r) \/ Drop(r)
           \/ UNCHANGED vars
  <2>1. UNCHANGED <<slot, run>>
    BY <1>7 DEF Deliver, Stall, Drop, vars
  <2> QED
    BY <1>1, <2>1, SameEvolves, ConfinedStep
<1> QED
  BY <1>1, <1>5, <1>6, <1>7, ConfinedStep

LEMMA ConfinedNext == Typed /\ ReservedInv /\ Confined /\ [Next]_vars => Confined'
<1> SUFFICES ASSUME Typed, ReservedInv, Confined, [Next]_vars PROVE Confined'
  OBVIOUS
<1>1. ASSUME NEW c \in Caller, Claim(c) \/ Request(c) \/ CrashCaller(c) PROVE Confined'
  BY <1>1, ConfinedClaim, ConfinedFind, ConfinedClose, ConfinedCreate, ConfinedLater DEF Request
<1>2. CASE Reap
  <2>1. Reaper \in Caller
    BY DEF Caller
  <2> QED
    BY <1>1, <1>2, <2>1, ConfinedLater DEF Reap
<1>3. Requester \subseteq Caller
  BY DEF Caller
<1> QED
  BY <1>1, <1>2, <1>3, ConfinedWork DEF Next

LEMMA AlwaysConfined == Spec => []Confined
<1>1. Init => Confined
  BY DEF Init, Confined, OpenRuns, Open, Quiet
<1> QED
  BY <1>1, ConfinedNext, AlwaysInv, PTL DEF Spec

----------------------------------------------------------------------------
(* The theorems that rest on it.                                           *)

\* The slot, the runs, the queue's jobs and whoever works on them stay within
\* their types; the slot has an owner exactly while a sync is in flight, and a
\* lease only then.
THEOREM TypeInvariant == Spec => []TypeOK
<1>1. Typed /\ Confined => TypeOK
  BY DEF Typed, Confined, TypeOK, SlotOK, Status
<1> QED
  BY <1>1, AlwaysInv, AlwaysConfined, PTL

\* connector.service.js enqueueTrackedSync: a takeover has tried to close every
\* other open run before it creates its own, so that of two workers which ingest
\* for open runs one has a stray run: one that a takeover could not read or
\* close, or that a request opened after it had lost the slot (OneOpenSync).
THEOREM OneSyncAtATime == Spec => []OneOpenSync
<1>1. Confined => OneOpenSync
  BY DEF Confined, OneOpenSync
<1> QED
  BY <1>1, AlwaysConfined, PTL
=============================================================================
