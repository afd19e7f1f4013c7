----------------------------- MODULE StoredRows -----------------------------
(***************************************************************************)
(* The storedRows quota of one tenant (src/src/services/usage.service.js): *)
(* the counter of a hard limit, the ledger of capacity reserved for queued *)
(* webhook deliveries, the meter through which the sync worker stores the  *)
(* rows of a delivery, and the reconciliation job.                         *)
(*                                                                         *)
(* A delivery is a set of row ids. Its request, each worker and the        *)
(* reconciler move from await to await. Two clocks matter only through     *)
(* what is recent (within the settle window) and what is stale (past the   *)
(* reservation's TTL); whoever holds capacity acts within that window.     *)
(***************************************************************************)
EXTENDS Integers, FiniteSetsExt

CONSTANTS
  Delivery, Row, Worker,
  RowsOf,       \* the rows each delivery carries
  Nobody,       \* the owner of a job no worker runs
  Limit,        \* the plan's hard limit
  BatchSize,    \* rows per flush of the sync engine
  Attempts,     \* attempts of a queue job
  Faults,       \* what may go wrong, MaxFaults times in all
  MaxFaults

Fault == {"crash", "stall", "queue", "ledger", "consume", "write", "blind", "leak"}

ASSUME StoredRowsAssumption ==
  /\ RowsOf \in [Delivery -> SUBSET Row \ {{}}] /\ IsFiniteSet(Row)
  /\ Delivery # {} /\ IsFiniteSet(Delivery) /\ IsFiniteSet(Worker) /\ Nobody \notin Worker
  /\ Limit \in Nat /\ BatchSize \in Nat \ {0} /\ Attempts \in Nat \ {0}
  /\ Faults \subseteq Fault /\ MaxFaults \in Nat

VARIABLES
  counter,      \* the UsageCounter row; `recent`: incremented within the window
  ledger,       \* the UsageReservation of each delivery
  ledgerRecent, \* some reservation changed within the window
  rows,         \* the ConnectorRows stored
  req,          \* the request of each delivery
  job,          \* its queue job, and whether its SyncRun has a verdict
  worker,       \* the sync workers
  rec,          \* the reconciler
  lost,         \* history: capacity on the counter that nobody holds any more
  faults        \* faults so far

vars == <<counter, ledger, ledgerRecent, rows, req, job, worker, rec, lost, faults>>

----------------------------------------------------------------------------
Entry == [open : BOOLEAN, remaining : Nat, stale : BOOLEAN]
Request == [pc : {"new", "recording", "queueing", "cancelling", "returning", "done"}, rel : Nat]
Job == [state : {"none", "queued", "active", "done"}, owner : Worker \cup {Nobody},
        failures : Nat, closed : BOOLEAN]
Work == [pc : {"idle", "reading", "drawing", "consuming", "writing", "returning",
               "finishing", "settling"},
         d : Delivery, todo : SUBSET Row, batch : SUBSET Row, attempt : Nat,
         fresh : Nat, taken : Nat, back : Nat, rel : Nat,
         then : {"next", "retry", "fail", "done"}]
Recon == [pc : {"idle", "voiding", "counting", "summing", "writing"}, seen : Nat,
          recent : BOOLEAN, dirty : BOOLEAN, count : Nat, held : Nat]

TypeOK ==
  /\ counter \in [value : Nat, recent : BOOLEAN] /\ ledgerRecent \in BOOLEAN
  /\ ledger \in [Delivery -> Entry] /\ rows \subseteq Row
  /\ req \in [Delivery -> Request] /\ job \in [Delivery -> Job]
  /\ worker \in [Worker -> Work] /\ rec \in Recon
  /\ lost \in Int /\ faults \in Nat
  /\ \A d \in Delivery : ledger[d].remaining > 0 => ledger[d].open

Closed == [open |-> FALSE, remaining |-> 0, stale |-> FALSE]
Resting == [pc |-> "idle", d |-> CHOOSE d \in Delivery : TRUE, todo |-> {}, batch |-> {},
            attempt |-> 0, fresh |-> 0, taken |-> 0, back |-> 0, rel |-> 0, then |-> "next"]
RecIdle == [pc |-> "idle", seen |-> 0, recent |-> FALSE, dirty |-> FALSE, count |-> 0, held |-> 0]

Init ==
  /\ counter = [value |-> 0, recent |-> FALSE]
  /\ ledger = [d \in Delivery |-> Closed] /\ ledgerRecent = FALSE
  /\ rows = {}
  /\ req = [d \in Delivery |-> [pc |-> "new", rel |-> 0]]
  /\ job = [d \in Delivery |-> [state |-> "none", owner |-> Nobody, failures |-> 0, closed |-> FALSE]]
  /\ worker = [w \in Worker |-> Resting]
  /\ rec = RecIdle /\ lost = 0 /\ faults = 0

----------------------------------------------------------------------------
(* Capacity: who holds how much of the counter.                            *)

Amount(d) == Cardinality(RowsOf[d])
Lesser(m, n) == IF m < n THEN m ELSE n
Less(m, n) == IF n < m THEN m - n ELSE 0    \* decrements are clamped at zero

\* What worker w took and neither stored nor gave back.
Held(w) ==
  CASE worker[w].pc = "consuming" -> worker[w].taken
    [] worker[w].pc = "writing" -> worker[w].fresh
    [] worker[w].pc = "returning" -> worker[w].back + worker[w].rel
    [] OTHER -> 0

\* What the request of d took and neither recorded nor gave back.
Asked(d) ==
  CASE req[d].pc = "recording" -> Amount(d)
    [] req[d].pc = "returning" -> req[d].rel
    [] OTHER -> 0

\* The sum of f's values: as many units as the keys have between them.
Units(f) == UNION {{x} \X (1 .. f[x]) : x \in DOMAIN f}
Total(f) == Cardinality(Units(f))

Remaining(entries) == Total([d \in entries |-> ledger[d].remaining])
Reserved == Remaining(Delivery)
InFlight == Total([w \in Worker |-> Held(w)]) + Total([d \in Delivery |-> Asked(d)])

\* Every increment or release stamps lastIncrementedAt, which is what the
\* reconciler's compare-and-set notices.
Count(value) ==
  /\ counter' = [value |-> value, recent |-> TRUE]
  /\ rec' = [rec EXCEPT !.dirty = rec.pc # "idle"]

\* Mutant: the room is checked before the increment, not for its amount.
LateFits(n) == counter.value < Limit

\* incrementWithinLimit: one conditional update.
Fits(n) == counter.value + n <= Limit

Goes(fault) == fault \in Faults /\ faults < MaxFaults /\ faults' = faults + 1

----------------------------------------------------------------------------
(* The webhook request: reserve, then enqueue.                             *)

Consume(d) ==
  /\ req[d].pc = "new"
  /\ IF Fits(Amount(d))
       THEN Count(counter.value + Amount(d)) /\ req' = [req EXCEPT ![d].pc = "recording"]
       ELSE UNCHANGED <<counter, rec>> /\ req' = [req EXCEPT ![d].pc = "done"]
  /\ UNCHANGED <<ledger, ledgerRecent, rows, job, worker, lost, faults>>

Record(d) ==
  /\ req[d].pc = "recording"
  /\ ledger' = [ledger EXCEPT ![d] = [open |-> TRUE, remaining |-> Amount(d), stale |-> FALSE]]
  /\ ledgerRecent' = TRUE
  /\ req' = [req EXCEPT ![d].pc = "queueing"]
  /\ UNCHANGED <<counter, rows, job, worker, rec, lost, faults>>

\* The ledger refuses the entry: reserve gives the capacity back.
RecordFails(d) ==
  /\ req[d].pc = "recording" /\ Goes("ledger")
  /\ req' = [req EXCEPT ![d] = [pc |-> "returning", rel |-> Amount(d)]]
  /\ UNCHANGED <<counter, ledger, ledgerRecent, rows, job, worker, rec, lost>>

Queued(d) == [job EXCEPT ![d].state = "queued"]

Enqueue(d) ==
  /\ req[d].pc = "queueing"
  /\ job' = Queued(d)
  /\ req' = [req EXCEPT ![d].pc = "done"]
  /\ UNCHANGED <<counter, ledger, ledgerRecent, rows, worker, rec, lost, faults>>

\* The queue refuses the job, or takes it and the producer gives up waiting.
EnqueueFails(d) ==
  /\ req[d].pc = "queueing" /\ Goes("queue")
  /\ job' \in {job, Queued(d)}
  /\ req' = [req EXCEPT ![d].pc = "cancelling"]
  /\ UNCHANGED <<counter, ledger, ledgerRecent, rows, worker, rec, lost>>

\* Mutant: settling closes the entry and leaves what remains in it.
LeftoverSettled(d) == [ledger EXCEPT ![d].open = FALSE]

\* usageReservationRepository.settle of an open entry.
Settled(d) == IF ledger[d].open THEN [ledger EXCEPT ![d] = Closed] ELSE ledger

Cancel(d) ==
  /\ req[d].pc = "cancelling"
  /\ req' = [req EXCEPT ![d] = [pc |-> "returning", rel |-> ledger[d].remaining]]
  /\ ledger' = Settled(d) /\ ledgerRecent' = (ledgerRecent \/ ledger[d].open)
  /\ UNCHANGED <<counter, rows, job, worker, rec, lost, faults>>

\* release of nothing writes nothing.
Return(d) ==
  /\ req[d].pc = "returning"
  /\ IF req[d].rel > 0 THEN Count(Less(counter.value, req[d].rel)) ELSE UNCHANGED <<counter, rec>>
  /\ req' = [req EXCEPT ![d] = [pc |-> "done", rel |-> 0]]
  /\ UNCHANGED <<ledger, ledgerRecent, rows, job, worker, lost, faults>>

----------------------------------------------------------------------------
(* The worker: processSyncMessage around the stored-rows sink.             *)

\* A message whose run has its verdict is dropped; otherwise its rows are
\* ingested, or it is skipped (paused connector, inactive tenant).
Deliver(w, d) ==
  /\ worker[w].pc = "idle" /\ job[d].state = "queued"
  /\ IF job[d].closed
       THEN job' = [job EXCEPT ![d].state = "done"] /\ UNCHANGED worker
       ELSE /\ job' = [job EXCEPT ![d].state = "active", ![d].owner = w]
            /\ \E pc \in {"reading", "finishing"} :
                 worker' = [worker EXCEPT ![w] =
                   [Resting EXCEPT !.pc = pc, !.d = d, !.todo = RowsOf[d],
                                   !.attempt = job[d].failures + 1]]
  /\ UNCHANGED <<counter, ledger, ledgerRecent, rows, req, rec, lost, faults>>

\* The next batch: how many of its rows are not stored yet.
Read(w) ==
  /\ worker[w].pc = "reading"
  /\ \E batch \in kSubset(Lesser(BatchSize, Cardinality(worker[w].todo)), worker[w].todo) :
       LET fresh == Cardinality(batch \ rows) IN
       worker' = [worker EXCEPT ![w] =
         [@ EXCEPT !.pc = IF fresh > 0 THEN "drawing" ELSE "writing",
                   !.batch = batch, !.fresh = fresh, !.taken = 0]]
  /\ UNCHANGED <<counter, ledger, ledgerRecent, rows, req, job, rec, lost, faults>>

\* Take up to `fresh` from an open entry with something left, stale or not.
Draw(w) ==
  LET d == worker[w].d
      taken == Lesser(worker[w].fresh, ledger[d].remaining)
  IN  /\ worker[w].pc = "drawing"
      /\ ledger' = [ledger EXCEPT ![d].remaining = @ - taken]
      /\ ledgerRecent' = (ledgerRecent \/ taken > 0)
      /\ worker' = [worker EXCEPT ![w].taken = taken,
                      ![w].pc = IF taken < worker[w].fresh THEN "consuming" ELSE "writing"]
      /\ UNCHANGED <<counter, rows, req, job, rec, lost, faults>>

\* Nothing of the batch is stored: what was drawn goes back to the ledger.
GivesUp(w, then) ==
  worker' = [worker EXCEPT ![w].pc = "returning", ![w].then = then, ![w].back = worker[w].taken]

\* checkAndConsume for the rest; a refusal of the plan is final.
ConsumeRest(w) ==
  LET need == worker[w].fresh - worker[w].taken
  IN  /\ worker[w].pc = "consuming"
      /\ IF Fits(need)
           THEN Count(counter.value + need) /\ worker' = [worker EXCEPT ![w].pc = "writing"]
           ELSE UNCHANGED <<counter, rec>> /\ GivesUp(w, "fail")
      /\ UNCHANGED <<ledger, ledgerRecent, rows, req, job, lost, faults>>

ConsumeFails(w) ==
  /\ worker[w].pc = "consuming" /\ Goes("consume")
  /\ GivesUp(w, "retry")
  /\ UNCHANGED <<counter, ledger, ledgerRecent, rows, req, job, rec, lost>>

\* The batch is stored; rows somebody else stored meanwhile are released.
Write(w) ==
  /\ worker[w].pc = "writing"
  /\ rows' = rows \cup worker[w].batch
  /\ worker' = [worker EXCEPT ![w] =
       [@ EXCEPT !.pc = "returning", !.then = "next", !.todo = worker[w].todo \ worker[w].batch,
                 !.rel = worker[w].fresh - Cardinality(worker[w].batch \ rows)]]
  /\ UNCHANGED <<counter, ledger, ledgerRecent, req, job, rec, lost, faults>>

\* Mutant: the ledger gets back what was drawn and the plan all of it again.
LedgerOnlyUnwritten(w, partial) ==
  LET unwritten == Less(worker[w].fresh, partial)
  IN  [back |-> Lesser(unwritten, worker[w].taken), rel |-> unwritten]

\* How the capacity of a failed batch is given back: the ledger first.
Unwritten(w, partial) ==
  LET unwritten == Less(worker[w].fresh, partial)
      back == Lesser(unwritten, Less(worker[w].taken, partial))
  IN  [back |-> back, rel |-> unwritten - back]

\* Part of the batch is stored and the error says how many rows are new
\* (upsertedCount), or says nothing: a lost reply, a failed bumpDataVersion.
WriteFails(w) ==
  /\ worker[w].pc = "writing"
  /\ \E stored \in SUBSET worker[w].batch :
       LET new == Cardinality(stored \ rows) IN
       \E partial \in {new, 0} :
         LET unwritten == Unwritten(w, partial) IN
         /\ Goes(IF partial = new THEN "write" ELSE "blind")
         /\ rows' = rows \cup stored
         /\ worker' = [worker EXCEPT ![w].pc = "returning", ![w].then = "retry",
                         ![w].back = unwritten.back, ![w].rel = unwritten.rel]
  /\ UNCHANGED <<counter, ledger, ledgerRecent, req, job, rec, lost>>

\* credit.giveBack: into the entry, or onto the counter once it is closed or
\* cannot be written.
GiveBack(w) ==
  LET d == worker[w].d
      back == worker[w].back
  IN  /\ worker[w].pc = "returning" /\ back > 0
      /\ \/ /\ ledger[d].open
            /\ ledger' = [ledger EXCEPT ![d].remaining = @ + back] /\ ledgerRecent' = TRUE
            /\ worker' = [worker EXCEPT ![w].back = 0]
            /\ UNCHANGED faults
         \/ /\ IF ledger[d].open THEN Goes("ledger") ELSE UNCHANGED faults
            /\ worker' = [worker EXCEPT ![w].back = 0, ![w].rel = @ + back]
            /\ UNCHANGED <<ledger, ledgerRecent>>
      /\ UNCHANGED <<counter, rows, req, job, rec, lost>>

\* release never throws: a failure leaves the capacity counted.
Release(w) ==
  /\ worker[w].pc = "returning" /\ worker[w].back = 0 /\ worker[w].rel > 0
  /\ worker' = [worker EXCEPT ![w].rel = 0]
  /\ \/ Count(Less(counter.value, worker[w].rel)) /\ UNCHANGED <<lost, faults>>
     \/ Goes("leak") /\ lost' = lost + worker[w].rel /\ UNCHANGED <<counter, rec>>
  /\ UNCHANGED <<ledger, ledgerRecent, rows, req, job>>

\* The job leaves w, unless the queue gave it to another worker.
Acked(w, state, failed) ==
  LET d == worker[w].d
  IN  IF job[d].owner = w
        THEN [job EXCEPT ![d].state = state, ![d].owner = Nobody, ![d].failures = @ + failed]
        ELSE job

\* Everything is given back: the next batch, the next attempt, or the verdict.
Proceed(w) ==
  LET retries == worker[w].then = "retry" /\ worker[w].attempt < Attempts
      ended == worker[w].then = "done"
      onward == IF worker[w].then = "next" /\ worker[w].todo # {} THEN "reading" ELSE "finishing"
  IN  /\ worker[w].pc = "returning" /\ worker[w].back = 0 /\ worker[w].rel = 0
      /\ job' = IF retries THEN Acked(w, "queued", 1) ELSE IF ended THEN Acked(w, "done", 0) ELSE job
      /\ worker' = [worker EXCEPT ![w] = IF retries \/ ended THEN Resting ELSE [@ EXCEPT !.pc = onward]]
      /\ UNCHANGED <<counter, ledger, ledgerRecent, rows, req, rec, lost, faults>>

\* syncRun.finish, before the reservation is settled.
Finish(w) ==
  /\ worker[w].pc = "finishing"
  /\ job' = [job EXCEPT ![worker[w].d].closed = TRUE]
  /\ worker' = [worker EXCEPT ![w].pc = "settling"]
  /\ UNCHANGED <<counter, ledger, ledgerRecent, rows, req, rec, lost, faults>>

Settle(w) ==
  LET d == worker[w].d
  IN  /\ worker[w].pc = "settling"
      /\ worker' = [worker EXCEPT ![w].pc = "returning", ![w].then = "done",
                                  ![w].rel = ledger[d].remaining]
      /\ ledger' = Settled(d) /\ ledgerRecent' = (ledgerRecent \/ ledger[d].open)
      /\ UNCHANGED <<counter, rows, req, job, rec, lost, faults>>

----------------------------------------------------------------------------
(* Crashes and stalls. What the dead held stays counted.                   *)

CrashWorker(w) ==
  /\ worker[w].pc # "idle" /\ Goes("crash")
  /\ lost' = lost + Held(w)
  /\ job' \in {Acked(w, "queued", 0), Acked(w, "done", 0)}   \* redelivered, or gone with its queue
  /\ worker' = [worker EXCEPT ![w] = Resting]
  /\ UNCHANGED <<counter, ledger, ledgerRecent, rows, req, rec>>

CrashRequest(d) ==
  /\ req[d].pc \notin {"new", "done"} /\ Goes("crash")
  /\ lost' = lost + Asked(d)
  /\ req' = [req EXCEPT ![d] = [pc |-> "done", rel |-> 0]]
  /\ UNCHANGED <<counter, ledger, ledgerRecent, rows, job, worker, rec>>

\* The queue takes a slow worker for dead and delivers the job again.
Stall(d) ==
  /\ job[d].state = "active" /\ Goes("stall")
  /\ job' = [job EXCEPT ![d].state = "queued", ![d].owner = Nobody]
  /\ UNCHANGED <<counter, ledger, ledgerRecent, rows, req, worker, rec, lost>>

----------------------------------------------------------------------------
(* Reconciliation: counter, stale reservations, rows, reservations, write. *)

ReadCounter ==
  /\ rec.pc = "idle"
  /\ rec' = [RecIdle EXCEPT !.pc = "voiding", !.seen = counter.value, !.recent = counter.recent]
  /\ UNCHANGED <<counter, ledger, ledgerRecent, rows, req, job, worker, lost, faults>>

VoidStale ==
  LET stale == {d \in Delivery : ledger[d].open /\ ledger[d].stale}
  IN  /\ rec.pc = "voiding"
      /\ ledger' = [d \in Delivery |-> IF d \in stale THEN Closed ELSE ledger[d]]
      /\ lost' = lost + Remaining(stale)
      /\ rec' = [rec EXCEPT !.pc = "counting"]
      /\ UNCHANGED <<counter, ledgerRecent, rows, req, job, worker, faults>>

CountRows ==
  /\ rec.pc = "counting"
  /\ rec' = [rec EXCEPT !.pc = "summing", !.count = Cardinality(rows)]
  /\ UNCHANGED <<counter, ledger, ledgerRecent, rows, req, job, worker, lost, faults>>

\* What the open reservations hold that are not past their TTL.
Outstanding == Remaining({d \in Delivery : ledger[d].open /\ ~ledger[d].stale})

\* Mutant: reservations that changed recently do not stop the correction.
HastySummarize ==
  /\ rec.pc = "summing"
  /\ rec' = [rec EXCEPT !.pc = "writing", !.held = Outstanding]
  /\ UNCHANGED <<counter, ledger, ledgerRecent, rows, req, job, worker, lost, faults>>

Summarize ==
  /\ rec.pc = "summing"
  /\ rec' = [rec EXCEPT !.pc = "writing", !.recent = @ \/ ledgerRecent, !.held = Outstanding]
  /\ UNCHANGED <<counter, ledger, ledgerRecent, rows, req, job, worker, lost, faults>>

\* Mutant: the correction only looks for missing usage.
UpwardCorrect ==
  LET real == rec.count + rec.held
      written == real > rec.seen /\ ~rec.recent /\ ~rec.dirty /\ counter.value = rec.seen
  IN  /\ rec.pc = "writing"
      /\ counter' = IF written THEN [counter EXCEPT !.value = real] ELSE counter
      /\ lost' = IF written THEN lost - (rec.seen - real) ELSE lost
      /\ rec' = RecIdle
      /\ UNCHANGED <<ledger, ledgerRecent, rows, req, job, worker, faults>>

\* compareAndSet, on the value and on lastIncrementedAt.
Correct ==
  LET real == rec.count + rec.held
      written == real # rec.seen /\ ~rec.recent /\ ~rec.dirty /\ counter.value = rec.seen
  IN  /\ rec.pc = "writing"
      /\ counter' = IF written THEN [counter EXCEPT !.value = real] ELSE counter
      /\ lost' = IF written THEN lost - (rec.seen - real) ELSE lost
      /\ rec' = RecIdle
      /\ UNCHANGED <<ledger, ledgerRecent, rows, req, job, worker, faults>>

----------------------------------------------------------------------------
(* Time, between two reconciliations (which judge by their start).         *)

\* The settle window ends after the last change; nobody holds capacity longer.
WindowEnds ==
  /\ rec.pc = "idle" /\ InFlight = 0 /\ (counter.recent \/ ledgerRecent)
  /\ counter' = [counter EXCEPT !.recent = FALSE] /\ ledgerRecent' = FALSE
  /\ UNCHANGED <<ledger, rows, req, job, worker, rec, lost, faults>>

GoesStale(d) ==
  /\ rec.pc = "idle" /\ ~ledgerRecent /\ ledger[d].open /\ ~ledger[d].stale
  /\ ledger' = [ledger EXCEPT ![d].stale = TRUE]
  /\ UNCHANGED <<counter, ledgerRecent, rows, req, job, worker, rec, lost, faults>>

Ask(d) == Consume(d) \/ Record(d) \/ Enqueue(d) \/ Cancel(d) \/ Return(d)

Store(w) ==
  \/ Read(w) \/ Draw(w) \/ ConsumeRest(w) \/ Write(w)
  \/ GiveBack(w) \/ Release(w) \/ Proceed(w) \/ Finish(w) \/ Settle(w)

Reconcile == ReadCounter \/ VoidStale \/ CountRows \/ Summarize \/ Correct

Mishap ==
  \/ \E d \in Delivery : RecordFails(d) \/ EnqueueFails(d) \/ CrashRequest(d) \/ Stall(d)
  \/ \E w \in Worker : ConsumeFails(w) \/ WriteFails(w) \/ CrashWorker(w)

Next ==
  \/ \E d \in Delivery : Ask(d) \/ GoesStale(d) \/ \E w \in Worker : Deliver(w, d)
  \/ \E w \in Worker : Store(w)
  \/ Reconcile \/ Mishap \/ WindowEnds

Spec == Init /\ [][Next]_vars

\* Requests and workers go on, the queue delivers, the reconcile job ticks,
\* and between two of its daily ticks the settle window and a TTL can end.
Fairness ==
  /\ \A d \in Delivery : WF_vars(Ask(d)) /\ SF_vars(GoesStale(d))
  /\ \A d \in Delivery : WF_vars(\E w \in Worker : Deliver(w, d))
  /\ \A w \in Worker : WF_vars(Store(w))
  /\ WF_vars(Reconcile) /\ SF_vars(WindowEnds)

FairSpec == Spec /\ Fairness

----------------------------------------------------------------------------
\* "Nothing is counted twice", and nothing is stored uncounted: the counter is
\* the rows stored, plus what reservations, requests and workers hold of it,
\* plus what crashes and failed releases left on it. A correction takes off at
\* most that leftover, never what somebody still holds.
Conservation ==
  /\ counter.value = Cardinality(rows) + Reserved + InFlight + lost
  /\ lost >= 0

\* A failed batch gives back only capacity of rows it did not store: "nothing
\* is released that the retry would then store uncounted".
NoRowUncounted == Cardinality(rows) <= counter.value

\* The plan's hard limit: "the counter never passes the limit, not even
\* transiently", and no row is stored beyond what the counter says.
WithinPlan == NoRowUncounted /\ counter.value <= Limit

\* Tenants are "neither locked out nor allowed past their plan": whatever a
\* crash left behind, the reconcile job brings the counter back to the rows.
Healed == <>[](counter.value = Cardinality(rows))
=============================================================================
