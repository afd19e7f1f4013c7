--------------------------- MODULE ConnectorSync ---------------------------
(***************************************************************************)
(* The tracked syncs of one connector: the sync slot with its lease, the   *)
(* SyncRun records, the queue messages, the workers and the stale-job      *)
(* reaper (src/src/services/connector.service.js, its connector and        *)
(* syncRun repositories, src/src/jobs/stale-job-recovery.job.js).          *)
(*                                                                         *)
(* Every database write is a step of its own.  A lease is only live or     *)
(* expired: a holder may be arbitrarily late, so it may expire at any      *)
(* moment (Expire).  The data a sync moves is left out.                    *)
(***************************************************************************)
EXTENDS Integers, Sequences, FiniteSets

CONSTANTS
  Requester,       \* API requests that may start a sync
  Reaper,          \* the stale-job-recovery job
  Worker,          \* concurrent jobs of the connector queue's workers
  Nobody,
  Attempts,        \* CONNECTOR_QUEUE_ATTEMPTS
  MaxRecoveries,   \* CONNECTOR_SYNC_MAX_RECOVERIES
  Durable,         \* BullMQ; FALSE is the in-memory queue
  Faults,          \* what may go wrong, see Fault
  MaxRuns, MaxFaults   \* bounds

\* lapse: leases expire although their holder may be alive; slowclaim: also
\* while a request is still between its claim and its SyncRun.
Fault == {"lapse", "slowclaim", "crash", "stall", "timeout", "write", "unread"}

ASSUME ConnectorSyncAssumption ==
  /\ Reaper \notin Requester /\ Nobody \notin Worker
  /\ Attempts \in Nat \ {0} /\ MaxRecoveries \in Nat /\ Durable \in BOOLEAN
  /\ Faults \subseteq Fault /\ MaxRuns \in Nat \ {0} /\ MaxFaults \in Nat

Run == 1 .. MaxRuns
NoRun == 0
Caller == Requester \cup {Reaper}

VARIABLES
  slot,      \* the connector's syncStatus, currentSyncRunId, lease
  run,       \* status of each SyncRun; "reserved" is an id in use without a record
  recovery,  \* recoveryAttempt of each SyncRun
  created,   \* the SyncRuns by createdAt
  msg,       \* the queue's job of each run
  caller,    \* what each request and the reaper are doing
  worker,    \* what each worker is doing
  stray,     \* history: the open runs a takeover did not close, see Missed
  faults

vars == <<slot, run, recovery, created, msg, caller, worker, stray, faults>>

Open == {"queued", "running", "retrying"}
Terminal == {"succeeded", "failed", "abandoned", "cancelled"}

Slot == [status : {"idle", "queued", "running", "succeeded", "failed"},
         owner : Run \cup {NoRun}, live : BOOLEAN]
Message == [state : {"none", "waiting", "active", "gone"}, made : 0 .. Attempts - 1,
            holder : Worker \cup {Nobody}, stalls : 0 .. 1]
Call == [pc : {"idle", "claimed", "closing", "enqueueing", "failing", "releasing",
               "refused", "found", "reaped", "requeue"},
         run : Run \cup {NoRun}, seen : SUBSET Run, attempt : Nat]
Work == [pc : {"idle", "checking", "starting", "marking", "ingesting", "writing", "givingup"},
         run : Run \cup {NoRun}, last : BOOLEAN,
         todo : Seq({"release", "finish", "renew", "retry"}), verdict : Terminal \cup {"none"}, throws : BOOLEAN]

InFlight == slot.status \in {"queued", "running"}
OpenRuns == {r \in Run : run[r] \in Open}

TypeOK ==
  /\ slot \in Slot /\ run \in [Run -> Open \cup Terminal \cup {"absent", "reserved"}]
  /\ recovery \in [Run -> Nat] /\ created \in Seq(Run)
  /\ msg \in [Run -> Message] /\ caller \in [Caller -> Call] /\ worker \in [Worker -> Work]
  /\ stray \subseteq Run /\ faults \in 0 .. MaxFaults
  /\ InFlight <=> slot.owner # NoRun
  /\ slot.live => InFlight

Quiet == [pc |-> "idle", run |-> NoRun, seen |-> {}, attempt |-> 0]
Free == [pc |-> "idle", run |-> NoRun, last |-> FALSE, todo |-> <<>>, verdict |-> "none", throws |-> FALSE]

Init ==
  /\ slot = [status |-> "idle", owner |-> NoRun, live |-> FALSE]
  /\ run = [r \in Run |-> "absent"] /\ recovery = [r \in Run |-> 0] /\ created = <<>>
  /\ msg = [r \in Run |-> [state |-> "none", made |-> 0, holder |-> Nobody, stalls |-> 0]]
  /\ caller = [c \in Caller |-> Quiet] /\ worker = [w \in Worker |-> Free]
  /\ stray = {} /\ faults = 0

Goes(kind) == kind \in Faults /\ faults < MaxFaults /\ faults' = faults + 1

----------------------------------------------------------------------------
(* The writes of the repositories.                                         *)

\* Mutant: a closed run is closed again.
UnfilteredFinished(rs, status) ==
  [r \in Run |-> IF r \in rs /\ run[r] \notin {"absent", "reserved"} THEN status ELSE run[r]]

\* finish: open runs only.
Finished(rs, status) == [r \in Run |-> IF r \in rs /\ run[r] \in Open THEN status ELSE run[r]]

\* Mutant: the slot's owner is not looked at.
OwnerlessHolds(r) == r \in Run /\ InFlight

\* slotFilter: r is the run the slot was claimed for.
Holds(r) == slot.owner = r

\* Mutant: the slot keeps the run it was claimed for.
KeptReleased(status) == [status |-> status, owner |-> slot.owner, live |-> FALSE]

\* releaseSyncSlot, and the patch of the reaper and of markSyncFailed.
Released(status) == [status |-> status, owner |-> NoRun, live |-> FALSE]

\* markSyncQueued's filter.
Claimable == ~InFlight \/ ~slot.live

----------------------------------------------------------------------------
(* enqueueTrackedSync, called by a request or by the reaper.               *)

Unused == {r \in Run : run[r] = "absent"}

At(c, pc) == caller[c].pc = pc
Go(c, pc) == caller' = [caller EXCEPT ![c].pc = pc]

Claim(c) ==
  /\ IF c = Reaper THEN At(c, "requeue") ELSE At(c, "idle") \/ At(c, "refused")
  /\ Claimable /\ Unused # {}
  /\ LET r == CHOOSE r \in Unused : \A other \in Unused : r <= other
     IN  /\ slot' = [status |-> "queued", owner |-> r, live |-> TRUE]
         /\ run' = [run EXCEPT ![r] = "reserved"]
         /\ caller' = [caller EXCEPT ![c] =
              [pc |-> "claimed", run |-> r, seen |-> {}, attempt |-> caller[c].attempt]]
  /\ UNCHANGED <<recovery, created, msg, worker, stray, faults>>

\* SYNC_IN_PROGRESS, or the bound on runs; a refused request leaves no trace.
RequeueRefused ==
  /\ At(Reaper, "requeue") /\ (~Claimable \/ Unused = {})
  /\ caller' = [caller EXCEPT ![Reaper] = Quiet]
  /\ UNCHANGED <<slot, run, recovery, created, msg, worker, stray, faults>>

\* History: what the takeover of c leaves open, or what it opens itself once
\* another call has the slot.
Missed(c, rs) == stray' = IF Holds(caller[c].run) THEN stray \cup rs ELSE stray
Opened(c) == stray' = IF Holds(caller[c].run) THEN stray ELSE stray \cup {caller[c].run}

\* closeOpenRuns reads the open runs; a failing read counts as none.
FindOpen(c) ==
  /\ At(c, "claimed")
  /\ LET others == OpenRuns \ {caller[c].run}
         see(rs) == caller' = [caller EXCEPT ![c] = [@ EXCEPT !.pc = "closing", !.seen = rs]]
     IN  \/ see(others) /\ UNCHANGED <<stray, faults>>
         \/ see({}) /\ Missed(c, others) /\ Goes("unread")
  /\ UNCHANGED <<slot, run, recovery, created, msg, worker>>

\* Mutant: the runs of the previous holder are left as they are.
IdleCloseOthers(c) ==
  /\ At(c, "closing") /\ caller[c].seen # {}
  /\ caller' = [caller EXCEPT ![c].seen = {}]
  /\ UNCHANGED <<slot, run, recovery, created, msg, worker, stray, faults>>

\* It finishes them one after the other; a finish that fails is passed over.
CloseOthers(c) ==
  /\ At(c, "closing")
  /\ \E r \in caller[c].seen :
       /\ caller' = [caller EXCEPT ![c].seen = @ \ {r}]
       /\ \/ run' = Finished({r}, "abandoned") /\ UNCHANGED <<stray, faults>>
          \/ UNCHANGED run /\ Missed(c, {r}) /\ Goes("write")
  /\ UNCHANGED <<slot, recovery, created, msg, worker>>

Insert(c) ==
  /\ run' = [run EXCEPT ![caller[c].run] = "queued"]
  /\ recovery' = [recovery EXCEPT ![caller[c].run] = caller[c].attempt]
  /\ created' = Append(created, caller[c].run)
  /\ Opened(c)

\* A failing insert may have been applied.
Create(c) ==
  /\ At(c, "closing") /\ caller[c].seen = {}
  /\ \/ Insert(c) /\ Go(c, "enqueueing") /\ UNCHANGED faults
     \/ /\ Go(c, "releasing") /\ Goes("write")
        /\ Insert(c) \/ UNCHANGED <<run, recovery, created, stray>>
  /\ UNCHANGED <<slot, msg, worker>>

\* The queue takes the job, refuses it, or takes it after the producer's timeout.
Enqueue(c) ==
  /\ At(c, "enqueueing")
  /\ LET taken == [msg EXCEPT ![caller[c].run].state = "waiting"]
     IN  \/ msg' = taken /\ caller' = [caller EXCEPT ![c] = Quiet] /\ UNCHANGED faults
         \/ msg' \in {msg, taken} /\ Go(c, "failing") /\ Goes("timeout")
  /\ UNCHANGED <<slot, run, recovery, created, worker, stray>>

\* Its failure is passed over.
FailRun(c) ==
  /\ At(c, "failing")
  /\ \/ run' = Finished({caller[c].run}, "failed") /\ UNCHANGED faults
     \/ UNCHANGED run /\ Goes("write")
  /\ Go(c, "releasing")
  /\ UNCHANGED <<slot, recovery, created, msg, worker, stray>>

\* markSyncFailed: only a slot still queued by this request; then the error,
\* and no other when the write itself fails.
FailSlot(c) ==
  /\ At(c, "releasing")
  /\ \/ /\ slot' = IF slot.status = "queued" /\ Holds(caller[c].run) THEN Released("failed") ELSE slot
        /\ UNCHANGED faults
     \/ UNCHANGED slot /\ Goes("write")
  /\ caller' = [caller EXCEPT ![c] =
       IF c = Reaper THEN Quiet ELSE [@ EXCEPT !.pc = "refused", !.attempt = 0]]
  /\ UNCHANGED <<run, recovery, created, msg, worker, stray>>

----------------------------------------------------------------------------
(* recoverStaleConnectors.                                                 *)

\* Mutant: the reaper looks for the connectors the scheduler runs.
BlindStale == slot.status = "running" /\ ~slot.live

Stale == InFlight /\ ~slot.live

\* The newest open run's recoveryAttempt.
Previous ==
  LET open == {i \in 1 .. Len(created) : created[i] \in OpenRuns}
  IN  IF open = {} THEN 0
      ELSE recovery[created[CHOOSE i \in open : \A other \in open : other <= i]]

Scan ==
  /\ At(Reaper, "idle") /\ Stale
  /\ caller' = [caller EXCEPT ![Reaper] =
       [pc |-> "found", run |-> NoRun, seen |-> OpenRuns, attempt |-> Previous + 1]]
  /\ UNCHANGED <<slot, run, recovery, created, msg, worker, stray, faults>>

\* resetStaleSync: still stale at write time.
Reset ==
  /\ At(Reaper, "found")
  /\ IF Stale
       THEN slot' = Released("failed") /\ Go(Reaper, "reaped")
       ELSE UNCHANGED slot /\ caller' = [caller EXCEPT ![Reaper] = Quiet]
  /\ UNCHANGED <<run, recovery, created, msg, worker, stray, faults>>

\* The runs it found are abandoned one after the other; the first failure ends it.
CloseFound ==
  /\ At(Reaper, "reaped") /\ caller[Reaper].seen # {}
  /\ \/ /\ \E r \in caller[Reaper].seen :
             /\ run' = Finished({r}, "abandoned")
             /\ caller' = [caller EXCEPT ![Reaper].seen = @ \ {r}]
        /\ UNCHANGED faults
     \/ UNCHANGED run /\ caller' = [caller EXCEPT ![Reaper] = Quiet] /\ Goes("write")
  /\ UNCHANGED <<slot, recovery, created, msg, worker, stray>>

\* The sync is queued again if its data can be pulled again, the tenant is
\* active and the recovery budget allows it.
Recover ==
  /\ At(Reaper, "reaped") /\ caller[Reaper].seen = {}
  /\ \/ caller[Reaper].attempt <= MaxRecoveries /\ Go(Reaper, "requeue")
     \/ caller' = [caller EXCEPT ![Reaper] = Quiet]
  /\ UNCHANGED <<slot, run, recovery, created, msg, worker, stray, faults>>

----------------------------------------------------------------------------
(* processSyncMessage.                                                     *)

Doing(w, pc) == worker[w].pc = pc
Step(w, pc) == worker' = [worker EXCEPT ![w].pc = pc]

\* The queue's view of a job whose handler returned, or threw.
Acked(r, throws) ==
  IF throws /\ msg[r].made + 1 < Attempts
    THEN [msg[r] EXCEPT !.state = "waiting", !.made = @ + 1, !.holder = Nobody]
    ELSE [msg[r] EXCEPT !.state = "gone", !.holder = Nobody]

\* A job of a run that is closed already is skipped.
Deliver(w, r) ==
  /\ Doing(w, "idle") /\ msg[r].state = "waiting"
  /\ IF run[r] \in Open
       THEN /\ msg' = [msg EXCEPT ![r] = [@ EXCEPT !.state = "active", !.holder = w]]
            /\ worker' = [worker EXCEPT ![w] =
              [Free EXCEPT !.pc = "checking", !.run = r, !.last = msg[r].made + 1 >= Attempts]]
       ELSE /\ msg' = [msg EXCEPT ![r] = Acked(r, FALSE)]
            /\ UNCHANGED worker
  /\ UNCHANGED <<slot, run, recovery, created, caller, stray, faults>>

Plan(w, pc, todo, verdict, throws) ==
  worker' = [worker EXCEPT ![w] =
    [pc |-> pc, run |-> worker[w].run, last |-> worker[w].last, todo |-> todo,
     verdict |-> verdict, throws |-> throws]]

\* The tenant is active and the connector not paused; or the run is cancelled;
\* or the lookup fails, which is final on the last attempt.
Check(w) ==
  /\ Doing(w, "checking")
  /\ \/ Step(w, "starting") /\ UNCHANGED faults
     \/ Plan(w, "writing", <<"finish", "release">>, "cancelled", FALSE) /\ UNCHANGED faults
     \/ /\ IF worker[w].last THEN Plan(w, "givingup", <<"finish", "release">>, "failed", TRUE)
                             ELSE Plan(w, "writing", <<>>, "none", TRUE)
        /\ Goes("write")
  /\ UNCHANGED <<slot, run, recovery, created, msg, caller, stray>>

\* markRunning; a run closed meanwhile ends the job.
Start(w) ==
  /\ Doing(w, "starting")
  /\ IF run[worker[w].run] \in Open
       THEN run' = [run EXCEPT ![worker[w].run] = "running"] /\ Step(w, "marking")
       ELSE Plan(w, "writing", <<>>, "none", FALSE) /\ UNCHANGED run
  /\ UNCHANGED <<slot, recovery, created, msg, caller, stray, faults>>

MarkRunning(w) ==
  /\ Doing(w, "marking")
  /\ slot' = IF Holds(worker[w].run) THEN [slot EXCEPT !.status = "running", !.live = TRUE] ELSE slot
  /\ Step(w, "ingesting")
  /\ UNCHANGED <<run, recovery, created, msg, caller, stray, faults>>

\* The heartbeat renews the slot of a sync in flight.
Beat(w) ==
  /\ Doing(w, "ingesting") \/ (Doing(w, "writing") /\ worker[w].todo # <<>> /\ worker[w].verdict # "cancelled")
  /\ InFlight /\ ~slot.live /\ Holds(worker[w].run)
  /\ slot' = [slot EXCEPT !.live = TRUE]
  /\ UNCHANGED <<run, recovery, created, msg, caller, worker, stray, faults>>

\* The catch block: a final failure frees the slot and closes the run; any
\* other keeps the slot for the queue's retry.
Caught(w, permanent) ==
  IF permanent \/ worker[w].last
    THEN Plan(w, "writing", <<"release", "finish">>, "failed", FALSE)
    ELSE Plan(w, "writing", <<"renew", "retry">>, "none", TRUE)

Ingest(w) ==
  /\ Doing(w, "ingesting")
  /\ \/ Plan(w, "writing", <<"release", "finish">>, "succeeded", FALSE)
     \/ \E permanent \in BOOLEAN : Caught(w, permanent)
  /\ UNCHANGED <<slot, run, recovery, created, msg, caller, stray, faults>>

\* The next of a worker's writes on the connector and the run.
Write(w) ==
  /\ worker[w].todo # <<>>
  /\ LET r == worker[w].run
         write == Head(worker[w].todo)
     IN  /\ slot' = CASE write = "release" /\ Holds(r) ->
                           Released(IF worker[w].verdict = "succeeded" THEN "succeeded" ELSE "failed")
                      [] write = "renew" /\ Holds(r) -> [slot EXCEPT !.status = "queued", !.live = TRUE]
                      [] OTHER -> slot
         /\ run' = CASE write = "finish" -> Finished({r}, worker[w].verdict)
                     [] write = "retry" /\ run[r] = "running" -> [run EXCEPT ![r] = "retrying"]
                     [] OTHER -> run
  /\ worker' = [worker EXCEPT ![w].todo = Tail(@)]
  /\ UNCHANGED <<recovery, created, msg, caller, stray, faults>>

\* A failing write after a good ingest is an error of the sync itself; one that
\* is caught on the spot is passed over; any other is thrown.
WriteFails(w) ==
  /\ worker[w].pc \in {"starting", "marking"} \/ worker[w].todo # <<>>
  /\ CASE Doing(w, "givingup") -> worker' = [worker EXCEPT ![w].todo = Tail(@)]
       [] ~Doing(w, "givingup") /\ worker[w].verdict = "succeeded" -> Caught(w, FALSE)
       [] OTHER -> Plan(w, "writing", <<>>, "none", TRUE)
  /\ Goes("write")
  /\ UNCHANGED <<slot, run, recovery, created, msg, caller, stray>>

\* The handler ends; a job the queue gave to another worker is not its own.
Settle(w) ==
  /\ worker[w].pc \in {"writing", "givingup"} /\ worker[w].todo = <<>>
  /\ LET r == worker[w].run
     IN  msg' = IF msg[r].holder = w THEN [msg EXCEPT ![r] = Acked(r, worker[w].throws)] ELSE msg
  /\ worker' = [worker EXCEPT ![w] = Free]
  /\ UNCHANGED <<slot, run, recovery, created, caller, stray, faults>>

----------------------------------------------------------------------------
(* Time, crashes and the queue.                                            *)

Claiming(r) == \E c \in Caller : caller[c].run = r /\ caller[c].pc \in {"claimed", "closing"}

Expire ==
  /\ slot.live /\ "lapse" \in Faults
  /\ "slowclaim" \in Faults \/ ~Claiming(slot.owner)
  /\ slot' = [slot EXCEPT !.live = FALSE]
  /\ UNCHANGED <<run, recovery, created, msg, caller, worker, stray, faults>>

Alive(r) == msg[r].holder # Nobody /\ worker[msg[r].holder].run = r

\* BullMQ hands a stalled job, of a dead worker or of a slow one, to another
\* worker once and fails it the second time.
Stall(r) ==
  /\ Durable /\ msg[r].state = "active"
  /\ IF Alive(r) THEN Goes("stall") ELSE UNCHANGED faults
  /\ msg' = [msg EXCEPT ![r] =
       IF @.stalls = 0 THEN [@ EXCEPT !.state = "waiting", !.holder = Nobody, !.stalls = 1]
                       ELSE [@ EXCEPT !.state = "gone", !.holder = Nobody]]
  /\ UNCHANGED <<slot, run, recovery, created, caller, worker, stray>>

\* The in-memory queue drops what waits when its process ends.
Drop(r) ==
  /\ ~Durable /\ msg[r].state = "waiting"
  /\ msg' = [msg EXCEPT ![r].state = "gone"]
  /\ Goes("crash")
  /\ UNCHANGED <<slot, run, recovery, created, caller, worker, stray>>

CrashWorker(w) ==
  /\ ~Doing(w, "idle")
  /\ LET r == worker[w].run
     IN  msg' = IF ~Durable /\ msg[r].holder = w
                  THEN [msg EXCEPT ![r] = Acked(r, FALSE)] ELSE msg
  /\ worker' = [worker EXCEPT ![w] = Free]
  /\ Goes("crash")
  /\ UNCHANGED <<slot, run, recovery, created, caller, stray>>

CrashCaller(c) ==
  /\ caller[c].pc \notin {"idle", "refused"}
  /\ caller' = [caller EXCEPT ![c] = Quiet]
  /\ Goes("crash")
  /\ UNCHANGED <<slot, run, recovery, created, msg, worker, stray>>

Request(c) == FindOpen(c) \/ CloseOthers(c) \/ Create(c) \/ Enqueue(c) \/ FailRun(c) \/ FailSlot(c)
Reap == Scan \/ Reset \/ CloseFound \/ Recover \/ Claim(Reaper) \/ RequeueRefused \/ Request(Reaper)
Sync(w) == Check(w) \/ Start(w) \/ MarkRunning(w) \/ Ingest(w) \/ Write(w) \/ Settle(w)

Next ==
  \/ \E c \in Requester : Claim(c) \/ Request(c)
  \/ Reap
  \/ \E w \in Worker : Sync(w) \/ Beat(w) \/ WriteFails(w) \/ CrashWorker(w)
  \/ \E w \in Worker, r \in Run : Deliver(w, r)
  \/ \E c \in Caller : CrashCaller(c)
  \/ \E r \in Run : Stall(r) \/ Drop(r)
  \/ Expire

Spec == Init /\ [][Next]_vars

\* A lease nobody renews runs out.
Unattended == \A w \in Worker : worker[w].run # slot.owner

Fairness ==
  /\ \A c \in Requester : WF_vars(Request(c))
  /\ WF_vars(Reap)
  /\ \A w \in Worker : WF_vars(Sync(w)) /\ WF_vars(\E r \in Run : Deliver(w, r))
  /\ \A r \in Run : WF_vars(Stall(r) /\ ~Alive(r))
  /\ WF_vars(Expire /\ Unattended)

FairSpec == Spec /\ Fairness

----------------------------------------------------------------------------
\* "A terminal run is never reopened": whatever request, worker, reaper and
\* takeover race to close a SyncRun, its first verdict stays.
VerdictFinal == [][\A r \in Run : run[r] \in Terminal => run'[r] = run[r]]_vars

\* "A worker whose run was superseded can never overwrite the newer run's
\* state": no step of a worker touches the slot of another run.
SupersededIsSilent ==
  [][\A w \in Worker :
       /\ worker'[w] # worker[w] /\ worker[w].run \notin {NoRun, slot.owner}
       => slot' = slot]_vars

\* Two workers never both ingest for runs that are still open, unless one of
\* them is stray: a takeover has tried to close every other open run before it
\* creates its own, so what the late worker reports is recorded nowhere.
OneOpenSync ==
  \A v, w \in Worker :
    /\ worker[v].pc = "ingesting" /\ worker[w].pc = "ingesting"
    /\ worker[v].run # worker[w].run
    /\ {worker[v].run, worker[w].run} \subseteq OpenRuns
    => worker[v].run \in stray \/ worker[w].run \in stray

\* "A crashed worker's expired lease frees the slot": no claim of the slot
\* lasts for ever, wherever requests, workers and the reaper die.
SlotIsFreed == \A r \in Run : slot.owner = r ~> slot.owner # r
=============================================================================
