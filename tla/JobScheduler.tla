---------------------------- MODULE JobScheduler ----------------------------
(***************************************************************************)
(* One scheduled job of the platform, fired by the cron timer of every     *)
(* process that runs the scheduler (src/src/jobs/scheduler.js), guarded by *)
(* the lease lock (src/src/jobs/lock.js on MongoDB or Redis) and recorded  *)
(* as JobRun documents (src/src/repositories/jobRun.repository.js).        *)
(*                                                                         *)
(* A process is modelled by where its runJob call awaits. Lock and JobRun  *)
(* requests take effect at the server at any later moment, may fail, and   *)
(* their reply may be lost; heartbeats travel beside the run. Every        *)
(* process reads its own clock, which may be off by a constant.            *)
(***************************************************************************)
EXTENDS Naturals, FiniteSets

CONSTANTS
  Instance,        \* scheduler processes
  Backend,         \* "mongo" or "redis": which lock getJobLock() returns
  Lease,           \* leaseMs
  Fence,           \* TICK_FENCE_MS
  HeartbeatEvery,  \* period of the heartbeat timer
  Tick,            \* times the cron expression matches
  Jitter,          \* a tick fires, and its acquire reaches Redis, this soon
  Skew,            \* what each process' clock is ahead of the server's
  Nobody,          \* the token of a free lock
  MaxTime,         \* bound: the clock stops here
  MaxDowns,        \* bound: crashes and shutdowns
  MaxBeats         \* bound: heartbeats under way at once

Token == Instance \X Tick
Span == IF Fence < Lease THEN Fence ELSE Lease

\* A lock on Redis expires by the server's clock, one on MongoDB by the clock
\* of the process that writes or reads it: only the former sees the skew.
Drift(i) == IF Backend = "redis" THEN Skew[i] ELSE 0

ASSUME TimingAssumption ==
  /\ Lease \in Nat \ {0} /\ Fence \in Nat /\ HeartbeatEvery \in Nat \ {0}
  /\ Jitter \in Nat /\ MaxTime \in Nat /\ MaxDowns \in Nat /\ MaxBeats \in Nat
  /\ Tick \subseteq Nat
  /\ Skew \in [Instance -> Nat]
ASSUME BackendAssumption == Backend \in {"mongo", "redis"}
ASSUME TokenAssumption == Nobody \notin Token

\* A tick fires on every process before its fence ends on any other.
ASSUME FenceAssumption ==
  \A i, j \in Instance : Jitter + Drift(i) <= Span + Drift(j)

VARIABLES
  now,        \* the lock server's clock
  lock,       \* the JobLock document / the Redis key; nothing reads acquiredAt
  proc,       \* per process: where its runJob call is, and what it holds
  nextTick,   \* per process: the next tick it may fire
  stop,       \* per process: phase of stopScheduler
  beats,      \* heartbeat chains between their timer and their last write
  runs,       \* the JobRun document of each grant
  granted,    \* history: every token the lock was ever taken with
  downs       \* crashes and shutdowns so far

vars == <<now, lock, proc, nextTick, stop, beats, runs, granted, downs>>

----------------------------------------------------------------------------
Executing == {"recording", "running", "closing", "releasing"}
Verdict == {"finished", "abandoned"}   \* finished: succeeded or failed

Clock(i) == now + Skew[i]
TokenOf(i) == <<i, proc[i].tick>>
Up(i) == proc[i].pc # "down"

\* The time a lock request is judged by: captured by the caller on MongoDB,
\* read by the server when the request arrives on Redis.
JudgedAt(at) == IF Backend = "mongo" THEN at ELSE now

\* i's runJob call for `tick` gets to `pc`, reading the clock there.
Goto(i, pc, tick, run) ==
  proc' = [proc EXCEPT ![i] = [pc |-> pc, tick |-> tick, at |-> Clock(i), run |-> run]]

Idle == [pc |-> "idle", tick |-> 0, at |-> 0, run |-> FALSE]
Down == [pc |-> "down", tick |-> 0, at |-> 0, run |-> FALSE]
NoRun == [status |-> "none", leaseUntil |-> 0]
NotStopping == [phase |-> "no", waits |-> FALSE]

Proc == [pc : {"idle", "acquiring", "down"} \cup Executing, tick : Tick \cup {0},
         at : Nat, run : BOOLEAN]
Beat == [token : Token, at : Nat, stage : {"lock", "run", "orphan"}, run : BOOLEAN]

\* Heartbeat b with what is left of its chain.
Staged(b, stage) == [token |-> b.token, at |-> b.at, stage |-> stage, run |-> b.run]

TypeOK ==
  /\ now \in Nat /\ downs \in Nat
  /\ lock \in [token : Token \cup {Nobody}, until : Nat]
  /\ proc \in [Instance -> Proc]
  /\ nextTick \in [Instance -> Nat]
  /\ stop \in [Instance -> [phase : {"no", "stopping", "drained", "timedOut"}, waits : BOOLEAN]]
  /\ beats \in SUBSET Beat
  /\ runs \in [Token -> [status : {"none", "running"} \cup Verdict, leaseUntil : Nat]]
  /\ granted \in SUBSET Token
  /\ \A i \in Instance : proc[i].pc \notin {"idle", "down"} => proc[i].tick \in Tick

Init ==
  /\ now = 0
  /\ lock = [token |-> Nobody, until |-> 0]
  /\ proc = [i \in Instance |-> Idle]
  /\ nextTick = [i \in Instance |-> 0]
  /\ stop = [i \in Instance |-> NotStopping]
  /\ beats = {}
  /\ runs = [t \in Token |-> NoRun]
  /\ granted = {}
  /\ downs = 0

\* Bound: runs start and beat only while the clock still outlives their lease.
Room == now + Lease <= MaxTime

----------------------------------------------------------------------------
(* A tick: runJob up to the lock's answer.                                 *)

\* node-cron calls runJob; noOverlap skips the tick while the last call runs.
Fire(i, T) ==
  /\ proc[i].pc = "idle" /\ stop[i].phase = "no"
  /\ nextTick[i] <= T /\ T <= Clock(i) /\ Clock(i) < T + Jitter
  /\ Goto(i, "acquiring", T, FALSE)
  /\ nextTick' = [nextTick EXCEPT ![i] = T + 1]
  /\ UNCHANGED <<now, lock, stop, beats, runs, granted, downs>>

\* The request reaches Redis while the tick is fresh; MongoDB judges it by
\* the time captured in Fire, however late it gets there.
Arrives(i) == Backend = "redis" => Clock(i) < proc[i].tick + Jitter

\* Mutant: the lock is free at the end of its tick's fence, leased or not.
FencedCanAcquire(i) ==
  \/ lock.until <= JudgedAt(proc[i].at)
  \/ lock.token # Nobody /\ lock.token[2] + Span <= JudgedAt(proc[i].at)

CanAcquire(i) == lock.until <= JudgedAt(proc[i].at)

TakeLock(i) ==
  /\ lock' = [token |-> TokenOf(i), until |-> JudgedAt(proc[i].at) + Lease]
  /\ granted' = granted \cup {TokenOf(i)}

AcquireGranted(i) ==
  /\ proc[i].pc = "acquiring" /\ Arrives(i) /\ CanAcquire(i) /\ Room
  /\ TakeLock(i)
  /\ Goto(i, "recording", proc[i].tick, FALSE)
  /\ UNCHANGED <<now, nextTick, stop, beats, runs, downs>>

AcquireRefused(i) ==
  /\ proc[i].pc = "acquiring" /\ Arrives(i) /\ ~CanAcquire(i)
  /\ proc' = [proc EXCEPT ![i] = Idle]
  /\ UNCHANGED <<now, lock, nextTick, stop, beats, runs, granted, downs>>

\* The lock backend is unreachable, or took the lock and its reply was lost.
AcquireFailed(i) ==
  /\ proc[i].pc = "acquiring"
  /\ \/ UNCHANGED <<lock, granted>>
     \/ Arrives(i) /\ CanAcquire(i) /\ TakeLock(i)
  /\ proc' = [proc EXCEPT ![i] = Idle]
  /\ UNCHANGED <<now, nextTick, stop, beats, runs, downs>>

----------------------------------------------------------------------------
(* The execution under the lock.                                           *)

\* Mutant: the JobRun's lease ends after every time the model reaches.
UnleasedRecordRun(i, stored, known) ==
  /\ proc[i].pc = "recording" /\ (known => stored)
  /\ runs' = IF stored
               THEN [runs EXCEPT ![TokenOf(i)] = [status |-> "running", leaseUntil |-> 2 * MaxTime]]
               ELSE runs
  /\ Goto(i, "running", proc[i].tick, known)
  /\ UNCHANGED <<now, lock, nextTick, stop, beats, granted, downs>>

\* Mutant: the JobRun's lease is null, as its schema allows.
NullLeaseRecordRun(i, stored, known) ==
  /\ proc[i].pc = "recording" /\ (known => stored)
  /\ runs' = IF stored
               THEN [runs EXCEPT ![TokenOf(i)] = [status |-> "running", leaseUntil |-> Nobody]]
               ELSE runs
  /\ Goto(i, "running", proc[i].tick, known)
  /\ UNCHANGED <<now, lock, nextTick, stop, beats, granted, downs>>

\* JobRun.create is best effort: stored and known, lost, or stored unknown.
RecordRun(i, stored, known) ==
  /\ proc[i].pc = "recording" /\ (known => stored)
  /\ runs' = IF stored
               THEN [runs EXCEPT ![TokenOf(i)] =
                       [status |-> "running", leaseUntil |-> proc[i].at + Lease]]
               ELSE runs
  /\ Goto(i, "running", proc[i].tick, known)
  /\ UNCHANGED <<now, lock, nextTick, stop, beats, granted, downs>>

\* The heartbeat timer fires, however many earlier chains are still under way.
\* Bounds: MaxBeats of them, and Room.
TimerFires(i) ==
  /\ proc[i].pc = "running"
  /\ Cardinality(beats) < MaxBeats
  /\ proc[i].at + HeartbeatEvery <= Clock(i)
  /\ Room
  /\ beats' = beats \cup {[token |-> TokenOf(i), at |-> Clock(i), stage |-> "lock",
                           run |-> proc[i].run]}
  /\ Goto(i, "running", proc[i].tick, proc[i].run)
  /\ UNCHANGED <<now, lock, nextTick, stop, runs, granted, downs>>

\* lock.renew takes effect; whatever it answers, the JobRun write follows.
RenewApplied(b) ==
  /\ b.stage \in {"lock", "orphan"}
  /\ lock' = IF lock.token = b.token /\ lock.until > JudgedAt(b.at)
               THEN [token |-> b.token, until |-> JudgedAt(b.at) + Lease]
               ELSE lock
  /\ beats' = (beats \ {b}) \cup
              (IF b.stage = "lock" /\ b.run THEN {Staged(b, "run")} ELSE {})
  /\ UNCHANGED <<now, proc, nextTick, stop, runs, granted, downs>>

RunBeatApplied(b) ==
  /\ b.stage = "run"
  /\ runs' = IF runs[b.token].status = "running"
               THEN [runs EXCEPT ![b.token] = [status |-> "running", leaseUntil |-> b.at + Lease]]
               ELSE runs
  /\ beats' = beats \ {b}
  /\ UNCHANGED <<now, lock, proc, nextTick, stop, granted, downs>>

\* A request of the chain fails: the rest of the chain is skipped.
BeatLost(b) ==
  /\ beats' = beats \ {b}
  /\ UNCHANGED <<now, lock, proc, nextTick, stop, runs, granted, downs>>

\* The handler returns or throws, and the timer is cleared.
HandlerEnds(i) ==
  /\ proc[i].pc = "running"
  /\ Goto(i, IF proc[i].run THEN "closing" ELSE "releasing", proc[i].tick, proc[i].run)
  /\ UNCHANGED <<now, lock, nextTick, stop, beats, runs, granted, downs>>

\* Mutant: finish does not filter on the status of the run.
UnfilteredCloseRun(i) ==
  /\ proc[i].pc = "closing"
  /\ runs' = [runs EXCEPT ![TokenOf(i)] = [status |-> "finished", leaseUntil |-> 0]]
  /\ Goto(i, "releasing", proc[i].tick, proc[i].run)
  /\ UNCHANGED <<now, lock, nextTick, stop, beats, granted, downs>>

\* jobRunRepository.finish, whose failure is only logged.
CloseRun(i) ==
  /\ proc[i].pc = "closing"
  /\ \/ UNCHANGED runs
     \/ /\ runs[TokenOf(i)].status = "running"
        /\ runs' = [runs EXCEPT ![TokenOf(i)] = [status |-> "finished", leaseUntil |-> 0]]
  /\ Goto(i, "releasing", proc[i].tick, proc[i].run)
  /\ UNCHANGED <<now, lock, nextTick, stop, beats, granted, downs>>

\* Mutant: release without a fence.
UnfencedReleaseLock(i) == lock' = [lock EXCEPT !.until = JudgedAt(proc[i].at), !.token = Nobody]

\* What release writes: held on to the fence, or freed at once.
ReleaseLock(i) ==
  LET hold == proc[i].tick + Span
      left == IF hold > proc[i].at THEN hold - proc[i].at ELSE 0
  IN  lock' = [token |-> IF left > 0 THEN TokenOf(i) ELSE Nobody,
               until |-> JudgedAt(proc[i].at) + left]

\* Mutant: release overtakes the renews sent before it.
OvertakingRelease(i) ==
  /\ proc[i].pc = "releasing"
  /\ \/ UNCHANGED lock
     \/ lock.token = TokenOf(i) /\ lock.until > now /\ ReleaseLock(i)
  /\ proc' = [proc EXCEPT ![i] = Idle]
  /\ UNCHANGED <<now, nextTick, stop, beats, runs, granted, downs>>

\* lock.release, whose failure is only logged. One Redis connection delivers
\* in order, so there it comes after every renew already sent.
Release(i) ==
  /\ proc[i].pc = "releasing"
  /\ Backend = "redis" => \A b \in beats : b.token = TokenOf(i) => b.stage # "lock"
  /\ \/ UNCHANGED lock
     \/ /\ lock.token = TokenOf(i)
        /\ Backend = "redis" => lock.until > now
        /\ ReleaseLock(i)
  /\ proc' = [proc EXCEPT ![i] = Idle]
  /\ UNCHANGED <<now, nextTick, stop, beats, runs, granted, downs>>

----------------------------------------------------------------------------
(* Shutdown, crash, restart, the reaper and time.                          *)

\* stopScheduler snapshots inFlight, which holds a run only once it executes.
StopBegins(i) ==
  /\ Up(i) /\ stop[i].phase = "no" /\ downs < MaxDowns
  /\ stop' = [stop EXCEPT ![i] = [phase |-> "stopping", waits |-> proc[i].pc \in Executing]]
  /\ downs' = downs + 1
  /\ UNCHANGED <<now, lock, proc, nextTick, beats, runs, granted>>

StopEnds(i) ==
  /\ Up(i) /\ stop[i].phase = "stopping"
  /\ stop' = [stop EXCEPT ![i].phase =
                IF stop[i].waits /\ proc[i].pc \in Executing THEN "timedOut" ELSE "drained"]
  /\ UNCHANGED <<now, lock, proc, nextTick, beats, runs, granted, downs>>

\* The process is gone: a renew it sent may still arrive, nothing follows it.
Die(i) ==
  /\ proc' = [proc EXCEPT ![i] = Down]
  /\ stop' = [stop EXCEPT ![i] = NotStopping]
  /\ beats' = {IF b.token[1] = i /\ b.stage = "lock" THEN Staged(b, "orphan") ELSE b :
               b \in beats}

Exit(i) ==
  /\ stop[i].phase \in {"drained", "timedOut"}
  /\ Die(i)
  /\ UNCHANGED <<now, lock, nextTick, runs, granted, downs>>

Crash(i) ==
  /\ Up(i) /\ downs < MaxDowns
  /\ Die(i)
  /\ downs' = downs + 1
  /\ UNCHANGED <<now, lock, nextTick, runs, granted>>

\* A new process schedules only ticks later than its clock.
Restart(i) ==
  /\ ~Up(i)
  /\ proc' = [proc EXCEPT ![i] = Idle]
  /\ nextTick' = [nextTick EXCEPT ![i] = Clock(i) + 1]
  /\ UNCHANGED <<now, lock, stop, beats, runs, granted, downs>>

\* closeStale, from the reaper job of process i; one document at a time.
CloseStale(i, t) ==
  /\ Up(i)
  /\ runs[t].status = "running" /\ runs[t].leaseUntil <= Clock(i)
  /\ runs' = [runs EXCEPT ![t] = [status |-> "abandoned", leaseUntil |-> 0]]
  /\ UNCHANGED <<now, lock, proc, nextTick, stop, beats, granted, downs>>

Advance ==
  /\ now < MaxTime
  /\ now' = now + 1
  /\ UNCHANGED <<lock, proc, nextTick, stop, beats, runs, granted, downs>>

\* The model's clock has stopped and nothing is left to do.
Horizon ==
  /\ now = MaxTime /\ beats = {}
  /\ \A i \in Instance : proc[i].pc = "idle"
  /\ UNCHANGED vars

Step(i) ==
  \/ \E T \in Tick : Fire(i, T)
  \/ AcquireGranted(i) \/ AcquireRefused(i) \/ AcquireFailed(i)
  \/ \E stored, known \in BOOLEAN : RecordRun(i, stored, known)
  \/ TimerFires(i)
  \/ HandlerEnds(i) \/ CloseRun(i) \/ Release(i)

Life(i) ==
  \/ StopBegins(i) \/ StopEnds(i) \/ Exit(i) \/ Crash(i) \/ Restart(i)
  \/ \E t \in Token : CloseStale(i, t)

Travel == \E b \in beats : RenewApplied(b) \/ RunBeatApplied(b) \/ BeatLost(b)

Next == (\E i \in Instance : Step(i) \/ Life(i)) \/ Travel \/ Advance \/ Horizon

Spec == Init /\ [][Next]_vars

\* What keeps running by itself: timers and promises settle, requests end,
\* the supervisor restarts a process, the reaper's own job ticks, time passes.
Fairness ==
  /\ \A i \in Instance : WF_vars(Step(i) \/ Restart(i) \/ StopEnds(i) \/ Exit(i))
  /\ WF_vars(\E i \in Instance, t \in Token : CloseStale(i, t))
  /\ WF_vars(Travel) /\ WF_vars(Advance)

FairSpec == Spec /\ Fairness

----------------------------------------------------------------------------
(* Properties.                                                             *)

\* The lock is never given to two processes for the same tick: neither a late
\* clock, a lost reply, a crash nor a delayed renew or release lets a second
\* process of the fleet run a tick that one of them already got.
TickOnce == \A e, f \in granted : e[2] = f[2] => e = f

\* The scheduler implements the abstract lock: with agreeing clocks, it passes
\* from one run to another only through a moment at which its lease is over,
\* and a run that kept its lease is alone.
Abstract == INSTANCE TickMutex WITH
  holder <- IF lock.until > now THEN lock.token ELSE Nobody,
  granted <- granted
ImplementsTickMutex == Abstract!Spec

\* "A late finish can never overwrite a reaper's `abandoned` verdict", nor the
\* reaper a finished run's, nor a late heartbeat bring a closed run back.
RunVerdictFinal ==
  [][\A t \in Token : runs[t].status \in Verdict => runs'[t] = runs[t]]_vars

Executes(t) == proc[t[1]].pc \in Executing /\ proc[t[1]].tick = t[2]

\* A finished tick keeps its lock only to the end of its fence ("it still runs
\* every following tick"): once released until then, no step extends it. With
\* Skew[i] + Span < Lease only a release leaves the lock ending at the fence.
FencedReleaseStands ==
  [][\A t \in Token :
       /\ lock.token = t /\ lock.until = t[2] + Span /\ ~Executes(t)
       /\ lock'.token = t
       => lock'.until = lock.until]_vars

\* Every JobRun left behind by a crash, a lost reply or a failed write is
\* closed by the reaper: no run is shown as running for ever. (The ticks before
\* MaxTime are finitely many, so from some time on none is shown.)
RunsEventuallyClosed == <>[](\A t \in Token : runs[t].status # "running")
=============================================================================
