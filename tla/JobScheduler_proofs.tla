------------------------ MODULE JobScheduler_proofs ------------------------
(***************************************************************************)
(* Proofs about JobScheduler, for every set of processes, lease, fence,    *)
(* clock skew and cron expression that satisfy its assumptions.            *)
(***************************************************************************)
EXTENDS JobScheduler, TLAPS

\* Server time t is past the fence of grant e.
Fenced(e, t) == e[2] + Span <= t + Drift(e[1])

\* At lock time u the fence of every grant but t is over.
Alone(t, u) == \A e \in granted \ {t} : Fenced(e, u)

\* The lock stays taken to the end of the fence of every grant ever made.
LockInv == \A e \in granted : Fenced(e, lock.until)

\* A tick is fired once per process, and not before its time.
GrantInv == \A e \in granted : e[2] <= Clock(e[1]) /\ e[2] < nextTick[e[1]]

\* A request under way has a tick that is fresh and not granted to it yet; an
\* execution that still has the lock is past the fence of every other grant.
RunInv(i) ==
  /\ proc[i].pc = "acquiring" =>
       /\ proc[i].tick <= proc[i].at /\ proc[i].at < proc[i].tick + Jitter
       /\ proc[i].at <= Clock(i) /\ proc[i].tick < nextTick[i]
       /\ TokenOf(i) \notin granted
  /\ proc[i].pc \in Executing =>
       /\ proc[i].tick <= proc[i].at /\ proc[i].at <= Clock(i)
       /\ TokenOf(i) \in granted
       /\ lock.token = TokenOf(i) => Alone(TokenOf(i), JudgedAt(proc[i].at))

\* So is a renew under way for the present grant.
BeatInv(b) ==
  /\ b.token \in granted /\ b.token[2] <= b.at
  /\ b.stage # "run" /\ lock.token = b.token => Alone(b.token, JudgedAt(b.at))

IInv ==
  /\ TypeOK /\ LockInv /\ GrantInv /\ TickOnce
  /\ \A i \in Instance : RunInv(i)
  /\ \A b \in beats : BeatInv(b)

----------------------------------------------------------------------------
(* Type correctness.                                                       *)

\* The timing constants and what is computed from them are naturals.
LEMMA Timing ==
  /\ Lease \in Nat /\ Fence \in Nat /\ Jitter \in Nat /\ Span \in Nat /\ Span <= Lease
  /\ Tick \subseteq Nat
  /\ \A i \in Instance : Skew[i] \in Nat /\ Drift(i) \in Nat
BY TimingAssumption DEF Span, Drift

\* Every clock reads a natural number.
LEMMA ClockNat ==
  ASSUME TypeOK, NEW i \in Instance
  PROVE  Clock(i) \in Nat /\ proc[i].at \in Nat /\ JudgedAt(proc[i].at) \in Nat
BY Timing DEF TypeOK, Proc, Clock, JudgedAt

\* The token of a run is a grant of its process.
LEMMA TokenTyped ==
  ASSUME TypeOK, NEW i \in Instance, proc[i].pc \notin {"idle", "down"}
  PROVE  TokenOf(i) \in Token /\ proc[i].tick \in Tick
BY DEF TypeOK, TokenOf, Token

\* The initial state is typed.
LEMMA InitTyped == Init => TypeOK
BY DEF Init, TypeOK, Proc, Idle, NoRun, NotStopping, Token

\* The part of TypeOK about the processes.
ProcsOK ==
  /\ proc \in [Instance -> Proc]
  /\ \A i \in Instance : proc[i].pc \notin {"idle", "down"} => proc[i].tick \in Tick

\* A call that moves on is in a typed state.
LEMMA GotoTyped ==
  ASSUME TypeOK, NEW i \in Instance, NEW T \in Tick, NEW run \in BOOLEAN,
         NEW pc \in {"acquiring"} \cup Executing, Goto(i, pc, T, run)
  PROVE  ProcsOK'
<1> DEFINE r == [pc |-> pc, tick |-> T, at |-> Clock(i), run |-> run]
<1>1. r \in Proc /\ r.tick \in Tick
  BY ClockNat DEF Proc
<1> HIDE DEF r
<1>2. proc' = [proc EXCEPT ![i] = r]
  BY DEF Goto, r
<1> QED
  BY <1>1, <1>2 DEF TypeOK, ProcsOK

\* So is one that returned, or whose process is down.
LEMMA RestTyped ==
  ASSUME TypeOK, NEW i \in Instance, NEW r \in {Idle, Down}, proc' = [proc EXCEPT ![i] = r]
  PROVE  ProcsOK'
<1>1. r \in Proc /\ r.pc \in {"idle", "down"}
  <2>1. Idle \in Proc /\ Idle.pc = "idle"
    BY DEF Idle, Proc
  <2>2. Down \in Proc /\ Down.pc = "down"
    BY DEF Down, Proc
  <2> QED
    BY <2>1, <2>2
<1> QED
  BY <1>1 DEF TypeOK, ProcsOK

\* Every request a process makes while it answers a tick keeps the types.
LEMMA StepTyped ==
  ASSUME TypeOK, NEW i \in Instance, Step(i)
  PROVE  TypeOK'
<1> USE Timing, ClockNat
<1> DEFINE run == proc[i].run
<1>0. run \in BOOLEAN
  BY DEF TypeOK, Proc
<1>1. CASE \E T \in Tick : Fire(i, T)
  <2>1. PICK T \in Tick : Fire(i, T)
    BY <1>1
  <2>2. ProcsOK'
    BY <2>1, GotoTyped DEF Fire
  <2>3. nextTick' \in [Instance -> Nat]
    BY <2>1 DEF TypeOK, Fire
  <2> QED
    BY <2>1, <2>2, <2>3 DEF TypeOK, Fire, ProcsOK
<1>2. CASE AcquireGranted(i)
  <2>1. ProcsOK'
    BY <1>2, GotoTyped, TokenTyped DEF AcquireGranted, Executing
  <2> QED
    BY <1>2, <2>1, TokenTyped DEF TypeOK, AcquireGranted, TakeLock, ProcsOK
<1>3. CASE AcquireRefused(i)
  BY <1>3, RestTyped DEF TypeOK, ProcsOK, AcquireRefused
<1>4. CASE AcquireFailed(i)
  <2>1. ProcsOK'
    BY <1>4, RestTyped DEF AcquireFailed
  <2> QED
    BY <1>4, <2>1, TokenTyped DEF TypeOK, ProcsOK, AcquireFailed, TakeLock
<1>5. CASE \E stored, known \in BOOLEAN : RecordRun(i, stored, known)
  <2>1. PICK stored, known \in BOOLEAN : RecordRun(i, stored, known)
    BY <1>5
  <2>2. ProcsOK'
    BY <2>1, GotoTyped, TokenTyped DEF RecordRun, Executing
  <2>3. runs' \in [Token -> [status : {"none", "running"} \cup Verdict, leaseUntil : Nat]]
    BY <2>1, TokenTyped DEF TypeOK, RecordRun
  <2> QED
    BY <2>1, <2>2, <2>3 DEF TypeOK, RecordRun, ProcsOK
<1>6. CASE TimerFires(i)
  <2>1. ProcsOK'
    BY <1>0, <1>6, GotoTyped, TokenTyped DEF TimerFires, Executing
  <2>2. beats' \in SUBSET Beat
    BY <1>0, <1>6, TokenTyped DEF TypeOK, Beat, TimerFires
  <2> QED
    BY <1>6, <2>1, <2>2 DEF TypeOK, TimerFires, ProcsOK
<1>7. CASE HandlerEnds(i)
  <2>1. ProcsOK'
    BY <1>0, <1>7, GotoTyped, TokenTyped DEF HandlerEnds, Executing
  <2> QED
    BY <1>7, <2>1 DEF TypeOK, HandlerEnds, ProcsOK
<1>8. CASE CloseRun(i)
  <2>1. ProcsOK'
    BY <1>0, <1>8, GotoTyped, TokenTyped DEF CloseRun, Executing
  <2> QED
    BY <1>8, <2>1, TokenTyped DEF TypeOK, CloseRun, ProcsOK, Verdict
<1>9. CASE Release(i)
  <2>1. ProcsOK'
    BY <1>9, RestTyped DEF Release
  <2>2. lock' \in [token : Token \cup {Nobody}, until : Nat]
    <3>1. CASE ReleaseLock(i)
      <4> DEFINE hold == proc[i].tick + Span
                 left == IF hold > proc[i].at THEN hold - proc[i].at ELSE 0
      <4>1. TokenOf(i) \in Token /\ proc[i].tick \in Tick
        BY <1>9, TokenTyped DEF Release
      <4>2. proc[i].at \in Nat /\ hold \in Nat
        <5>1. proc[i].at \in Nat
          BY ClockNat
        <5>2. proc[i].tick \in Nat /\ Span \in Nat
          BY <4>1, Timing
        <5> QED
          BY ONLY <5>1, <5>2
      <4> HIDE DEF hold
      <4>3. left \in Nat
        BY <4>2
      <4>4. lock' = [token |-> IF left > 0 THEN TokenOf(i) ELSE Nobody,
                     until |-> JudgedAt(proc[i].at) + left]
        BY <3>1 DEF ReleaseLock, hold
      <4> HIDE DEF left
      <4> QED
        BY <4>1, <4>3, <4>4 DEF TypeOK
    <3> QED
      BY <1>9, <3>1 DEF Release, TypeOK
  <2> QED
    BY <1>9, <2>1, <2>2 DEF TypeOK, Release, ProcsOK
<1> QED
  BY <1>1, <1>2, <1>3, <1>4, <1>5, <1>6, <1>7, <1>8, <1>9 DEF Step

\* So do shutdown, crash, restart and the reaper.
LEMMA LifeTyped ==
  ASSUME TypeOK, NEW i \in Instance, Life(i)
  PROVE  TypeOK'
<1> USE Timing, ClockNat
<1>1. CASE StopBegins(i)
  BY <1>1 DEF TypeOK, StopBegins
<1>2. CASE StopEnds(i)
  BY <1>2 DEF TypeOK, StopEnds
<1>3. ASSUME Die(i), UNCHANGED <<now, lock, nextTick, runs, granted>>, downs' \in Nat
      PROVE  TypeOK'
  <2>1. ProcsOK'
    BY <1>3, RestTyped DEF Die
  <2>2. beats' \in SUBSET Beat
    BY <1>3 DEF TypeOK, Die, Beat, Staged
  <2> QED
    BY <1>3, <2>1, <2>2 DEF TypeOK, ProcsOK, Die, NotStopping
<1>4. CASE Exit(i)
  BY <1>3, <1>4 DEF TypeOK, Exit
<1>5. CASE Crash(i)
  BY <1>3, <1>5 DEF TypeOK, Crash
<1>6. CASE Restart(i)
  <2>1. ProcsOK'
    BY <1>6, RestTyped DEF Restart
  <2>2. nextTick' \in [Instance -> Nat]
    BY <1>6 DEF TypeOK, Restart
  <2> QED
    BY <1>6, <2>1, <2>2 DEF TypeOK, ProcsOK, Restart
<1>7. CASE \E t \in Token : CloseStale(i, t)
  BY <1>7 DEF TypeOK, CloseStale, Verdict
<1> QED
  BY <1>1, <1>2, <1>4, <1>5, <1>6, <1>7 DEF Life

\* So do the heartbeats that travel beside the runs.
LEMMA TravelTyped ==
  ASSUME TypeOK, NEW b \in beats,
         RenewApplied(b) \/ RunBeatApplied(b) \/ BeatLost(b)
  PROVE  TypeOK'
<1>1. b \in Beat /\ JudgedAt(b.at) \in Nat
  BY DEF TypeOK, Beat, JudgedAt
<1>2. CASE RenewApplied(b)
  <2>1. beats' \in SUBSET Beat
    BY <1>1, <1>2 DEF TypeOK, Beat, RenewApplied, Staged
  <2>2. lock' \in [token : Token \cup {Nobody}, until : Nat]
    BY <1>1, <1>2, Timing DEF TypeOK, Beat, RenewApplied
  <2> QED
    BY <1>2, <2>1, <2>2 DEF TypeOK, RenewApplied
<1>3. CASE RunBeatApplied(b)
  BY <1>1, <1>3, Timing DEF TypeOK, Beat, RunBeatApplied
<1>4. CASE BeatLost(b)
  BY <1>4 DEF TypeOK, BeatLost
<1> QED
  BY <1>2, <1>3, <1>4

\* Every step keeps the types.
LEMMA NextTyped == TypeOK /\ [Next]_vars => TypeOK'
<1> SUFFICES ASSUME TypeOK, [Next]_vars PROVE TypeOK'
  OBVIOUS
<1>1. CASE Advance
  BY <1>1 DEF TypeOK, Advance
<1>2. CASE Horizon \/ UNCHANGED vars
  BY <1>2 DEF TypeOK, Horizon, vars
<1> QED
  BY <1>1, <1>2, StepTyped, LifeTyped, TravelTyped DEF Next, Travel

\* Type correctness of the scheduler: the lock document, the run records and
\* the state of every runJob call stay within what the code stores in them.
THEOREM TypeInvariant == Spec => []TypeOK
BY InitTyped, NextTyped, PTL DEF Spec

----------------------------------------------------------------------------
(* One run per tick.                                                       *)

\* Granting a lock that is free: the grant is judged inside its tick's window,
\* before the end of the tick's fence and after the lease it succeeds.
LEMMA JudgedInWindow ==
  ASSUME IInv, NEW i \in Instance, proc[i].pc = "acquiring", Arrives(i)
  PROVE  LET j == JudgedAt(proc[i].at) IN
         /\ j \in Nat
         /\ proc[i].tick <= j + Drift(i) /\ j + Drift(i) < proc[i].tick + Jitter
<1>0. proc[i].tick \in Nat /\ proc[i].at \in Nat /\ now \in Nat /\ Skew[i] \in Nat
  BY Timing, ClockNat, TokenTyped DEF IInv, TypeOK
<1>1. /\ proc[i].tick <= proc[i].at /\ proc[i].at < proc[i].tick + Jitter
      /\ proc[i].at <= Clock(i)
  BY DEF IInv, RunInv
<1>2. CASE Backend = "mongo"
  BY <1>0, <1>1, <1>2, Timing DEF JudgedAt, Drift
<1>3. CASE Backend = "redis"
  BY <1>0, <1>1, <1>3, Timing DEF JudgedAt, Drift, Clock, Arrives
<1> QED
  BY <1>2, <1>3, BackendAssumption

\* A tick some process was granted is refused to every other: its fence
\* outlives the window in which the tick fires.
LEMMA TickIsNew ==
  ASSUME IInv, NEW i \in Instance, proc[i].pc = "acquiring", Arrives(i), CanAcquire(i)
  PROVE  \A e \in granted : e[2] # proc[i].tick
<1> SUFFICES ASSUME NEW e \in granted, e[2] = proc[i].tick
             PROVE  FALSE
  OBVIOUS
<1> DEFINE j == JudgedAt(proc[i].at)
<1>1. j \in Nat /\ j + Drift(i) < proc[i].tick + Jitter
  BY JudgedInWindow
<1>2. e[1] \in Instance /\ proc[i].tick \in Nat /\ lock.until \in Nat
  BY Timing, TokenTyped DEF IInv, TypeOK, Token
<1>3. proc[i].tick + Span <= lock.until + Drift(e[1]) /\ lock.until <= j
  BY DEF IInv, LockInv, Fenced, CanAcquire
<1>4. Jitter + Drift(e[1]) <= Span + Drift(i)
  BY <1>2, FenceAssumption
<1> HIDE DEF j
<1> QED
  BY <1>1, <1>2, <1>3, <1>4, Timing

\* Taking the free lock keeps the fences, and leaves every other run and every
\* heartbeat under way with a token that is no longer the lock's.
LEMMA TakeLockSafe ==
  ASSUME IInv, NEW i \in Instance, proc[i].pc = "acquiring", Arrives(i), CanAcquire(i),
         TakeLock(i), UNCHANGED <<now, nextTick, beats>>
  PROVE  /\ LockInv' /\ GrantInv' /\ TickOnce'
         /\ \A b \in beats' : BeatInv(b)'
         /\ \A k \in Instance \ {i} : UNCHANGED proc[k] => RunInv(k)'
<1> DEFINE j == JudgedAt(proc[i].at)
           t == TokenOf(i)
<1>1. /\ j \in Nat /\ t \in Token /\ t[1] = i /\ t[2] = proc[i].tick /\ t # Nobody
      /\ t \notin granted /\ granted \subseteq Token /\ lock.until \in Nat /\ lock.until <= j
      /\ proc[i].tick \in Nat /\ \A e \in granted : e[1] \in Instance /\ e[2] \in Nat
  BY JudgedInWindow, TokenTyped, Timing, TokenAssumption
  DEF IInv, RunInv, TypeOK, CanAcquire, TokenOf, Token
<1>2. /\ lock' = [token |-> t, until |-> j + Lease]
      /\ granted' = granted \cup {t}
  BY DEF TakeLock
<1>3. t[2] <= j + Drift(t[1])
  BY <1>1, JudgedInWindow
<1>4. \A e \in granted : Fenced(e, lock.until)
  BY DEF IInv, LockInv
<1> HIDE DEF j, t
<1>5. \A e \in granted : Fenced(e, j) /\ Fenced(e, j + Lease)
  BY <1>1, <1>4, Timing DEF Fenced
<1>6. Fenced(t, j + Lease)
  BY <1>1, <1>3, Timing DEF Fenced
<1>7. LockInv'
  BY <1>1, <1>2, <1>5, <1>6 DEF LockInv, Fenced
<1>8. GrantInv'
  <2>1. t[2] <= Clock(t[1]) /\ t[2] < nextTick[t[1]]
    BY <1>1, ClockNat DEF IInv, RunInv, t
  <2> QED
    BY <1>2, <2>1 DEF GrantInv, IInv, Clock
<1>9. TickOnce'
  BY <1>1, <1>2, TickIsNew DEF IInv, TickOnce
<1>10. \A b \in beats' : BeatInv(b)'
  BY <1>1, <1>2 DEF IInv, BeatInv, JudgedAt
<1>11. \A k \in Instance \ {i} : UNCHANGED proc[k] => RunInv(k)'
  BY <1>1, <1>2 DEF IInv, RunInv, TokenOf, JudgedAt, Clock
<1> QED
  BY <1>7, <1>8, <1>9, <1>10, <1>11

\* While the lock stays with its grant or becomes nobody's, the calls that do
\* not move and the heartbeats under way keep their invariants.
LEMMA SameHolder ==
  ASSUME IInv, UNCHANGED <<now, granted>>,
         lock'.token \in {lock.token, Nobody},
         \A k \in Instance : nextTick[k] <= nextTick'[k] /\ nextTick'[k] \in Nat
  PROVE  /\ GrantInv' /\ TickOnce'
         /\ \A k \in Instance : UNCHANGED proc[k] => RunInv(k)'
         /\ \A b \in beats : BeatInv(b)'
<1>1. granted \subseteq Token /\ Nobody \notin granted /\ nextTick \in [Instance -> Nat]
  BY TokenAssumption DEF IInv, TypeOK
<1>2. \A e \in granted : e[1] \in Instance /\ e[2] \in Nat
  BY <1>1, Timing DEF Token
<1>3. GrantInv'
  BY <1>1, <1>2 DEF IInv, GrantInv, Clock
<1>4. \A k \in Instance : UNCHANGED proc[k] => RunInv(k)'
  <2> SUFFICES ASSUME NEW k \in Instance, UNCHANGED proc[k] PROVE RunInv(k)'
    OBVIOUS
  <2>1. RunInv(k) /\ nextTick[k] \in Nat
    BY <1>1 DEF IInv
  <2>2. proc[k].pc = "acquiring" => proc[k].tick \in Nat
    BY TokenTyped, Timing DEF IInv
  <2> QED
    BY <1>1, <2>1, <2>2 DEF RunInv, TokenOf, JudgedAt, Clock, Alone, Fenced
<1>5. \A b \in beats : BeatInv(b)'
  BY <1>1 DEF IInv, BeatInv, JudgedAt, Alone, Fenced
<1> QED
  BY <1>3, <1>4, <1>5 DEF IInv, TickOnce

\* An unchanged lock and an unchanged set of grants keep the fences.
LEMMA SameLock ==
  ASSUME IInv, UNCHANGED <<lock, granted>>
  PROVE  LockInv'
BY DEF IInv, LockInv, Fenced

\* What is over at a lock time is over at every later one.
LEMMA LaterAlone ==
  ASSUME TypeOK, NEW t, NEW u \in Nat, NEW v \in Nat, u <= v, Alone(t, u)
  PROVE  Alone(t, v)
<1> SUFFICES ASSUME NEW e \in granted \ {t} PROVE Fenced(e, v)
  BY DEF Alone
<1>1. e[1] \in Instance /\ e[2] \in Nat
  BY Timing DEF TypeOK, Token
<1>2. e[2] + Span <= u + Drift(e[1])
  BY DEF Alone, Fenced
<1> QED
  BY <1>1, <1>2, Timing DEF Fenced

\* A release, whether it frees the lock or holds it on, is no earlier than the
\* end of its own tick's fence.
LEMMA ReleaseLockSafe ==
  ASSUME IInv, NEW i \in Instance, proc[i].pc = "releasing", lock.token = TokenOf(i),
         ReleaseLock(i), UNCHANGED <<now, granted>>
  PROVE  LockInv' /\ lock'.token \in {lock.token, Nobody}
<1> DEFINE hold == proc[i].tick + Span
           left == IF hold > proc[i].at THEN hold - proc[i].at ELSE 0
           j == JudgedAt(proc[i].at)
           t == TokenOf(i)
<1>1. /\ proc[i].tick \in Nat /\ proc[i].at \in Nat /\ j \in Nat /\ now \in Nat
      /\ Skew[i] \in Nat /\ t \in Token /\ t # Nobody /\ t[1] = i /\ t[2] = proc[i].tick
  BY ClockNat, TokenTyped, TokenAssumption, Timing DEF IInv, TypeOK, TokenOf
<1>2. proc[i].at <= now + Skew[i] /\ Alone(t, j)
  BY DEF IInv, RunInv, Executing, Clock
<1>3. lock' = [token |-> IF left > 0 THEN t ELSE Nobody, until |-> j + left]
  BY DEF ReleaseLock
<1>4. left \in Nat /\ hold <= proc[i].at + left
  <2>1. hold \in Nat /\ proc[i].at \in Nat
    BY <1>1, Timing
  <2> HIDE DEF hold
  <2> QED
    BY <2>1
<1>5. Fenced(t, j + left)
  <2>1. hold <= j + left + Drift(i)
    <3>1. CASE Backend = "mongo"
      BY <1>1, <1>4, <3>1, Timing DEF JudgedAt, Drift
    <3>2. CASE Backend = "redis"
      <4>1. j = now /\ Drift(i) = Skew[i]
        BY <3>2 DEF JudgedAt, Drift
      <4>2. hold \in Nat
        BY <1>1, Timing
      <4> HIDE DEF hold, left, j
      <4> QED
        BY <1>1, <1>2, <1>4, <4>1, <4>2
    <3> QED
      BY <3>1, <3>2, BackendAssumption
  <2> QED
    BY <1>1, <2>1 DEF Fenced
<1> HIDE DEF left, j, t
<1>6. j + left \in Nat /\ j <= j + left
  BY <1>1, <1>4
<1>7. \A e \in granted : Fenced(e, j + left)
  <2>1. Alone(t, j + left)
    BY <1>1, <1>2, <1>6, LaterAlone DEF IInv
  <2> QED
    BY <1>5, <2>1 DEF Alone
<1>8. lock'.token \in {lock.token, Nobody}
  BY <1>3 DEF t
<1>9. LockInv'
  BY <1>3, <1>7 DEF IInv, LockInv, Fenced
<1> QED
  BY <1>3, <1>8, <1>9

\* A renew that still finds its token only moves the lock's end, and not to
\* before any fence; any other leaves the lock alone.
LEMMA RenewSafe ==
  ASSUME IInv, NEW b \in beats, RenewApplied(b)
  PROVE  LockInv' /\ lock'.token = lock.token
<1>1. CASE UNCHANGED lock
  BY <1>1, SameLock DEF RenewApplied
<1>2. CASE lock.token = b.token /\ b.stage # "run" /\
           lock' = [token |-> b.token, until |-> JudgedAt(b.at) + Lease]
  <2> DEFINE j == JudgedAt(b.at)
             t == b.token
  <2>1. /\ b \in Beat /\ b.at \in Nat /\ now \in Nat /\ j \in Nat /\ t \in granted
        /\ t[1] \in Instance /\ t[2] \in Nat /\ Skew[t[1]] \in Nat
        /\ t[2] <= b.at /\ t[2] <= now + Skew[t[1]]
    BY Timing DEF IInv, TypeOK, Beat, BeatInv, GrantInv, JudgedAt, Clock, Token
  <2>2. Alone(t, j)
    BY <1>2 DEF IInv, BeatInv
  <2>3. t[2] <= j + Drift(t[1])
    <3>1. CASE Backend = "mongo"
      BY <2>1, <3>1 DEF JudgedAt, Drift
    <3>2. CASE Backend = "redis"
      BY <2>1, <3>2 DEF JudgedAt, Drift
    <3> QED
      BY <3>1, <3>2, BackendAssumption
  <2> HIDE DEF j, t
  <2>4. Fenced(t, j + Lease)
    BY <2>1, <2>3, Timing DEF Fenced
  <2>5. Alone(t, j + Lease)
    <3>1. j + Lease \in Nat /\ j <= j + Lease
      BY <2>1, Timing
    <3> QED
      BY <2>1, <2>2, <3>1, LaterAlone DEF IInv
  <2>6. lock' = [token |-> t, until |-> j + Lease] /\ granted' = granted /\ lock.token = t
    BY <1>2 DEF RenewApplied, j, t
  <2>7. \A e \in granted : Fenced(e, j + Lease)
    BY <2>4, <2>5 DEF Alone
  <2> QED
    BY <2>6, <2>7 DEF LockInv, Fenced
<1> QED
  BY <1>1, <1>2 DEF RenewApplied

\* A call that moves leaves the others alone.
LEMMA OnlyOneMoves ==
  ASSUME TypeOK, NEW i \in Instance, NEW r, proc' = [proc EXCEPT ![i] = r]
  PROVE  proc'[i] = r /\ \A k \in Instance \ {i} : UNCHANGED proc[k]
BY DEF TypeOK

\* A call that is over has nothing to keep.
LEMMA AtRest ==
  ASSUME TypeOK, NEW i \in Instance, NEW r \in {Idle, Down}, proc' = [proc EXCEPT ![i] = r]
  PROVE  RunInv(i)' /\ \A k \in Instance \ {i} : UNCHANGED proc[k]
<1>1. proc'[i] = r /\ \A k \in Instance \ {i} : UNCHANGED proc[k]
  BY OnlyOneMoves
<1>2. Idle.pc = "idle" /\ Down.pc = "down"
  BY DEF Idle, Down
<1>3. proc'[i].pc # "acquiring" /\ proc'[i].pc \notin Executing
  BY <1>1, <1>2 DEF Executing
<1> QED
  BY <1>1, <1>3 DEF RunInv, Executing

\* An execution that goes on keeps its invariant: its clock only moves forward.
LEMMA GoesOn ==
  ASSUME IInv, NEW i \in Instance, proc[i].pc \in Executing,
         NEW pc \in Executing, NEW run, Goto(i, pc, proc[i].tick, run),
         UNCHANGED <<now, lock, granted>>
  PROVE  RunInv(i)'
<1>1. proc'[i] = [pc |-> pc, tick |-> proc[i].tick, at |-> Clock(i), run |-> run]
  BY OnlyOneMoves DEF Goto, IInv
<1>2. /\ proc[i].at <= Clock(i) /\ Clock(i) \in Nat /\ proc[i].at \in Nat /\ now \in Nat
      /\ proc[i].tick <= proc[i].at /\ proc[i].tick \in Nat
  BY ClockNat, TokenTyped, Timing DEF IInv, RunInv, TypeOK, Executing
<1>3. TokenOf(i)' = TokenOf(i) /\ TokenOf(i) \in granted /\ pc # "acquiring"
  BY <1>1 DEF TokenOf, IInv, RunInv, Executing
<1>4. lock.token = TokenOf(i) => Alone(TokenOf(i), JudgedAt(Clock(i)))
  <2> SUFFICES ASSUME lock.token = TokenOf(i) PROVE Alone(TokenOf(i), JudgedAt(Clock(i)))
    OBVIOUS
  <2>1. Alone(TokenOf(i), JudgedAt(proc[i].at))
    BY DEF IInv, RunInv
  <2>2. /\ JudgedAt(proc[i].at) \in Nat /\ JudgedAt(Clock(i)) \in Nat
        /\ JudgedAt(proc[i].at) <= JudgedAt(Clock(i))
    BY <1>2 DEF JudgedAt
  <2> QED
    BY <2>1, <2>2, LaterAlone DEF IInv
<1>5. proc[i].tick <= Clock(i)
  BY <1>2
<1>6. (lock.token = TokenOf(i) => Alone(TokenOf(i), JudgedAt(Clock(i))))'
      <=> (lock.token = TokenOf(i) => Alone(TokenOf(i), JudgedAt(Clock(i))))
  BY <1>3 DEF Alone, Fenced, JudgedAt, Clock
<1> QED
  BY <1>1, <1>2, <1>3, <1>4, <1>5, <1>6 DEF RunInv, JudgedAt, Clock

\* The invariant without its typing part, which NextTyped gives.
Core ==
  /\ LockInv /\ GrantInv /\ TickOnce
  /\ \A i \in Instance : RunInv(i)
  /\ \A b \in beats : BeatInv(b)

\* A step of a run that leaves lock and grants alone, moves only i, and sends
\* no renew but i's own.
LEMMA QuietStep ==
  ASSUME IInv, NEW i \in Instance, UNCHANGED <<now, lock, granted>>,
         \A k \in Instance : nextTick[k] <= nextTick'[k] /\ nextTick'[k] \in Nat,
         \A k \in Instance \ {i} : UNCHANGED proc[k],
         \A b \in beats' : b \in beats \/ BeatInv(b),
         RunInv(i)'
  PROVE  Core'
<1>1. LockInv'
  BY SameLock
<1>2. /\ GrantInv' /\ TickOnce'
      /\ \A k \in Instance : UNCHANGED proc[k] => RunInv(k)'
      /\ \A b \in beats : BeatInv(b)'
  BY SameHolder
<1>3. \A b \in beats' : BeatInv(b)'
  BY <1>2 DEF BeatInv, Alone, Fenced, JudgedAt
<1> QED
  BY <1>1, <1>2, <1>3 DEF Core

\* Every step of a run keeps the invariant.
LEMMA StepSafe ==
  ASSUME IInv, NEW i \in Instance, Step(i)
  PROVE  Core'
<1>0. /\ TypeOK /\ \A k \in Instance : nextTick[k] \in Nat /\ nextTick[k] <= nextTick[k]
      /\ \A b \in beats : BeatInv(b)
  BY DEF IInv, TypeOK
<1>1. CASE \E T \in Tick : Fire(i, T)
  <2>1. PICK T \in Tick : Fire(i, T)
    BY <1>1
  <2>2. proc'[i] = [pc |-> "acquiring", tick |-> T, at |-> Clock(i), run |-> FALSE]
        /\ \A k \in Instance \ {i} : UNCHANGED proc[k]
    BY <1>0, <2>1, OnlyOneMoves DEF Fire, Goto
  <2>3. T \in Nat /\ Clock(i) \in Nat /\ nextTick[i] <= T
    BY <1>0, <2>1, ClockNat, Timing DEF Fire
  <2>4. <<i, T>> \notin granted
    BY <1>0, <2>3 DEF IInv, GrantInv
  <2>5. nextTick'[i] = T + 1 /\ \A k \in Instance \ {i} : nextTick'[k] = nextTick[k]
    BY <2>1 DEF Fire, IInv, TypeOK
  <2>6. RunInv(i)'
    BY <2>1, <2>2, <2>3, <2>4, <2>5 DEF RunInv, Fire, TokenOf, Executing, Clock
  <2>7. \A k \in Instance : nextTick[k] <= nextTick'[k] /\ nextTick'[k] \in Nat
    BY <1>0, <2>3, <2>5
  <2> QED
    BY <2>1, <2>2, <2>6, <2>7, QuietStep DEF Fire
<1>2. CASE AcquireGranted(i)
  <2>1. proc'[i] = [pc |-> "recording", tick |-> proc[i].tick, at |-> Clock(i), run |-> FALSE]
        /\ \A k \in Instance \ {i} : UNCHANGED proc[k]
    BY <1>0, <1>2, OnlyOneMoves DEF AcquireGranted, Goto
  <2>2. /\ LockInv' /\ GrantInv' /\ TickOnce'
        /\ \A b \in beats' : BeatInv(b)'
        /\ \A k \in Instance \ {i} : UNCHANGED proc[k] => RunInv(k)'
    BY <1>2, TakeLockSafe DEF AcquireGranted
  <2>3. TokenOf(i) \in granted' /\ TokenOf(i)' = TokenOf(i)
    BY <1>2, <2>1 DEF AcquireGranted, TakeLock, TokenOf
  <2>4. /\ proc[i].at <= Clock(i) /\ Clock(i) \in Nat /\ proc[i].at \in Nat /\ now \in Nat
        /\ proc[i].tick <= proc[i].at /\ proc[i].tick \in Nat
    BY <1>0, <1>2, ClockNat, TokenTyped, Timing DEF IInv, RunInv, AcquireGranted, TypeOK
  <2>5. Alone(TokenOf(i), JudgedAt(Clock(i)))
    <3>1. /\ JudgedAt(proc[i].at) \in Nat /\ JudgedAt(Clock(i)) \in Nat
          /\ JudgedAt(proc[i].at) <= JudgedAt(Clock(i)) /\ lock.until \in Nat
      BY <1>0, <2>4 DEF JudgedAt, TypeOK
    <3>2. lock.until <= JudgedAt(proc[i].at)
      BY <1>2 DEF AcquireGranted, CanAcquire
    <3>3. Alone(TokenOf(i), lock.until)
      BY DEF IInv, LockInv, Alone
    <3>4. lock.until <= JudgedAt(Clock(i))
      BY ONLY <3>1, <3>2
    <3> QED
      BY <1>0, <3>1, <3>3, <3>4, LaterAlone
  <2>6. RunInv(i)'
    <3>1. granted' = granted \cup {TokenOf(i)} /\ now' = now
      BY <1>2 DEF AcquireGranted, TakeLock
    <3>2. Alone(TokenOf(i), JudgedAt(Clock(i)))'
      BY <2>3, <2>5, <3>1 DEF Alone, Fenced, JudgedAt, Clock
    <3>3. proc[i].tick <= Clock(i) /\ Clock(i)' = Clock(i) /\ proc'[i].at = Clock(i)'
      BY <2>1, <2>4, <3>1 DEF Clock
    <3> QED
      BY <2>1, <2>3, <2>4, <3>2, <3>3 DEF RunInv, Executing
  <2> QED
    BY <2>1, <2>2, <2>6 DEF Core
<1>3. ASSUME proc' = [proc EXCEPT ![i] = Idle]
      PROVE  RunInv(i)' /\ \A k \in Instance \ {i} : UNCHANGED proc[k]
  BY <1>0, <1>3, AtRest
<1>4. CASE AcquireRefused(i)
  BY <1>0, <1>3, <1>4, QuietStep DEF AcquireRefused
<1>5. CASE AcquireFailed(i)
  <2>1. RunInv(i)' /\ \A k \in Instance \ {i} : UNCHANGED proc[k]
    BY <1>3, <1>5 DEF AcquireFailed
  <2>2. CASE UNCHANGED <<lock, granted>>
    BY <1>0, <1>5, <2>1, <2>2, QuietStep DEF AcquireFailed
  <2>3. CASE Arrives(i) /\ CanAcquire(i) /\ TakeLock(i)
    <3>1. /\ LockInv' /\ GrantInv' /\ TickOnce'
          /\ \A b \in beats' : BeatInv(b)'
          /\ \A k \in Instance \ {i} : UNCHANGED proc[k] => RunInv(k)'
      BY <1>5, <2>3, TakeLockSafe DEF AcquireFailed
    <3> QED
      BY <2>1, <3>1 DEF Core
  <2> QED
    BY <1>5, <2>2, <2>3 DEF AcquireFailed
<1>6. ASSUME NEW pc \in Executing, NEW run, Goto(i, pc, proc[i].tick, run)
      PROVE  \A k \in Instance \ {i} : UNCHANGED proc[k]
  BY <1>0, <1>6, OnlyOneMoves DEF Goto
<1>7. CASE \E stored, known \in BOOLEAN : RecordRun(i, stored, known)
  <2>1. PICK stored, known \in BOOLEAN : RecordRun(i, stored, known)
    BY <1>7
  <2>2. RunInv(i)'
    BY <2>1, GoesOn DEF RecordRun, Executing
  <2>3. \A k \in Instance \ {i} : UNCHANGED proc[k]
    BY <1>6, <2>1 DEF RecordRun, Executing
  <2> QED
    BY <1>0, <2>1, <2>2, <2>3, QuietStep DEF RecordRun
<1>8. CASE TimerFires(i)
  <2>1. RunInv(i)'
    BY <1>8, GoesOn DEF TimerFires, Executing
  <2>2. \A k \in Instance \ {i} : UNCHANGED proc[k]
    BY <1>6, <1>8 DEF TimerFires, Executing
  <2>3. proc'[i].at = Clock(i) /\ TokenOf(i)' = TokenOf(i) /\ proc'[i].pc = "running"
    <3>1. proc'[i] = [pc |-> "running", tick |-> proc[i].tick, at |-> Clock(i),
                      run |-> proc[i].run]
      BY <1>0, <1>8, OnlyOneMoves DEF TimerFires, Goto
    <3> QED
      BY <3>1 DEF TokenOf
  <2>4. \A b \in beats' : b \in beats \/ BeatInv(b)
    <3> SUFFICES ASSUME NEW b \in beats', b \notin beats PROVE BeatInv(b)
      OBVIOUS
    <3>1. b.token = TokenOf(i) /\ b.at = Clock(i)
      BY <1>8 DEF TimerFires
    <3> QED
      <4>1. TokenOf(i)[2] <= Clock(i) /\ TokenOf(i) \in granted
        BY <1>8, <2>1, <2>3 DEF RunInv, Executing, TimerFires, TokenOf
      <4>2. lock.token = TokenOf(i) => Alone(TokenOf(i), JudgedAt(Clock(i)))
        BY <1>8, <2>1, <2>3 DEF RunInv, Executing, TimerFires, Alone, Fenced, JudgedAt
      <4> QED
        BY <3>1, <4>1, <4>2 DEF BeatInv
  <2> QED
    BY <1>0, <1>8, <2>1, <2>2, <2>4, QuietStep DEF TimerFires
<1>9. CASE HandlerEnds(i)
  <2>1. RunInv(i)'
    BY <1>9, GoesOn DEF HandlerEnds, Executing
  <2>2. \A k \in Instance \ {i} : UNCHANGED proc[k]
    BY <1>6, <1>9 DEF HandlerEnds, Executing
  <2> QED
    BY <1>0, <1>9, <2>1, <2>2, QuietStep DEF HandlerEnds
<1>10. CASE CloseRun(i)
  <2>1. RunInv(i)'
    BY <1>10, GoesOn DEF CloseRun, Executing
  <2>2. \A k \in Instance \ {i} : UNCHANGED proc[k]
    BY <1>6, <1>10 DEF CloseRun, Executing
  <2> QED
    BY <1>0, <1>10, <2>1, <2>2, QuietStep DEF CloseRun
<1>11. CASE Release(i)
  <2>1. RunInv(i)' /\ \A k \in Instance \ {i} : UNCHANGED proc[k]
    BY <1>3, <1>11 DEF Release
  <2>2. CASE UNCHANGED lock
    BY <1>0, <1>11, <2>1, <2>2, QuietStep DEF Release
  <2>3. CASE lock.token = TokenOf(i) /\ ReleaseLock(i)
    <3>1. LockInv' /\ lock'.token \in {lock.token, Nobody}
      BY <1>11, <2>3, ReleaseLockSafe DEF Release
    <3>2. /\ GrantInv' /\ TickOnce'
          /\ \A k \in Instance : UNCHANGED proc[k] => RunInv(k)'
          /\ \A b \in beats : BeatInv(b)'
      BY <1>0, <1>11, <3>1, SameHolder DEF Release
    <3> QED
      BY <1>11, <2>1, <3>1, <3>2 DEF Core, Release
  <2> QED
    BY <1>11, <2>2, <2>3 DEF Release
<1> QED
  BY <1>1, <1>2, <1>4, <1>5, <1>7, <1>8, <1>9, <1>10, <1>11 DEF Step

\* Time only moves the servers' and the processes' clocks forward.
LEMMA AdvanceSafe ==
  ASSUME IInv, Advance
  PROVE  Core'
<1>1. now \in Nat /\ now' = now + 1
  BY DEF IInv, TypeOK, Advance
<1>2. LockInv' /\ TickOnce'
  BY SameLock DEF Advance, IInv, TickOnce
<1>3. \A i \in Instance : Clock(i) \in Nat /\ Clock(i)' = Clock(i) + 1
  BY <1>1, Timing DEF Clock
<1>5. GrantInv'
  <2>1. \A e \in granted : e[1] \in Instance /\ e[2] \in Nat
    BY Timing DEF IInv, TypeOK, Token
  <2> QED
    BY <1>3, <2>1 DEF IInv, GrantInv, Advance
<1>6. ASSUME NEW i \in Instance PROVE RunInv(i)'
  <2>1. proc[i].at \in Nat /\ UNCHANGED <<lock, proc, granted, nextTick>> /\ TokenOf(i)' = TokenOf(i)
    BY ClockNat DEF IInv, Advance, TokenOf
  <2>2. Alone(TokenOf(i), JudgedAt(proc[i].at)) => Alone(TokenOf(i), JudgedAt(proc[i].at))'
    <3>1. Alone(TokenOf(i), JudgedAt(proc[i].at)) => Alone(TokenOf(i), JudgedAt(proc[i].at)')
      <4>1. JudgedAt(proc[i].at) \in Nat /\ JudgedAt(proc[i].at)' \in Nat
            /\ JudgedAt(proc[i].at) <= JudgedAt(proc[i].at)'
        BY <1>1, <2>1 DEF JudgedAt
      <4> QED
        BY <4>1, LaterAlone DEF IInv
    <3> QED
      BY <2>1, <3>1 DEF Alone, Fenced
  <2> QED
    BY <1>3, <2>1, <2>2 DEF IInv, RunInv
<1>7. ASSUME NEW b \in beats PROVE BeatInv(b)'
  <2>1. b.at \in Nat /\ BeatInv(b) /\ UNCHANGED <<lock, granted>>
    BY DEF IInv, TypeOK, Beat, Advance
  <2>2. JudgedAt(b.at) \in Nat /\ JudgedAt(b.at)' \in Nat /\ JudgedAt(b.at) <= JudgedAt(b.at)'
    BY <1>1, <2>1 DEF JudgedAt
  <2>3. Alone(b.token, JudgedAt(b.at)) => Alone(b.token, JudgedAt(b.at)')
    BY <2>2, LaterAlone DEF IInv
  <2>4. Alone(b.token, JudgedAt(b.at)') => Alone(b.token, JudgedAt(b.at))'
    BY <2>1 DEF Alone, Fenced
  <2> QED
    BY <2>1, <2>3, <2>4 DEF BeatInv
<1> QED
  BY <1>2, <1>5, <1>6, <1>7 DEF Core, Advance

\* Shutdown, crash, restart and the reaper keep the invariant.
LEMMA LifeSafe ==
  ASSUME IInv, NEW i \in Instance, Life(i)
  PROVE  Core'
<1>0. /\ TypeOK /\ \A k \in Instance : nextTick[k] \in Nat /\ nextTick[k] <= nextTick[k]
      /\ \A b \in beats : BeatInv(b)
  BY DEF IInv, TypeOK
<1>1. CASE UNCHANGED <<now, lock, proc, nextTick, beats, granted>>
  BY <1>1 DEF IInv, Core, LockInv, GrantInv, TickOnce, RunInv, BeatInv, Fenced, TokenOf,
              Alone, JudgedAt, Clock
<1>2. ASSUME Die(i), UNCHANGED <<now, lock, nextTick, granted>>
      PROVE  Core'
  <2>1. RunInv(i)' /\ \A k \in Instance \ {i} : UNCHANGED proc[k]
    BY <1>0, <1>2, AtRest DEF Die
  <2>2. \A b \in beats' : b \in beats \/ BeatInv(b)
    BY <1>0, <1>2 DEF Die, Staged, BeatInv
  <2> QED
    BY <1>0, <1>2, <2>1, <2>2, QuietStep
<1>3. CASE Restart(i)
  <2>1. RunInv(i)' /\ \A k \in Instance \ {i} : UNCHANGED proc[k]
    BY <1>0, <1>3, AtRest DEF Restart
  <2>2. Clock(i) \in Nat /\ nextTick'[i] = Clock(i) + 1
        /\ \A k \in Instance \ {i} : nextTick'[k] = nextTick[k]
    BY <1>0, <1>3, ClockNat DEF Restart, TypeOK
  <2>3. GrantInv'
    <3>1. \A e \in granted : /\ e[1] \in Instance /\ e[2] \in Nat
                             /\ e[2] <= Clock(e[1]) /\ e[2] < nextTick[e[1]]
      BY Timing DEF IInv, TypeOK, Token, GrantInv
    <3>2. \A e \in granted : e[2] < nextTick'[e[1]]
      BY <2>2, <3>1
    <3> QED
      BY <1>3, <3>1, <3>2 DEF GrantInv, Restart, Clock
  <2>4. ASSUME NEW k \in Instance \ {i} PROVE RunInv(k)'
    BY <1>3, <2>1, <2>2, <2>4 DEF IInv, RunInv, Restart, TokenOf, Alone, Fenced, JudgedAt, Clock
  <2>5. LockInv' /\ TickOnce'
    BY <1>3, SameLock DEF Restart, IInv, TickOnce
  <2>6. \A b \in beats' : BeatInv(b)'
    BY <1>0, <1>3 DEF Restart, BeatInv, Alone, Fenced, JudgedAt
  <2> QED
    BY <2>1, <2>3, <2>4, <2>5, <2>6 DEF Core
<1> QED
  BY <1>1, <1>2, <1>3 DEF Life, StopBegins, StopEnds, Exit, Crash, CloseStale

\* So do the heartbeats.
LEMMA TravelSafe ==
  ASSUME IInv, NEW b \in beats,
         RenewApplied(b) \/ RunBeatApplied(b) \/ BeatLost(b)
  PROVE  Core'
<1>0. \A k \in Instance : nextTick[k] \in Nat /\ nextTick[k] <= nextTick[k]
  BY DEF IInv, TypeOK
<1>1. /\ LockInv' /\ lock'.token = lock.token
      /\ UNCHANGED <<now, granted, nextTick, proc>>
  BY RenewSafe, SameLock DEF RenewApplied, RunBeatApplied, BeatLost
<1>2. /\ GrantInv' /\ TickOnce'
      /\ \A k \in Instance : UNCHANGED proc[k] => RunInv(k)'
      /\ \A c \in beats : BeatInv(c)'
  BY <1>0, <1>1, SameHolder
<1>3. \A c \in beats' : c \in beats \/ (c.token = b.token /\ c.at = b.at /\ c.stage = "run")
  BY DEF RenewApplied, RunBeatApplied, BeatLost, Staged
<1>4. \A c \in beats' : BeatInv(c)'
  <2> SUFFICES ASSUME NEW c \in beats' PROVE BeatInv(c)'
    OBVIOUS
  <2>1. BeatInv(b)' /\ (c \in beats => BeatInv(c)')
    BY <1>2
  <2>2. CASE c.token = b.token /\ c.at = b.at /\ c.stage = "run"
    BY <2>1, <2>2 DEF BeatInv
  <2> QED
    BY <1>3, <2>1, <2>2
<1> QED
  BY <1>1, <1>2, <1>4 DEF Core

\* The invariant holds at the start.
LEMMA InitInv == Init => IInv
BY InitTyped DEF Init, IInv, LockInv, GrantInv, TickOnce, RunInv, Idle, Executing

\* The invariant is inductive.
LEMMA NextInv == IInv /\ [Next]_vars => IInv'
<1> SUFFICES ASSUME IInv, [Next]_vars PROVE Core'
  BY NextTyped DEF IInv, Core
<1>1. CASE Advance
  BY <1>1, AdvanceSafe
<1>2. CASE Horizon \/ UNCHANGED vars
  BY <1>2 DEF vars, Horizon, IInv, Core, LockInv, GrantInv, TickOnce, RunInv, BeatInv, Fenced,
              Alone, TokenOf, JudgedAt, Clock
<1> QED
  BY <1>1, <1>2, StepSafe, LifeSafe, TravelSafe DEF Next, Travel

\* No tick is ever granted twice, on either backend and whatever the clocks'
\* skew, as long as every process fires and asks for a tick before the fence of
\* that tick ends (FenceAssumption): the fence in release, the conditional
\* upsert in acquire and the token checks in renew and release give TickOnce.
THEOREM TickOnceInvariant == Spec => []TickOnce
<1>1. IInv => TickOnce
  BY DEF IInv
<1> QED
  BY <1>1, InitInv, NextInv, PTL DEF Spec
----------------------------------------------------------------------------
(* JobRun verdicts.                                                        *)

\* Only a grant has a JobRun, and none before its call has recorded it.
RunsInv ==
  /\ \A t \in Token : runs[t].status # "none" => t \in granted
  /\ \A i \in Instance : proc[i].pc = "recording" => runs[TokenOf(i)].status = "none"

\* A step that changes a JobRun records it for a grant, or finds it running.
RunMoves(t) ==
  \/ runs'[t] = runs[t]
  \/ runs[t].status = "running" /\ runs'[t].status # "none"
  \/ /\ \E i \in Instance : /\ proc[i].pc = "recording" /\ t = TokenOf(i)
                            /\ proc'[i].pc # "recording"
     /\ UNCHANGED granted

\* Every step moves every JobRun so.
LEMMA RunsStep ==
  ASSUME TypeOK, [Next]_vars
  PROVE  \A t \in Token : RunMoves(t)
<1> SUFFICES ASSUME NEW t \in Token PROVE RunMoves(t)
  OBVIOUS
<1>0. runs \in [Token -> [status : {"none", "running"} \cup Verdict, leaseUntil : Nat]]
  BY DEF TypeOK
<1>1. CASE UNCHANGED runs
  BY <1>1 DEF RunMoves
<1>2. ASSUME NEW i \in Instance, NEW stored \in BOOLEAN, NEW known \in BOOLEAN,
             RecordRun(i, stored, known)
      PROVE  RunMoves(t)
  <2>1. proc'[i].pc = "running"
    <3>1. proc'[i] = [pc |-> "running", tick |-> proc[i].tick, at |-> Clock(i), run |-> known]
      BY <1>2, OnlyOneMoves DEF RecordRun, Goto
    <3> QED
      BY <3>1
  <2>2. runs'[t] = runs[t] \/ t = TokenOf(i)
    BY <1>0, <1>2 DEF RecordRun
  <2> QED
    BY <1>2, <2>1, <2>2 DEF RunMoves, RecordRun
<1>3. ASSUME NEW u \in Token, NEW r \in [status : {"running", "finished", "abandoned"}, leaseUntil : Nat],
             runs[u].status = "running", runs' = [runs EXCEPT ![u] = r]
      PROVE  RunMoves(t)
  BY <1>0, <1>3 DEF RunMoves
<1>4. ASSUME NEW i \in Instance, CloseRun(i) PROVE RunMoves(t)
  <2>1. TokenOf(i) \in Token
    BY <1>4, TokenTyped DEF CloseRun
  <2> QED
    BY <1>1, <1>3, <1>4, <2>1 DEF CloseRun
<1>5. ASSUME NEW i \in Instance, NEW u \in Token, CloseStale(i, u) PROVE RunMoves(t)
  BY <1>3, <1>5 DEF CloseStale
<1>6. ASSUME NEW b \in beats, RunBeatApplied(b) PROVE RunMoves(t)
  <2>1. b.token \in Token /\ b.at + Lease \in Nat
    BY Timing DEF TypeOK, Beat
  <2> QED
    BY <1>1, <1>3, <1>6, <2>1 DEF RunBeatApplied
<1>7. CASE Advance \/ Horizon \/ UNCHANGED vars
  BY <1>1, <1>7 DEF Advance, Horizon, vars
<1>8. ASSUME NEW i \in Instance, Step(i) PROVE RunMoves(t)
  BY <1>1, <1>2, <1>4, <1>8
  DEF Step, Fire, AcquireGranted, AcquireRefused, AcquireFailed, TimerFires, HandlerEnds, Release
<1>9. ASSUME NEW i \in Instance, Life(i) PROVE RunMoves(t)
  BY <1>1, <1>5, <1>9 DEF Life, StopBegins, StopEnds, Exit, Crash, Restart
<1>10. CASE Travel
  BY <1>1, <1>6, <1>10 DEF Travel, RenewApplied, BeatLost
<1> QED
  BY <1>7, <1>8, <1>9, <1>10 DEF Next

\* A call that is about to record its run has just been granted the lock, or was
\* about to already.
LEMMA Recording ==
  ASSUME IInv, [Next]_vars, NEW i \in Instance, proc'[i].pc = "recording"
  PROVE  \/ proc[i].pc = "recording" /\ TokenOf(i)' = TokenOf(i)
         \/ TokenOf(i)' = TokenOf(i) /\ TokenOf(i) \notin granted /\ UNCHANGED runs
<1>0. TypeOK
  BY DEF IInv
<1>1. CASE UNCHANGED proc[i]
  BY <1>1 DEF TokenOf
<1>2. ASSUME NEW k \in Instance, NEW r, proc' = [proc EXCEPT ![k] = r], r.pc # "recording"
      PROVE  UNCHANGED proc[i]
  BY <1>0, <1>2, OnlyOneMoves
<1>3. Idle.pc # "recording" /\ Down.pc # "recording"
  BY DEF Idle, Down
<1>4. ASSUME NEW k \in Instance, NEW pc, NEW T, NEW run, Goto(k, pc, T, run), pc # "recording"
      PROVE  UNCHANGED proc[i]
  <2>1. [pc |-> pc, tick |-> T, at |-> Clock(k), run |-> run].pc = pc
    OBVIOUS
  <2> QED
    BY <1>2, <1>4, <2>1 DEF Goto
<1>5. ASSUME NEW k \in Instance, AcquireGranted(k), proc'[i] # proc[i]
      PROVE  TokenOf(i)' = TokenOf(i) /\ TokenOf(i) \notin granted /\ UNCHANGED runs
  <2>1. /\ proc'[k] = [pc |-> "recording", tick |-> proc[k].tick, at |-> Clock(k), run |-> FALSE]
        /\ \A j \in Instance \ {k} : UNCHANGED proc[j]
    BY <1>0, <1>5, OnlyOneMoves DEF AcquireGranted, Goto
  <2>2. k = i /\ proc[i].pc = "acquiring" /\ UNCHANGED runs
    BY <1>5, <2>1 DEF AcquireGranted
  <2>3. proc'[i].tick = proc[i].tick
    BY <2>1, <2>2
  <2> QED
    BY <2>2, <2>3 DEF TokenOf, IInv, RunInv
<1>6. CASE Advance \/ Horizon \/ UNCHANGED vars
  BY <1>1, <1>6 DEF Advance, Horizon, vars
<1>7. ASSUME NEW k \in Instance, Step(k) PROVE AcquireGranted(k) \/ UNCHANGED proc[i]
  <2>1. CASE \E T \in Tick : Fire(k, T)
    BY <1>4, <2>1 DEF Fire
  <2>2. CASE AcquireRefused(k) \/ AcquireFailed(k) \/ Release(k)
    BY <1>2, <1>3, <2>2 DEF AcquireRefused, AcquireFailed, Release
  <2>3. CASE \E stored, known \in BOOLEAN : RecordRun(k, stored, known)
    BY <1>4, <2>3 DEF RecordRun
  <2>4. CASE TimerFires(k)
    BY <1>4, <2>4 DEF TimerFires
  <2>5. CASE HandlerEnds(k)
    BY <1>4, <2>5 DEF HandlerEnds
  <2>6. CASE CloseRun(k)
    BY <1>4, <2>6 DEF CloseRun
  <2> QED
    BY <1>7, <2>1, <2>2, <2>3, <2>4, <2>5, <2>6 DEF Step
<1>8. ASSUME NEW k \in Instance, Life(k) PROVE UNCHANGED proc[i]
  BY <1>2, <1>3, <1>8
  DEF Life, StopBegins, StopEnds, Exit, Crash, Die, Restart, CloseStale
<1>9. CASE Travel
  BY <1>1, <1>9 DEF Travel, RenewApplied, RunBeatApplied, BeatLost
<1> QED
  BY <1>1, <1>5, <1>6, <1>7, <1>8, <1>9 DEF Next

\* Grants are never taken back.
LEMMA GrantsGrow ==
  ASSUME [Next]_vars
  PROVE  granted \subseteq granted'
BY DEF Next, vars, Step, Life, Travel, Advance, Horizon, Fire, AcquireGranted, AcquireRefused,
       AcquireFailed, TakeLock, RecordRun, TimerFires, HandlerEnds, CloseRun, Release,
       StopBegins, StopEnds, Exit, Crash, Restart, CloseStale, RenewApplied, RunBeatApplied,
       BeatLost

\* The runs' invariant is inductive, given the lock's.
LEMMA NextRuns == IInv /\ RunsInv /\ [Next]_vars => RunsInv'
<1> SUFFICES ASSUME IInv, RunsInv, [Next]_vars PROVE RunsInv'
  OBVIOUS
<1>0. /\ TypeOK /\ granted \subseteq granted' /\ \A t \in Token : RunMoves(t)
  BY GrantsGrow, RunsStep DEF IInv
<1>1. ASSUME NEW t \in Token, runs'[t].status # "none" PROVE t \in granted'
  <2>1. CASE runs[t].status # "none"
    BY <1>0, <2>1 DEF RunsInv
  <2>2. CASE \E i \in Instance : proc[i].pc = "recording" /\ t = TokenOf(i)
    BY <1>0, <2>2 DEF IInv, RunInv, Executing
  <2> QED
    BY <1>0, <1>1, <2>1, <2>2 DEF RunMoves
<1>2. ASSUME NEW i \in Instance, proc'[i].pc = "recording"
      PROVE  runs'[TokenOf(i)'].status = "none"
  <2>1. TokenOf(i)' = TokenOf(i) /\ TokenOf(i) \in Token
    <3>1. TokenOf(i)' = TokenOf(i)
      BY <1>2, Recording
    <3>2. TokenOf(i)' \in Token
      BY <1>0, <1>2, NextTyped DEF TypeOK, TokenOf, Token
    <3> QED
      BY <3>1, <3>2
  <2>2. runs[TokenOf(i)].status = "none"
    BY <1>2, <2>1, Recording DEF RunsInv
  <2>3. \A k \in Instance : TokenOf(i) = TokenOf(k) => k = i
    BY DEF TokenOf
  <2> QED
    BY <1>0, <1>2, <2>1, <2>2, <2>3 DEF RunMoves
<1> QED
  BY <1>1, <1>2 DEF RunsInv

\* A JobRun's verdict stands: finish, the heartbeat and closeStale all filter on
\* `running`, and a run is recorded only once, under a grant nobody had before.
THEOREM VerdictStands == Spec => RunVerdictFinal
<1>1. Init => IInv /\ RunsInv
  BY InitInv DEF Init, RunsInv, Idle, NoRun
<1>2. IInv /\ RunsInv /\ [Next]_vars => IInv' /\ RunsInv'
  BY NextInv, NextRuns
<1>3. IInv /\ RunsInv /\ [Next]_vars
        => [\A t \in Token : runs[t].status \in Verdict => runs'[t] = runs[t]]_vars
  <2> SUFFICES ASSUME IInv, RunsInv, [Next]_vars, NEW t \in Token, runs[t].status \in Verdict
               PROVE  runs'[t] = runs[t]
    OBVIOUS
  <2>1. RunMoves(t) /\ runs[t].status # "running" /\ runs[t].status # "none"
    BY RunsStep DEF IInv, Verdict
  <2> QED
    BY <2>1 DEF RunMoves, RunsInv
<1> QED
  BY <1>1, <1>2, <1>3, PTL DEF Spec, RunVerdictFinal

----------------------------------------------------------------------------
(* The scheduler implements TickMutex when the processes' clocks agree.    *)

ClocksAgree == \A i \in Instance : Skew[i] = 0

\* The lock is held under a grant.
HoldInv == lock.token # Nobody => lock.token \in granted

\* A lock that stays with its grant or becomes nobody's is, as time passes and
\* requests arrive, lost, regained or left as it is.
LEMMA KeptOrFreed ==
  ASSUME HoldInv, lock'.token \in {lock.token, Nobody}, UNCHANGED granted
  PROVE  [Abstract!Next]_(Abstract!vars) /\ HoldInv'
BY DEF HoldInv, Abstract!Next, Abstract!vars, Abstract!Regain, Abstract!Lose

\* A granted acquire starts a tick that nobody was given, from a free lock.
LEMMA TakesFree ==
  ASSUME ClocksAgree, IInv, NEW i \in Instance, proc[i].pc = "acquiring", Arrives(i),
         CanAcquire(i), TakeLock(i), UNCHANGED now
  PROVE  [Abstract!Next]_(Abstract!vars) /\ HoldInv'
<1>1. lock.until <= now
  <2>1. /\ lock.until \in Nat /\ now \in Nat /\ proc[i].at \in Nat
        /\ proc[i].at <= now /\ lock.until <= JudgedAt(proc[i].at)
    BY ClockNat DEF IInv, TypeOK, RunInv, Clock, ClocksAgree, CanAcquire
  <2> QED
    BY <2>1 DEF JudgedAt
<1>2. /\ \A e \in granted : e[2] # proc[i].tick
      /\ proc[i].tick \in Tick
      /\ lock'.token = <<i, proc[i].tick>> /\ granted' = granted \cup {<<i, proc[i].tick>>}
  BY TickIsNew, TokenTyped DEF IInv, TakeLock, TokenOf
<1>3. ~(lock.until > now)
  BY <1>1 DEF IInv, TypeOK
<1>4. Abstract!Start(i, proc[i].tick)
  BY <1>2, <1>3 DEF Abstract!Start
<1> QED
  BY <1>2, <1>4 DEF HoldInv, Abstract!Next

\* Every step of the scheduler is a step of the abstract lock, or none.
LEMMA NextImplements ==
  ASSUME ClocksAgree, IInv, HoldInv, [Next]_vars
  PROVE  [Abstract!Next]_(Abstract!vars) /\ HoldInv'
<1>1. CASE UNCHANGED <<lock, granted>>
  BY <1>1, KeptOrFreed
<1>2. ASSUME NEW i \in Instance, Step(i)
      PROVE  [Abstract!Next]_(Abstract!vars) /\ HoldInv'
  <2>1. CASE AcquireGranted(i)
    BY <2>1, TakesFree DEF AcquireGranted
  <2>2. CASE AcquireFailed(i)
    BY <1>1, <2>2, TakesFree DEF AcquireFailed
  <2>3. CASE Release(i)
    <3>1. lock'.token \in {lock.token, Nobody} /\ UNCHANGED granted
      BY <2>3, ReleaseLockSafe DEF Release
    <3> QED
      BY <3>1, KeptOrFreed
  <2> QED
    BY <1>1, <1>2, <2>1, <2>2, <2>3
    DEF Step, Fire, AcquireRefused, RecordRun, TimerFires, HandlerEnds, CloseRun
<1>3. ASSUME NEW i \in Instance, Life(i) PROVE UNCHANGED <<lock, granted>>
  BY <1>3 DEF Life, StopBegins, StopEnds, Exit, Crash, Restart, CloseStale
<1>4. CASE Travel
  <2>1. PICK b \in beats : RenewApplied(b) \/ RunBeatApplied(b) \/ BeatLost(b)
    BY <1>4 DEF Travel
  <2>2. lock'.token = lock.token /\ UNCHANGED granted
    BY <2>1, RenewSafe DEF RenewApplied, RunBeatApplied, BeatLost
  <2> QED
    BY <2>2, KeptOrFreed
<1>5. CASE Advance \/ Horizon \/ UNCHANGED vars
  BY <1>1, <1>5 DEF Advance, Horizon, vars
<1> QED
  BY <1>1, <1>2, <1>3, <1>4, <1>5 DEF Next

\* With clocks that agree, runJob under either lock backend implements the
\* abstract lock: it passes to another run only through a moment at which its
\* lease is over, and no tick is given twice, however late requests arrive.
THEOREM Implements ==
  ASSUME ClocksAgree
  PROVE  Spec => ImplementsTickMutex
<1>1. Init => IInv /\ HoldInv /\ Abstract!Init
  BY InitInv DEF Init, HoldInv, Abstract!Init
<1>2. IInv /\ HoldInv /\ [Next]_vars => IInv' /\ HoldInv' /\ [Abstract!Next]_(Abstract!vars)
  BY NextInv, NextImplements
<1> QED
  BY <1>1, <1>2, PTL DEF Spec, ImplementsTickMutex, Abstract!Spec

----------------------------------------------------------------------------
(* A released tick keeps its fence.                                        *)

\* One Redis connection, and no process' clock is ahead of the server's by
\* more than a lease is longer than the fence.
OnRedis == Backend = "redis" /\ \A i \in Instance : Skew[i] + Span < Lease

\* A renew under way belongs to the execution that sent it until its process
\* dies; while either can still move the lock, the lock outlasts the fence.
SentInv ==
  /\ \A b \in beats : b.stage = "lock" => Executes(b.token)
  /\ \A b \in beats : b.stage = "orphan" => ~Executes(b.token)
  /\ lock.token \in Token
       /\ (Executes(lock.token) \/ \E b \in beats : b.token = lock.token /\ b.stage = "orphan")
     => lock.until > lock.token[2] + Span

\* A lease that starts once the tick's time has come ends after its fence.
LEMMA LeaseOutlastsFence ==
  ASSUME OnRedis, TypeOK, NEW t \in Token, t[2] <= Clock(t[1])
  PROVE  now + Lease > t[2] + Span
<1>1. t[1] \in Instance /\ t[2] \in Nat /\ now \in Nat
  BY Timing DEF Token, TypeOK
<1>2. Skew[t[1]] + Span < Lease /\ Skew[t[1]] \in Nat /\ Span \in Nat /\ Lease \in Nat
  BY <1>1, Timing DEF OnRedis
<1>3. t[2] <= now + Skew[t[1]]
  BY DEF Clock
<1> QED
  BY <1>1, <1>2, <1>3

\* What is executed when only i's call moves.
LEMMA ExecutesAfter ==
  ASSUME TypeOK, NEW i \in Instance, NEW r, proc' = [proc EXCEPT ![i] = r]
  PROVE  \A t \in Token :
           Executes(t)' <=> IF t[1] = i THEN r.pc \in Executing /\ r.tick = t[2] ELSE Executes(t)
<1> SUFFICES ASSUME NEW t \in Token
             PROVE  Executes(t)' <=> IF t[1] = i THEN r.pc \in Executing /\ r.tick = t[2] ELSE Executes(t)
  OBVIOUS
<1>1. t[1] \in Instance
  BY DEF Token
<1>2. proc'[t[1]] = IF t[1] = i THEN r ELSE proc[t[1]]
  BY <1>1 DEF TypeOK
<1> QED
  BY <1>2 DEF Executes

\* The token of a call is executed when its place says so.
LEMMA OwnToken ==
  ASSUME NEW i \in Instance
  PROVE  /\ TokenOf(i)[1] = i /\ TokenOf(i)[2] = proc[i].tick
         /\ \A t \in Token : t[1] = i /\ t[2] = proc[i].tick => t = TokenOf(i)
BY DEF TokenOf, Token

LEMMA SentKept ==
  ASSUME TypeOK, SentInv, UNCHANGED lock, \A t \in Token : Executes(t)' <=> Executes(t),
         \A b \in beats' : b.token \in Token /\
           (b \in beats \/ b.stage = "run" \/ (b.stage = "lock" /\ Executes(b.token)))
  PROVE  SentInv'
BY DEF SentInv

\* A step of a run.
LEMMA StepSent ==
  ASSUME OnRedis, IInv, SentInv, NEW i \in Instance, Step(i)
  PROVE  SentInv'
<1>0. /\ TypeOK /\ Idle.pc \notin Executing /\ \A b \in beats : b.token \in Token /\ b.token \in granted
  BY DEF IInv, TypeOK, BeatInv, Beat, Idle, Executing
<1>1. CASE (\E T \in Tick : Fire(i, T)) \/ AcquireRefused(i) \/ (AcquireFailed(i) /\ UNCHANGED lock)
  <2>1. UNCHANGED <<lock, beats>> /\ proc[i].pc \notin Executing
    BY <1>1 DEF Fire, AcquireRefused, AcquireFailed, Executing
  <2>2. \E r : proc' = [proc EXCEPT ![i] = r] /\ r.pc \notin Executing
    <3>1. CASE \E T \in Tick : Fire(i, T)
      <4>1. PICK T \in Tick : Fire(i, T)
        BY <3>1
      <4> DEFINE r == [pc |-> "acquiring", tick |-> T, at |-> Clock(i), run |-> FALSE]
      <4>2. proc' = [proc EXCEPT ![i] = r] /\ r.pc \notin Executing
        BY <4>1 DEF Fire, Goto, Executing
      <4> QED
        BY <4>2
    <3>2. CASE AcquireRefused(i) \/ AcquireFailed(i)
      BY <1>0, <3>2 DEF AcquireRefused, AcquireFailed
    <3> QED
      BY <1>1, <3>1, <3>2
  <2>3. \A t \in Token : Executes(t)' <=> Executes(t)
    BY <1>0, <2>1, <2>2, ExecutesAfter DEF Executes
  <2> QED
    BY <1>0, <2>1, <2>3, SentKept
<1>2. CASE (AcquireGranted(i) \/ AcquireFailed(i)) /\ TakeLock(i) /\ Arrives(i) /\ CanAcquire(i)
  <2>1. proc[i].pc = "acquiring" /\ UNCHANGED beats
    BY <1>2 DEF AcquireGranted, AcquireFailed
  <2>2. /\ TokenOf(i) \in Token /\ proc[i].tick \in Nat /\ TokenOf(i) \notin granted
        /\ proc[i].tick <= proc[i].at /\ proc[i].at <= Clock(i)
    BY <1>0, <2>1, TokenTyped, Timing DEF IInv, RunInv
  <2>3. proc[i].tick <= Clock(i)
    BY <1>0, <2>2, ClockNat
  <2>4. lock'.token = TokenOf(i) /\ lock'.until = now + Lease
    BY <1>2 DEF TakeLock, JudgedAt, OnRedis
  <2>5. now + Lease > proc[i].tick + Span
    BY <1>0, <2>2, <2>3, OwnToken, LeaseOutlastsFence
  <2>6. \A t \in Token : Executes(t)' => Executes(t) \/ t = TokenOf(i)
    <3>1. CASE AcquireGranted(i)
      <4> DEFINE r == [pc |-> "recording", tick |-> proc[i].tick, at |-> Clock(i), run |-> FALSE]
      <4>1. proc' = [proc EXCEPT ![i] = r] /\ r.tick = proc[i].tick
        BY <3>1 DEF AcquireGranted, Goto
      <4> HIDE DEF r
      <4>2. \A t \in Token : Executes(t)' => Executes(t) \/ (t[1] = i /\ t[2] = proc[i].tick)
        BY <1>0, <4>1, ExecutesAfter
      <4> QED
        BY <4>2, OwnToken
    <3>2. CASE AcquireFailed(i)
      <4>1. proc' = [proc EXCEPT ![i] = Idle]
        BY <3>2 DEF AcquireFailed
      <4> QED
        BY <1>0, <4>1, ExecutesAfter
    <3> QED
      BY <1>2, <3>1, <3>2
  <2>7. \A t \in Token : Executes(t) => Executes(t)'
    <3>1. \A t \in Token : Executes(t) => t[1] # i
      BY <2>1 DEF Executes, Executing
    <3>2. \E r : proc' = [proc EXCEPT ![i] = r]
      BY <1>2 DEF AcquireGranted, AcquireFailed, Goto
    <3> QED
      BY <1>0, <3>1, <3>2, ExecutesAfter
  <2>8. (lock'.until > lock'.token[2] + Span)
    BY <2>4, <2>5, OwnToken
  <2>9. \A b \in beats' : b \in beats /\ b.token \in Token /\ b.token # TokenOf(i)
    BY <1>0, <2>1, <2>2
  <2> QED
    BY <2>6, <2>7, <2>8, <2>9 DEF SentInv
<1>3. CASE (\E stored, known \in BOOLEAN : RecordRun(i, stored, known)) \/ HandlerEnds(i) \/ CloseRun(i)
           \/ TimerFires(i)
  <2>1. UNCHANGED lock /\ proc[i].pc \in Executing
    BY <1>3 DEF RecordRun, HandlerEnds, CloseRun, TimerFires, Executing
  <2>2. \E r : proc' = [proc EXCEPT ![i] = r] /\ r.pc \in Executing /\ r.tick = proc[i].tick
    <3>1. \E pc \in Executing, run \in BOOLEAN : Goto(i, pc, proc[i].tick, run)
      <4>1. proc[i].run \in BOOLEAN
        BY <1>0 DEF TypeOK, Proc
      <4> QED
        BY <1>3, <4>1 DEF RecordRun, HandlerEnds, CloseRun, TimerFires, Executing
    <3>2. PICK pc \in Executing, run \in BOOLEAN : Goto(i, pc, proc[i].tick, run)
      BY <3>1
    <3> DEFINE r == [pc |-> pc, tick |-> proc[i].tick, at |-> Clock(i), run |-> run]
    <3>3. proc' = [proc EXCEPT ![i] = r] /\ r.pc \in Executing /\ r.tick = proc[i].tick
      BY <3>2 DEF Goto
    <3> QED
      BY <3>3
  <2>3. \A t \in Token : Executes(t)' <=> Executes(t)
    BY <1>0, <2>1, <2>2, ExecutesAfter DEF Executes
  <2>4. TokenOf(i) \in Token /\ Executes(TokenOf(i))
    BY <1>0, <2>1, TokenTyped, OwnToken DEF Executes, Executing
  <2>5. \A b \in beats' : b \in beats \/ (b.token = TokenOf(i) /\ b.stage = "lock")
    BY <1>3 DEF RecordRun, HandlerEnds, CloseRun, TimerFires
  <2> QED
    BY <1>0, <2>1, <2>3, <2>4, <2>5, SentKept
<1>4. CASE Release(i)
  <2>1. /\ proc[i].pc = "releasing" /\ proc' = [proc EXCEPT ![i] = Idle] /\ UNCHANGED beats
        /\ \A b \in beats : b.token = TokenOf(i) => b.stage # "lock"
    BY <1>4 DEF Release, OnRedis
  <2>2. TokenOf(i) \in Token /\ Executes(TokenOf(i))
    BY <1>0, <2>1, TokenTyped, OwnToken DEF Executes, Executing
  <2>3. \A t \in Token : Executes(t)' <=> Executes(t) /\ t # TokenOf(i)
    <3>1. \A t \in Token : Executes(t)' <=> t[1] # i /\ Executes(t)
      BY <1>0, <2>1, ExecutesAfter
    <3>2. \A t \in Token : Executes(t) /\ t[1] = i => t = TokenOf(i)
      BY OwnToken DEF Executes
    <3> QED
      BY <3>1, <3>2, OwnToken
  <2>4. \A b \in beats : b.token = TokenOf(i) => b.stage = "run"
    BY <1>0, <2>1, <2>2 DEF SentInv, TypeOK, Beat
  <2>5. lock' = lock \/ lock'.token \in {TokenOf(i), Nobody}
    BY <1>4 DEF Release, ReleaseLock
  <2>6. Nobody \notin Token
    BY TokenAssumption
  <2> QED
    BY <1>0, <2>1, <2>3, <2>4, <2>5, <2>6 DEF SentInv
<1> QED
  <2>1. AcquireGranted(i) => TakeLock(i) /\ Arrives(i) /\ CanAcquire(i)
    BY DEF AcquireGranted
  <2>2. AcquireFailed(i) => UNCHANGED lock \/ (TakeLock(i) /\ Arrives(i) /\ CanAcquire(i))
    BY DEF AcquireFailed
  <2>3. \/ (\E T \in Tick : Fire(i, T)) \/ AcquireGranted(i) \/ AcquireRefused(i) \/ AcquireFailed(i)
        \/ (\E stored, known \in BOOLEAN : RecordRun(i, stored, known))
        \/ TimerFires(i) \/ HandlerEnds(i) \/ CloseRun(i) \/ Release(i)
    BY Zenon DEF Step
  <2>4. CASE AcquireGranted(i) \/ AcquireFailed(i)
    BY <1>1, <1>2, <2>1, <2>2, <2>4
  <2>5. CASE (\E T \in Tick : Fire(i, T)) \/ AcquireRefused(i)
    BY <1>1, <2>5, Zenon
  <2> QED
    BY <1>3, <1>4, <2>3, <2>4, <2>5, Zenon

\* A process that dies takes its execution with it, and leaves its renews.
LEMMA DieSent ==
  ASSUME TypeOK, SentInv, NEW i \in Instance, Die(i), UNCHANGED lock
  PROVE  SentInv'
<1>1. \A t \in Token : Executes(t)' <=> t[1] # i /\ Executes(t)
  <2>1. proc' = [proc EXCEPT ![i] = Down] /\ Down.pc \notin Executing
    BY DEF Die, Down, Executing
  <2> QED
    BY <2>1, ExecutesAfter
<1>2. \A b \in beats' :
        \/ b \in beats /\ ~(b.token[1] = i /\ b.stage = "lock")
        \/ b.stage = "orphan" /\ \E c \in beats : c.token = b.token /\ c.token[1] = i /\ c.stage = "lock"
  BY DEF Die, Staged
<1>3. \A b \in beats : b.token \in Token
  BY DEF TypeOK, Beat
<1>4. \A b \in beats' : b.token \in Token
  BY <1>2, <1>3
<1>5. \A b \in beats' : b.stage = "lock" => Executes(b.token)'
  BY <1>1, <1>2, <1>4 DEF SentInv
<1>6. \A b \in beats' : b.stage = "orphan" => ~Executes(b.token)'
  BY <1>1, <1>2, <1>4 DEF SentInv
<1>7. \A b \in beats' : b.stage = "orphan" =>
        Executes(b.token) \/ \E c \in beats : c.token = b.token /\ c.stage = "orphan"
  BY <1>2 DEF SentInv
<1>8. lock.token \in Token /\ (Executes(lock.token)' \/ \E b \in beats' : b.token = lock.token /\ b.stage = "orphan")
        => Executes(lock.token) \/ \E b \in beats : b.token = lock.token /\ b.stage = "orphan"
  BY <1>1, <1>7
<1>9. lock.token \in Token /\ (Executes(lock.token)' \/ \E b \in beats' : b.token = lock.token /\ b.stage = "orphan")
        => lock.until > lock.token[2] + Span
  BY <1>8 DEF SentInv
<1> QED
  BY <1>5, <1>6, <1>9 DEF SentInv

\* The end of a process, its restart and the reaper.
LEMMA LifeSent ==
  ASSUME TypeOK, SentInv, NEW i \in Instance, Life(i)
  PROVE  SentInv'
<1>0. \A b \in beats : b.token \in Token
  BY DEF TypeOK, Beat
<1>1. CASE Exit(i) \/ Crash(i)
  BY <1>1, DieSent DEF Exit, Crash
<1>2. CASE Restart(i)
  <2>1. /\ proc' = [proc EXCEPT ![i] = Idle] /\ Idle.pc \notin Executing /\ proc[i].pc \notin Executing
        /\ UNCHANGED <<lock, beats>>
    BY <1>2 DEF Restart, Up, Idle, Executing
  <2>2. \A t \in Token : Executes(t)' <=> Executes(t)
    BY <2>1, ExecutesAfter DEF Executes
  <2> QED
    BY <1>0, <2>1, <2>2, SentKept
<1>3. CASE StopBegins(i) \/ StopEnds(i) \/ \E t \in Token : CloseStale(i, t)
  <2>1. UNCHANGED <<proc, lock, beats>>
    BY <1>3 DEF StopBegins, StopEnds, CloseStale
  <2> QED
    BY <1>0, <2>1, SentKept DEF Executes
<1> QED
  BY <1>1, <1>2, <1>3 DEF Life

\* A heartbeat: a renew that lands starts the lease again, past the fence.
LEMMA TravelSent ==
  ASSUME OnRedis, IInv, SentInv, NEW b \in beats, RenewApplied(b) \/ RunBeatApplied(b) \/ BeatLost(b)
  PROVE  SentInv'
<1>0. TypeOK /\ \A c \in beats : c.token \in Token /\ c.token \in granted
  BY DEF IInv, TypeOK, BeatInv, Beat
<1>1. /\ UNCHANGED proc
      /\ \A c \in beats' : c.token \in Token /\ (c \in beats \/ c.stage = "run")
  BY <1>0 DEF RenewApplied, RunBeatApplied, BeatLost, Staged
<1>2. CASE UNCHANGED lock
  BY <1>0, <1>1, <1>2, SentKept DEF Executes
<1>3. CASE lock' # lock
  <2>1. /\ lock.token = b.token /\ lock'.token = b.token /\ lock'.until = now + Lease
    BY <1>3 DEF RenewApplied, RunBeatApplied, BeatLost, JudgedAt, OnRedis
  <2>2. b.token \in Token /\ b.token[2] <= Clock(b.token[1])
    BY <1>0 DEF IInv, GrantInv
  <2>3. lock'.until > lock'.token[2] + Span
    BY <1>0, <2>1, <2>2, LeaseOutlastsFence
  <2>4. \A t : Executes(t)' <=> Executes(t)
    BY <1>1 DEF Executes
  <2> QED
    BY <1>1, <2>3, <2>4 DEF SentInv
<1> QED
  BY <1>2, <1>3

LEMMA InitSent == Init => SentInv
BY TokenAssumption DEF Init, SentInv

LEMMA NextSent ==
  ASSUME OnRedis, IInv, SentInv, [Next]_vars
  PROVE  SentInv'
<1>0. TypeOK
  BY DEF IInv
<1>1. CASE Advance \/ Horizon \/ UNCHANGED vars
  <2>1. UNCHANGED <<proc, lock, beats>> /\ \A b \in beats : b.token \in Token
    BY <1>0, <1>1 DEF Advance, Horizon, vars, TypeOK, Beat
  <2> QED
    BY <1>0, <2>1, SentKept DEF Executes
<1>2. CASE Travel
  BY <1>2, TravelSent DEF Travel
<1> QED
  BY <1>0, <1>1, <1>2, StepSent, LifeSent DEF Next

\* A lock is held under a grant, whatever the clocks.
LEMMA NextHeld ==
  ASSUME IInv, HoldInv, [Next]_vars
  PROVE  HoldInv'
<1>1. ASSUME NEW i \in Instance, Step(i) PROVE HoldInv'
  <2>1. CASE (AcquireGranted(i) \/ AcquireFailed(i)) /\ TakeLock(i)
    BY <2>1 DEF TakeLock, HoldInv
  <2>2. CASE Release(i)
    <3>1. lock'.token \in {lock.token, Nobody} /\ UNCHANGED granted
      BY <2>2, ReleaseLockSafe DEF Release
    <3> QED
      BY <3>1 DEF HoldInv
  <2>3. CASE UNCHANGED <<lock, granted>>
    BY <2>3 DEF HoldInv
  <2> QED
    BY <1>1, <2>1, <2>2, <2>3 DEF Step, Fire, AcquireGranted, AcquireRefused, AcquireFailed, RecordRun,
       TimerFires, HandlerEnds, CloseRun
<1>2. ASSUME NEW i \in Instance, Life(i) PROVE HoldInv'
  BY <1>2 DEF Life, StopBegins, StopEnds, Exit, Crash, Restart, CloseStale, HoldInv
<1>3. ASSUME NEW b \in beats, RenewApplied(b) \/ RunBeatApplied(b) \/ BeatLost(b) PROVE HoldInv'
  <2>1. lock'.token = lock.token /\ UNCHANGED granted
    BY <1>3, RenewSafe DEF RenewApplied, RunBeatApplied, BeatLost
  <2> QED
    BY <2>1 DEF HoldInv
<1>4. CASE Advance \/ Horizon \/ UNCHANGED vars
  BY <1>4 DEF Advance, Horizon, vars, HoldInv
<1> QED
  BY <1>1, <1>2, <1>3, <1>4 DEF Next, Travel

\* Only an execution or one of its renews extends a lock.
LEMMA WhoExtends ==
  ASSUME IInv, HoldInv, [Next]_vars, NEW t \in Token, lock.token = t, lock'.token = t, ~Executes(t)
  PROVE  UNCHANGED lock \/ \E b \in beats : b.token = t /\ b.stage \in {"lock", "orphan"}
<1>0. TypeOK
  BY DEF IInv
<1>1. ASSUME NEW i \in Instance, Step(i) PROVE UNCHANGED lock
  <2>1. CASE (AcquireGranted(i) \/ AcquireFailed(i)) /\ TakeLock(i)
    <3>1. TokenOf(i) = t /\ TokenOf(i) \notin granted
      BY <2>1 DEF TakeLock, AcquireGranted, AcquireFailed, IInv, RunInv
    <3>2. t \in granted
      BY TokenAssumption DEF HoldInv
    <3> QED
      BY <3>1, <3>2
  <2>2. CASE Release(i) /\ lock.token = TokenOf(i)
    <3>1. Executes(t)
      BY <2>2, OwnToken DEF Release, Executes, Executing
    <3> QED
      BY <3>1
  <2> QED
    BY <1>1, <2>1, <2>2 DEF Step, Fire, AcquireGranted, AcquireRefused, AcquireFailed, RecordRun,
       TimerFires, HandlerEnds, CloseRun, Release
<1>2. ASSUME NEW i \in Instance, Life(i) PROVE UNCHANGED lock
  BY <1>2 DEF Life, StopBegins, StopEnds, Exit, Crash, Restart, CloseStale
<1>3. ASSUME NEW b \in beats, RenewApplied(b) \/ RunBeatApplied(b) \/ BeatLost(b)
      PROVE  UNCHANGED lock \/ (b.token = t /\ b.stage \in {"lock", "orphan"})
  BY <1>3 DEF RenewApplied, RunBeatApplied, BeatLost
<1> QED
  BY <1>1, <1>2, <1>3 DEF Next, Travel, Advance, Horizon, vars

\* On Redis a tick that was released to the end of its fence is never held
\* longer: renews of the execution arrived before its release, and a renew that
\* a dead process left behind meets a lock that already outlasts the fence.
THEOREM FenceStands ==
  ASSUME OnRedis
  PROVE  Spec => FencedReleaseStands
<1>1. Init => IInv /\ HoldInv /\ SentInv
  BY InitInv, InitSent DEF Init, HoldInv
<1>2. IInv /\ HoldInv /\ SentInv /\ [Next]_vars => IInv' /\ HoldInv' /\ SentInv'
  BY NextInv, NextHeld, NextSent
<1>3. IInv /\ HoldInv /\ SentInv /\ [Next]_vars =>
        [\A t \in Token :
           /\ lock.token = t /\ lock.until = t[2] + Span /\ ~Executes(t)
           /\ lock'.token = t
           => lock'.until = lock.until]_vars
  <2> SUFFICES ASSUME IInv, HoldInv, SentInv, [Next]_vars, NEW t \in Token, lock.token = t,
                      lock.until = t[2] + Span, ~Executes(t), lock'.token = t, ~(UNCHANGED lock)
               PROVE  FALSE
    OBVIOUS
  <2>1. PICK b \in beats : b.token = t /\ b.stage \in {"lock", "orphan"}
    BY WhoExtends
  <2>2. b.stage = "orphan"
    BY <2>1 DEF SentInv
  <2>3. lock.until > t[2] + Span
    BY <2>1, <2>2 DEF SentInv
  <2>4. t[2] \in Nat /\ Span \in Nat
    BY Timing DEF Token
  <2> QED
    BY <2>3, <2>4
<1> QED
  BY <1>1, <1>2, <1>3, PTL DEF Spec, FencedReleaseStands
=============================================================================
