---------------------------- MODULE Outbox_proofs ----------------------------
(***************************************************************************)
(* Proofs about Outbox, for any messages, workers, batches, leases,        *)
(* attempts and faults.                                                    *)
(***************************************************************************)
EXTENDS Outbox, FiniteSetTheorems, TLAPS

\* How long ago a worker may have read the clock when it is to claim `left`
\* messages yet.
Spare(left) == (Batch - left) * Patience

Timely(w) ==
  /\ worker[w].age \leq Spare(worker[w].left) + worker[w].busy
  /\ worker[w].pc # "idle" => worker[w].left \geq 1 /\ worker[w].busy < Patience
  /\ worker[w].pc \in {"sending", "marking"} => worker[w].msg \in Message /\ worker[w].attempts \geq 1

Typed == TypeOK /\ \A w \in Worker : Timely(w)

\* Workers that may hand the message to the transport yet: each has spent an
\* attempt for it, of the present budget or of one before a requeue.
Pending(m) ==
  {w \in Worker : worker[w].pc = "sending" /\ worker[w].msg = m /\ worker[w].attempts \leq MaxAttempts}

Spent(m) == IF rec[m].attempts \leq MaxAttempts THEN rec[m].attempts ELSE MaxAttempts

BudgetInv ==
  \A m \in Message :
    /\ IsFiniteSet(Pending(m))
    /\ rec[m].status = "absent" => rec[m].attempts = 0
    /\ tries[m] + Cardinality(Pending(m)) \leq MaxAttempts * requeues[m] + Spent(m)

\* A worker with a message in hand still holds its claim, whose lease runs from
\* the clock value the worker claimed it with.
Working(w) == worker[w].pc \in {"sending", "marking"}

Mine == \A w \in Worker : Working(w) => Holds(w) /\ rec[worker[w].msg].lease + worker[w].age = Lease

Accepted(w, m) == worker[w].pc = "marking" /\ worker[w].msg = m /\ worker[w].answer = "accepted"

\* A copy nobody lost the accept of is in the record, or about to be.
Paid(m) ==
  /\ copies[m] \leq lostAcks[m] + 1
  /\ \/ rec[m].status = "sent"
     \/ copies[m] \leq lostAcks[m]
     \/ \E w \in Worker : Accepted(w, m)

OwnedInv == Mine /\ \A m \in Message : Paid(m)

----------------------------------------------------------------------------
(* Numbers.                                                                *)

LEMMA Spares ==
  ASSUME NEW left \in 0..Batch
  PROVE  /\ Spare(left) \in Nat /\ MaxAge \in Nat /\ Spare(left) \leq MaxAge
         /\ left \geq 1 => Spare(left - 1) = Spare(left) + Patience
<1>1. \A b, p, l \in Nat : l \leq b => (b - l) * p \in Nat /\ b * p \in Nat /\ (b - l) * p \leq b * p
  OBVIOUS
<1>2. \A b, p, l \in Nat : l \geq 1 /\ l \leq b => (b - (l - 1)) * p = (b - l) * p + p
  OBVIOUS
<1>3. Batch \in Nat /\ Patience \in Nat /\ left \in Nat /\ left \leq Batch
  BY OutboxAssumption
<1> QED
  BY <1>1, <1>2, <1>3 DEF Spare, MaxAge

LEMMA Budgets ==
  ASSUME NEW n \in Nat
  PROVE  MaxAttempts * n \in Nat /\ MaxAttempts * (n + 1) = MaxAttempts * n + MaxAttempts
         /\ MaxAttempts * (1 + n) = MaxAttempts * n + MaxAttempts
BY OutboxAssumption

LEMMA RestTyped ==
  /\ Resting \in Activity /\ Resting.pc = "idle" /\ Resting.left = 0 /\ Resting.age = 0 /\ Resting.busy = 0
  /\ Resting.msg = Nobody /\ Resting.attempts = 0
<1>1. 0 \in 0..Batch /\ 0 \in 0..Patience /\ 0 \in Nat /\ MaxAge \in Nat
  BY Spares, OutboxAssumption
<1>2. 0 \in 0..MaxAge
  BY <1>1
<1> QED
  BY <1>1, <1>2 DEF Resting, Activity, Answer

\* One worker goes on.
LEMMA OneMoves ==
  ASSUME Typed, NEW w \in Worker, NEW b \in Activity, worker' = [worker EXCEPT ![w] = b],
         b.age \leq Spare(b.left) + b.busy,
         b.pc # "idle" => b.left \geq 1 /\ b.busy < Patience,
         b.pc \in {"sending", "marking"} => b.msg \in Message /\ b.attempts \geq 1
  PROVE  /\ worker' \in [Worker -> Activity] /\ \A v \in Worker : Timely(v)'
         /\ \A v \in Worker : worker'[v] = IF v = w THEN b ELSE worker[v]
<1>1. \A v \in Worker : worker'[v] = IF v = w THEN b ELSE worker[v]
  BY DEF Typed, TypeOK
<1>2. worker' \in [Worker -> Activity]
  BY DEF Typed, TypeOK
<1>3. \A v \in Worker : Timely(v)'
  BY <1>1 DEF Typed, Timely, Spare
<1> QED
  BY <1>1, <1>2, <1>3

LEMMA OneRests ==
  ASSUME Typed, NEW w \in Worker, worker' = [worker EXCEPT ![w] = Resting]
  PROVE  /\ worker' \in [Worker -> Activity] /\ \A v \in Worker : Timely(v)'
         /\ \A v \in Worker : worker'[v] = IF v = w THEN Resting ELSE worker[v]
<1>1. 0 \in 0..Batch
  BY OutboxAssumption
<1>2. Spare(0) \in Nat
  BY <1>1, Spares
<1>3. Resting.age \leq Spare(Resting.left) + Resting.busy
  BY <1>2, RestTyped
<1> QED
  BY <1>3, RestTyped, OneMoves

\* What that does to the sends a message may still see.
LEMMA PendingMoves ==
  ASSUME Typed, BudgetInv, NEW w \in Worker, NEW b \in Activity, worker' = [worker EXCEPT ![w] = b],
         NEW m \in Message
  PROVE  /\ IsFiniteSet(Pending(m)') /\ Cardinality(Pending(m)) \in Nat /\ Cardinality(Pending(m)') \in Nat
         /\ Cardinality(Pending(m)') \leq Cardinality(Pending(m)) + 1
         /\ ~(b.pc = "sending" /\ b.msg = m /\ b.attempts \leq MaxAttempts) =>
              /\ Cardinality(Pending(m)') \leq Cardinality(Pending(m))
              /\ w \in Pending(m) => Cardinality(Pending(m)') = Cardinality(Pending(m)) - 1
<1>1. \A v \in Worker : worker'[v] = IF v = w THEN b ELSE worker[v]
  BY DEF Typed, TypeOK
<1>2. IsFiniteSet(Pending(m)) /\ Cardinality(Pending(m)) \in Nat
  BY FS_CardinalityType DEF BudgetInv
<1>3. CASE b.pc = "sending" /\ b.msg = m /\ b.attempts \leq MaxAttempts
  <2>1. Pending(m)' = Pending(m) \cup {w}
    BY <1>1, <1>3 DEF Pending
  <2> QED
    <3>1. IsFiniteSet(Pending(m)') /\ Cardinality(Pending(m)') \in Nat
      BY <1>2, <2>1, FS_AddElement, FS_CardinalityType
    <3>2. Cardinality(Pending(m)') = Cardinality(Pending(m)) \/ Cardinality(Pending(m)') = Cardinality(Pending(m)) + 1
      BY <1>2, <2>1, FS_AddElement
    <3> QED
      BY <1>2, <1>3, <3>1, <3>2
<1>4. CASE ~(b.pc = "sending" /\ b.msg = m /\ b.attempts \leq MaxAttempts)
  <2>1. Pending(m)' = Pending(m) \ {w}
    BY <1>1, <1>4 DEF Pending
  <2>2. IsFiniteSet(Pending(m)') /\ Cardinality(Pending(m)') \in Nat
    BY <1>2, <2>1, FS_RemoveElement, FS_CardinalityType
  <2>3. Cardinality(Pending(m)') = IF w \in Pending(m) THEN Cardinality(Pending(m)) - 1
                                   ELSE Cardinality(Pending(m))
    BY <1>2, <2>1, FS_RemoveElement
  <2> QED
    BY <1>2, <1>4, <2>2, <2>3
<1> QED
  BY <1>3, <1>4

----------------------------------------------------------------------------
(* The initial state.                                                      *)

LEMMA AbsentTyped ==
  /\ Absent \in Record /\ Absent.status = "absent" /\ Absent.attempts = 0 /\ Absent.lockedBy = Nobody
  /\ [Absent EXCEPT !.status = "pending"] \in Record
  /\ [Absent EXCEPT !.status = "pending"].status = "pending"
  /\ [Absent EXCEPT !.status = "pending"].attempts = 0
  /\ [Absent EXCEPT !.status = "pending"].lockedBy = Nobody
BY DEF Absent, Record

LEMMA InitInv == Init => Typed /\ BudgetInv
<1> SUFFICES ASSUME Init PROVE Typed /\ BudgetInv
  OBVIOUS
<1>1. \A w \in Worker : worker[w] = Resting
  BY DEF Init
<1>2. 0 \in 0..Batch /\ 0 \in Nat
  BY OutboxAssumption
<1>3. Spare(0) \in Nat
  BY <1>2, Spares
<1>4. \A w \in Worker : Timely(w)
  BY <1>1, <1>3, RestTyped DEF Timely
<1>5. TypeOK
  BY AbsentTyped, RestTyped DEF Init, TypeOK
<1>6. ASSUME NEW m \in Message PROVE IsFiniteSet(Pending(m)) /\ rec[m].attempts = 0
                                     /\ tries[m] + Cardinality(Pending(m)) \leq MaxAttempts * requeues[m] + Spent(m)
  <2>1. Pending(m) = {}
    BY <1>1, RestTyped DEF Pending
  <2>2. MaxAttempts * 0 \in Nat /\ 0 \leq MaxAttempts
    BY Budgets, OutboxAssumption
  <2>3. Spent(m) = 0
    BY <2>2, AbsentTyped DEF Init, Spent
  <2> QED
    BY <2>1, <2>2, <2>3, FS_EmptySet, AbsentTyped DEF Init
<1> QED
  BY <1>4, <1>5, <1>6 DEF Typed, BudgetInv

----------------------------------------------------------------------------
(* The steps.                                                              *)

\* A record whose attempts stay, while no worker gets another send.
LEMMA BudgetKept ==
  ASSUME Typed, BudgetInv, NEW w \in Worker, NEW b \in Activity, worker' = [worker EXCEPT ![w] = b],
         b.pc # "sending", UNCHANGED <<tries, requeues>>,
         \A m \in Message : /\ rec'[m].attempts = rec[m].attempts
                            /\ rec'[m].status = "absent" => rec[m].status = "absent"
  PROVE  BudgetInv'
<1> SUFFICES ASSUME NEW m \in Message
             PROVE  /\ IsFiniteSet(Pending(m)')
                    /\ tries[m] + Cardinality(Pending(m)') \leq MaxAttempts * requeues[m] + Spent(m)'
  BY DEF BudgetInv
<1>1. /\ IsFiniteSet(Pending(m)') /\ Cardinality(Pending(m)) \in Nat /\ Cardinality(Pending(m)') \in Nat
      /\ Cardinality(Pending(m)') \leq Cardinality(Pending(m))
  BY PendingMoves
<1>2. Spent(m)' = Spent(m) /\ Spent(m) \in Nat
  BY OutboxAssumption DEF Spent, Typed, TypeOK, Record
<1>3. tries[m] \in Nat /\ MaxAttempts * requeues[m] \in Nat
  BY Budgets DEF Typed, TypeOK
<1>4. tries[m] + Cardinality(Pending(m)) \leq MaxAttempts * requeues[m] + Spent(m)
  BY DEF BudgetInv
<1> HIDE DEF Pending, Spent
<1> QED
  BY <1>1, <1>2, <1>3, <1>4

\* Nobody moves, and no attempt is taken back.
LEMMA BudgetSame ==
  ASSUME Typed, BudgetInv, UNCHANGED <<worker, tries, requeues>>,
         \A m \in Message : /\ rec'[m].attempts = rec[m].attempts
                            /\ rec'[m].status = "absent" => rec[m].status = "absent"
  PROVE  BudgetInv'
BY DEF BudgetInv, Pending, Spent

LEMMA EnqueueKeeps ==
  ASSUME Typed, BudgetInv, NEW m \in Message, Enqueue(m) \/ RequeueDead(m)
  PROVE  Typed' /\ BudgetInv'
<1> DEFINE r == [Absent EXCEPT !.status = "pending"]
<1>1. rec' = [rec EXCEPT ![m] = r] /\ UNCHANGED <<worker, copies, tries, lostAcks, crashes, writeFailures>>
  BY DEF Enqueue, RequeueDead
<1>2. r \in Record /\ r.status = "pending" /\ r.lockedBy = Nobody /\ r.attempts = 0
  BY AbsentTyped
<1> HIDE DEF r
<1>3. rec' \in [Message -> Record] /\ \A n \in Message : rec'[n] = IF n = m THEN r ELSE rec[n]
  BY <1>1, <1>2 DEF Typed, TypeOK
<1>4. \/ rec[m].status = "absent" /\ UNCHANGED requeues
      \/ requeues' = [requeues EXCEPT ![m] = @ + 1]
  BY DEF Enqueue, RequeueDead
<1>5. requeues' \in [Message -> Nat]
  BY <1>4 DEF Typed, TypeOK
<1>6. Typed'
  <2>1. \A w \in Worker : Timely(w)'
    BY <1>1 DEF Typed, Timely, Spare
  <2> QED
    BY <1>1, <1>2, <1>3, <1>5, <2>1 DEF Typed, TypeOK
<1>7. ASSUME NEW n \in Message
      PROVE  /\ IsFiniteSet(Pending(n)') /\ (rec'[n].status = "absent" => rec'[n].attempts = 0)
             /\ tries'[n] + Cardinality(Pending(n)') \leq MaxAttempts * requeues'[n] + Spent(n)'
  <2>1. Pending(n)' = Pending(n) /\ IsFiniteSet(Pending(n)) /\ Cardinality(Pending(n)) \in Nat
    BY <1>1, FS_CardinalityType DEF Pending, BudgetInv
  <2>2. tries[n] + Cardinality(Pending(n)) \leq MaxAttempts * requeues[n] + Spent(n)
        /\ (rec[n].status = "absent" => rec[n].attempts = 0)
    BY DEF BudgetInv
  <2>3. MaxAttempts \in Nat /\ tries'[n] = tries[n] /\ tries[n] \in Nat /\ requeues[n] \in Nat
        /\ rec[n].attempts \in Nat
    BY <1>1, OutboxAssumption DEF Typed, TypeOK, Record
  <2>4. /\ MaxAttempts * requeues[n] \in Nat
        /\ MaxAttempts * (requeues[n] + 1) = MaxAttempts * requeues[n] + MaxAttempts
    BY <2>3, Budgets
  <2>5. CASE n = m
    <3>1. Spent(n)' = 0 /\ Spent(n) \leq MaxAttempts /\ Spent(n) \in Nat
      BY <1>2, <1>3, <2>3, <2>5 DEF Spent
    <3>2. CASE rec[m].status = "absent" /\ UNCHANGED requeues
      <4>1. Spent(n) = 0
        BY <2>2, <2>3, <2>5, <3>2 DEF Spent
      <4> QED
        BY <1>2, <1>3, <2>1, <2>2, <2>3, <2>5, <3>1, <3>2, <4>1
    <3>3. CASE requeues' = [requeues EXCEPT ![m] = @ + 1]
      <4>1. requeues'[n] = requeues[n] + 1
        BY <2>5, <3>3 DEF Typed, TypeOK
      <4>2. tries[n] + Cardinality(Pending(n)) \leq MaxAttempts * requeues'[n]
        BY <2>1, <2>2, <2>3, <2>4, <3>1, <4>1
      <4>3. MaxAttempts * requeues'[n] \in Nat
        BY <2>3, <2>4, <4>1
      <4> QED
        BY <1>2, <1>3, <2>1, <2>3, <2>5, <3>1, <4>2, <4>3
    <3> QED
      BY <1>4, <3>2, <3>3
  <2>6. CASE n # m
    <3>1. Spent(n)' = Spent(n) /\ requeues'[n] = requeues[n] /\ rec'[n] = rec[n]
      BY <1>3, <1>4, <2>6 DEF Spent, Typed, TypeOK
    <3> QED
      BY <2>1, <2>2, <2>3, <3>1
  <2> QED
    BY <2>5, <2>6
<1> QED
  BY <1>6, <1>7 DEF BudgetInv

LEMMA BeginKeeps ==
  ASSUME Typed, BudgetInv, NEW w \in Worker, BeginDrain(w) \/ \E m \in Message : BeginDispatch(w, m)
  PROVE  Typed' /\ BudgetInv'
<1>1. UNCHANGED <<rec, copies, tries, lostAcks, crashes, writeFailures, requeues>>
  BY DEF BeginDrain, BeginDispatch
<1>2. PICK b \in Activity :
        /\ worker' = [worker EXCEPT ![w] = b]
        /\ b.pc = "claiming" /\ b.left \in 1..Batch /\ b.age = 0 /\ b.busy = 0
  <2>1. 1 \in 1..Batch /\ Batch \in 1..Batch /\ 1 \in 0..Batch /\ Batch \in 0..Batch
    BY OutboxAssumption
  <2>2. CASE BeginDrain(w)
    <3> DEFINE b == [Resting EXCEPT !.pc = "claiming", !.left = Batch]
    <3>1. b \in Activity /\ b.pc = "claiming" /\ b.left = Batch /\ b.age = 0 /\ b.busy = 0
      BY <2>1, RestTyped DEF Activity
    <3>2. worker' = [worker EXCEPT ![w] = b]
      BY <2>2 DEF BeginDrain
    <3> HIDE DEF b
    <3> QED
      BY <2>1, <3>1, <3>2
  <2>3. CASE \E m \in Message : BeginDispatch(w, m)
    <3> PICK m \in Message : BeginDispatch(w, m)
      BY <2>3
    <3> DEFINE b == [Resting EXCEPT !.pc = "claiming", !.left = 1, !.target = m]
    <3>1. b \in Activity /\ b.pc = "claiming" /\ b.left = 1 /\ b.age = 0 /\ b.busy = 0
      BY <2>1, RestTyped DEF Activity
    <3>2. worker' = [worker EXCEPT ![w] = b]
      BY DEF BeginDispatch
    <3> HIDE DEF b
    <3> QED
      BY <2>1, <3>1, <3>2
  <2> QED
    BY <2>2, <2>3
<1>3. b.left \in 0..Batch /\ b.left \in Nat /\ 0 < Patience
  BY <1>2, OutboxAssumption
<1>6. b.age \leq Spare(b.left) + b.busy /\ b.left \geq 1 /\ b.busy < Patience
  BY <1>2, <1>3, Spares
<1>7. worker' \in [Worker -> Activity] /\ \A v \in Worker : Timely(v)'
  BY <1>2, <1>6, OneMoves
<1>8. BudgetInv'
  BY <1>1, <1>2, BudgetKept
<1> QED
  BY <1>1, <1>7, <1>8 DEF Typed, TypeOK

\* A worker that gives up or is gone.
LEMMA RestKeeps ==
  ASSUME Typed, BudgetInv, NEW w \in Worker, worker' = [worker EXCEPT ![w] = Resting],
         UNCHANGED <<rec, tries, requeues>>
  PROVE  worker' \in [Worker -> Activity] /\ (\A v \in Worker : Timely(v)') /\ BudgetInv'
BY OneRests, BudgetKept, RestTyped

LEMMA CrashKeeps ==
  ASSUME Typed, BudgetInv, NEW w \in Worker, NothingToClaim(w) \/ Crash(w)
  PROVE  Typed' /\ BudgetInv'
<1>1. worker' = [worker EXCEPT ![w] = Resting] /\ UNCHANGED <<rec, copies, tries, writeFailures, requeues>>
  BY DEF NothingToClaim, Crash
<1>2. worker[w].pc = "marking" => worker[w].msg \in Message
  BY DEF Typed, Timely
<1>3. lostAcks' \in [Message -> Nat] /\ crashes' \in Nat
  BY <1>2 DEF NothingToClaim, Crash, Typed, TypeOK
<1> QED
  BY <1>1, <1>3, RestKeeps DEF Typed, TypeOK

LEMMA ClaimKeeps ==
  ASSUME Typed, BudgetInv, NEW w \in Worker, ClaimNext(w)
  PROVE  Typed' /\ BudgetInv'
<1>1. PICK m \in Message : Take(w, m)
  BY DEF ClaimNext, Claimed
<1>2. worker[w].pc = "claiming" /\ UNCHANGED <<copies, tries, lostAcks, crashes, writeFailures, requeues>>
  BY DEF ClaimNext
<1> DEFINE n == rec[m].attempts + 1
           r == [status |-> "sending", due |-> rec[m].due, lockedBy |-> w, lease |-> Lease - worker[w].age,
                 attempts |-> n]
           b == [worker[w] EXCEPT !.pc = "sending", !.msg = m, !.attempts = n]
<1>3. worker[w] \in Activity /\ rec[m] \in Record /\ n \in Nat /\ n \geq 1
  BY DEF Typed, TypeOK, Record
<1>4. rec' = [rec EXCEPT ![m] = r]
  BY <1>1 DEF Take
<1>5. worker' = [worker EXCEPT ![w] = b]
  BY <1>1, <1>3 DEF Take, Typed, TypeOK
<1>6. Lease - worker[w].age \in Int /\ w # Nobody
  BY <1>3, Spares, OutboxAssumption DEF Activity
<1> HIDE DEF n
<1>7. r \in Record /\ r.status = "sending" /\ r.lockedBy = w /\ r.attempts = n
  BY <1>3, <1>6 DEF Record
<1>8. /\ b \in Activity /\ b.pc = "sending" /\ b.msg = m /\ b.attempts = n
      /\ b.left = worker[w].left /\ b.age = worker[w].age /\ b.busy = worker[w].busy
  BY <1>3 DEF Activity
<1> HIDE DEF r, b
<1>9. rec' \in [Message -> Record] /\ \A x \in Message : rec'[x] = IF x = m THEN r ELSE rec[x]
  BY <1>4, <1>7 DEF Typed, TypeOK
<1>10. worker' \in [Worker -> Activity] /\ \A v \in Worker : Timely(v)'
  BY <1>2, <1>3, <1>5, <1>8, OneMoves DEF Typed, Timely
<1>11. ASSUME NEW x \in Message
       PROVE  /\ IsFiniteSet(Pending(x)') /\ (rec'[x].status = "absent" => rec'[x].attempts = 0)
              /\ tries[x] + Cardinality(Pending(x)') \leq MaxAttempts * requeues[x] + Spent(x)'
  <2>1. /\ IsFiniteSet(Pending(x)') /\ Cardinality(Pending(x)) \in Nat /\ Cardinality(Pending(x)') \in Nat
        /\ Cardinality(Pending(x)') \leq Cardinality(Pending(x)) + 1
        /\ ~(x = m /\ n \leq MaxAttempts) => Cardinality(Pending(x)') \leq Cardinality(Pending(x))
    BY <1>5, <1>8, PendingMoves
  <2>2. tries[x] + Cardinality(Pending(x)) \leq MaxAttempts * requeues[x] + Spent(x)
        /\ (rec[x].status = "absent" => rec[x].attempts = 0)
    BY DEF BudgetInv
  <2>3. MaxAttempts \in Nat /\ tries[x] \in Nat /\ MaxAttempts * requeues[x] \in Nat
        /\ rec[x].attempts \in Nat
    BY Budgets, OutboxAssumption DEF Typed, TypeOK, Record
  <2>4. CASE x = m
    <3>1. rec'[x].attempts = n /\ rec'[x].status = "sending"
      BY <1>7, <1>9, <2>4
    <3>2. CASE n \leq MaxAttempts
      <4>1. Spent(x)' = n /\ Spent(x) = rec[x].attempts /\ n = rec[x].attempts + 1
        BY <1>3, <2>3, <2>4, <3>1, <3>2 DEF Spent, n
      <4> QED
        BY <2>1, <2>2, <2>3, <3>1, <4>1
    <3>3. CASE ~(n \leq MaxAttempts)
      <4>1. Spent(x)' = MaxAttempts /\ Spent(x) \leq MaxAttempts /\ Spent(x) \in Nat
        BY <1>3, <2>3, <3>1, <3>3 DEF Spent
      <4> QED
        BY <2>1, <2>2, <2>3, <3>1, <3>3, <4>1
    <3> QED
      BY <3>2, <3>3
  <2>5. CASE x # m
    <3>1. Spent(x)' = Spent(x) /\ rec'[x] = rec[x] /\ Spent(x) \in Nat
      BY <1>9, <2>3, <2>5 DEF Spent
    <3> QED
      BY <2>1, <2>2, <2>3, <2>5, <3>1
  <2> QED
    BY <2>4, <2>5
<1>12. BudgetInv'
  BY <1>2, <1>11 DEF BudgetInv
<1> QED
  BY <1>2, <1>6, <1>7, <1>9, <1>10, <1>12 DEF Typed, TypeOK

LEMMA SendKeeps ==
  ASSUME Typed, BudgetInv, NEW w \in Worker, Unsendable(w) \/ \E answer \in Answer : Send(w, answer)
  PROVE  Typed' /\ BudgetInv'
<1>1. PICK answer \in Answer : worker' = [worker EXCEPT ![w].pc = "marking", ![w].answer = answer]
  BY DEF Unsendable, Send, Answer
<1> DEFINE m == worker[w].msg
           b == [worker[w] EXCEPT !.pc = "marking", !.answer = answer]
<1>2. worker[w].pc = "sending" /\ UNCHANGED <<rec, lostAcks, crashes, writeFailures, requeues>>
  BY DEF Unsendable, Send
<1>3. worker[w] \in Activity /\ m \in Message /\ Timely(w)
  BY <1>2 DEF Typed, TypeOK, Timely
<1>4. worker' = [worker EXCEPT ![w] = b]
  BY <1>1, <1>3 DEF Typed, TypeOK
<1>5. /\ b \in Activity /\ b.pc = "marking" /\ b.msg = m /\ b.attempts = worker[w].attempts
      /\ b.left = worker[w].left /\ b.age = worker[w].age /\ b.busy = worker[w].busy
  BY <1>3 DEF Activity
<1> HIDE DEF b
<1>6. worker' \in [Worker -> Activity] /\ \A v \in Worker : Timely(v)'
  BY <1>2, <1>3, <1>4, <1>5, OneMoves DEF Timely
<1>7. /\ tries' = tries \/ (w \in Pending(m) /\ tries' = [tries EXCEPT ![m] = @ + 1])
      /\ copies' = copies \/ copies' = [copies EXCEPT ![m] = @ + 1]
  BY <1>2 DEF Unsendable, Send, Pending
<1>8. tries' \in [Message -> Nat] /\ copies' \in [Message -> Nat]
  BY <1>3, <1>7 DEF Typed, TypeOK
<1>9. ASSUME NEW x \in Message
      PROVE  /\ IsFiniteSet(Pending(x)')
             /\ tries'[x] + Cardinality(Pending(x)') \leq MaxAttempts * requeues[x] + Spent(x)
  <2>1. /\ IsFiniteSet(Pending(x)') /\ Cardinality(Pending(x)) \in Nat /\ Cardinality(Pending(x)') \in Nat
        /\ Cardinality(Pending(x)') \leq Cardinality(Pending(x))
        /\ w \in Pending(x) => Cardinality(Pending(x)') = Cardinality(Pending(x)) - 1
    BY <1>4, <1>5, PendingMoves
  <2>2. tries[x] + Cardinality(Pending(x)) \leq MaxAttempts * requeues[x] + Spent(x)
    BY DEF BudgetInv
  <2>3. MaxAttempts * requeues[x] \in Nat /\ Spent(x) \in Nat /\ tries[x] \in Nat
    BY Budgets, OutboxAssumption DEF Typed, TypeOK, Record, Spent
  <2>4. CASE tries'[x] = tries[x]
    BY <2>1, <2>2, <2>3, <2>4
  <2>5. CASE x = m /\ w \in Pending(m) /\ tries'[x] = tries[x] + 1
    BY <2>1, <2>2, <2>3, <2>5
  <2>6. tries'[x] = tries[x] \/ (x = m /\ w \in Pending(m) /\ tries'[x] = tries[x] + 1)
    BY <1>3, <1>7 DEF Typed, TypeOK
  <2> QED
    BY <2>4, <2>5, <2>6
<1>10. BudgetInv'
  BY <1>2, <1>9 DEF BudgetInv, Spent
<1> QED
  BY <1>2, <1>6, <1>8, <1>10 DEF Typed, TypeOK

\* What an outcome leaves of the claim.
LEMMA OutcomeTyped ==
  ASSUME Typed, NEW w \in Worker, worker[w].pc = "marking"
  PROVE  /\ Outcome(w) \in Record /\ Outcome(w).lockedBy = Nobody
         /\ Outcome(w).attempts = rec[worker[w].msg].attempts
         /\ Outcome(w).status \in {"sent", "dead", "retrying"}
         /\ (worker[w].answer = "accepted" <=> Outcome(w).status = "sent")
<1> DEFINE m == worker[w].msg
           freed == [rec[m] EXCEPT !.lockedBy = Nobody, !.lease = 0]
           sent == [freed EXCEPT !.status = "sent"]
           dead == [freed EXCEPT !.status = "dead"]
           again == [freed EXCEPT !.status = "retrying", !.due = Backoff(worker[w].attempts) - worker[w].age]
           accepted == worker[w].answer = "accepted"
           final == \/ worker[w].answer = "permanent"
                    \/ worker[w].answer = "transient" /\ worker[w].attempts >= MaxAttempts
<1>1. rec[m] \in Record /\ worker[w] \in Activity /\ m \in Message /\ worker[w].attempts \geq 1
  BY DEF Typed, TypeOK, Timely
<1>2. freed \in Record /\ freed.lockedBy = Nobody /\ freed.attempts = rec[m].attempts
  <2>1. Nobody \in Worker \cup {Nobody} /\ 0 \in Int
    OBVIOUS
  <2> HIDE DEF m
  <2> QED
    BY <1>1, <2>1 DEF Record
<1>3. CASE Outcome(w) = sent /\ accepted
  BY <1>2, <1>3 DEF Record
<1>4. CASE Outcome(w) = dead /\ ~accepted
  BY <1>2, <1>4 DEF Record
<1>5. CASE Outcome(w) = again /\ ~accepted
  <2>1. worker[w].attempts \in Nat /\ worker[w].attempts - 1 \in Nat /\ worker[w].age \in Int
    BY <1>1, Spares, OutboxAssumption DEF Activity
  <2>2. Backoff(worker[w].attempts) \in Int
    <3> DEFINE power == 2 ^ (worker[w].attempts - 1)
    <3>0. power \in Int
      BY <2>1
    <3>1. CASE BackoffBase * power < BackoffMax
      <4>1. Backoff(worker[w].attempts) = BackoffBase * power
        BY <3>1 DEF Backoff
      <4> QED
        BY <3>0, <4>1, OutboxAssumption
    <3>2. CASE ~(BackoffBase * power < BackoffMax)
      BY <3>2, OutboxAssumption DEF Backoff
    <3> QED
      BY <3>1, <3>2
  <2>3. Backoff(worker[w].attempts) - worker[w].age \in Int
    BY <2>1, <2>2
  <2> QED
    BY <1>2, <1>5, <2>3 DEF Record
<1>6. (accepted /\ Outcome(w) = sent) \/ (~accepted /\ Outcome(w) = dead) \/ (~accepted /\ Outcome(w) = again)
  <2> HIDE DEF freed
  <2>1. CASE accepted
    BY <2>1 DEF Outcome, freed
  <2>2. CASE ~accepted /\ final
    BY <2>2 DEF Outcome, freed
  <2>3. CASE ~accepted /\ ~final
    BY <2>3 DEF Outcome, freed
  <2> QED
    BY <2>1, <2>2, <2>3
<1> QED
  BY <1>3, <1>4, <1>5, <1>6

LEMMA NextMessageKeeps ==
  ASSUME Typed, BudgetInv, NEW w \in Worker, worker[w].pc # "idle", NextMessage(w), UNCHANGED <<tries, requeues>>,
         \A m \in Message : /\ rec'[m].attempts = rec[m].attempts
                            /\ rec'[m].status = "absent" => rec[m].status = "absent"
  PROVE  worker' \in [Worker -> Activity] /\ (\A v \in Worker : Timely(v)') /\ BudgetInv'
         /\ \A v \in Worker : v # w => worker'[v] = worker[v]
         /\ worker'[w].pc \in {"idle", "claiming"}
<1>1. worker[w] \in Activity /\ Timely(w)
  BY DEF Typed, TypeOK
<1>2. CASE worker[w].left > 1
  <2> DEFINE left == worker[w].left
             b == [Resting EXCEPT !.pc = "claiming", !.left = left - 1,
                                  !.age = worker[w].age, !.target = worker[w].target]
  <2>1. worker' = [worker EXCEPT ![w] = b]
    BY <1>2 DEF NextMessage, Typed, TypeOK
  <2>2. left \in 0..Batch /\ left \in Nat /\ left - 1 \in 0..Batch /\ left - 1 \in Nat /\ left - 1 \geq 1
    BY <1>1, <1>2, OutboxAssumption DEF Activity
  <2>3. /\ b \in Activity /\ b.pc = "claiming" /\ b.left = left - 1 /\ b.age = worker[w].age /\ b.busy = 0
    BY <1>1, <2>2, RestTyped DEF Activity
  <2> HIDE DEF b
  <2>4. Spare(left - 1) = Spare(left) + Patience /\ Spare(left) \in Nat /\ Spare(left - 1) \in Nat
    BY <2>2, Spares
  <2>5. worker[w].age \in Nat /\ worker[w].busy \in Nat /\ Patience \in Nat /\ 0 < Patience /\ worker[w].busy < Patience
        /\ worker[w].age \leq Spare(left) + worker[w].busy
    BY <1>1, Spares, OutboxAssumption DEF Activity, Timely
  <2>6. b.age \leq Spare(b.left) + b.busy
    BY <2>3, <2>4, <2>5
  <2>7. b.left \geq 1 /\ b.busy < Patience
    BY <2>2, <2>3, <2>5
  <2> QED
    BY <2>1, <2>3, <2>6, <2>7, OneMoves, BudgetKept
<1>3. CASE ~(worker[w].left > 1)
  <2>1. worker' = [worker EXCEPT ![w] = Resting]
    BY <1>3 DEF NextMessage, Typed, TypeOK
  <2> QED
    BY <2>1, OneRests, BudgetKept, RestTyped
<1> QED
  BY <1>2, <1>3

LEMMA MarkKeeps ==
  ASSUME Typed, BudgetInv, NEW w \in Worker, Mark(w)
  PROVE  Typed' /\ BudgetInv'
<1> DEFINE m == worker[w].msg
           r == Outcome(w)
<1>1. /\ worker[w].pc = "marking" /\ NextMessage(w)
      /\ UNCHANGED <<copies, tries, lostAcks, crashes, writeFailures, requeues>>
      /\ rec' = IF Holds(w) THEN [rec EXCEPT ![m] = r] ELSE rec
  BY DEF Mark
<1>2. r \in Record /\ r.lockedBy = Nobody /\ r.attempts = rec[m].attempts /\ r.status \in {"sent", "dead", "retrying"}
  BY <1>1, OutcomeTyped
<1> HIDE DEF r
<1>3. m \in Message
  BY <1>1 DEF Typed, Timely
<1>4. rec' \in [Message -> Record]
      /\ \A n \in Message : rec'[n] = rec[n] \/ (n = m /\ rec'[n] = r)
  BY <1>1, <1>2 DEF Typed, TypeOK
<1>5. \A n \in Message : /\ rec'[n].attempts = rec[n].attempts
                         /\ rec'[n].status = "absent" => rec[n].status = "absent"
  BY <1>2, <1>4
<1>6. worker' \in [Worker -> Activity] /\ (\A v \in Worker : Timely(v)') /\ BudgetInv'
  BY <1>1, <1>5, NextMessageKeeps
<1> QED
  BY <1>1, <1>2, <1>4, <1>6 DEF Typed, TypeOK

LEMMA WriteFailsKeeps ==
  ASSUME Typed, BudgetInv, NEW w \in Worker, WriteFails(w)
  PROVE  Typed' /\ BudgetInv'
<1>1. worker[w].pc = "marking" /\ UNCHANGED <<rec, copies, tries, crashes, requeues>>
      /\ writeFailures' = writeFailures + 1
  BY DEF WriteFails
<1>2. worker[w] \in Activity /\ worker[w].msg \in Message /\ Timely(w)
  BY <1>1 DEF Typed, TypeOK, Timely
<1>3. lostAcks' \in [Message -> Nat] /\ writeFailures' \in Nat
  BY <1>1, <1>2 DEF WriteFails, Typed, TypeOK
<1>4. worker' \in [Worker -> Activity] /\ (\A v \in Worker : Timely(v)') /\ BudgetInv'
  <2>1. CASE worker[w].answer = "accepted"
    <3> DEFINE b == [worker[w] EXCEPT !.answer = "transient"]
    <3>1. worker' = [worker EXCEPT ![w] = b]
      BY <2>1 DEF WriteFails, Typed, TypeOK
    <3>2. /\ b \in Activity /\ b.pc = "marking" /\ b.msg = worker[w].msg /\ b.attempts = worker[w].attempts
          /\ b.left = worker[w].left /\ b.age = worker[w].age /\ b.busy = worker[w].busy
      BY <1>1, <1>2 DEF Activity, Answer
    <3> HIDE DEF b
    <3> QED
      BY <1>1, <1>2, <3>1, <3>2, OneMoves, BudgetKept DEF Timely
  <2>2. CASE worker[w].answer # "accepted"
    <3>1. worker' = [worker EXCEPT ![w] = Resting]
      BY <2>2 DEF WriteFails, Typed, TypeOK
    <3> QED
      BY <1>1, <3>1, RestKeeps
  <2> QED
    BY <2>1, <2>2
<1> QED
  BY <1>1, <1>3, <1>4 DEF Typed, TypeOK

\* Time ages records and workers, and nothing else.
LEMMA Passed ==
  ASSUME Typed, Pass
  PROVE  /\ UNCHANGED <<copies, tries, lostAcks, crashes, writeFailures, requeues>>
         /\ rec' \in [Message -> Record]
         /\ \A m \in Message : /\ rec'[m].status = rec[m].status /\ rec'[m].attempts = rec[m].attempts
                               /\ rec'[m].lockedBy = rec[m].lockedBy
                               /\ rec[m].status = "sending" => rec'[m].lease = Older(rec[m].lease)
         /\ worker' \in [Worker -> Activity]
         /\ \A w \in Worker :
              \/ worker[w].pc = "idle" /\ worker'[w] = worker[w]
              \/ /\ worker[w].pc # "idle" /\ worker[w].busy + 1 < Patience
                 /\ worker'[w].pc = worker[w].pc /\ worker'[w].msg = worker[w].msg
                 /\ worker'[w].attempts = worker[w].attempts /\ worker'[w].answer = worker[w].answer
                 /\ worker'[w].left = worker[w].left
                 /\ worker'[w].age = worker[w].age + 1 /\ worker'[w].busy = worker[w].busy + 1
<1>1. UNCHANGED <<copies, tries, lostAcks, crashes, writeFailures, requeues>>
  BY DEF Pass
<1>2. \A t \in Int : Older(t) \in Int
  BY Spares, OutboxAssumption DEF Older
<1>3. ASSUME NEW m \in Message
      PROVE  /\ rec'[m] \in Record
             /\ rec'[m].status = rec[m].status /\ rec'[m].attempts = rec[m].attempts
             /\ rec'[m].lockedBy = rec[m].lockedBy
             /\ rec[m].status = "sending" => rec'[m].lease = Older(rec[m].lease)
  <2> DEFINE due == IF rec[m].status \in {"pending", "sending", "retrying"} THEN Older(rec[m].due) ELSE rec[m].due
             lease == IF rec[m].status = "sending" THEN Older(rec[m].lease) ELSE rec[m].lease
  <2>1. rec'[m] = [rec[m] EXCEPT !.due = due, !.lease = lease]
    BY DEF Pass
  <2>2. rec[m] \in Record /\ due \in Int /\ lease \in Int /\ (rec[m].status = "sending" => lease = Older(rec[m].lease))
    BY <1>2 DEF Typed, TypeOK, Record
  <2> HIDE DEF due, lease
  <2> QED
    BY <2>1, <2>2 DEF Record
<1>4. ASSUME NEW w \in Worker
      PROVE  /\ worker'[w] \in Activity
             /\ \/ worker[w].pc = "idle" /\ worker'[w] = worker[w]
                \/ /\ worker[w].pc # "idle" /\ worker[w].busy + 1 < Patience
                   /\ worker'[w].pc = worker[w].pc /\ worker'[w].msg = worker[w].msg
                   /\ worker'[w].attempts = worker[w].attempts /\ worker'[w].answer = worker[w].answer
                   /\ worker'[w].left = worker[w].left
                   /\ worker'[w].age = worker[w].age + 1 /\ worker'[w].busy = worker[w].busy + 1
  <2>1. worker[w] \in Activity
    BY DEF Typed, TypeOK
  <2>2. CASE worker[w].pc = "idle"
    BY <2>1, <2>2 DEF Pass
  <2>3. CASE worker[w].pc # "idle"
    <3> DEFINE age == worker[w].age + 1
               busy == worker[w].busy + 1
    <3>1. worker'[w] = [worker[w] EXCEPT !.age = age, !.busy = busy] /\ busy < Patience
      BY <2>3 DEF Pass
    <3>2. worker[w].left \in 0..Batch /\ worker[w].left \in Nat /\ worker[w].left \geq 1
          /\ worker[w].left - 1 \in 0..Batch
      BY <2>1, <2>3, OutboxAssumption DEF Activity, Typed, Timely
    <3>3. /\ Spare(worker[w].left - 1) \leq MaxAge /\ MaxAge \in Nat /\ Spare(worker[w].left) \in Nat
          /\ Spare(worker[w].left - 1) = Spare(worker[w].left) + Patience
      BY <3>2, Spares
    <3>4. worker[w].age \in Nat /\ worker[w].busy \in Nat /\ Patience \in Nat
          /\ worker[w].age \leq Spare(worker[w].left) + worker[w].busy
      BY <2>1, <3>3, OutboxAssumption DEF Activity, Typed, Timely
    <3>5. age \in 0..MaxAge /\ busy \in 0..Patience
      BY <3>1, <3>3, <3>4
    <3> HIDE DEF age, busy
    <3>6. /\ worker'[w] \in Activity /\ worker'[w].pc = worker[w].pc /\ worker'[w].msg = worker[w].msg
          /\ worker'[w].attempts = worker[w].attempts /\ worker'[w].answer = worker[w].answer
          /\ worker'[w].left = worker[w].left /\ worker'[w].age = age /\ worker'[w].busy = busy
      BY <2>1, <3>1, <3>5 DEF Activity
    <3> QED
      BY <2>3, <3>1, <3>6 DEF age, busy
  <2> QED
    BY <2>2, <2>3
<1>5. rec' \in [Message -> Record]
  <2>1. rec' = [m \in Message |-> rec'[m]]
    BY DEF Pass
  <2> QED
    BY <1>3, <2>1
<1>6. worker' \in [Worker -> Activity]
  <2>1. worker' = [w \in Worker |-> worker'[w]]
    BY DEF Pass
  <2> QED
    BY <1>4, <2>1
<1> QED
  BY <1>1, <1>3, <1>4, <1>5, <1>6

LEMMA PassKeeps ==
  ASSUME Typed, BudgetInv, Pass
  PROVE  Typed' /\ BudgetInv'
<1>1. ASSUME NEW w \in Worker PROVE Timely(w)'
  <2>1. worker[w] \in Activity /\ Timely(w)
    BY DEF Typed, TypeOK
  <2>2. CASE worker[w].pc = "idle"
    BY <2>1, <2>2, Passed DEF Timely, Spare
  <2>3. CASE worker[w].pc # "idle"
    <3>1. /\ worker[w].busy + 1 < Patience
          /\ worker'[w].pc = worker[w].pc /\ worker'[w].msg = worker[w].msg
          /\ worker'[w].attempts = worker[w].attempts /\ worker'[w].left = worker[w].left
          /\ worker'[w].age = worker[w].age + 1 /\ worker'[w].busy = worker[w].busy + 1
      BY <2>3, Passed
    <3>2. worker[w].left \in 0..Batch /\ worker[w].age \in Nat /\ worker[w].busy \in Nat
          /\ Spare(worker[w].left) \in Nat /\ Spare(worker[w].left)' = Spare(worker[w].left)
      BY <2>1, <3>1, Spares, OutboxAssumption DEF Activity, Spare
    <3>3. worker[w].age + 1 \leq Spare(worker[w].left) + (worker[w].busy + 1)
      BY <2>1, <3>2 DEF Timely
    <3> QED
      BY <2>1, <2>3, <3>1, <3>2, <3>3 DEF Timely
  <2> QED
    BY <2>2, <2>3
<1>2. Typed'
  BY <1>1, Passed DEF Typed, TypeOK
<1>3. \A m \in Message : Pending(m)' = Pending(m)
  BY Passed DEF Pending
<1>4. BudgetInv'
  BY <1>3, Passed DEF BudgetInv, Spent
<1> QED
  BY <1>2, <1>4

LEMMA NextInv == Typed /\ BudgetInv /\ [Next]_vars => Typed' /\ BudgetInv'
<1> SUFFICES ASSUME Typed, BudgetInv, [Next]_vars PROVE Typed' /\ BudgetInv'
  OBVIOUS
<1>1. ASSUME NEW m \in Message, Enqueue(m) \/ RequeueDead(m) PROVE Typed' /\ BudgetInv'
  BY <1>1, EnqueueKeeps
<1>2. ASSUME NEW w \in Worker, BeginDrain(w) \/ \E m \in Message : BeginDispatch(w, m) PROVE Typed' /\ BudgetInv'
  BY <1>2, BeginKeeps
<1>3. ASSUME NEW w \in Worker, Work(w) PROVE Typed' /\ BudgetInv'
  BY <1>3, ClaimKeeps, CrashKeeps, SendKeeps, MarkKeeps, WriteFailsKeeps DEF Work
<1>4. ASSUME NEW w \in Worker, Crash(w) PROVE Typed' /\ BudgetInv'
  BY <1>4, CrashKeeps
<1>5. CASE UNCHANGED vars
  BY <1>5 DEF vars, Typed, TypeOK, Timely, BudgetInv, Pending, Spent, Spare
<1> QED
  BY <1>1, <1>2, <1>3, <1>4, <1>5, PassKeeps DEF Next

LEMMA AlwaysInv == Spec => [](Typed /\ BudgetInv)
<1> QED
  BY InitInv, NextInv, PTL DEF Spec

\* Records and workers stay within their types: a message is locked exactly
\* while it is being sent, and no clock value in use is older than a batch.
THEOREM TypeInvariant == Spec => []TypeOK
<1>1. Typed /\ BudgetInv => TypeOK
  BY DEF Typed
<1> QED
  BY <1>1, AlwaysInv, PTL

\* outbox.service.js deliverClaimed: however claims lapse, are taken over
\* and requeued, a budget of attempts hands a message to the transport no more
\* often than OUTBOX_MAX_ATTEMPTS (SendBudget).
THEOREM SendsAreBudgeted == Spec => []SendBudget
<1>1. Typed /\ BudgetInv => SendBudget
  <2> SUFFICES ASSUME Typed, BudgetInv, NEW m \in Message
               PROVE  tries[m] \leq MaxAttempts * (1 + requeues[m])
    BY DEF SendBudget
  <2>1. Cardinality(Pending(m)) \in Nat /\ tries[m] + Cardinality(Pending(m)) \leq MaxAttempts * requeues[m] + Spent(m)
    BY FS_CardinalityType DEF BudgetInv
  <2>2. tries[m] \in Nat /\ requeues[m] \in Nat /\ Spent(m) \in Nat /\ Spent(m) \leq MaxAttempts /\ MaxAttempts \in Nat
    BY OutboxAssumption DEF Typed, TypeOK, Record, Spent
  <2>3. MaxAttempts * (1 + requeues[m]) = MaxAttempts * requeues[m] + MaxAttempts /\ MaxAttempts * requeues[m] \in Nat
    BY <2>2, Budgets
  <2> QED
    BY <2>1, <2>2, <2>3
<1> QED
  BY <1>1, AlwaysInv, PTL

----------------------------------------------------------------------------
(* No duplicates while leases outlast batches.                             *)

\* No claim lapses before its worker is done with it.
LEMMA LeaseHolds ==
  ASSUME MaxAge \leq Lease, Typed, Mine, NEW w \in Worker, Working(w)
  PROVE  /\ worker[w].msg \in Message /\ Holds(w)
         /\ rec[worker[w].msg].lease \in Int /\ rec[worker[w].msg].lease > 0
         /\ rec[worker[w].msg].lease + worker[w].age = Lease
<1>1. worker[w] \in Activity /\ Timely(w) /\ worker[w].msg \in Message
  BY DEF Typed, TypeOK, Timely, Working
<1>2. worker[w].left \in 0..Batch /\ worker[w].left \in Nat /\ worker[w].left \geq 1 /\ worker[w].left - 1 \in 0..Batch
  BY <1>1, OutboxAssumption DEF Timely, Activity, Working
<1>3. /\ Spare(worker[w].left - 1) \leq MaxAge /\ MaxAge \in Nat /\ Spare(worker[w].left) \in Nat
      /\ Spare(worker[w].left - 1) = Spare(worker[w].left) + Patience
  BY <1>2, Spares
<1>4. worker[w].age \in Nat /\ worker[w].busy \in Nat /\ worker[w].busy < Patience /\ Patience \in Nat
      /\ worker[w].age \leq Spare(worker[w].left) + worker[w].busy
  BY <1>1, <1>3, OutboxAssumption DEF Timely, Activity, Working
<1>5. worker[w].age < MaxAge
  BY <1>3, <1>4
<1>6. Holds(w) /\ rec[worker[w].msg].lease \in Int /\ rec[worker[w].msg].lease + worker[w].age = Lease
  BY <1>1 DEF Mine, Typed, TypeOK, Record
<1> QED
  BY <1>1, <1>3, <1>4, <1>5, <1>6, OutboxAssumption

LEMMA OneOwner ==
  ASSUME Mine, NEW v \in Worker, NEW w \in Worker, Working(v), Working(w), worker[v].msg = worker[w].msg
  PROVE  v = w
BY DEF Mine, Holds

LEMMA InitOwned == Init => OwnedInv
<1> SUFFICES ASSUME Init PROVE OwnedInv
  OBVIOUS
<1>1. \A w \in Worker : worker[w].pc = "idle"
  BY RestTyped DEF Init
<1>2. \A m \in Message : copies[m] = 0 /\ lostAcks[m] = 0
  BY DEF Init
<1> QED
  BY <1>1, <1>2 DEF OwnedInv, Mine, Working, Paid

\* A worker without a message in hand changes its activity, and nothing else.
LEMMA FreeOwned ==
  ASSUME Typed, OwnedInv, NEW w \in Worker, NEW b \in Activity, worker' = [worker EXCEPT ![w] = b],
         b.pc \notin {"sending", "marking"}, ~\E m \in Message : Accepted(w, m), UNCHANGED <<rec, copies, lostAcks>>
  PROVE  OwnedInv'
<1>1. \A v \in Worker : worker'[v] = IF v = w THEN b ELSE worker[v]
  BY DEF Typed, TypeOK
<1>2. Mine'
  BY <1>1 DEF OwnedInv, Mine, Working, Holds
<1>3. \A m \in Message : \A v \in Worker : Accepted(v, m) => Accepted(v, m)'
  BY <1>1 DEF Accepted
<1> QED
  BY <1>2, <1>3 DEF OwnedInv, Paid

LEMMA EnqueueOwned ==
  ASSUME Typed, OwnedInv, NEW m \in Message, Enqueue(m) \/ RequeueDead(m)
  PROVE  OwnedInv'
<1>1. rec' = [rec EXCEPT ![m] = [Absent EXCEPT !.status = "pending"]] /\ UNCHANGED <<worker, copies, lostAcks>>
      /\ rec[m].status \in {"absent", "dead"}
  BY DEF Enqueue, RequeueDead
<1>2. \A n \in Message : n # m => rec'[n] = rec[n]
  BY <1>1 DEF Typed, TypeOK
<1>3. Mine'
  <2> SUFFICES ASSUME NEW w \in Worker, Working(w)
               PROVE  Holds(w)' /\ rec'[worker[w].msg].lease + worker[w].age = Lease
    BY <1>1 DEF Mine, Working
  <2>1. Holds(w) /\ worker[w].msg \in Message /\ rec[worker[w].msg].lease + worker[w].age = Lease
    BY DEF OwnedInv, Mine, Typed, Timely, Working
  <2>2. rec'[worker[w].msg] = rec[worker[w].msg]
    BY <1>1, <1>2, <2>1 DEF Holds
  <2> QED
    BY <1>1, <2>1, <2>2 DEF Holds
<1>4. \A n \in Message : rec[n].status = "sent" => rec'[n].status = "sent"
  BY <1>1, <1>2
<1>5. \A n \in Message : Paid(n)'
  BY <1>1, <1>4 DEF OwnedInv, Paid, Accepted
<1> QED
  BY <1>3, <1>5 DEF OwnedInv

LEMMA BeginOwned ==
  ASSUME Typed, OwnedInv, NEW w \in Worker,
         BeginDrain(w) \/ (\E m \in Message : BeginDispatch(w, m)) \/ NothingToClaim(w)
  PROVE  OwnedInv'
<1>1. worker[w].pc \in {"idle", "claiming"} /\ UNCHANGED <<rec, copies, lostAcks>>
  BY DEF BeginDrain, BeginDispatch, NothingToClaim
<1>2. PICK b \in Activity : worker' = [worker EXCEPT ![w] = b] /\ b.pc \in {"idle", "claiming"}
  <2>1. 1 \in 0..Batch /\ Batch \in 0..Batch
    BY OutboxAssumption
  <2>2. CASE BeginDrain(w)
    <3> DEFINE b == [Resting EXCEPT !.pc = "claiming", !.left = Batch]
    <3>1. b \in Activity /\ b.pc = "claiming" /\ worker' = [worker EXCEPT ![w] = b]
      BY <2>1, <2>2, RestTyped DEF Activity, BeginDrain
    <3> QED
      BY <3>1
  <2>3. CASE \E m \in Message : BeginDispatch(w, m)
    <3> PICK m \in Message : BeginDispatch(w, m)
      BY <2>3
    <3> DEFINE b == [Resting EXCEPT !.pc = "claiming", !.left = 1, !.target = m]
    <3>1. b \in Activity /\ b.pc = "claiming" /\ worker' = [worker EXCEPT ![w] = b]
      BY <2>1, RestTyped DEF Activity, BeginDispatch
    <3> QED
      BY <3>1
  <2>4. CASE NothingToClaim(w)
    BY <2>4, RestTyped DEF NothingToClaim
  <2> QED
    BY <2>2, <2>3, <2>4
<1>3. ~\E m \in Message : Accepted(w, m)
  BY <1>1 DEF Accepted
<1> QED
  BY <1>1, <1>2, <1>3, FreeOwned

LEMMA ClaimOwned ==
  ASSUME MaxAge \leq Lease, Typed, OwnedInv, NEW w \in Worker, ClaimNext(w)
  PROVE  OwnedInv'
<1>1. PICK m \in Message : Take(w, m) /\ Claimable(m, worker[w].age)
  BY DEF ClaimNext, Claimed
<1>2. worker[w].pc = "claiming" /\ UNCHANGED <<copies, lostAcks>>
  BY DEF ClaimNext
<1> DEFINE n == rec[m].attempts + 1
           r == [status |-> "sending", due |-> rec[m].due, lockedBy |-> w, lease |-> Lease - worker[w].age,
                 attempts |-> n]
           b == [worker[w] EXCEPT !.pc = "sending", !.msg = m, !.attempts = n]
<1>3. worker[w] \in Activity /\ worker[w].age \in Nat
  BY Spares, OutboxAssumption DEF Typed, TypeOK, Activity
<1>4. rec' = [rec EXCEPT ![m] = r] /\ worker' = [worker EXCEPT ![w] = b]
  BY <1>1, <1>3 DEF Take, Typed, TypeOK
<1>5. r.status = "sending" /\ r.lockedBy = w /\ r.lease + worker[w].age = Lease
  BY <1>3, OutboxAssumption
<1>6. b.pc = "sending" /\ b.msg = m /\ b.age = worker[w].age
  BY <1>3 DEF Activity
<1> HIDE DEF n, r, b
<1>7. /\ \A x \in Message : rec'[x] = IF x = m THEN r ELSE rec[x]
      /\ \A v \in Worker : worker'[v] = IF v = w THEN b ELSE worker[v]
  BY <1>4 DEF Typed, TypeOK
<1>8. rec[m].status # "sent" /\ (rec[m].status = "sending" => rec[m].lease \leq -worker[w].age)
  BY <1>1 DEF Claimable
<1>9. ASSUME NEW v \in Worker, Working(v) PROVE worker[v].msg # m /\ v # w
  <2>1. Holds(v) /\ rec[worker[v].msg].lease \in Int /\ rec[worker[v].msg].lease > 0
    BY <1>9, LeaseHolds DEF OwnedInv
  <2> QED
    BY <1>2, <1>3, <1>8, <1>9, <2>1 DEF Holds, Working
<1>10. Mine'
  <2> SUFFICES ASSUME NEW v \in Worker, Working(v)'
               PROVE  Holds(v)' /\ rec'[worker'[v].msg].lease + worker'[v].age = Lease
    BY DEF Mine
  <2>1. CASE v = w
    BY <1>5, <1>6, <1>7, <2>1 DEF Holds
  <2>2. CASE v # w
    <3>1. Working(v) /\ worker'[v] = worker[v]
      BY <1>7, <2>2 DEF Working
    <3>2. worker[v].msg \in Message /\ worker[v].msg # m
      BY <1>9, <3>1, LeaseHolds DEF OwnedInv
    <3>3. Holds(v) /\ rec[worker[v].msg].lease + worker[v].age = Lease /\ rec'[worker[v].msg] = rec[worker[v].msg]
      BY <1>7, <3>1, <3>2 DEF OwnedInv, Mine
    <3> QED
      BY <3>1, <3>3 DEF Holds
  <2> QED
    BY <2>1, <2>2
<1>11. \A x \in Message : rec[x].status = "sent" => rec'[x].status = "sent"
  BY <1>7, <1>8
<1>12. \A x \in Message : \A v \in Worker : Accepted(v, x) => Accepted(v, x)'
  BY <1>2, <1>7 DEF Accepted
<1>13. \A x \in Message : Paid(x)'
  BY <1>2, <1>11, <1>12 DEF OwnedInv, Paid
<1> QED
  BY <1>10, <1>13 DEF OwnedInv

LEMMA SendOwned ==
  ASSUME Typed, OwnedInv, NEW w \in Worker, Unsendable(w) \/ \E answer \in Answer : Send(w, answer)
  PROVE  OwnedInv'
<1>1. PICK answer \in Answer :
        /\ worker' = [worker EXCEPT ![w].pc = "marking", ![w].answer = answer]
        /\ \/ copies' = copies
           \/ answer = "accepted" /\ copies' = [copies EXCEPT ![worker[w].msg] = @ + 1]
  BY DEF Unsendable, Send, Answer
<1> DEFINE m == worker[w].msg
           b == [worker[w] EXCEPT !.pc = "marking", !.answer = answer]
<1>2. worker[w].pc = "sending" /\ UNCHANGED <<rec, lostAcks>>
  BY DEF Unsendable, Send
<1>3. worker[w] \in Activity /\ m \in Message
  BY <1>2 DEF Typed, TypeOK, Timely
<1>4. worker' = [worker EXCEPT ![w] = b]
  BY <1>1, <1>3 DEF Typed, TypeOK
<1>5. b.pc = "marking" /\ b.msg = m /\ b.age = worker[w].age /\ b.answer = answer
  BY <1>3 DEF Activity
<1> HIDE DEF b
<1>6. \A v \in Worker : worker'[v] = IF v = w THEN b ELSE worker[v]
  BY <1>4 DEF Typed, TypeOK
<1>7. Mine'
  BY <1>2, <1>5, <1>6 DEF OwnedInv, Mine, Working, Holds
<1>8. \A x \in Message : \A v \in Worker : Accepted(v, x) => Accepted(v, x)'
  BY <1>2, <1>6 DEF Accepted
<1>9. ASSUME NEW x \in Message PROVE Paid(x)'
  <2>1. CASE copies'[x] = copies[x]
    BY <1>2, <1>8, <2>1 DEF OwnedInv, Paid
  <2>2. CASE x = m /\ answer = "accepted" /\ copies'[x] = copies[x] + 1
    <3>1. ~\E v \in Worker : Accepted(v, m)
      BY <1>2, OneOwner DEF Accepted, Working, OwnedInv
    <3>2. rec[m].status # "sent"
      BY <1>2 DEF OwnedInv, Mine, Working, Holds
    <3>3. copies[m] \leq lostAcks[m] /\ copies[m] \in Nat /\ lostAcks[m] \in Nat
      BY <1>3, <3>1, <3>2 DEF OwnedInv, Paid, Typed, TypeOK
    <3>4. Accepted(w, x)'
      BY <1>5, <1>6, <2>2 DEF Accepted
    <3>5. copies'[x] \leq lostAcks'[x] + 1
      BY <1>2, <2>2, <3>3
    <3> QED
      BY <3>4, <3>5 DEF Paid
  <2>3. copies'[x] = copies[x] \/ (x = m /\ answer = "accepted" /\ copies'[x] = copies[x] + 1)
    BY <1>1, <1>3 DEF Typed, TypeOK
  <2> QED
    BY <2>1, <2>2, <2>3
<1> QED
  BY <1>7, <1>9 DEF OwnedInv

LEMMA MarkOwned ==
  ASSUME Typed, BudgetInv, OwnedInv, NEW w \in Worker, Mark(w)
  PROVE  OwnedInv'
<1> DEFINE m == worker[w].msg
           r == Outcome(w)
<1>1. /\ worker[w].pc = "marking" /\ NextMessage(w) /\ Holds(w)
      /\ UNCHANGED <<copies, tries, lostAcks, requeues>>
      /\ rec' = [rec EXCEPT ![m] = r]
  BY DEF Mark, OwnedInv, Mine, Working
<1>2. r \in Record /\ r.attempts = rec[m].attempts /\ r.status \in {"sent", "dead", "retrying"}
      /\ (worker[w].answer = "accepted" => r.status = "sent")
  BY <1>1, OutcomeTyped
<1> HIDE DEF r
<1>3. m \in Message
  BY <1>1 DEF Typed, Timely
<1>4. \A x \in Message : rec'[x] = IF x = m THEN r ELSE rec[x]
  BY <1>1 DEF Typed, TypeOK
<1>5. rec[m].status = "sending"
  BY <1>1 DEF Holds
<1>6. (\A v \in Worker : v # w => worker'[v] = worker[v]) /\ worker'[w].pc \in {"idle", "claiming"}
  <2>1. \A v \in Worker : v # w => worker'[v] = worker[v]
    BY <1>1 DEF NextMessage, Typed, TypeOK
  <2>2. CASE worker[w].left > 1
    <3> DEFINE b == [Resting EXCEPT !.pc = "claiming", !.left = worker[w].left - 1,
                                    !.age = worker[w].age, !.target = worker[w].target]
    <3>1. worker'[w] = b
      BY <1>1, <2>2 DEF NextMessage, Typed, TypeOK
    <3>2. b.pc = "claiming"
      BY RestTyped DEF Activity
    <3> QED
      BY <2>1, <3>1, <3>2
  <2>3. CASE ~(worker[w].left > 1)
    BY <1>1, <2>1, <2>3, RestTyped DEF NextMessage, Typed, TypeOK
  <2> QED
    BY <2>2, <2>3
<1>7. Mine'
  <2> SUFFICES ASSUME NEW v \in Worker, Working(v)'
               PROVE  Holds(v)' /\ rec'[worker'[v].msg].lease + worker'[v].age = Lease
    BY DEF Mine
  <2>1. v # w /\ worker'[v] = worker[v] /\ Working(v)
    BY <1>6 DEF Working
  <2>2. worker[v].msg # m /\ worker[v].msg \in Message
    BY <1>1, <2>1, OneOwner DEF OwnedInv, Working, Typed, Timely
  <2>3. Holds(v) /\ rec[worker[v].msg].lease + worker[v].age = Lease /\ rec'[worker[v].msg] = rec[worker[v].msg]
    BY <1>4, <2>1, <2>2 DEF OwnedInv, Mine
  <2> QED
    BY <2>1, <2>3 DEF Holds
<1>8. ASSUME NEW x \in Message PROVE Paid(x)'
  <2>1. CASE x = m
    <3>1. CASE r.status = "sent"
      BY <1>1, <1>4, <2>1, <3>1 DEF OwnedInv, Paid
    <3>2. CASE r.status # "sent"
      <4>1. ~\E v \in Worker : Accepted(v, m)
        BY <1>1, <1>2, <3>2, OneOwner DEF Accepted, Working, OwnedInv
      <4> QED
        BY <1>1, <1>3, <1>5, <2>1, <4>1 DEF OwnedInv, Paid
    <3> QED
      BY <3>1, <3>2
  <2>2. CASE x # m
    <3>1. \A v \in Worker : Accepted(v, x) => Accepted(v, x)'
      BY <1>6, <2>2 DEF Accepted
    <3> QED
      BY <1>1, <1>4, <2>2, <3>1 DEF OwnedInv, Paid
  <2> QED
    BY <2>1, <2>2
<1> QED
  BY <1>7, <1>8 DEF OwnedInv

\* A worker whose accept is lost with it, or turned into a failed send.
LEMMA LossOwned ==
  ASSUME Typed, OwnedInv, NEW w \in Worker, NEW b \in Activity, worker' = [worker EXCEPT ![w] = b],
         b = Resting \/ (worker[w].pc = "marking" /\ b = [worker[w] EXCEPT !.answer = "transient"]),
         lostAcks' = IF worker[w].pc = "marking" /\ worker[w].answer = "accepted"
                       THEN [lostAcks EXCEPT ![worker[w].msg] = @ + 1] ELSE lostAcks,
         UNCHANGED <<rec, copies>>
  PROVE  OwnedInv'
<1>1. \A v \in Worker : worker'[v] = IF v = w THEN b ELSE worker[v]
  BY DEF Typed, TypeOK
<1>2. \/ b.pc = "idle"
      \/ /\ worker[w].pc = "marking" /\ b.pc = "marking" /\ b.msg = worker[w].msg /\ b.age = worker[w].age
         /\ b.answer = "transient"
  BY RestTyped DEF Typed, TypeOK, Activity
<1>3. Mine'
  BY <1>1, <1>2 DEF OwnedInv, Mine, Working, Holds
<1>4. ASSUME NEW x \in Message PROVE Paid(x)'
  <2>1. copies[x] \in Nat /\ lostAcks[x] \in Nat /\ Paid(x)
    BY DEF OwnedInv, Typed, TypeOK
  <2>2. CASE Accepted(w, x)
    <3>1. lostAcks'[x] = lostAcks[x] + 1
      BY <2>2 DEF Accepted, Typed, TypeOK
    <3> QED
      BY <2>1, <3>1 DEF Paid
  <2>3. CASE ~Accepted(w, x)
    <3>1. lostAcks'[x] = lostAcks[x]
      BY <2>3 DEF Accepted, Typed, TypeOK
    <3>2. \A v \in Worker : Accepted(v, x) => Accepted(v, x)'
      BY <1>1, <2>3 DEF Accepted
    <3> QED
      BY <2>1, <3>1, <3>2 DEF Paid
  <2> QED
    BY <2>2, <2>3
<1> QED
  BY <1>3, <1>4 DEF OwnedInv

LEMMA FaultOwned ==
  ASSUME Typed, OwnedInv, NEW w \in Worker, WriteFails(w) \/ Crash(w)
  PROVE  OwnedInv'
<1> DEFINE again == [worker[w] EXCEPT !.answer = "transient"]
<1>1. UNCHANGED <<rec, copies>>
      /\ lostAcks' = IF worker[w].pc = "marking" /\ worker[w].answer = "accepted"
                       THEN [lostAcks EXCEPT ![worker[w].msg] = @ + 1] ELSE lostAcks
  BY DEF WriteFails, Crash
<1>2. again \in Activity
  BY DEF Typed, TypeOK, Activity, Answer
<1>3. \/ worker' = [worker EXCEPT ![w] = Resting]
      \/ worker[w].pc = "marking" /\ worker' = [worker EXCEPT ![w] = again]
  BY DEF WriteFails, Crash, Typed, TypeOK
<1> HIDE DEF again
<1>4. CASE worker' = [worker EXCEPT ![w] = Resting]
  BY <1>1, <1>4, RestTyped, LossOwned
<1>5. CASE worker[w].pc = "marking" /\ worker' = [worker EXCEPT ![w] = again]
  BY <1>1, <1>2, <1>5, LossOwned DEF again
<1> QED
  BY <1>3, <1>4, <1>5

LEMMA PassOwned ==
  ASSUME MaxAge \leq Lease, Typed, OwnedInv, Pass
  PROVE  OwnedInv'
<1>1. \A w \in Worker : /\ worker'[w].pc = worker[w].pc /\ worker'[w].msg = worker[w].msg
                         /\ worker'[w].answer = worker[w].answer
  BY Passed
<1>2. \A m \in Message : rec'[m].status = rec[m].status /\ rec'[m].lockedBy = rec[m].lockedBy
  BY Passed
<1>3. Mine'
  <2> SUFFICES ASSUME NEW w \in Worker, Working(w)'
               PROVE  Holds(w)' /\ rec'[worker'[w].msg].lease + worker'[w].age = Lease
    BY DEF Mine
  <2>0. Working(w) /\ worker[w].pc # "idle"
    BY <1>1 DEF Working
  <2>1. Working(w) /\ worker'[w].msg = worker[w].msg /\ worker'[w].age = worker[w].age + 1
    BY <2>0, Passed
  <2>2. /\ worker[w].msg \in Message /\ Holds(w) /\ rec[worker[w].msg].lease \in Int
        /\ rec[worker[w].msg].lease > 0 /\ rec[worker[w].msg].lease + worker[w].age = Lease
    BY <2>1, LeaseHolds DEF OwnedInv
  <2>3. worker[w].age \in Int /\ MaxAge \in Nat
    BY Spares, OutboxAssumption DEF Typed, TypeOK, Activity
  <2>4. rec'[worker[w].msg].lease = Older(rec[worker[w].msg].lease)
    BY <2>2, Passed DEF Holds
  <2>5. Older(rec[worker[w].msg].lease) = rec[worker[w].msg].lease - 1
    BY <2>2, <2>3 DEF Older
  <2>6. Holds(w)'
    BY <1>2, <2>1, <2>2 DEF Holds
  <2> QED
    BY <2>1, <2>2, <2>3, <2>4, <2>5, <2>6, OutboxAssumption
<1>4. \A m \in Message : Paid(m)'
  BY <1>1, <1>2, Passed DEF OwnedInv, Paid, Accepted
<1> QED
  BY <1>3, <1>4 DEF OwnedInv

LEMMA NextOwned ==
  ASSUME MaxAge \leq Lease
  PROVE  Typed /\ BudgetInv /\ OwnedInv /\ [Next]_vars => OwnedInv'
<1> SUFFICES ASSUME Typed, BudgetInv, OwnedInv, [Next]_vars PROVE OwnedInv'
  OBVIOUS
<1>1. ASSUME NEW m \in Message, Enqueue(m) \/ RequeueDead(m) PROVE OwnedInv'
  BY <1>1, EnqueueOwned
<1>2. ASSUME NEW w \in Worker, BeginDrain(w) \/ \E m \in Message : BeginDispatch(w, m) PROVE OwnedInv'
  BY <1>2, BeginOwned
<1>3. ASSUME NEW w \in Worker, Work(w) PROVE OwnedInv'
  BY <1>3, ClaimOwned, BeginOwned, SendOwned, MarkOwned, FaultOwned DEF Work
<1>4. ASSUME NEW w \in Worker, Crash(w) PROVE OwnedInv'
  BY <1>4, FaultOwned
<1>5. CASE UNCHANGED vars
  BY <1>5 DEF vars, OwnedInv, Mine, Working, Holds, Paid, Accepted
<1> QED
  BY <1>1, <1>2, <1>3, <1>4, <1>5, PassOwned DEF Next

\* outbox.service.js claimNext and deliverClaimed: where a lease outlasts what
\* a batch may take, no claim lapses under a worker that lives, so every
\* further copy of a message is owed to one accept whose `sent` write was lost
\* (DuplicateOnlyAcrossLostAck).
THEOREM OneCopyPerLostAck ==
  ASSUME MaxAge \leq Lease
  PROVE  Spec => []DuplicateOnlyAcrossLostAck
<1>1. Typed /\ BudgetInv /\ OwnedInv /\ [Next]_vars => OwnedInv'
  BY NextOwned
<1>2. Typed /\ OwnedInv => DuplicateOnlyAcrossLostAck
  BY DEF OwnedInv, Paid, Typed, TypeOK, DuplicateOnlyAcrossLostAck
<1> QED
  BY <1>1, <1>2, InitOwned, AlwaysInv, PTL DEF Spec

----------------------------------------------------------------------------
(* Stale outcomes.                                                         *)

\* A worker is moved by its own steps and by time only.
LEMMA OthersRest ==
  ASSUME Typed, NEW v \in Worker, BeginDrain(v) \/ (\E m \in Message : BeginDispatch(v, m)) \/ Work(v) \/ Crash(v)
  PROVE  \A w \in Worker : w # v => worker'[w] = worker[w]
<1>1. CASE BeginDrain(v) \/ (\E m \in Message : BeginDispatch(v, m)) \/ NothingToClaim(v) \/ Crash(v)
  BY <1>1 DEF BeginDrain, BeginDispatch, NothingToClaim, Crash, Typed, TypeOK
<1>2. CASE ClaimNext(v)
  BY <1>2 DEF ClaimNext, Take, Typed, TypeOK
<1>3. CASE Unsendable(v) \/ \E answer \in Answer : Send(v, answer)
  BY <1>3 DEF Unsendable, Send, Typed, TypeOK
<1>4. CASE Mark(v) \/ WriteFails(v)
  BY <1>4 DEF Mark, NextMessage, WriteFails, Typed, TypeOK
<1> QED
  BY <1>1, <1>2, <1>3, <1>4 DEF Work

\* outboundEmail.repository.js claimed: a worker that lost its claim writes
\* nothing when it is done, whoever holds the message now
\* (StaleOutcomeIgnored).
THEOREM LateOutcomesAreDropped == Spec => StaleOutcomeIgnored
<1> DEFINE Leaves(w) == worker[w].pc = "marking" /\ worker'[w] # worker[w] /\ worker'[w].pc # "marking"
           Dropped == \A w \in Worker : Leaves(w) /\ rec[worker[w].msg].lockedBy # w
                                        => rec'[worker[w].msg] = rec[worker[w].msg]
<1>1. ASSUME Typed, Next PROVE Dropped
  <2> SUFFICES ASSUME NEW w \in Worker, Leaves(w), rec[worker[w].msg].lockedBy # w
               PROVE  rec'[worker[w].msg] = rec[worker[w].msg]
    OBVIOUS
  <2>1. CASE BeginDrain(w) \/ Work(w) \/ Crash(w) \/ \E m \in Message : BeginDispatch(w, m)
    <3>1. Mark(w) \/ WriteFails(w) \/ Crash(w)
      BY <2>1 DEF BeginDrain, BeginDispatch, Work, ClaimNext, NothingToClaim, Unsendable, Send
    <3> QED
      BY <3>1 DEF Mark, Holds, WriteFails, Crash
  <2>2. ASSUME NEW v \in Worker, v # w,
               BeginDrain(v) \/ Work(v) \/ Crash(v) \/ \E m \in Message : BeginDispatch(v, m)
        PROVE  FALSE
    BY <1>1, <2>2, OthersRest
  <2>3. CASE \E m \in Message : Enqueue(m) \/ RequeueDead(m)
    BY <2>3 DEF Enqueue, RequeueDead
  <2>4. CASE Pass
    BY <1>1, <2>4, Passed
  <2> QED
    BY <1>1, <2>1, <2>2, <2>3, <2>4 DEF Next
<1>2. Typed /\ BudgetInv /\ [Next]_vars => [Dropped]_vars
  BY <1>1
<1>3. [Dropped]_vars => [\A w \in Worker :
       /\ worker[w].pc = "marking" /\ worker'[w] # worker[w] /\ worker'[w].pc # "marking"
       /\ rec[worker[w].msg].lockedBy # w
       => rec'[worker[w].msg] = rec[worker[w].msg]]_vars
  OBVIOUS
<1> HIDE DEF Dropped
<1> QED
  BY <1>2, <1>3, AlwaysInv, PTL DEF Spec, StaleOutcomeIgnored
=============================================================================
