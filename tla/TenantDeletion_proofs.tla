------------------------ MODULE TenantDeletion_proofs ------------------------
(***************************************************************************)
(* Proofs about TenantDeletion, for any number of requests, workers,       *)
(* attempts, deletion records and faults.                                  *)
(***************************************************************************)
EXTENDS TenantDeletion, TLAPS

Over(i) == records[i].status \in {"purged", "cancelled"}
Doomed(i) == records[i].status \in {"purging", "failed", "purged"}
Shut == Exists => status \notin {"active", "pending"}

\* Only the newest record may be open, and a purge begins once the grace
\* period is over.
RecordsInv ==
  /\ records \in Seq(Record) /\ Len(records) \leq MaxRecords
  /\ \A i \in DOMAIN records :
       /\ ~Over(i) => i = Len(records)
       /\ records[i].status \in {"purging", "failed"} => records[i].grace = 0

\* What a request under way knows. It began after every record that has come
\* nearer to its purge; one that is about to reopen the workspace knows every
\* record that was there when it began to be over; none reopens an aged
\* archive.
Knows(r) ==
  /\ req[r].since \leq 2 * Len(records) + 1
  /\ req[r].pc \in {"closing", "withdrawing", "cancelling", "looking"} => req[r].rec \in DOMAIN records
  /\ req[r].pc \in {"guarding", "writing"} => req[r].to # "none"
  /\ req[r].pc = "cancelling" => req[r].since \leq 2 * req[r].rec + 1
  /\ ~aged => \A i \in DOMAIN records : records[i].grace < 2 => 2 * i \leq req[r].since
  /\ req[r].pc = "looking" \/ (req[r].pc = "writing" /\ req[r].to = "active") =>
       \A i \in DOMAIN records : 2 * i \leq req[r].since => Over(i)
  /\ aged => req[r].pc \in {"cancelling", "looking"}

RequestsInv ==
  /\ req \in [Request -> {Idle} \cup ReqBusy]
  /\ \A r \in Request : req[r] # Idle => Knows(r)

\* What a purge may not overlook.
Kept == data \ stray

\* What a purge under way has done: its record is doomed, it found the
\* workspace shut before the first delete, and all it has passed, or counted
\* and found gone, was written late.
Purges(w) ==
  /\ worker[w].rec \in DOMAIN records /\ Doomed(worker[w].rec)
  /\ worker[w].pc \in {"collecting", "checking"} => worker[w].at = 1
  /\ worker[w].pc = "deleting" => worker[w].at \leq 4
  /\ worker[w].pc \in {"deleting", "storing", "counting"} => Shut
  /\ \A x \in Kept : ~Overlooks(worker[w], x)

WorkersInv ==
  /\ worker \in [Worker -> {Idle} \cup WorkerBusy]
  /\ \A w \in Worker : worker[w] # Idle => Purges(w)

\* What is left of the workspace: a permission without its role was written
\* late, and so was all that is there once a purge is called done.
DataInv ==
  /\ data \subseteq All \cup Writable /\ stray \subseteq data \cap Writable
  /\ \A x \in Kept : x.of = "RolePermission" => RoleOf(x.role) \in data
  /\ ~(All \subseteq data) => Shut /\ \E i \in DOMAIN records : Doomed(i)
  /\ Purged => Kept = {}

RestInv ==
  /\ status \in {"pending", "active", "suspended", "disabled", "archived"}
  /\ aged => status = "archived"
  /\ writes \subseteq Writable /\ aged \in BOOLEAN
  /\ budget \in 0..MaxFaults

IInv == RecordsInv /\ RequestsInv /\ WorkersInv /\ DataInv /\ RestInv

----------------------------------------------------------------------------
(* The records.                                                            *)

LEMMA Records ==
  ASSUME RecordsInv
  PROVE  /\ DOMAIN records = 1..Len(records) /\ Len(records) \in Nat
         /\ \A i \in DOMAIN records : records[i] \in Record
BY DEF RecordsInv

LEMMA RegistryIs ==
  /\ Len(PURGE_REGISTRY) = 4
  /\ PURGE_REGISTRY[1] = "LoginAttempt" /\ PURGE_REGISTRY[2] = "RolePermission"
  /\ PURGE_REGISTRY[3] = "Role" /\ PURGE_REGISTRY[4] = "Tenant"
BY DEF PURGE_REGISTRY

LEMMA CountedIs ==
  /\ Len(Counted) = 5 /\ DOMAIN Counted = 1..5
  /\ \A i \in 1..4 : Counted[i] = PURGE_REGISTRY[i]
  /\ Counted[5] = "Storage"
  /\ Range(Counted) = {"LoginAttempt", "RolePermission", "Role", "Tenant", "Storage"}
<1>2. /\ Len(Counted) = 5 /\ DOMAIN Counted = 1..5 /\ Counted[5] = "Storage"
      /\ \A i \in 1..4 : Counted[i] = PURGE_REGISTRY[i]
  BY DEF Counted, PURGE_REGISTRY
<1>3. 1..5 = {1, 2, 3, 4, 5}
  OBVIOUS
<1>4. /\ Counted[1] = "LoginAttempt" /\ Counted[2] = "RolePermission"
      /\ Counted[3] = "Role" /\ Counted[4] = "Tenant"
  BY <1>2, RegistryIs
<1>5. Range(Counted) = {"LoginAttempt", "RolePermission", "Role", "Tenant", "Storage"}
  BY <1>2, <1>3, <1>4 DEF Range
<1> QED
  BY <1>2, <1>5

\* Every document is of a collection that is counted, and the permissions'
\* roles have ids.
LEMMA Documents ==
  ASSUME NEW x \in All \cup Writable
  PROVE  /\ x.of \in Range(Counted)
         /\ x.of = "RolePermission" => x.role \in RoleId
BY CountedIs, DeletionAssumption DEF All, Writable, Attempt, RoleOf, Grant, Doc

LEMMA TenantIsNotWritten == Doc("Tenant", None) \notin Writable
BY DEF Writable, Attempt, RoleOf, Grant, Doc

\* What a purge overlooks, place by place.
LEMMA Overlooked ==
  ASSUME NEW b, NEW x
  PROVE  /\ b.pc = "collecting" => ~Overlooks(b, x)
         /\ b.pc = "checking" => (Overlooks(b, x) <=> x.of = "RolePermission" /\ x.role \notin b.roles)
         /\ b.pc = "deleting" /\ b.at \in 1..4 =>
              (Overlooks(b, x) <=> x.of = "RolePermission" /\ (x.role \notin b.roles \/ b.at > 2))
         /\ b.pc = "storing" => (Overlooks(b, x) <=> x.of = "RolePermission")
         /\ b.pc = "counting" =>
              (Overlooks(b, x) <=> \/ x.of = "RolePermission"
                                  \/ (b.ok /\ \E i \in 1..b.at - 1 : x.of = Counted[i]))
         /\ b.pc = "marking" => (Overlooks(b, x) <=> b.ok /\ x.of \in Range(Counted))
<1>1. b.pc = "deleting" /\ b.at \in 1..4 => (PURGE_REGISTRY[b.at] \in {"Role", "Tenant"} <=> b.at > 2)
  BY RegistryIs
<1>2. b.pc = "counting" /\ b.ok => Cleared(b) = {Counted[i] : i \in 1..b.at - 1}
  BY DEF Cleared
<1>3. b.pc = "marking" /\ b.ok => Cleared(b) = Range(Counted)
  BY DEF Cleared
<1>4. ~(b.pc \in {"counting", "marking"} /\ b.ok) => Cleared(b) = {}
  BY DEF Cleared
<1>5. b.pc = "collecting" => ~Overlooks(b, x)
  BY <1>4 DEF Overlooks, Passes
<1>6. b.pc = "checking" => (Overlooks(b, x) <=> x.of = "RolePermission" /\ x.role \notin b.roles)
  BY <1>4 DEF Overlooks, Passes
<1>7. b.pc = "deleting" /\ b.at \in 1..4 =>
        (Overlooks(b, x) <=> x.of = "RolePermission" /\ (x.role \notin b.roles \/ b.at > 2))
  BY <1>1, <1>4 DEF Overlooks, Passes
<1>8. b.pc = "storing" => (Overlooks(b, x) <=> x.of = "RolePermission")
  BY <1>4 DEF Overlooks, Passes
<1>9. CASE b.pc = "counting"
  <2>1. Overlooks(b, x) <=> x.of = "RolePermission" \/ x.of \in Cleared(b)
    BY <1>9 DEF Overlooks, Passes
  <2>2. x.of \in Cleared(b) <=> b.ok /\ \E i \in 1..b.at - 1 : x.of = Counted[i]
    BY <1>2, <1>4, <1>9
  <2> QED
    BY <1>9, <2>1, <2>2
<1>10. b.pc = "marking" => (Overlooks(b, x) <=> b.ok /\ x.of \in Range(Counted))
  BY <1>3, <1>4 DEF Overlooks, Passes
<1> QED
  BY <1>5, <1>6, <1>7, <1>8, <1>9, <1>10

\* How the records of a step may differ: those that are over and those that
\* are doomed stay so, and what is new is scheduled.
Advance ==
  /\ Len(records') \in Nat /\ Len(records) \leq Len(records')
  /\ DOMAIN records' = 1..Len(records')
  /\ \A i \in DOMAIN records :
       /\ Over(i) => records'[i].status = records[i].status
       /\ Doomed(i) => records'[i].status \in {"purging", "failed", "purged"}
  /\ \A i \in DOMAIN records' : i \notin DOMAIN records => i = Len(records) + 1 /\ records'[i].status = "scheduled"

\* No purge is called done.
NoVerdict ==
  \A i \in DOMAIN records' :
    records'[i].status = "purged" => i \in DOMAIN records /\ records[i].status = "purged"
\* No grace period gets shorter.
NoTime ==
  \A i \in DOMAIN records' :
    records'[i].grace < 2 => IF i \in DOMAIN records THEN records[i].grace < 2 ELSE aged

\* One record changes.
LEMMA OneRecord ==
  ASSUME RecordsInv, NEW i \in DOMAIN records, NEW d \in Record,
         records' = [records EXCEPT ![i] = d],
         Over(i) => d.status = records[i].status,
         Doomed(i) => d.status \in {"purging", "failed", "purged"},
         d.status \in {"purging", "failed"} => d.grace = 0
  PROVE  /\ RecordsInv' /\ Advance
         /\ (d.status = "purged" => records[i].status = "purged") => NoVerdict
         /\ (d.grace < 2 => records[i].grace < 2) => NoTime
         /\ \A j \in DOMAIN records : records'[j] = IF j = i THEN d ELSE records[j]
<1>1. DOMAIN records = 1..Len(records) /\ Len(records) \in Nat
  BY Records
<1>2. records' \in Seq(Record) /\ Len(records') = Len(records) /\ DOMAIN records' = DOMAIN records
  BY DEF RecordsInv
<1>3. \A j \in DOMAIN records : records'[j] = IF j = i THEN d ELSE records[j]
  BY DEF RecordsInv
<1>4. RecordsInv'
  BY <1>1, <1>2, <1>3 DEF RecordsInv, Over
<1>5. Advance
  BY <1>1, <1>2, <1>3 DEF Advance, Over, Doomed
<1> QED
  BY <1>1, <1>2, <1>3, <1>4, <1>5 DEF NoVerdict, NoTime

\* A record is added when none is open.
LEMMA NewRecord ==
  ASSUME RecordsInv, NEW d \in Record, records' = Append(records, d), d.status = "scheduled",
         \A i \in DOMAIN records : Over(i), Len(records) < MaxRecords
  PROVE  /\ RecordsInv' /\ Advance /\ NoVerdict
         /\ (d.grace < 2 => aged) => NoTime
         /\ Len(records') = Len(records) + 1
         /\ \A j \in DOMAIN records : records'[j] = records[j]
<1>1. DOMAIN records = 1..Len(records) /\ Len(records) \in Nat
  BY Records
<1>2. records' \in Seq(Record) /\ Len(records') = Len(records) + 1 /\ DOMAIN records' = 1..Len(records) + 1
  BY DEF RecordsInv
<1>3. \A j \in DOMAIN records : records'[j] = records[j]
  BY <1>1 DEF RecordsInv
<1>4. records'[Len(records) + 1] = d
  BY <1>1 DEF RecordsInv
<1>5. RecordsInv'
  BY <1>1, <1>2, <1>3, <1>4, DeletionAssumption DEF RecordsInv, Over
<1>6. Advance
  BY <1>1, <1>2, <1>3, <1>4 DEF Advance, Over, Doomed
<1> QED
  BY <1>1, <1>2, <1>3, <1>4, <1>5, <1>6 DEF NoVerdict, NoTime

LEMMA SameRecords ==
  ASSUME RecordsInv, UNCHANGED records
  PROVE  RecordsInv' /\ Advance /\ NoVerdict /\ NoTime
BY Records DEF RecordsInv, Advance, NoVerdict, NoTime, Over, Doomed

----------------------------------------------------------------------------
(* The requests.                                                           *)

\* A request that does not move knows as much after the step.
LEMMA KnowsKept ==
  ASSUME RecordsInv, RequestsInv, Advance, UNCHANGED aged,
         NEW r \in Request, req[r] # Idle, req'[r] = req[r],
         NoTime \/ \A i \in DOMAIN records' : records'[i].grace < 2 => 2 * i \leq req[r].since
  PROVE  Knows(r)'
<1>1. DOMAIN records = 1..Len(records) /\ Len(records) \in Nat
  BY Records
<1>2. req[r].since \in Nat /\ Knows(r)
  BY DeletionAssumption DEF RequestsInv, ReqBusy
<1>3. \A i \in DOMAIN records' : 2 * i \leq req[r].since => i \in DOMAIN records
  BY <1>1, <1>2 DEF Advance, Knows
<1>4. \A i \in DOMAIN records : Over(i) => Over(i)'
  BY DEF Advance, Over
<1> QED
  BY <1>1, <1>2, <1>3, <1>4 DEF Advance, NoTime, Knows

LEMMA SameRequests ==
  ASSUME RecordsInv, RequestsInv, Advance, UNCHANGED <<req, aged>>,
         \/ NoTime
         \/ \A r \in Request : req[r] # Idle =>
              \A i \in DOMAIN records' : records'[i].grace < 2 => 2 * i \leq req[r].since
  PROVE  RequestsInv'
BY KnowsKept DEF RequestsInv

LEMMA OneRequest ==
  ASSUME RecordsInv, RequestsInv, Advance, NoTime, UNCHANGED aged,
         NEW r \in Request, NEW b \in {Idle} \cup ReqBusy, req' = [req EXCEPT ![r] = b],
         b # Idle => Knows(r)'
  PROVE  RequestsInv'
<1>1. \A q \in Request : req'[q] = IF q = r THEN b ELSE req[q]
  BY DEF RequestsInv
<1>2. req' \in [Request -> {Idle} \cup ReqBusy]
  BY DEF RequestsInv
<1>3. ASSUME NEW q \in Request, req'[q] # Idle PROVE Knows(q)'
  <2>1. CASE q = r
    BY <1>1, <1>3, <2>1
  <2>2. CASE q # r
    BY <1>1, <1>3, <2>2, KnowsKept
  <2> QED
    BY <2>1, <2>2
<1> QED
  BY <1>2, <1>3 DEF RequestsInv

LEMMA RequestDone ==
  ASSUME RecordsInv, RequestsInv, Advance, NoTime, UNCHANGED aged, NEW r \in Request, Done(r)
  PROVE  RequestsInv'
BY OneRequest DEF Done

\* A request that moves to another place, or aims at another record or status.
LEMMA RequestMoves ==
  ASSUME RecordsInv, RequestsInv, Advance, NoTime, UNCHANGED aged, NEW r \in Request, req[r].pc # "idle",
         NEW pc \in {"requesting", "closing", "withdrawing", "cancelling", "looking", "guarding", "writing"},
         NEW rec \in 0..MaxRecords, NEW to \in {"none", "active", "suspended", "disabled", "archived"},
         req' = [req EXCEPT ![r].pc = pc, ![r].rec = rec, ![r].to = to],
         pc \in {"closing", "withdrawing", "cancelling", "looking"} => rec \in DOMAIN records',
         pc # "cancelling", pc \in {"guarding", "writing"} => to # "none",
         pc = "looking" \/ (pc = "writing" /\ to = "active") =>
           \A i \in DOMAIN records' : 2 * i \leq req[r].since => Over(i)',
         aged => pc \in {"cancelling", "looking"}
  PROVE  RequestsInv'
<1>1. req[r] \in ReqBusy /\ req[r] # Idle
  BY DEF RequestsInv, Idle
<1> DEFINE b == [req[r] EXCEPT !.pc = pc, !.rec = rec, !.to = to]
<1>2. b \in ReqBusy /\ b.pc = pc /\ b.rec = rec /\ b.to = to /\ b.since = req[r].since
  BY <1>1 DEF ReqBusy
<1>3. req' = [req EXCEPT ![r] = b]
  BY <1>1 DEF RequestsInv
<1> HIDE DEF b
<1>4. req'[r] = b
  BY <1>3 DEF RequestsInv
<1>5. DOMAIN records = 1..Len(records) /\ Len(records) \in Nat
  BY Records
<1>6. req[r].since \in Nat /\ Knows(r)
  BY <1>1, DeletionAssumption DEF RequestsInv, ReqBusy
<1>7. Knows(r)'
  <2>1. b.since \leq 2 * Len(records') + 1
    BY <1>2, <1>5, <1>6 DEF Knows, Advance
  <2>2. ~aged => \A i \in DOMAIN records' : records'[i].grace < 2 => 2 * i \leq b.since
    BY <1>2, <1>5, <1>6 DEF Knows, Advance, NoTime
  <2> QED
    BY <1>2, <1>4, <2>1, <2>2 DEF Knows
<1> QED
  BY <1>2, <1>3, <1>7, OneRequest

\* Halves of grace periods are counted within the clock's type.
LEMMA Halves ==
  ASSUME NEW n \in Nat, NEW m \in Nat, n \leq m, NEW k \in {0, 1}
  PROVE  /\ 2 * n + k \in 0..2 * m + 1 /\ 2 * n + k \leq 2 * n + 1
         /\ \A i \in 1..n : 2 * i \leq 2 * n + k
OBVIOUS

\* A request that begins knows the records there are.
LEMMA RequestBegins ==
  ASSUME RecordsInv, RequestsInv, RestInv, NEW r \in Request,
         NEW pc \in {"requesting", "cancelling", "guarding", "writing"},
         NEW rec \in 0..MaxRecords, NEW to \in {"none", "active", "suspended", "disabled", "archived"},
         Begin(r, pc, rec, to),
         pc = "cancelling" => rec = Len(records) /\ rec \in DOMAIN records,
         pc = "writing" => to \notin {"none", "active"}, pc = "guarding" => to # "none",
         aged => pc = "cancelling"
  PROVE  RequestsInv'
<1>1. DOMAIN records = 1..Len(records) /\ Len(records) \in Nat /\ Len(records) \leq MaxRecords
  BY Records DEF RecordsInv
<1>2. PICK k \in {0, 1} : Clock = 2 * Len(records) + k
  BY DEF Clock
<1> DEFINE c == Clock
<1>3. /\ c \in 0..2 * MaxRecords + 1 /\ c \leq 2 * Len(records) + 1
      /\ \A i \in DOMAIN records : 2 * i \leq c
  BY <1>1, <1>2, Halves, DeletionAssumption
<1>7. c = Clock
  OBVIOUS
<1> HIDE DEF c
<1> DEFINE b == [pc |-> pc, since |-> c, rec |-> rec, to |-> to]
<1>4. b \in ReqBusy /\ b.pc = pc /\ b.rec = rec /\ b.to = to /\ b.since = c
  BY <1>3 DEF ReqBusy
<1>5. req' = [req EXCEPT ![r] = b] /\ UNCHANGED <<records, aged>>
  BY <1>7 DEF Begin
<1> HIDE DEF b
<1>6. req'[r] = b
  BY <1>5 DEF RequestsInv
<1>8. Knows(r)'
  BY <1>1, <1>3, <1>4, <1>5, <1>6 DEF Knows
<1> QED
  BY <1>4, <1>5, <1>8, SameRecords, OneRequest

----------------------------------------------------------------------------
(* The purges and what they leave.                                         *)

\* A workspace that a purge may take from stays shut.
ShutHolds == Shut /\ (\E i \in DOMAIN records : Doomed(i)) => Shut'
\* What is written where no purge will notice it is known as late.
NothingMissed == \A x \in Kept' : x \in Kept \/ ~Late(x)

LEMMA PurgesKept ==
  ASSUME RecordsInv, WorkersInv, Advance, ShutHolds, NothingMissed,
         NEW w \in Worker, worker[w] # Idle, worker'[w] = worker[w]
  PROVE  Purges(w)'
<1>1. DOMAIN records = 1..Len(records) /\ Len(records) \in Nat
  BY Records
<1>2. Purges(w)
  BY DEF WorkersInv
<1>3. worker[w].rec \in DOMAIN records' /\ records'[worker[w].rec].status \in {"purging", "failed", "purged"}
  BY <1>1, <1>2 DEF Purges, Advance
<1>4. \A x \in Kept' : ~Overlooks(worker[w], x)
  BY <1>2 DEF Purges, NothingMissed, Late
<1>5. worker[w].pc \in {"deleting", "storing", "counting"} => Shut'
  BY <1>2 DEF Purges, ShutHolds
<1> QED
  BY <1>2, <1>3, <1>4, <1>5 DEF Purges, Doomed

LEMMA SameWorkers ==
  ASSUME RecordsInv, WorkersInv, Advance, ShutHolds, NothingMissed, UNCHANGED worker
  PROVE  WorkersInv'
BY PurgesKept DEF WorkersInv

LEMMA OneWorker ==
  ASSUME RecordsInv, WorkersInv, Advance, ShutHolds, NothingMissed,
         NEW w \in Worker, NEW b \in {Idle} \cup WorkerBusy, worker' = [worker EXCEPT ![w] = b],
         b # Idle => Purges(w)'
  PROVE  WorkersInv'
<1>1. \A v \in Worker : worker'[v] = IF v = w THEN b ELSE worker[v]
  BY DEF WorkersInv
<1>2. worker' \in [Worker -> {Idle} \cup WorkerBusy]
  BY DEF WorkersInv
<1>3. ASSUME NEW v \in Worker, worker'[v] # Idle PROVE Purges(v)'
  <2>1. CASE v = w
    BY <1>1, <1>3, <2>1
  <2>2. CASE v # w
    BY <1>1, <1>3, <2>2, PurgesKept
  <2> QED
    BY <2>1, <2>2
<1> QED
  BY <1>2, <1>3 DEF WorkersInv

LEMMA WorkerStops ==
  ASSUME RecordsInv, WorkersInv, Advance, ShutHolds, NothingMissed,
         NEW w \in Worker, worker' = [worker EXCEPT ![w] = Idle]
  PROVE  WorkersInv'
BY OneWorker

\* A purge that moves on holds its record, and has done what its place says.
LEMMA WorkerMoves ==
  ASSUME RecordsInv, WorkersInv, Advance, ShutHolds, NothingMissed,
         NEW w \in Worker, worker[w].pc # "idle", NEW b \in WorkerBusy,
         worker' = [worker EXCEPT ![w] = b], b.rec = worker[w].rec,
         b.pc \in {"deleting", "storing", "counting"} => Shut',
         b.pc \in {"collecting", "checking"} => b.at = 1, b.pc = "deleting" => b.at \leq 4,
         \A x \in Kept' : ~Overlooks(b, x)
  PROVE  WorkersInv'
<1>1. worker[w] \in WorkerBusy /\ worker[w] # Idle
  BY DEF WorkersInv, Idle
<1>2. worker'[w] = b
  BY DEF WorkersInv
<1>3. DOMAIN records = 1..Len(records) /\ Len(records) \in Nat
  BY Records
<1>4. b.rec \in DOMAIN records' /\ records'[b.rec].status \in {"purging", "failed", "purged"}
  BY <1>1, <1>3 DEF WorkersInv, Purges, Advance
<1>5. Purges(w)'
  BY <1>2, <1>4 DEF Purges, Doomed
<1> QED
  BY <1>5, OneWorker

LEMMA SameData ==
  ASSUME RecordsInv, DataInv, Advance, NoVerdict, ShutHolds, UNCHANGED <<data, stray>>
  PROVE  DataInv'
<1>1. DOMAIN records = 1..Len(records) /\ Len(records) \in Nat
  BY Records
<1>2. ~(All \subseteq data) => Shut' /\ \E i \in DOMAIN records' : Doomed(i)'
  BY <1>1 DEF DataInv, ShutHolds, Advance, Doomed
<1> QED
  BY <1>2 DEF DataInv, NoVerdict, Purged, Kept

LEMMA SameRest ==
  ASSUME UNCHANGED <<status, data, stray>>
  PROVE  ShutHolds /\ NothingMissed
BY DEF ShutHolds, NothingMissed, Kept, Shut, Exists

----------------------------------------------------------------------------
(* The steps.                                                              *)

LEMMA InitInv == Init => IInv
<1> SUFFICES ASSUME Init PROVE IInv
  OBVIOUS
<1>1. RecordsInv
  BY DeletionAssumption DEF Init, RecordsInv
<1>2. RequestsInv
  BY DEF Init, RequestsInv
<1>3. WorkersInv
  BY DEF Init, WorkersInv
<1>4. DataInv
  BY DeletionAssumption DEF Init, DataInv, Kept, All, RoleOf, Grant, Doc, Purged
<1>5. aged \in BOOLEAN /\ ~aged
  BY Zenon DEF Init
<1>6. writes \subseteq Writable
  BY DEF Init, Writable
<1>7. RestInv
  BY <1>5, <1>6, DeletionAssumption DEF Init, RestInv
<1> QED
  BY <1>1, <1>2, <1>3, <1>4, <1>7 DEF IInv

\* A step of a request alone.
LEMMA RequestAlone ==
  ASSUME IInv, UNCHANGED <<status, data, records, aged, worker, writes, stray, budget>>, RequestsInv'
  PROVE  IInv'
BY SameRecords, SameRest, SameWorkers, SameData DEF IInv, RestInv

LEMMA BeginsKeep ==
  ASSUME IInv, NEW r \in Request,
         \/ BeginRequest(r) \/ BeginCancel(r)
         \/ \E to \in DOMAIN allowedFrom : BeginTransition(r, to)
  PROVE  IInv'
<1> USE DEF IInv
<1>1. CASE BeginRequest(r)
  <2>1. Begin(r, "requesting", 0, "none") /\ ~aged
    BY <1>1 DEF BeginRequest, RestInv
  <2>2. 0 \in 0..MaxRecords
    BY DeletionAssumption
  <2>3. RequestsInv'
    BY <2>1, <2>2, RequestBegins
  <2> QED
    BY <2>1, <2>3, RequestAlone DEF Begin
<1>2. CASE BeginCancel(r)
  <2>1. PICK i \in DOMAIN records : records[i].status = "scheduled" /\ Begin(r, "cancelling", i, "none")
    BY <1>2 DEF BeginCancel
  <2>2. i = Len(records) /\ i \in 0..MaxRecords
    BY <2>1, Records DEF RecordsInv, Over
  <2>3. RequestsInv'
    BY <2>1, <2>2, RequestBegins
  <2> QED
    BY <2>1, <2>3, RequestAlone DEF Begin
<1>3. ASSUME NEW to \in DOMAIN allowedFrom, BeginTransition(r, to) PROVE IInv'
  <2>1. to \in {"suspended", "active", "disabled", "archived"}
    BY DEF allowedFrom
  <2>2. "archived" \notin allowedFrom[to]
    BY <2>1 DEF allowedFrom
  <2>3. ~aged
    BY <1>3, <2>2 DEF BeginTransition, RestInv
  <2>4. 0 \in 0..MaxRecords
    BY DeletionAssumption
  <2>5. CASE to = "active"
    <3>1. Begin(r, "guarding", 0, "active")
      BY <1>3, <2>5 DEF BeginTransition
    <3>2. RequestsInv'
      BY <2>3, <2>4, <3>1, RequestBegins
    <3> QED
      BY <3>1, <3>2, RequestAlone DEF Begin
  <2>6. CASE to # "active"
    <3>1. Begin(r, "writing", 0, to)
      BY <1>3, <2>6 DEF BeginTransition
    <3>2. RequestsInv'
      BY <2>1, <2>3, <2>4, <2>6, <3>1, RequestBegins
    <3> QED
      BY <3>1, <3>2, RequestAlone DEF Begin
  <2> QED
    BY <2>5, <2>6
<1> QED
  BY <1>1, <1>2, <1>3

LEMMA CreateKeeps ==
  ASSUME IInv, NEW r \in Request, CreateRecord(r)
  PROVE  IInv'
<1> USE DEF IInv
<1>0. req[r] \in ReqBusy /\ req[r].pc = "requesting" /\ Knows(r)
  BY DEF CreateRecord, RequestsInv, Idle
<1>1. CASE Open \/ Len(records) = MaxRecords
  <2>1. Done(r) /\ UNCHANGED <<status, data, records, aged, worker, writes, stray, budget>>
    BY <1>1 DEF CreateRecord
  <2>2. RequestsInv'
    BY <2>1, SameRecords, RequestDone
  <2> QED
    BY <2>1, <2>2, RequestAlone
<1>2. CASE ~(Open \/ Len(records) = MaxRecords)
  <2> DEFINE no == FALSE
             yes == TRUE
             d == [status |-> "scheduled", grace |-> 2, waiting |-> no, attempts |-> 0, reopens |-> yes]
  <2>1. no \in BOOLEAN /\ yes \in BOOLEAN
    OBVIOUS
  <2>2. /\ records' = Append(records, d)
        /\ req' = [req EXCEPT ![r].pc = "closing", ![r].rec = Len(records) + 1]
        /\ UNCHANGED <<status, data, aged, worker, writes, stray, budget>>
    BY <1>2 DEF CreateRecord
  <2> HIDE DEF no, yes
  <2>3. d \in Record /\ d.status = "scheduled" /\ d.grace = 2
    BY <2>1, DeletionAssumption DEF Record, TENANT_DELETION_STATUSES
  <2> HIDE DEF d
  <2>4. Len(records) < MaxRecords
    BY <1>2, DeletionAssumption, Records DEF RecordsInv
  <2>5. \A i \in DOMAIN records : Over(i)
    BY <1>2, Records DEF Open, OPEN_DELETION_STATUSES, Over, Record, TENANT_DELETION_STATUSES
  <2>6. RecordsInv' /\ Advance /\ NoVerdict /\ NoTime /\ Len(records') = Len(records) + 1
    BY <2>2, <2>3, <2>4, <2>5, NewRecord
  <2>7. RequestsInv'
    <3>1. req' = [req EXCEPT ![r].pc = "closing", ![r].rec = Len(records) + 1, ![r].to = req[r].to]
      BY <1>0, <2>2 DEF RequestsInv, ReqBusy
    <3>2. Len(records) + 1 \in 0..MaxRecords /\ Len(records) + 1 \in DOMAIN records'
      BY <2>4, <2>6, DeletionAssumption, Records DEF Advance
    <3>3. ~aged
      BY <1>0 DEF Knows
    <3>4. req[r].to \in {"none", "active", "suspended", "disabled", "archived"}
      BY <1>0 DEF ReqBusy
    <3> QED
      BY <1>0, <2>2, <2>6, <3>1, <3>2, <3>3, <3>4, RequestMoves
  <2> QED
    BY <2>2, <2>6, <2>7, SameRest, SameWorkers, SameData DEF RestInv
<1> QED
  BY <1>1, <1>2

\* Moving on without aiming elsewhere.
LEMMA GotoMoves ==
  ASSUME RecordsInv, RequestsInv, Advance, NoTime, UNCHANGED aged, NEW r \in Request, req[r].pc # "idle",
         NEW pc \in {"withdrawing", "looking", "writing"}, Goto(r, pc),
         pc \in {"withdrawing", "looking"} => req[r].rec \in DOMAIN records,
         pc = "writing" => req[r].to # "none",
         pc = "looking" \/ (pc = "writing" /\ req[r].to = "active") =>
           \A i \in DOMAIN records' : 2 * i \leq req[r].since => Over(i)',
         aged => pc = "looking"
  PROVE  RequestsInv'
<1>1. req[r] \in ReqBusy
  BY DEF RequestsInv, Idle
<1>2. req[r].rec \in 0..MaxRecords /\ req[r].to \in {"none", "active", "suspended", "disabled", "archived"}
  BY <1>1 DEF ReqBusy
<1>3. req' = [req EXCEPT ![r].pc = pc, ![r].rec = req[r].rec, ![r].to = req[r].to]
  BY <1>1 DEF Goto, RequestsInv, ReqBusy
<1>4. DOMAIN records \subseteq DOMAIN records'
  BY Records DEF Advance
<1> QED
  BY <1>2, <1>3, <1>4, RequestMoves

LEMMA CloseKeeps ==
  ASSUME IInv, NEW r \in Request, CloseTenant(r)
  PROVE  IInv'
<1> USE DEF IInv
<1>0. Knows(r) /\ req[r].pc = "closing" /\ ~aged
  BY DEF CloseTenant, RequestsInv, Idle, Knows
<1>1. UNCHANGED <<data, records, aged, worker, writes, stray, budget>> /\ status' \in {status, "disabled"}
  BY DEF CloseTenant
<1>2. RequestsInv'
  <2>1. CASE Done(r)
    BY <1>1, <2>1, SameRecords, RequestDone
  <2>2. CASE Goto(r, "withdrawing")
    BY <1>0, <1>1, <2>2, SameRecords, GotoMoves DEF Knows
  <2> QED
    BY <2>1, <2>2 DEF CloseTenant
<1>3. ShutHolds /\ NothingMissed
  BY <1>1 DEF ShutHolds, NothingMissed, Kept, Shut, Exists
<1>4. RestInv'
  BY <1>0, <1>1 DEF RestInv
<1> QED
  BY <1>1, <1>2, <1>3, <1>4, SameRecords, SameWorkers, SameData

LEMMA CancelKeeps ==
  ASSUME IInv, NEW r \in Request, Cancel(r)
  PROVE  IInv'
<1> USE DEF IInv
<1> DEFINE i == req[r].rec
<1>0. /\ Knows(r) /\ req[r] \in ReqBusy /\ i \in DOMAIN records /\ req[r].pc \in {"cancelling", "withdrawing"}
      /\ UNCHANGED <<status, data, aged, worker, writes, stray, budget>>
  BY DEF Cancel, RequestsInv, Idle, Knows
<1>1. CASE records[i].status # "scheduled"
  <2>1. Done(r) /\ UNCHANGED records
    BY <1>1 DEF Cancel
  <2>2. RequestsInv'
    BY <1>0, <2>1, SameRecords, RequestDone
  <2> QED
    BY <1>0, <2>1, <2>2, RequestAlone
<1>2. CASE records[i].status = "scheduled"
  <2> DEFINE d == [records[i] EXCEPT !.status = "cancelled"]
  <2>1. d \in Record /\ d.status = "cancelled" /\ d.grace = records[i].grace
    BY <1>0, Records DEF Record, TENANT_DELETION_STATUSES
  <2>2. records' = [records EXCEPT ![i] = d]
    BY <1>2 DEF Cancel
  <2> HIDE DEF d
  <2>3. /\ RecordsInv' /\ Advance /\ NoVerdict /\ NoTime
        /\ \A j \in DOMAIN records : records'[j] = IF j = i THEN d ELSE records[j]
    BY <1>0, <1>2, <2>1, <2>2, OneRecord DEF Over, Doomed
  <2>4. RequestsInv'
    <3>1. CASE req[r].pc = "cancelling"
      <4>1. DOMAIN records' = DOMAIN records
        BY <2>2
      <4>2. DOMAIN records = 1..Len(records) /\ Len(records) \in Nat /\ req[r].since \in Nat
        BY <1>0, Records, DeletionAssumption DEF ReqBusy
      <4>3. \A j \in DOMAIN records : 2 * j \leq req[r].since => j \leq i
        BY <1>0, <3>1, <4>2 DEF Knows
      <4>4. \A j \in DOMAIN records : j < i => Over(j)
        BY <1>0, <4>2 DEF RecordsInv
      <4>5. \A j \in DOMAIN records' : 2 * j \leq req[r].since => Over(j)'
        <5> SUFFICES ASSUME NEW j \in DOMAIN records', 2 * j \leq req[r].since PROVE Over(j)'
          OBVIOUS
        <5>1. j \in DOMAIN records /\ (j = i \/ j < i)
          BY <1>0, <4>1, <4>2, <4>3
        <5>2. records'[j] = IF j = i THEN d ELSE records[j]
          BY <2>3, <5>1
        <5> QED
          BY <2>1, <4>4, <5>1, <5>2 DEF Over
      <4>6. Goto(r, "looking")
        BY <1>2, <3>1 DEF Cancel
      <4> QED
        BY <1>0, <2>3, <3>1, <4>5, <4>6, GotoMoves
    <3>2. CASE req[r].pc # "cancelling"
      <4>1. Done(r)
        BY <1>2, <3>2 DEF Cancel
      <4> QED
        BY <1>0, <2>3, <4>1, RequestDone
    <3> QED
      BY <3>1, <3>2
  <2> QED
    BY <1>0, <2>3, <2>4, SameRest, SameWorkers, SameData DEF RestInv
<1> QED
  BY <1>1, <1>2

LEMMA LookKeeps ==
  ASSUME IInv, NEW r \in Request, LookAtTenant(r) \/ GuardRestore(r)
  PROVE  IInv'
<1> USE DEF IInv
<1>0. /\ Knows(r) /\ req[r] \in ReqBusy /\ req[r].pc \in {"looking", "guarding"}
      /\ UNCHANGED <<status, data, records, aged, worker, writes, stray, budget>>
  BY DEF LookAtTenant, GuardRestore, RequestsInv, Idle
<1>1. CASE Done(r)
  BY <1>0, <1>1, SameRecords, RequestDone, RequestAlone
<1>2. CASE LookAtTenant(r) /\ ~Done(r)
  <2>1. req' = [req EXCEPT ![r].pc = "writing", ![r].to = "active"] /\ status = "disabled" /\ req[r].pc = "looking"
    BY <1>2 DEF LookAtTenant
  <2>2. req' = [req EXCEPT ![r].pc = "writing", ![r].rec = req[r].rec, ![r].to = "active"]
    BY <1>0, <2>1 DEF RequestsInv, ReqBusy
  <2>3. ~aged /\ req[r].rec \in 0..MaxRecords
    BY <1>0, <2>1 DEF RestInv, ReqBusy
  <2>4. \A i \in DOMAIN records' : 2 * i \leq req[r].since => Over(i)'
    BY <1>0, <2>1 DEF Knows, Over
  <2>5. RequestsInv'
    BY <1>0, <2>2, <2>3, <2>4, SameRecords, RequestMoves
  <2> QED
    BY <1>0, <2>5, RequestAlone
<1>3. CASE GuardRestore(r) /\ ~Done(r)
  <2>1. ~Open /\ Goto(r, "writing") /\ req[r].pc = "guarding"
    BY <1>3 DEF GuardRestore
  <2>2. \A i \in DOMAIN records' : Over(i)'
    BY <1>0, <2>1, Records DEF Open, OPEN_DELETION_STATUSES, Over, Record, TENANT_DELETION_STATUSES
  <2>3. ~aged /\ req[r].to # "none"
    BY <1>0, <2>1 DEF Knows
  <2>4. RequestsInv'
    BY <1>0, <2>1, <2>2, <2>3, SameRecords, GotoMoves
  <2> QED
    BY <1>0, <2>4, RequestAlone
<1> QED
  BY <1>1, <1>2, <1>3

\* The write that reopens the workspace finds no doomed record: it began
\* after every record whose grace period had elapsed, and knows them over.
LEMMA WriteKeeps ==
  ASSUME IInv, NEW r \in Request, WriteStatus(r)
  PROVE  IInv'
<1> USE DEF IInv
<1>0. /\ Knows(r) /\ req[r] \in ReqBusy /\ req[r].pc = "writing" /\ ~aged
      /\ UNCHANGED <<data, records, aged, worker, writes, stray, budget>> /\ Done(r)
      /\ status' = IF Exists THEN req[r].to ELSE status
  BY DEF WriteStatus, RequestsInv, Idle, Knows
<1>1. req[r].to \in {"active", "suspended", "disabled", "archived"}
  BY <1>0 DEF Knows, ReqBusy
<1>2. ShutHolds
  <2> SUFFICES ASSUME Shut, NEW i \in DOMAIN records, Doomed(i), Exists', status' \in {"active", "pending"}
               PROVE  FALSE
    BY DEF ShutHolds, Shut
  <2>1. Exists /\ req[r].to = "active"
    BY <1>0, <1>1 DEF Exists
  <2>2. records[i].status # "purged"
    BY <2>1, TenantIsNotWritten DEF DataInv, Kept, Purged, Exists
  <2>3. records[i].grace = 0 /\ ~Over(i)
    BY <2>2 DEF RecordsInv, Doomed, Over
  <2> QED
    BY <1>0, <2>1, <2>3 DEF Knows
<1>3. NothingMissed
  BY <1>0 DEF NothingMissed, Kept
<1>4. RequestsInv'
  BY <1>0, SameRecords, RequestDone
<1>5. RestInv'
  BY <1>0, <1>1 DEF RestInv
<1> QED
  BY <1>0, <1>2, <1>3, <1>4, <1>5, SameRecords, SameWorkers, SameData

\* What is written without a look at the workspace.
LEMMA WritesKeep ==
  ASSUME IInv, NEW x \in writes, Write(x), budget' \in 0..MaxFaults
  PROVE  IInv'
<1> USE DEF IInv
<1>1. /\ UNCHANGED <<status, records, aged, req, worker>>
      /\ data' = data \cup {x} /\ writes' = writes \ {x} /\ x \in Writable
      /\ stray' = IF x \notin data /\ Late(x) THEN stray \cup {x} ELSE stray
  BY DEF Write, RestInv
<1>2. Exists' <=> Exists
  BY <1>1, TenantIsNotWritten DEF Exists
<1>3. ShutHolds
  BY <1>1, <1>2 DEF ShutHolds, Shut
<1>4. NothingMissed
  BY <1>1 DEF NothingMissed, Kept
<1>5. \A y \in Kept' : y \in Kept \/ (y = x /\ ~Late(x))
  BY <1>1 DEF Kept
<1>6. DataInv'
  <2>1. data' \subseteq All \cup Writable /\ stray' \subseteq data' \cap Writable
    BY <1>1 DEF DataInv
  <2>2. \A y \in Kept' : y.of = "RolePermission" => RoleOf(y.role) \in data'
    BY <1>1, <1>5 DEF DataInv, Late
  <2>3. ~(All \subseteq data') => Shut' /\ \E i \in DOMAIN records' : Doomed(i)'
    BY <1>1, <1>2 DEF DataInv, Shut, Doomed
  <2>4. Purged' => Kept' = {}
    BY <1>1, <1>5 DEF DataInv, Purged, Late
  <2> QED
    BY <2>1, <2>2, <2>3, <2>4 DEF DataInv
<1>7. RestInv'
  BY <1>1 DEF RestInv
<1> QED
  BY <1>1, <1>3, <1>4, <1>6, <1>7, SameRecords, SameRequests, SameWorkers

\* A login or a grant that is about to write.
LEMMA WriteBegins ==
  ASSUME IInv, UNCHANGED <<status, data, records, aged, req, worker, stray>>,
         writes' \subseteq Writable, budget' \in 0..MaxFaults
  PROVE  IInv'
BY SameRecords, SameRequests, SameRest, SameWorkers, SameData DEF IInv, RestInv

LEMMA LateKeeps ==
  ASSUME IInv, \/ BeginLogin \/ recordAttempt
               \/ \E r \in RoleId : BeginGrant(r) \/ attachPermission(r) \/ CreateRole(r)
  PROVE  IInv'
<1> USE DEF IInv
<1>1. budget' \in 0..MaxFaults
  BY DeletionAssumption DEF BeginLogin, recordAttempt, BeginGrant, attachPermission, CreateRole, RestInv
<1>2. \A r \in RoleId : {Attempt, Grant(r)} \subseteq Writable
  BY DEF Writable
<1>3. CASE BeginLogin
  <2>1. Attempt \in Writable
    BY DEF Writable
  <2> QED
    BY <1>1, <1>3, <2>1, WriteBegins DEF BeginLogin, RestInv
<1>4. CASE recordAttempt
  BY <1>1, <1>4, WritesKeep DEF recordAttempt, Write
<1>5. ASSUME NEW r \in RoleId, BeginGrant(r) PROVE IInv'
  BY <1>1, <1>2, <1>5, WriteBegins DEF BeginGrant, RestInv
<1>6. ASSUME NEW r \in RoleId, attachPermission(r) \/ CreateRole(r) PROVE IInv'
  BY <1>1, <1>6, WritesKeep DEF attachPermission, CreateRole, Write
<1> QED
  BY <1>3, <1>4, <1>5, <1>6

\* When only the records change, and no purge is called done.
LEMMA RecordsAlone ==
  ASSUME IInv, UNCHANGED <<status, data, aged, req, worker, writes, stray, budget>>,
         RecordsInv', Advance, NoVerdict, RequestsInv'
  PROVE  IInv'
BY SameRest, SameWorkers, SameData DEF IInv, RestInv

LEMMA TimeKeeps ==
  ASSUME IInv, (\E i \in Id : GraceElapses(i) \/ WaitEnds(i)) \/ Ages \/ ScheduleArchived
  PROVE  IInv'
<1> USE DEF IInv
<1>1. ASSUME NEW i \in Id, GraceElapses(i) PROVE IInv'
  <2> DEFINE d == [records[i] EXCEPT !.grace = @ - 1]
  <2>1. i \in DOMAIN records /\ records[i].grace > 0 /\ records' = [records EXCEPT ![i] = d]
    BY <1>1 DEF GraceElapses
  <2>2. d \in Record /\ d.status = records[i].status /\ d.grace = records[i].grace - 1 /\ records[i].grace \in 0..2
    BY <2>1, Records DEF Record
  <2> HIDE DEF d
  <2>3. records[i].status \notin {"purging", "failed"}
    BY <2>1, <2>2 DEF RecordsInv
  <2>4. /\ RecordsInv' /\ Advance /\ NoVerdict
        /\ \A j \in DOMAIN records : records'[j] = IF j = i THEN d ELSE records[j]
    BY <2>1, <2>2, <2>3, OneRecord DEF Doomed
  <2>5. UNCHANGED <<status, data, aged, req, worker, writes, stray, budget>>
    BY <1>1 DEF GraceElapses
  <2>6. CASE records[i].grace = 1
    <3>1. NoTime
      BY <2>1, <2>4, <2>6 DEF NoTime
    <3> QED
      BY <2>4, <2>5, <3>1, SameRequests, RecordsAlone
  <2>7. CASE records[i].grace = 2
    <3>1. CASE aged
      <4>1. ASSUME NEW r \in Request, req'[r] # Idle PROVE Knows(r)'
        <5>1. DOMAIN records = 1..Len(records) /\ Len(records) \in Nat
          BY Records
        <5>2. req[r].since \in Nat /\ Knows(r)
          BY <2>5, <4>1, DeletionAssumption DEF RequestsInv, ReqBusy
        <5>3. \A j \in DOMAIN records : Over(j) => Over(j)'
          BY <2>4 DEF Advance, Over
        <5>4. DOMAIN records' = DOMAIN records
          BY <2>1
        <5>5. Len(records') = Len(records)
          BY <2>1 DEF RecordsInv
        <5> QED
          BY <2>5, <3>1, <5>2, <5>3, <5>4, <5>5 DEF Knows
      <4>2. RequestsInv'
        BY <2>5, <4>1 DEF RequestsInv
      <4> QED
        BY <2>4, <2>5, <4>2, RecordsAlone
    <3>2. CASE ~aged
      <4>1. ASSUME NEW r \in Request, req[r] # Idle, NEW j \in DOMAIN records', records'[j].grace < 2
            PROVE  2 * j \leq req[r].since
        <5>1. j \in DOMAIN records
          BY <2>1
        <5>2. CASE j = i
          <6>1. req[r].since >= 2 * (i + 1) - 2
            BY <1>1, <2>7, <4>1 DEF GraceElapses
          <6>2. i \in Nat /\ req[r].since \in Nat
            BY <4>1, DeletionAssumption DEF Id, RequestsInv, ReqBusy
          <6> QED
            BY <5>2, <6>1, <6>2
        <5>3. CASE j # i
          BY <2>4, <3>2, <4>1, <5>1, <5>3 DEF RequestsInv, Knows
        <5> QED
          BY <5>2, <5>3
      <4>2. RequestsInv'
        BY <2>4, <2>5, <4>1, SameRequests
      <4> QED
        BY <2>4, <2>5, <4>2, RecordsAlone
    <3> QED
      BY <3>1, <3>2
  <2> QED
    BY <2>1, <2>2, <2>6, <2>7
<1>2. ASSUME NEW i \in Id, WaitEnds(i) PROVE IInv'
  <2> DEFINE no == FALSE
             d == [records[i] EXCEPT !.waiting = no]
  <2>1. i \in DOMAIN records /\ no \in BOOLEAN
    BY <1>2 DEF WaitEnds
  <2>2. records' = [records EXCEPT ![i] = d]
    BY <1>2 DEF WaitEnds
  <2> HIDE DEF no
  <2>3. d \in Record /\ d.status = records[i].status /\ d.grace = records[i].grace
    BY <2>1, Records DEF Record
  <2> HIDE DEF d
  <2>4. RecordsInv' /\ Advance /\ NoVerdict /\ NoTime
    BY <2>1, <2>2, <2>3, OneRecord DEF RecordsInv, Doomed
  <2>5. UNCHANGED <<status, data, aged, req, worker, writes, stray, budget>>
    BY <1>2 DEF WaitEnds
  <2> QED
    BY <2>4, <2>5, SameRequests, RecordsAlone
<1>3. CASE Ages
  <2>1. UNCHANGED <<status, data, records, req, worker, writes, stray, budget>> /\ aged' /\ status = "archived"
    BY <1>3 DEF Ages
  <2>2. RequestsInv'
    BY <1>3 DEF Ages, RequestsInv
  <2>3. aged' \in BOOLEAN
    BY <1>3, Zenon DEF Ages
  <2>4. RestInv'
    BY <2>1, <2>3 DEF RestInv
  <2> QED
    BY <2>1, <2>2, <2>4, SameRecords, SameRest, SameWorkers, SameData
<1>4. CASE ScheduleArchived
  <2> DEFINE no == FALSE
             d == [status |-> "scheduled", grace |-> 0, waiting |-> no, attempts |-> 0, reopens |-> no]
  <2>1. no \in BOOLEAN
    OBVIOUS
  <2>2. /\ records' = Append(records, d) /\ aged /\ Len(records) < MaxRecords
        /\ UNCHANGED <<status, data, aged, req, worker, writes, stray, budget>>
    BY <1>4 DEF ScheduleArchived
  <2> HIDE DEF no
  <2>3. d \in Record /\ d.status = "scheduled"
    BY <2>1, DeletionAssumption DEF Record, TENANT_DELETION_STATUSES
  <2> HIDE DEF d
  <2>4. \A i \in DOMAIN records : Over(i)
    BY <1>4, Records DEF ScheduleArchived, RecordsInv, OPEN_DELETION_STATUSES, Over, Record, TENANT_DELETION_STATUSES
  <2>5. RecordsInv' /\ Advance /\ NoVerdict /\ NoTime
    BY <2>2, <2>3, <2>4, NewRecord
  <2> QED
    BY <2>2, <2>5, SameRequests, RecordsAlone
<1> QED
  BY <1>1, <1>2, <1>3, <1>4

----------------------------------------------------------------------------
(* The purge.                                                              *)

LEMMA ClaimKeeps ==
  ASSUME IInv, NEW w \in Worker, ClaimDue(w)
  PROVE  IInv'
<1> USE DEF IInv
<1> DEFINE yes == TRUE
<1>0. yes \in BOOLEAN
  OBVIOUS
<1>1. PICK i \in DOMAIN records :
        /\ Claimable(records[i])
        /\ records' = [records EXCEPT ![i].status = "purging", ![i].waiting = yes, ![i].attempts = @ + 1]
        /\ worker' = [worker EXCEPT ![w] = [pc |-> "collecting", rec |-> i, roles |-> {}, at |-> 1, ok |-> yes]]
  BY DEF ClaimDue
<1>2. UNCHANGED <<status, data, aged, req, writes, stray, budget>>
  BY DEF ClaimDue
<1> DEFINE n == records[i].attempts + 1
           d == [records[i] EXCEPT !.status = "purging", !.waiting = yes, !.attempts = n]
           b == [pc |-> "collecting", rec |-> i, roles |-> {}, at |-> 1, ok |-> yes]
<1> HIDE DEF yes
<1>3. /\ records[i] \in Record /\ records[i].grace = 0 /\ records[i].status \in {"scheduled", "failed", "purging"}
      /\ records[i].attempts < MaxAttempts
  BY <1>1, Records DEF Claimable
<1>4. n \in 0..MaxAttempts
  BY <1>3, DeletionAssumption DEF Record
<1>5. records' = [records EXCEPT ![i] = d]
  BY <1>1, <1>3 DEF Record
<1> HIDE DEF n
<1>6. d \in Record /\ d.status = "purging" /\ d.grace = 0
  BY <1>0, <1>3, <1>4 DEF Record, TENANT_DELETION_STATUSES
<1> HIDE DEF d
<1>7. /\ RecordsInv' /\ Advance /\ NoVerdict /\ NoTime
      /\ \A j \in DOMAIN records : records'[j] = IF j = i THEN d ELSE records[j]
  BY <1>3, <1>5, <1>6, OneRecord DEF Over
<1>8. b \in WorkerBusy /\ b.pc = "collecting" /\ b.rec = i /\ b.at = 1
  <2>1. i \in Id /\ 1 \in DOMAIN Counted
    BY Records, CountedIs, DeletionAssumption DEF RecordsInv, Id
  <2> QED
    BY <1>0, <2>1 DEF WorkerBusy
<1>9. worker' = [worker EXCEPT ![w] = b]
  BY <1>1
<1> HIDE DEF b
<1>10. ShutHolds /\ NothingMissed
  BY <1>2, SameRest
<1>11. WorkersInv'
  <2>1. worker'[w] = b
    BY <1>9 DEF WorkersInv
  <2>2. i \in DOMAIN records' /\ records'[i].status = "purging"
    BY <1>1, <1>5, <1>6, <1>7
  <2>3. \A x \in Kept' : ~Overlooks(b, x)
    BY <1>8, Overlooked
  <2>4. Purges(w)'
    BY <1>8, <2>1, <2>2, <2>3 DEF Purges, Doomed
  <2> QED
    BY <1>7, <1>8, <1>9, <1>10, <2>4, OneWorker
<1> QED
  BY <1>2, <1>7, <1>10, <1>11, SameRequests, SameData DEF RestInv

\* A purge under way is typed and has done what its place says.
LEMMA Under ==
  ASSUME WorkersInv, NEW w \in Worker, worker[w].pc # "idle"
  PROVE  worker[w] \in WorkerBusy /\ Purges(w)
BY DEF WorkersInv, Idle

\* When only a worker's place changes.
LEMMA WorkerAlone ==
  ASSUME IInv, UNCHANGED <<status, data, records, aged, req, writes, stray>>, WorkersInv',
         budget' \in 0..MaxFaults
  PROVE  IInv'
BY SameRecords, SameRest, SameRequests, SameData DEF IInv, RestInv

LEMMA CollectKeeps ==
  ASSUME IInv, NEW w \in Worker, collectContext(w)
  PROVE  IInv'
<1> USE DEF IInv
<1> DEFINE roles == {r \in RoleId : RoleOf(r) \in data}
<1>1. /\ worker[w].pc = "collecting" /\ worker' = [worker EXCEPT ![w].pc = "checking", ![w].roles = roles]
      /\ UNCHANGED <<status, data, records, aged, req, writes, stray, budget>>
  BY DEF collectContext, At
<1>2. worker[w] \in WorkerBusy /\ Purges(w)
  BY <1>1, Under
<1>3. roles \in SUBSET RoleId /\ \A x \in Kept : x.of = "RolePermission" => x.role \in roles
  BY Documents DEF DataInv, Kept
<1> HIDE DEF roles
<1>4. worker[w].at = 1
  BY <1>1, <1>2 DEF Purges
<1>5. WorkersInv'
  <2> DEFINE b == [worker[w] EXCEPT !.pc = "checking", !.roles = roles]
  <2>1. /\ b \in WorkerBusy /\ b.pc = "checking" /\ b.roles = roles /\ b.at = 1 /\ b.ok = worker[w].ok
        /\ b.rec = worker[w].rec
    BY <1>2, <1>3, <1>4 DEF WorkerBusy
  <2>2. worker' = [worker EXCEPT ![w] = b]
    BY <1>1, <1>2 DEF WorkersInv, WorkerBusy
  <2> HIDE DEF b
  <2>3. \A x \in Kept' : ~Overlooks(b, x)
    BY <1>1, <1>3, <2>1, Overlooked DEF Kept
  <2> QED
    BY <1>1, <2>1, <2>2, <2>3, SameRecords, SameRest, WorkerMoves
<1> QED
  BY <1>1, <1>5, WorkerAlone DEF RestInv

LEMMA CheckKeeps ==
  ASSUME IInv, NEW w \in Worker, CheckTenant(w)
  PROVE  IInv'
<1> USE DEF IInv
<1>1. /\ worker[w].pc = "checking"
      /\ UNCHANGED <<status, data, records, aged, req, writes, stray, budget>>
  BY DEF CheckTenant, At
<1>2. worker[w] \in WorkerBusy /\ Purges(w)
  BY <1>1, Under
<1>3. CASE Exists /\ status \in {"active", "pending"}
  <2> DEFINE no == FALSE
  <2>1. no \in BOOLEAN /\ ~no
    OBVIOUS
  <2>2. worker' = [worker EXCEPT ![w].pc = "marking", ![w].ok = no]
    BY <1>3 DEF CheckTenant
  <2> HIDE DEF no
  <2> DEFINE b == [worker[w] EXCEPT !.pc = "marking", !.ok = no]
  <2>3. /\ b \in WorkerBusy /\ b.pc = "marking" /\ b.roles = worker[w].roles /\ b.at = worker[w].at /\ b.ok = no
        /\ b.rec = worker[w].rec
    BY <1>2, <2>1 DEF WorkerBusy
  <2>4. worker' = [worker EXCEPT ![w] = b]
    BY <1>2, <2>2 DEF WorkersInv, WorkerBusy
  <2> HIDE DEF b
  <2>5. \A x \in Kept' : ~Overlooks(b, x)
    BY <2>1, <2>3, Overlooked
  <2>6. WorkersInv'
    BY <1>1, <2>3, <2>4, <2>5, SameRecords, SameRest, WorkerMoves
  <2> QED
    BY <1>1, <2>6, WorkerAlone DEF RestInv
<1>4. CASE ~(Exists /\ status \in {"active", "pending"})
  <2>1. worker' = [worker EXCEPT ![w].pc = "deleting"]
    BY <1>4 DEF CheckTenant
  <2>2. worker[w].at = 1
    BY <1>1, <1>2 DEF Purges
  <2> DEFINE b == [worker[w] EXCEPT !.pc = "deleting"]
  <2>3. /\ b \in WorkerBusy /\ b.pc = "deleting" /\ b.roles = worker[w].roles /\ b.at = 1 /\ b.ok = worker[w].ok
        /\ b.rec = worker[w].rec
    BY <1>2, <2>2 DEF WorkerBusy
  <2>4. worker' = [worker EXCEPT ![w] = b]
    BY <1>2, <2>1 DEF WorkersInv, WorkerBusy
  <2> HIDE DEF b
  <2>5. \A x \in Kept' : ~Overlooks(b, x)
    <3>1. \A x \in Kept : x.of = "RolePermission" => x.role \in worker[w].roles
      BY <1>1, <1>2, Overlooked DEF Purges
    <3>2. Kept' = Kept
      BY <1>1 DEF Kept
    <3> QED
      BY <2>3, <3>1, <3>2, Overlooked
  <2>6. Shut' /\ 1 \leq 4
    BY <1>1, <1>4 DEF Shut, Exists
  <2>7. WorkersInv'
    BY <1>1, <2>3, <2>4, <2>5, <2>6, SameRecords, SameRest, WorkerMoves
  <2> QED
    BY <1>1, <2>7, WorkerAlone DEF RestInv
<1> QED
  BY <1>3, <1>4

\* A purge past its check takes what it likes, but a role only when no
\* permission is kept.
LEMMA TakeKeeps ==
  ASSUME IInv, NEW w \in Worker, worker[w].pc \in {"deleting", "storing"}, NEW docs, Delete(docs),
         UNCHANGED <<status, records, aged, req, writes>>,
         \/ \A x \in docs : x.of # "Role"
         \/ \A x \in Kept : x.of # "RolePermission"
  PROVE  ShutHolds /\ NothingMissed /\ Shut' /\ DataInv' /\ Kept' = Kept \ docs
<1> USE DEF IInv
<1>1. Purges(w) /\ Shut /\ Doomed(worker[w].rec) /\ worker[w].rec \in DOMAIN records
  BY Under DEF Purges
<1>2. data' = data \ docs /\ stray' = stray \ docs
  BY DEF Delete
<1>3. Shut' /\ ShutHolds
  BY <1>1, <1>2 DEF Shut, Exists, ShutHolds
<1>4. Kept' = Kept \ docs
  BY <1>2 DEF Kept
<1>5. NothingMissed
  BY <1>4 DEF NothingMissed
<1>6. DataInv'
  <2>1. data' \subseteq All \cup Writable /\ stray' \subseteq data' \cap Writable
    BY <1>2 DEF DataInv
  <2>2. \A x \in Kept' : x.of = "RolePermission" => RoleOf(x.role) \in data'
    <3>1. \A x \in Kept : x.of = "RolePermission" => RoleOf(x.role) \in data
      BY DEF DataInv
    <3>2. \A r : RoleOf(r).of = "Role"
      BY DEF RoleOf, Doc
    <3> QED
      BY <1>2, <1>4, <3>1, <3>2
  <2>3. \E i \in DOMAIN records' : Doomed(i)'
    BY <1>1 DEF Doomed
  <2>4. Purged' => Kept' = {}
    BY <1>4 DEF DataInv, Purged
  <2> QED
    BY <1>3, <2>1, <2>2, <2>3, <2>4 DEF DataInv
<1> QED
  BY <1>3, <1>4, <1>5, <1>6

LEMMA DeleteKeeps ==
  ASSUME IInv, NEW w \in Worker, DeleteNext(w)
  PROVE  IInv'
<1> USE DEF IInv
<1> DEFINE at == worker[w].at
           c == PURGE_REGISTRY[at]
           docs == Matches(w, c)
<1>1. /\ worker[w].pc = "deleting" /\ Delete(docs)
      /\ UNCHANGED <<status, records, aged, req, writes, budget>>
      /\ worker' = IF at = Len(PURGE_REGISTRY) THEN [worker EXCEPT ![w].pc = "storing"]
                   ELSE [worker EXCEPT ![w].at = @ + 1]
  BY DEF DeleteNext, At
<1>2. worker[w] \in WorkerBusy /\ Purges(w)
  BY <1>1, Under
<1>3. at \in 1..4
  BY <1>1, <1>2, CountedIs DEF WorkerBusy, Purges
<1>5. \A x \in Kept : x.of = "RolePermission" => x.role \in worker[w].roles /\ at \leq 2
  BY <1>1, <1>2, <1>3, Overlooked DEF Purges
<1>6. at = 2 => \A x \in Kept : x.of = "RolePermission" => x \in docs
  BY <1>5, RegistryIs DEF Matches, Kept
<1>7. (\A x \in docs : x.of # "Role") \/ (\A x \in Kept : x.of # "RolePermission")
  <2>1. CASE at \leq 2
    <3>1. c \in {"LoginAttempt", "RolePermission"}
      BY <1>3, <2>1, RegistryIs
    <3> QED
      BY <3>1 DEF Matches
  <2>2. CASE at > 2
    BY <1>3, <1>5, <2>2
  <2> QED
    BY <1>3, <2>1, <2>2
<1> HIDE DEF docs
<1>8. ShutHolds /\ NothingMissed /\ Shut' /\ DataInv' /\ Kept' = Kept \ docs
  BY <1>1, <1>7, TakeKeeps
<1>9. \A x \in Kept' : x.of = "RolePermission" => x.role \in worker[w].roles /\ at < 2
  BY <1>3, <1>5, <1>6, <1>8
<1>10. WorkersInv'
  <2>1. worker[w].pc # "idle" /\ Advance
    BY <1>1, SameRecords
  <2>2. CASE at = 4
    <3>1. worker' = [worker EXCEPT ![w].pc = "storing"]
      BY <1>1, <2>2, RegistryIs
    <3> DEFINE b == [worker[w] EXCEPT !.pc = "storing"]
    <3>2. /\ b \in WorkerBusy /\ b.pc = "storing" /\ b.roles = worker[w].roles /\ b.at = at /\ b.ok = worker[w].ok
          /\ b.rec = worker[w].rec
      BY <1>2 DEF WorkerBusy
    <3>3. worker' = [worker EXCEPT ![w] = b]
      BY <1>2, <3>1 DEF WorkersInv, WorkerBusy
    <3> HIDE DEF b
    <3>4. \A x \in Kept' : ~Overlooks(b, x)
      BY <1>9, <2>2, <3>2, Overlooked
    <3> QED
      BY <1>8, <2>1, <3>2, <3>3, <3>4, WorkerMoves
  <2>3. CASE at # 4
    <3> DEFINE next == at + 1
    <3>1. worker' = [worker EXCEPT ![w].at = next]
      BY <1>1, <2>3, RegistryIs
    <3>2. next \in 1..4 /\ (next > 2 => at >= 2)
      BY <1>3, <2>3
    <3>3. next \in DOMAIN Counted
      BY <3>2, CountedIs
    <3>4. \A x \in Kept' : x.of = "RolePermission" => x.role \in worker[w].roles /\ ~(next > 2)
      BY <1>3, <1>9, <3>2
    <3> HIDE DEF next
    <3> DEFINE b == [worker[w] EXCEPT !.at = next]
    <3>5. /\ b \in WorkerBusy /\ b.pc = "deleting" /\ b.roles = worker[w].roles /\ b.at = next /\ b.ok = worker[w].ok
          /\ b.rec = worker[w].rec
      BY <1>1, <1>2, <3>3 DEF WorkerBusy
    <3>6. worker' = [worker EXCEPT ![w] = b]
      BY <1>2, <3>1 DEF WorkersInv, WorkerBusy
    <3> HIDE DEF b
    <3>7. \A x \in Kept' : ~Overlooks(b, x)
      BY <3>2, <3>4, <3>5, Overlooked
    <3>8. b.at \leq 4
      BY <3>2, <3>5
    <3> QED
      BY <1>8, <2>1, <3>5, <3>6, <3>7, <3>8, WorkerMoves
  <2> QED
    BY <2>2, <2>3
<1> QED
  BY <1>1, <1>8, <1>10, SameRecords, SameRequests DEF RestInv

LEMMA StorageKeeps ==
  ASSUME IInv, NEW w \in Worker, purgeStorage(w)
  PROVE  IInv'
<1> USE DEF IInv
<1> DEFINE files == Matches(w, "Storage")
<1>1. worker[w].pc = "storing" /\ UNCHANGED <<status, records, aged, req, writes>>
  BY DEF purgeStorage, At
<1>2. PICK ok \in BOOLEAN :
        /\ IF ok THEN Delete(files) ELSE UNCHANGED <<data, stray>>
        /\ budget' = IF ok THEN budget ELSE budget - 1
        /\ budget' \in Nat
        /\ worker' = [worker EXCEPT ![w].pc = "counting", ![w].at = 1, ![w].ok = ok]
  BY Zenon DEF purgeStorage
<1>3. worker[w] \in WorkerBusy /\ Purges(w)
  BY <1>1, Under
<1>5. \A x \in Kept : x.of # "RolePermission"
  BY <1>1, <1>3, Overlooked DEF Purges
<1>6. \E docs : Delete(docs)
  <2>1. CASE ok
    BY <1>2, <2>1
  <2>2. CASE ~ok
    <3>1. Delete({})
      BY <1>2, <2>2 DEF Delete
    <3> QED
      BY <3>1
  <2> QED
    BY <2>1, <2>2
<1>7. PICK docs : Delete(docs)
  BY <1>6
<1>8. ShutHolds /\ NothingMissed /\ Shut' /\ DataInv' /\ Kept' = Kept \ docs
  BY <1>1, <1>5, <1>7, TakeKeeps
<1>9. 1 \in DOMAIN Counted /\ 1..1 - 1 = {}
  BY CountedIs
<1>10. WorkersInv'
  <2> DEFINE b == [worker[w] EXCEPT !.pc = "counting", !.at = 1, !.ok = ok]
  <2>1. /\ b \in WorkerBusy /\ b.pc = "counting" /\ b.roles = worker[w].roles /\ b.at = 1 /\ b.ok = ok
        /\ b.rec = worker[w].rec
    BY <1>3, <1>9 DEF WorkerBusy
  <2>2. worker' = [worker EXCEPT ![w] = b]
    BY <1>2, <1>3 DEF WorkersInv, WorkerBusy
  <2> HIDE DEF b
  <2>3. \A x \in Kept' : ~Overlooks(b, x)
    BY <1>5, <1>8, <1>9, <2>1, Overlooked
  <2> QED
    BY <1>1, <1>8, <2>1, <2>2, <2>3, SameRecords, WorkerMoves
<1>11. budget' \in 0..MaxFaults
  BY <1>2, DeletionAssumption DEF RestInv
<1> QED
  BY <1>1, <1>8, <1>10, <1>11, SameRecords, SameRequests DEF RestInv

\* A count that finds nothing of a collection leaves none of it that was not
\* written late: past the delete of the permissions the filter that still
\* names roles hides none.
LEMMA CountKeeps ==
  ASSUME IInv, NEW w \in Worker, CountNext(w)
  PROVE  IInv'
<1> USE DEF IInv
<1> DEFINE at == worker[w].at
           ok == worker[w].ok /\ Matches(w, Counted[at]) = {}
<1>1. /\ worker[w].pc = "counting"
      /\ worker' = IF at = Len(Counted) THEN [worker EXCEPT ![w].pc = "marking", ![w].ok = ok]
                   ELSE [worker EXCEPT ![w].at = @ + 1, ![w].ok = ok]
      /\ UNCHANGED <<status, data, records, aged, req, writes, stray, budget>>
  BY DEF CountNext, At
<1>2. worker[w] \in WorkerBusy /\ Purges(w)
  BY <1>1, Under
<1>3. at \in 1..5
  BY <1>2, CountedIs DEF WorkerBusy
<1>4. \A x \in Kept : x.of # "RolePermission" /\ (worker[w].ok => \A i \in 1..at - 1 : x.of # Counted[i])
  <2> SUFFICES ASSUME NEW x \in Kept
               PROVE  x.of # "RolePermission" /\ (worker[w].ok => \A i \in 1..at - 1 : x.of # Counted[i])
    OBVIOUS
  <2>1. ~Overlooks(worker[w], x)
    BY <1>2 DEF Purges
  <2>2. Overlooks(worker[w], x) <=> \/ x.of = "RolePermission"
                                    \/ (worker[w].ok /\ \E i \in 1..at - 1 : x.of = Counted[i])
    BY <1>1, Overlooked
  <2> QED
    BY <2>1, <2>2
<1>5. ok => \A x \in Kept : x.of # Counted[at]
  BY <1>4 DEF Matches, Kept
<1>6. ok \in BOOLEAN /\ (ok => worker[w].ok)
  OBVIOUS
<1> HIDE DEF ok
<1>7. ok => \A x \in Kept : \A i \in 1..at : x.of # Counted[i]
  BY <1>3, <1>4, <1>5, <1>6
<1>8. Kept' = Kept /\ ShutHolds /\ NothingMissed /\ Shut'
  BY <1>1, <1>2, SameRest DEF Kept, Purges, Shut, Exists
<1>9. worker[w].pc # "idle" /\ Advance
  BY <1>1, SameRecords
<1>10. WorkersInv'
  <2>1. CASE at = 5
    <3>1. worker' = [worker EXCEPT ![w].pc = "marking", ![w].ok = ok]
      BY <1>1, <2>1, CountedIs
    <3> DEFINE b == [worker[w] EXCEPT !.pc = "marking", !.ok = ok]
    <3>2. /\ b \in WorkerBusy /\ b.pc = "marking" /\ b.roles = worker[w].roles /\ b.at = at /\ b.ok = ok
          /\ b.rec = worker[w].rec
      BY <1>2, <1>6 DEF WorkerBusy
    <3>3. worker' = [worker EXCEPT ![w] = b]
      BY <1>2, <3>1 DEF WorkersInv, WorkerBusy
    <3> HIDE DEF b
    <3>4. ok => Kept = {}
      <4>1. \A x \in Kept : x.of \in Range(Counted)
        BY Documents DEF Kept, DataInv
      <4> QED
        BY <1>7, <2>1, <4>1, CountedIs DEF Range
    <3>5. \A x \in Kept' : ~Overlooks(b, x)
      BY <1>8, <3>2, <3>4, Overlooked
    <3> QED
      BY <1>8, <1>9, <3>2, <3>3, <3>5, WorkerMoves
  <2>2. CASE at # 5
    <3> DEFINE next == at + 1
    <3>1. worker' = [worker EXCEPT ![w].at = next, ![w].ok = ok]
      BY <1>1, <2>2, CountedIs
    <3>2. next \in 1..5 /\ next - 1 = at
      BY <1>3, <2>2
    <3>3. next \in DOMAIN Counted
      BY <3>2, CountedIs
    <3>4. \A x \in Kept : x.of # "RolePermission" /\ (ok => \A i \in 1..next - 1 : x.of # Counted[i])
      BY <1>4, <1>7, <3>2
    <3> HIDE DEF next
    <3> DEFINE b == [worker[w] EXCEPT !.at = next, !.ok = ok]
    <3>5. /\ b \in WorkerBusy /\ b.pc = "counting" /\ b.roles = worker[w].roles /\ b.at = next /\ b.ok = ok
          /\ b.rec = worker[w].rec
      BY <1>1, <1>2, <1>6, <3>3 DEF WorkerBusy
    <3>6. worker' = [worker EXCEPT ![w] = b]
      BY <1>2, <3>1 DEF WorkersInv, WorkerBusy
    <3> HIDE DEF b
    <3>7. \A x \in Kept' : ~Overlooks(b, x)
      BY <1>8, <3>4, <3>5, Overlooked
    <3> QED
      BY <1>8, <1>9, <3>5, <3>6, <3>7, WorkerMoves
  <2> QED
    BY <2>1, <2>2
<1>11. budget' \in 0..MaxFaults
  BY <1>1 DEF RestInv
<1> QED
  BY <1>1, <1>10, <1>11, WorkerAlone

LEMMA MarkKeeps ==
  ASSUME IInv, NEW w \in Worker, MarkOutcome(w)
  PROVE  IInv'
<1> USE DEF IInv
<1> DEFINE i == worker[w].rec
<1>1. /\ worker[w].pc = "marking" /\ worker' = [worker EXCEPT ![w] = Idle]
      /\ UNCHANGED <<status, data, aged, req, writes, stray, budget>>
  BY DEF MarkOutcome, At
<1>2. worker[w] \in WorkerBusy /\ Purges(w) /\ i \in DOMAIN records
  BY <1>1, Under DEF Purges
<1>3. ShutHolds /\ NothingMissed
  BY <1>1, SameRest
<1>4. CASE records[i].status # "purging"
  <2>1. UNCHANGED records
    BY <1>4 DEF MarkOutcome
  <2> QED
    BY <1>1, <1>3, <2>1, SameRecords, SameRequests, WorkerStops, SameData DEF RestInv
<1>5. CASE records[i].status = "purging"
  <2>1. PICK st \in {"purged", "failed"}, waits \in BOOLEAN :
          /\ records' = [records EXCEPT ![i].status = st, ![i].waiting = waits]
          /\ st = "purged" => worker[w].ok
    <3>1. CASE worker[w].ok
      <4>1. records' = [records EXCEPT ![i].status = "purged", ![i].waiting = FALSE]
        BY <1>5, <3>1 DEF MarkOutcome
      <4> QED
        BY <3>1, <4>1, Zenon
    <3>2. CASE ~worker[w].ok
      <4>1. records' = [records EXCEPT ![i].status = "failed", ![i].waiting = TRUE]
        BY <1>5, <3>2 DEF MarkOutcome
      <4>2. "failed" # "purged"
        OBVIOUS
      <4> QED
        BY <4>1, <4>2, Zenon
    <3> QED
      BY <3>1, <3>2
  <2> DEFINE d == [records[i] EXCEPT !.status = st, !.waiting = waits]
  <2>2. records[i] \in Record /\ records[i].grace = 0
    BY <1>2, <1>5, Records DEF RecordsInv
  <2>3. d \in Record /\ d.status = st /\ d.grace = 0
    BY <2>2 DEF Record, TENANT_DELETION_STATUSES
  <2>4. records' = [records EXCEPT ![i] = d]
    BY <2>1, <2>2 DEF Record
  <2> HIDE DEF d
  <2>5. /\ RecordsInv' /\ Advance /\ NoTime
        /\ \A j \in DOMAIN records : records'[j] = IF j = i THEN d ELSE records[j]
    BY <1>2, <1>5, <2>2, <2>3, <2>4, OneRecord DEF Over, Doomed
  <2>6. DOMAIN records' = DOMAIN records
    BY <2>4
  <2>7. DataInv'
    <3>1. \E j \in DOMAIN records' : Doomed(j)'
      BY <1>2, <2>3, <2>5, <2>6 DEF Doomed
    <3>2. Shut => Shut'
      BY <1>1 DEF Shut, Exists
    <3>3. ASSUME NEW j \in DOMAIN records', records'[j].status = "purged"
          PROVE  Kept' = {}
      <4>1. CASE j = i
        <5>1. worker[w].ok
          BY <1>2, <2>1, <2>3, <2>5, <3>3, <4>1
        <5>2. \A x \in Kept : x.of \in Range(Counted)
          BY Documents DEF Kept, DataInv
        <5>3. Kept = {}
          BY <1>1, <1>2, <5>1, <5>2, Overlooked DEF Purges
        <5> QED
          BY <1>1, <5>3 DEF Kept
      <4>2. CASE j # i
        BY <1>1, <2>5, <2>6, <3>3, <4>2 DEF DataInv, Purged, Kept
      <4> QED
        BY <4>1, <4>2
    <3> QED
      BY <1>1, <3>1, <3>2, <3>3 DEF DataInv, Purged, Kept
  <2> QED
    BY <1>1, <1>3, <2>5, <2>7, SameRequests, WorkerStops DEF RestInv
<1> QED
  BY <1>4, <1>5

LEMMA FaultKeeps ==
  ASSUME IInv, (\E w \in Worker : Throw(w)) \/ Crash
  PROVE  IInv'
<1> USE DEF IInv
<1>1. budget' \in 0..MaxFaults /\ UNCHANGED <<status, data, records, aged, writes, stray>>
  <2>1. budget > 0 /\ budget' = budget - 1 /\ UNCHANGED <<status, data, records, aged, writes, stray>>
    BY DEF Throw, Crash
  <2> QED
    BY <2>1, DeletionAssumption DEF RestInv
<1>2. ASSUME NEW w \in Worker, worker' = [worker EXCEPT ![w] = Idle], UNCHANGED req PROVE IInv'
  BY <1>1, <1>2, SameRecords, SameRest, WorkerStops, WorkerAlone
<1>3. ASSUME NEW w \in Worker, Throw(w) PROVE IInv'
  <2>1. worker[w] # Idle /\ UNCHANGED req
    BY <1>3 DEF Throw
  <2>2. worker[w] \in WorkerBusy /\ worker[w].pc # "idle"
    BY <2>1 DEF WorkersInv, WorkerBusy
  <2>3. CASE At(w, "marking") /\ ~worker[w].ok
    BY <1>2, <1>3, <2>1, <2>3 DEF Throw
  <2>4. CASE ~(At(w, "marking") /\ ~worker[w].ok)
    <3> DEFINE no == FALSE
    <3>1. no \in BOOLEAN /\ ~no
      OBVIOUS
    <3>2. worker' = [worker EXCEPT ![w] = [@ EXCEPT !.pc = "marking", !.ok = no]]
      BY <1>3, <2>4 DEF Throw
    <3> HIDE DEF no
    <3> DEFINE b == [worker[w] EXCEPT !.pc = "marking", !.ok = no]
    <3>3. /\ b \in WorkerBusy /\ b.pc = "marking" /\ b.roles = worker[w].roles /\ b.at = worker[w].at /\ b.ok = no
          /\ b.rec = worker[w].rec
      BY <2>2, <3>1 DEF WorkerBusy
    <3>4. worker' = [worker EXCEPT ![w] = b]
      BY <2>2, <3>2 DEF WorkersInv, WorkerBusy
    <3> HIDE DEF b
    <3>5. \A x \in Kept' : ~Overlooks(b, x)
      BY <3>1, <3>3, Overlooked
    <3>6. WorkersInv'
      BY <1>1, <2>2, <3>3, <3>4, <3>5, SameRecords, SameRest, WorkerMoves
    <3> QED
      BY <1>1, <2>1, <3>6, WorkerAlone
  <2> QED
    BY <2>3, <2>4
<1>4. ASSUME NEW r \in Request, Done(r), UNCHANGED worker PROVE IInv'
  <2>1. RequestsInv'
    BY <1>1, <1>4, SameRecords, RequestDone
  <2> QED
    BY <1>1, <1>4, <2>1, SameRecords, SameRest, SameWorkers, SameData DEF RestInv
<1>5. CASE Crash
  BY <1>2, <1>4, <1>5 DEF Crash
<1> QED
  BY <1>3, <1>5

----------------------------------------------------------------------------
(* The theorems.                                                           *)

LEMMA NextInv == IInv /\ [Next]_vars => IInv'
<1> SUFFICES ASSUME IInv, [Next]_vars PROVE IInv'
  OBVIOUS
<1>1. CASE Next
  <2>1. ASSUME NEW r \in Request, RequestStep(r) PROVE IInv'
    BY <2>1, CreateKeeps, CloseKeeps, CancelKeeps, LookKeeps, WriteKeeps DEF RequestStep
  <2>2. ASSUME NEW w \in Worker, ClaimDue(w) \/ PurgeStep(w) \/ Throw(w) PROVE IInv'
    BY <2>2, ClaimKeeps, CollectKeeps, CheckKeeps, DeleteKeeps, StorageKeeps, CountKeeps, MarkKeeps, FaultKeeps
       DEF PurgeStep
  <2> QED
    BY <1>1, <2>1, <2>2, BeginsKeep, LateKeeps, TimeKeeps, FaultKeeps DEF Next
<1>2. CASE UNCHANGED vars
  <2>1. RequestsInv'
    BY <1>2, SameRecords, SameRequests DEF vars, IInv
  <2> QED
    BY <1>2, <2>1, RequestAlone DEF vars
<1> QED
  BY <1>1, <1>2

LEMMA Invariant == Spec => []IInv
BY InitInv, NextInv, PTL DEF Spec

\* Requests, purges and records stay within their types: attempts never
\* exceed purgeMaxAttempts, and only the newest record is ever open.
THEOREM TypeInvariant == Spec => []TypeOK
<1>1. IInv => TypeOK
  <2> SUFFICES ASSUME IInv PROVE TypeOK
    OBVIOUS
  <2>1. \A i \in DOMAIN records : records[i].status \in OPEN_DELETION_STATUSES => i = Len(records)
    BY DEF IInv, RecordsInv, OPEN_DELETION_STATUSES, Over
  <2> QED
    BY <2>1 DEF IInv, RecordsInv, RequestsInv, WorkersInv, DataInv, RestInv, TypeOK
<1> QED
  BY <1>1, Invariant, PTL

\* A workspace in use is whole, whatever was requested, cancelled, restored,
\* claimed or retried at the same time, although a purge checks the
\* workspace's status only once.
THEOREM InUseIsWhole == Spec => []OpenIsWhole
<1>1. IInv => OpenIsWhole
  BY DEF IInv, DataInv, Shut, OpenIsWhole
<1> QED
  BY <1>1, Invariant, PTL

\* A purge that took something is not given up.
THEOREM TornIsDoomed == Spec => []TornStaysDoomed
<1>1. IInv => TornStaysDoomed
  BY DEF IInv, DataInv, Doomed, TornStaysDoomed
<1> QED
  BY <1>1, Invariant, PTL

\* A record says purged only when nothing is left but what was written late:
\* after the count that should have found it, or, of a permission, without
\* its role or where the purge had passed its role by.
THEOREM PurgedIsEmpty == Spec => []PurgedLeavesNothing
<1>1. IInv => PurgedLeavesNothing
  BY DEF IInv, DataInv, Kept, PurgedLeavesNothing
<1> QED
  BY <1>1, Invariant, PTL
=============================================================================
