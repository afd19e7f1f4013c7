------------------------------- MODULE Outbox -------------------------------
(***************************************************************************)
(* The email outbox: OutboundEmail records, the drain of the email job and *)
(* the dispatch of a single message (src/src/services/outbox.service.js,   *)
(* src/src/repositories/outboundEmail.repository.js).                      *)
(*                                                                         *)
(* Workers are activities of any process: a drain claims up to Batch due   *)
(* messages one after the other, a dispatch claims one given message. The  *)
(* times a record stores are kept relative to the present and Pass shifts  *)
(* them, so that time needs no end; a worker's `age` is how long ago it    *)
(* read the clock whose value it still uses.                               *)
(***************************************************************************)
EXTENDS Integers, FiniteSets

CONSTANTS
  Message,         \* one per dedupe key
  Worker,
  Nobody,          \* lockedBy of a record nobody claims; a drain's target
  Batch,           \* OUTBOX_BATCH_SIZE
  Lease,           \* OUTBOX_LEASE_MS
  Patience,        \* one claim, send and outcome take less than this
  MaxAttempts,     \* OUTBOX_MAX_ATTEMPTS
  BackoffBase, BackoffMax,
  MaxCrashes, MaxWriteFailures, MaxRequeues   \* bounds

ASSUME OutboxAssumption ==
  /\ Nobody \notin Message \cup Worker
  /\ Batch \in Nat \ {0} /\ Lease \in Nat \ {0} /\ Patience \in Nat \ {0}
  /\ MaxAttempts \in Nat \ {0} /\ BackoffBase \in Nat \ {0} /\ BackoffMax \in Nat \ {0}
  /\ MaxCrashes \in Nat /\ MaxWriteFailures \in Nat /\ MaxRequeues \in Nat

VARIABLES
  rec,       \* the OutboundEmail record of each message
  worker,    \* what each worker is doing
  copies,    \* history: copies of each message the transport accepted
  tries,     \* history: sends of each message handed to the transport
  lostAcks,  \* history: accepts whose `sent` write was lost, in a crash or as a failed write
  crashes, writeFailures, requeues

vars == <<rec, worker, copies, tries, lostAcks, crashes, writeFailures, requeues>>

Answer == {"accepted", "transient", "permanent"}

\* The oldest clock value a worker can still be using.
MaxAge == Batch * Patience

Record == [status : {"absent", "pending", "sending", "retrying", "sent", "dead"},
           attempts : Nat, due : Int, lockedBy : Worker \cup {Nobody}, lease : Int]
Activity == [pc : {"idle", "claiming", "sending", "marking"}, target : Message \cup {Nobody},
             left : 0 .. Batch, age : 0 .. MaxAge, busy : 0 .. Patience,
             msg : Message \cup {Nobody}, attempts : Nat, answer : Answer]

TypeOK ==
  /\ rec \in [Message -> Record]
  /\ worker \in [Worker -> Activity]
  /\ copies \in [Message -> Nat] /\ tries \in [Message -> Nat] /\ lostAcks \in [Message -> Nat]
  /\ crashes \in Nat /\ writeFailures \in Nat /\ requeues \in [Message -> Nat]
  /\ \A m \in Message : (rec[m].status = "sending") <=> (rec[m].lockedBy # Nobody)

Absent == [status |-> "absent", attempts |-> 0, due |-> 0, lockedBy |-> Nobody, lease |-> 0]
Resting == [pc |-> "idle", target |-> Nobody, left |-> 0, age |-> 0, busy |-> 0,
            msg |-> Nobody, attempts |-> 0, answer |-> "transient"]

Init ==
  /\ rec = [m \in Message |-> Absent]
  /\ worker = [w \in Worker |-> Resting]
  /\ copies = [m \in Message |-> 0] /\ tries = [m \in Message |-> 0]
  /\ lostAcks = [m \in Message |-> 0]
  /\ crashes = 0 /\ writeFailures = 0 /\ requeues = [m \in Message |-> 0]

----------------------------------------------------------------------------
\* record(): a new key is stored as pending and due at once; for a key that
\* exists, here or in a concurrent insert, the record stays as it is.
Enqueue(m) ==
  /\ rec[m].status = "absent"
  /\ rec' = [rec EXCEPT ![m] = [Absent EXCEPT !.status = "pending"]]
  /\ UNCHANGED <<worker, copies, tries, lostAcks, crashes, writeFailures, requeues>>

\* The email job's handler reads the clock once for the whole batch.
BeginDrain(w) ==
  /\ worker[w].pc = "idle"
  /\ worker' = [worker EXCEPT ![w] = [Resting EXCEPT !.pc = "claiming", !.left = Batch]]
  /\ UNCHANGED <<rec, copies, tries, lostAcks, crashes, writeFailures, requeues>>

\* dispatchById, after an enqueue or from sendNow (also of a known key).
BeginDispatch(w, m) ==
  /\ worker[w].pc = "idle" /\ rec[m].status \notin {"absent", "sent"}
  /\ worker' = [worker EXCEPT ![w] = [Resting EXCEPT !.pc = "claiming", !.left = 1, !.target = m]]
  /\ UNCHANGED <<rec, copies, tries, lostAcks, crashes, writeFailures, requeues>>

\* Mutant: a crashed sender's message is not claimed again.
ForgetfulClaimable(m, age) == rec[m].status \in {"pending", "retrying"} /\ rec[m].due <= -age

\* Due at the caller's clock, or sending under a lease that ended by it.
Claimable(m, age) ==
  \/ rec[m].status \in {"pending", "retrying"} /\ rec[m].due <= -age
  \/ rec[m].status = "sending" /\ rec[m].lease <= -age

Claimed(w) == {m \in Message : Claimable(m, worker[w].age) /\ worker[w].target \in {Nobody, m}}

\* Mutant: a claim does not count the attempt when it takes over an expired one.
UncountedTakeover(w, m) ==
  /\ rec' = [rec EXCEPT ![m] =
       [status |-> "sending", due |-> rec[m].due, lockedBy |-> w, lease |-> Lease - worker[w].age,
        attempts |-> IF rec[m].status = "sending" THEN rec[m].attempts ELSE rec[m].attempts + 1]]
  /\ worker' = [worker EXCEPT ![w].pc = "sending", ![w].msg = m,
                              ![w].attempts = rec'[m].attempts]

\* Mutant: the lease of a claim is over when it is taken.
LeaselessTake(w, m) ==
  /\ rec' = [rec EXCEPT ![m] =
       [status |-> "sending", due |-> rec[m].due, lockedBy |-> w, lease |-> -worker[w].age,
        attempts |-> rec[m].attempts + 1]]
  /\ worker' = [worker EXCEPT ![w].pc = "sending", ![w].msg = m,
                              ![w].attempts = rec[m].attempts + 1]

\* The claim's update: the lease runs from the clock value the caller passed.
Take(w, m) ==
  /\ rec' = [rec EXCEPT ![m] =
       [status |-> "sending", due |-> rec[m].due, lockedBy |-> w, lease |-> Lease - worker[w].age,
        attempts |-> rec[m].attempts + 1]]
  /\ worker' = [worker EXCEPT ![w].pc = "sending", ![w].msg = m,
                              ![w].attempts = rec[m].attempts + 1]

\* claimNext: one of the longest due.
ClaimNext(w) ==
  /\ worker[w].pc = "claiming"
  /\ \E m \in Claimed(w) :
       /\ \A other \in Claimed(w) : rec[m].due <= rec[other].due
       /\ Take(w, m)
  /\ UNCHANGED <<copies, tries, lostAcks, crashes, writeFailures, requeues>>

NothingToClaim(w) ==
  /\ worker[w].pc = "claiming" /\ Claimed(w) = {}
  /\ worker' = [worker EXCEPT ![w] = Resting]
  /\ UNCHANGED <<rec, copies, tries, lostAcks, crashes, writeFailures, requeues>>

\* The attempt fails for good before anything is sent: the budget is already
\* spent (a claim taken over after its last attempt), or it cannot be rendered.
Unsendable(w) ==
  /\ worker[w].pc = "sending"
  /\ worker' = [worker EXCEPT ![w].pc = "marking", ![w].answer = "permanent"]
  /\ UNCHANGED <<rec, copies, tries, lostAcks, crashes, writeFailures, requeues>>

\* The transport answers within its timeouts.
Send(w, answer) ==
  /\ worker[w].pc = "sending" /\ worker[w].attempts <= MaxAttempts
  /\ worker' = [worker EXCEPT ![w].pc = "marking", ![w].answer = answer]
  /\ tries' = [tries EXCEPT ![worker[w].msg] = @ + 1]
  /\ copies' = IF answer = "accepted" THEN [copies EXCEPT ![worker[w].msg] = @ + 1] ELSE copies
  /\ UNCHANGED <<rec, lostAcks, crashes, writeFailures, requeues>>

Backoff(n) ==
  LET wait == BackoffBase * 2 ^ (n - 1) IN IF wait < BackoffMax THEN wait ELSE BackoffMax

\* Mutant: a retry keeps the claim of the worker that gave up.
ClingingOutcome(w) ==
  LET m == worker[w].msg
      freed == [rec[m] EXCEPT !.lockedBy = Nobody, !.lease = 0]
  IN  CASE worker[w].answer = "accepted" -> [freed EXCEPT !.status = "sent"]
        [] \/ worker[w].answer = "permanent"
           \/ worker[w].answer = "transient" /\ worker[w].attempts >= MaxAttempts ->
                [freed EXCEPT !.status = "dead"]
        [] OTHER -> [rec[m] EXCEPT !.status = "retrying",
                                   !.due = Backoff(worker[w].attempts) - worker[w].age]

\* What markSent, markRetry or markDead writes.
Outcome(w) ==
  LET m == worker[w].msg
      freed == [rec[m] EXCEPT !.lockedBy = Nobody, !.lease = 0]
  IN  CASE worker[w].answer = "accepted" -> [freed EXCEPT !.status = "sent"]
        [] \/ worker[w].answer = "permanent"
           \/ worker[w].answer = "transient" /\ worker[w].attempts >= MaxAttempts ->
                [freed EXCEPT !.status = "dead"]
        [] OTHER -> [freed EXCEPT !.status = "retrying",
                                  !.due = Backoff(worker[w].attempts) - worker[w].age]

\* Mutant: an outcome is written whoever claims the message now.
TokenlessHolds(w) == rec[worker[w].msg].status = "sending"

\* The `claimed` filter: still sending under this very claim.
Holds(w) == rec[worker[w].msg].status = "sending" /\ rec[worker[w].msg].lockedBy = w

\* The batch goes on, with the clock value it began with.
NextMessage(w) ==
  worker' = [worker EXCEPT ![w] =
    IF @.left > 1
      THEN [Resting EXCEPT !.pc = "claiming", !.left = worker[w].left - 1,
                           !.age = worker[w].age, !.target = worker[w].target]
      ELSE Resting]

\* deliverClaimed records the outcome; one that no longer applies is dropped.
Mark(w) ==
  /\ worker[w].pc = "marking"
  /\ rec' = IF Holds(w) THEN [rec EXCEPT ![worker[w].msg] = Outcome(w)] ELSE rec
  /\ NextMessage(w)
  /\ UNCHANGED <<copies, tries, lostAcks, crashes, writeFailures, requeues>>

\* The outcome cannot be written. markSent runs inside the try of the send, so
\* its error is handled as a failed send; any other error ends the drain.
WriteFails(w) ==
  /\ worker[w].pc = "marking" /\ writeFailures < MaxWriteFailures
  /\ writeFailures' = writeFailures + 1
  /\ worker' = [worker EXCEPT ![w] =
       IF @.answer = "accepted" THEN [@ EXCEPT !.answer = "transient"] ELSE Resting]
  /\ lostAcks' = IF worker[w].answer = "accepted"
                   THEN [lostAcks EXCEPT ![worker[w].msg] = @ + 1] ELSE lostAcks
  /\ UNCHANGED <<rec, copies, tries, crashes, requeues>>

Crash(w) ==
  /\ worker[w].pc # "idle" /\ crashes < MaxCrashes
  /\ crashes' = crashes + 1
  /\ lostAcks' = IF worker[w].pc = "marking" /\ worker[w].answer = "accepted"
                   THEN [lostAcks EXCEPT ![worker[w].msg] = @ + 1] ELSE lostAcks
  /\ worker' = [worker EXCEPT ![w] = Resting]
  /\ UNCHANGED <<rec, copies, tries, writeFailures, requeues>>

\* An operator returns a dead letter to the queue with a fresh budget.
RequeueDead(m) ==
  /\ rec[m].status = "dead" /\ requeues[m] < MaxRequeues
  /\ rec' = [rec EXCEPT ![m] = [Absent EXCEPT !.status = "pending"]]
  /\ requeues' = [requeues EXCEPT ![m] = @ + 1]
  /\ UNCHANGED <<worker, copies, tries, lostAcks, crashes, writeFailures>>

\* Time passes, unless a worker would exceed its Patience. A time longer ago
\* than any clock value in use is as good as that value.
Older(t) == IF t > -MaxAge THEN t - 1 ELSE t

Pass ==
  /\ \A w \in Worker : worker[w].pc # "idle" => worker[w].busy + 1 < Patience
  /\ rec' = [m \in Message |->
       [rec[m] EXCEPT !.due = IF rec[m].status \in {"pending", "sending", "retrying"}
                                THEN Older(@) ELSE @,
                      !.lease = IF rec[m].status = "sending" THEN Older(@) ELSE @]]
  /\ worker' = [w \in Worker |->
       IF worker[w].pc = "idle" THEN worker[w]
       ELSE [worker[w] EXCEPT !.age = @ + 1, !.busy = @ + 1]]
  /\ UNCHANGED <<copies, tries, lostAcks, crashes, writeFailures, requeues>>

Work(w) ==
  \/ ClaimNext(w) \/ NothingToClaim(w)
  \/ Unsendable(w) \/ \E answer \in Answer : Send(w, answer)
  \/ Mark(w) \/ WriteFails(w)

Next ==
  \/ \E m \in Message : Enqueue(m) \/ RequeueDead(m)
  \/ \E w \in Worker : BeginDrain(w) \/ Work(w) \/ Crash(w) \/ \E m \in Message : BeginDispatch(w, m)
  \/ Pass

Spec == Init /\ [][Next]_vars

\* The email job ticks for ever, a request ends, time passes.
Fairness ==
  /\ \A w \in Worker : WF_vars(Work(w)) /\ WF_vars(BeginDrain(w))
  /\ WF_vars(Pass)

FairSpec == Spec /\ Fairness

----------------------------------------------------------------------------
\* "A message is claimed atomically before it is sent, so concurrent drains
\* never send it twice. Delivery is at-least-once only across a crash between
\* the SMTP accept and the `sent` write": every further copy of a message is
\* paid for by one accept whose `sent` write was lost, in a crash or otherwise.
DuplicateOnlyAcrossLostAck == \A m \in Message : copies[m] <= 1 + lostAcks[m]

\* However claims expire, are taken over and requeued, each budget of attempts
\* hands a message to the transport at most MaxAttempts times.
SendBudget == \A m \in Message : tries[m] <= MaxAttempts * (1 + requeues[m])

\* "The outcome of a claim whose lease expired and was re-claimed can no longer
\* be written": a worker that lost its claim changes nothing by finishing.
StaleOutcomeIgnored ==
  [][\A w \in Worker :
       /\ worker[w].pc = "marking" /\ worker'[w] # worker[w] /\ worker'[w].pc # "marking"
       /\ rec[worker[w].msg].lockedBy # w
       => rec'[worker[w].msg] = rec[worker[w].msg]]_vars

\* No message is stuck: what was enqueued is sent or dead-lettered, whatever
\* crashes, as long as the email job keeps draining.
EveryMessageSettles ==
  \A m \in Message : rec[m].status # "absent" ~> rec[m].status \in {"sent", "dead"}
=============================================================================
