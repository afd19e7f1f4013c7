----------------------------- MODULE TickMutex -----------------------------
(***************************************************************************)
(* What the distributed lock of a scheduled job promises to its callers,   *)
(* without leases, clocks, messages or storage: of all the scheduler       *)
(* processes that fire the same cron tick at most one is ever given it,    *)
(* and the lock passes from one grant to the next only while it is free.   *)
(*                                                                         *)
(* JobScheduler implements this specification (see Abstract there).        *)
(***************************************************************************)
CONSTANTS Instance,   \* scheduler processes
          Tick,       \* scheduled times of one job
          Nobody      \* the holder of a free lock; not a grant

VARIABLES holder,     \* the grant the lock is held under, or Nobody
          granted     \* every grant made so far

vars == <<holder, granted>>

Init == holder = Nobody /\ granted = {}

\* The lock is free and no process was given tick T: i gets it. The grant may
\* reach i so late that its lease is already over, and the lock free again.
Start(i, T) ==
  /\ holder = Nobody
  /\ \A e \in granted : e[2] # T
  /\ granted' = granted \cup {<<i, T>>}
  /\ holder' \in {<<i, T>>, Nobody}

\* A holder that lost the lock gets it back while nobody else has it.
Regain(e) ==
  /\ holder = Nobody
  /\ holder' = e
  /\ UNCHANGED granted

\* Released, or the lease ran out.
Lose ==
  /\ holder # Nobody
  /\ holder' = Nobody
  /\ UNCHANGED granted

Next ==
  \/ \E i \in Instance, T \in Tick : Start(i, T)
  \/ \E e \in granted : Regain(e)
  \/ Lose

Spec == Init /\ [][Next]_vars
=============================================================================
