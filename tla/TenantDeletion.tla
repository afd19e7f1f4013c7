--------------------------- MODULE TenantDeletion ---------------------------
(***************************************************************************)
(* The deletion of one workspace (src/src/services/                        *)
(* tenantDeletion.service.js, tenantPurge.registry.js,                     *)
(* tenantLifecycle.service.js, src/src/repositories/                       *)
(* tenantDeletion.repository.js, tenant.repository.js): the owner's        *)
(* request, an admin's cancellation and status changes, and the job that   *)
(* purges, counts what is left and retries.                                *)
(*                                                                         *)
(* Requests and purge workers run in any process; between two of their     *)
(* steps is an await. Of the registry the model keeps one collection of    *)
(* every kind: one filtered by tenant (LoginAttempt), the one whose filter *)
(* needs the ids collected first (RolePermission), the one those ids come  *)
(* from (Role), the Tenant document, and the stored files. The first three *)
(* are still written to while the workspace is closed: a refused login is  *)
(* recorded, and platform admins create roles and grant permissions to     *)
(* them without a look at the workspace. What admins take away is left to  *)
(* the purge.                                                              *)
(* Grace period and archive retention last a day or more and no request    *)
(* does: either half of a grace period ends only when the requests begun   *)
(* before it are over. A purge may outlive its lease, which is never       *)
(* renewed.                                                                *)
(***************************************************************************)
EXTENDS Naturals, Sequences, FiniteSets, Functions

CONSTANTS
  Request, Worker,
  RoleId,
  OwnRole,     \* the role the workspace was set up with
  None,
  MaxAttempts, \* purgeMaxAttempts
  MaxRecords,  \* bound: deletion records ever created
  MaxFaults    \* bound: crashes, failing calls, logins, new roles and grants

ASSUME DeletionAssumption ==
  /\ OwnRole \in RoleId /\ None \notin RoleId
  /\ MaxAttempts \in Nat \ {0} /\ MaxRecords \in Nat /\ MaxFaults \in Nat

VARIABLES
  status,  \* Tenant.status
  data,    \* what there still is of the tenant
  records, \* its TenantDeletion records, oldest first
  aged,    \* the tenant has been archived for archivedRetentionDays
  req, worker,
  writes,  \* what requests that do not look at the status have yet to write
  stray,   \* history: what of data a purge may overlook, as it was written late
  budget   \* faults, logins, new roles and grants left

vars == <<status, data, records, aged, req, worker, writes, stray, budget>>

PURGE_REGISTRY == <<"LoginAttempt", "RolePermission", "Role", "Tenant">>
Counted == Append(PURGE_REGISTRY, "Storage")

(* What the tenant has in a collection; roles and their permissions are    *)
(* told apart by the id of the role.                                       *)
Doc(c, r) == [of |-> c, role |-> r]
Attempt == Doc("LoginAttempt", None)
RoleOf(r) == Doc("Role", r)
Grant(r) == Doc("RolePermission", r)
All == {Doc(c, None) : c \in {"LoginAttempt", "Tenant", "Storage"}} \cup {RoleOf(OwnRole), Grant(OwnRole)}
Writable == {Attempt} \cup {RoleOf(r) : r \in RoleId} \cup {Grant(r) : r \in RoleId}

TENANT_DELETION_STATUSES == {"scheduled", "purging", "purged", "failed", "cancelled"}
OPEN_DELETION_STATUSES == {"scheduled", "purging", "failed"}
Record == [status : TENANT_DELETION_STATUSES, grace : 0..2, waiting : BOOLEAN,
           attempts : 0..MaxAttempts, reopens : BOOLEAN]

Idle == [pc |-> "idle"]
Id == 1..MaxRecords
ReqBusy ==
  [pc : {"requesting", "closing", "withdrawing", "cancelling", "looking", "guarding", "writing"},
   since : 0..2 * MaxRecords + 1, rec : 0..MaxRecords, to : {"none", "active", "suspended", "disabled", "archived"}]
WorkerBusy ==
  [pc : {"collecting", "checking", "deleting", "storing", "counting", "marking"},
   rec : Id, roles : SUBSET RoleId, at : DOMAIN Counted, ok : BOOLEAN]

(* Types; attempts never exceed purgeMaxAttempts, and only the newest      *)
(* record can be open (the unique index on open records).                  *)
TypeOK ==
  /\ status \in {"pending", "active", "suspended", "disabled", "archived"}
  /\ data \subseteq All \cup Writable /\ writes \subseteq Writable
  /\ stray \subseteq data \cap Writable /\ aged \in BOOLEAN
  /\ records \in Seq(Record) /\ Len(records) \leq MaxRecords
  /\ \A i \in DOMAIN records : records[i].status \in OPEN_DELETION_STATUSES => i = Len(records)
  /\ req \in [Request -> {Idle} \cup ReqBusy]
  /\ worker \in [Worker -> {Idle} \cup WorkerBusy]
  /\ budget \in 0..MaxFaults

Open == \E i \in DOMAIN records : records[i].status \in OPEN_DELETION_STATUSES
Purged == \E i \in DOMAIN records : records[i].status = "purged"
Exists == Doc("Tenant", None) \in data

(* A clock that counts records and halves of their grace periods.          *)
Clock ==
  2 * Len(records) + (IF records # <<>> /\ records[Len(records)].grace < 2 THEN 1 ELSE 0)

Init ==
  /\ status \in {"pending", "active"} /\ data = All /\ records = <<>> /\ aged = FALSE
  /\ req = [r \in Request |-> Idle] /\ worker = [w \in Worker |-> Idle]
  /\ writes = {RoleOf(r) : r \in RoleId \ {OwnRole}} /\ stray = {} /\ budget = MaxFaults

----------------------------------------------------------------------------
(* Requests.                                                               *)

Begin(r, pc, rec, to) ==
  /\ req[r] = Idle
  /\ req' = [req EXCEPT ![r] = [pc |-> pc, since |-> Clock, rec |-> rec, to |-> to]]
  /\ UNCHANGED <<status, data, records, aged, worker, writes, stray, budget>>

Goto(r, pc) == req' = [req EXCEPT ![r].pc = pc]
Done(r) == req' = [req EXCEPT ![r] = Idle]

(* requestDeletion: the workspace it read is active.                       *)
BeginRequest(r) ==
  /\ Exists /\ status = "active" /\ Len(records) < MaxRecords
  /\ Begin(r, "requesting", 0, "none")

(* findOpenByTenant and create: the unique index on open records decides.  *)
CreateRecord(r) ==
  /\ req[r].pc = "requesting"
  /\ IF Open \/ Len(records) = MaxRecords
       THEN Done(r) /\ UNCHANGED records
       ELSE /\ records' = Append(records, [status |-> "scheduled", grace |-> 2, waiting |-> FALSE,
                                           attempts |-> 0, reopens |-> TRUE])
            /\ req' = [req EXCEPT ![r].pc = "closing", ![r].rec = Len(records) + 1]
  /\ UNCHANGED <<status, data, aged, worker, writes, stray, budget>>

(* disableForDeletion matches an active tenant only.                       *)
CloseTenant(r) ==
  /\ req[r].pc = "closing"
  /\ IF Exists /\ status = "active"
       THEN status' = "disabled" /\ Done(r)
       ELSE status' = status /\ Goto(r, "withdrawing")
  /\ UNCHANGED <<data, records, aged, worker, writes, stray, budget>>

(* cancelDeletion: the open record it read is scheduled.                   *)
BeginCancel(r) ==
  \E i \in DOMAIN records : records[i].status = "scheduled" /\ Begin(r, "cancelling", i, "none")

(* Mutant: the cancellation no longer requires a record still scheduled.   *)
LateCancel(r) ==
  LET i == req[r].rec IN
  /\ req[r].pc \in {"cancelling", "withdrawing"}
  /\ records' = [records EXCEPT ![i].status = "cancelled"]
  /\ IF req[r].pc = "cancelling" THEN Goto(r, "looking") ELSE Done(r)
  /\ UNCHANGED <<status, data, aged, worker, writes, stray, budget>>

(* cancel(id) of a cancellation, or of a request that could not close the  *)
(* workspace, is a compare-and-set on a record still scheduled.            *)
Cancel(r) ==
  LET i == req[r].rec IN
  /\ req[r].pc \in {"cancelling", "withdrawing"}
  /\ IF records[i].status = "scheduled"
       THEN /\ records' = [records EXCEPT ![i].status = "cancelled"]
            /\ IF req[r].pc = "cancelling" THEN Goto(r, "looking") ELSE Done(r)
       ELSE UNCHANGED records /\ Done(r)
  /\ UNCHANGED <<status, data, aged, worker, writes, stray, budget>>

(* Then the tenant is read, and reopened if the request had closed it.     *)
LookAtTenant(r) ==
  /\ req[r].pc = "looking"
  /\ IF Exists /\ status = "disabled" /\ records[req[r].rec].reopens
       THEN req' = [req EXCEPT ![r].pc = "writing", ![r].to = "active"]
       ELSE Done(r)
  /\ UNCHANGED <<status, data, records, aged, worker, writes, stray, budget>>

allowedFrom ==
  [suspended |-> {"active"},
   active    |-> {"suspended", "disabled"},
   disabled  |-> {"active", "suspended"},
   archived  |-> {"pending", "active", "suspended", "disabled"}]

(* transition: the status read allows the change; only a restore also      *)
(* looks for an open deletion. Nothing is compared when it is written.     *)
BeginTransition(r, to) ==
  /\ Exists /\ status \in allowedFrom[to]
  /\ Begin(r, IF to = "active" THEN "guarding" ELSE "writing", 0, to)

(* Mutant: a restore does not look for an open deletion.                   *)
UnguardedRestore(r) ==
  /\ req[r].pc = "guarding" /\ Goto(r, "writing")
  /\ UNCHANGED <<status, data, records, aged, worker, writes, stray, budget>>

GuardRestore(r) ==
  /\ req[r].pc = "guarding"
  /\ IF Open THEN Done(r) ELSE Goto(r, "writing")
  /\ UNCHANGED <<status, data, records, aged, worker, writes, stray, budget>>

WriteStatus(r) ==
  /\ req[r].pc = "writing"
  /\ status' = IF Exists THEN req[r].to ELSE status
  /\ Done(r)
  /\ UNCHANGED <<data, records, aged, worker, writes, stray, budget>>

(* What purge b has counted, and found none of.                           *)
Cleared(b) ==
  CASE b.pc = "counting" /\ b.ok -> {Counted[i] : i \in 1..b.at - 1}
    [] b.pc = "marking" /\ b.ok  -> Range(Counted)
    [] OTHER                     -> {}

(* Purge b has collected the ids, and does not, or no more, delete the     *)
(* permissions of role r.                                                  *)
Passes(b, r) ==
  \/ b.pc \in {"checking", "deleting"} /\ r \notin b.roles
  \/ b.pc = "deleting" /\ PURGE_REGISTRY[b.at] \in {"Role", "Tenant"}
  \/ b.pc \in {"storing", "counting"}

Overlooks(b, x) == x.of \in Cleared(b) \/ (x.of = "RolePermission" /\ Passes(b, x.role))

(* A write no purge has to notice: after the count of its collection, or,  *)
(* of a permission, without its role or behind the delete of permissions.  *)
Late(x) ==
  \/ Purged
  \/ x.of = "RolePermission" /\ RoleOf(x.role) \notin data
  \/ \E w \in Worker : Overlooks(worker[w], x)

(* A request writes what it decided to write when it read the tenant or    *)
(* the role, whatever has become of the workspace meanwhile.               *)
Write(x) ==
  /\ x \in writes /\ writes' = writes \ {x}
  /\ data' = data \cup {x}
  /\ stray' = IF x \notin data /\ Late(x) THEN stray \cup {x} ELSE stray
  /\ UNCHANGED <<status, records, aged, req, worker>>

(* A login: the attempt it records carries the tenant it resolved before.  *)
BeginLogin ==
  /\ Exists /\ Attempt \notin writes /\ budget > 0
  /\ writes' = writes \cup {Attempt} /\ budget' = budget - 1
  /\ UNCHANGED <<status, data, records, aged, req, worker, stray>>

recordAttempt == Write(Attempt) /\ UNCHANGED budget

(* addPermission, and syncDefaultRolePermissions: the role is read, the    *)
(* permission attached.                                                    *)
BeginGrant(r) ==
  /\ RoleOf(r) \in data /\ Grant(r) \notin writes /\ budget > 0
  /\ writes' = writes \cup {Grant(r)} /\ budget' = budget - 1
  /\ UNCHANGED <<status, data, records, aged, req, worker, stray>>

attachPermission(r) == Write(Grant(r)) /\ UNCHANGED budget

(* create: any tenant id will do, at any time.                             *)
CreateRole(r) == budget > 0 /\ budget' = budget - 1 /\ Write(RoleOf(r))

----------------------------------------------------------------------------
(* Time.                                                                   *)

(* purgeAfter comes nearer in two halves, each longer than any request.    *)
GraceElapses(i) ==
  /\ i \in DOMAIN records /\ records[i].grace > 0
  /\ \A r \in Request : req[r] # Idle => req[r].since >= 2 * (i + 1) - records[i].grace
  /\ records' = [records EXCEPT ![i].grace = @ - 1]
  /\ UNCHANGED <<status, data, aged, req, worker, writes, stray, budget>>

(* leaseUntil or retryAfter passes.                                        *)
WaitEnds(i) ==
  /\ i \in DOMAIN records /\ records[i].waiting
  /\ records' = [records EXCEPT ![i].waiting = FALSE]
  /\ UNCHANGED <<status, data, aged, req, worker, writes, stray, budget>>

Ages ==
  /\ status = "archived" /\ ~aged /\ aged' = TRUE
  /\ \A r \in Request : req[r] = Idle
  /\ UNCHANGED <<status, data, records, req, worker, writes, stray, budget>>

----------------------------------------------------------------------------
(* The purge job.                                                          *)

(* scheduleArchivedTenants, where it is enabled: a deletion an admin       *)
(* cancelled is not created again.                                         *)
ScheduleArchived ==
  /\ Exists /\ status = "archived" /\ aged /\ Len(records) < MaxRecords
  /\ \A i \in DOMAIN records : i = Len(records) =>
       records[i].status \notin OPEN_DELETION_STATUSES \cup {"cancelled"}
  /\ records' = Append(records, [status |-> "scheduled", grace |-> 0, waiting |-> FALSE,
                                 attempts |-> 0, reopens |-> FALSE])
  /\ UNCHANGED <<status, data, aged, req, worker, writes, stray, budget>>

(* Mutant: one attempt too many is claimed.                                *)
GenerousClaimable(d) ==
  /\ d.attempts \leq MaxAttempts /\ d.grace = 0
  /\ d.status = "scheduled" \/ (d.status \in {"failed", "purging"} /\ ~d.waiting)

(* Mutant: the purge of a worker that died is not claimed again.           *)
UnrecoveredClaimable(d) ==
  /\ d.attempts < MaxAttempts /\ d.grace = 0
  /\ d.status = "scheduled" \/ (d.status = "failed" /\ ~d.waiting)

Claimable(d) ==
  /\ d.attempts < MaxAttempts /\ d.grace = 0
  /\ d.status = "scheduled" \/ (d.status \in {"failed", "purging"} /\ ~d.waiting)

ClaimDue(w) ==
  /\ worker[w] = Idle
  /\ \E i \in DOMAIN records :
       /\ Claimable(records[i])
       /\ records' = [records EXCEPT ![i].status = "purging", ![i].waiting = TRUE, ![i].attempts = @ + 1]
       /\ worker' = [worker EXCEPT ![w] = [pc |-> "collecting", rec |-> i, roles |-> {}, at |-> 1, ok |-> TRUE]]
  /\ UNCHANGED <<status, data, aged, req, writes, stray, budget>>

At(w, pc) == worker[w].pc = pc

collectContext(w) ==
  /\ At(w, "collecting")
  /\ worker' = [worker EXCEPT ![w].pc = "checking", ![w].roles = {r \in RoleId : RoleOf(r) \in data}]
  /\ UNCHANGED <<status, data, records, aged, req, writes, stray, budget>>

(* A workspace that is active or pending is refused: TENANT_ACTIVE.        *)
CheckTenant(w) ==
  /\ At(w, "checking")
  /\ worker' = IF Exists /\ status \in {"active", "pending"}
                 THEN [worker EXCEPT ![w].pc = "marking", ![w].ok = FALSE]
                 ELSE [worker EXCEPT ![w].pc = "deleting"]
  /\ UNCHANGED <<status, data, records, aged, req, writes, stray, budget>>

(* What the filter of collection c matches, given the role ids collected.  *)
Matches(w, c) == {x \in data : x.of = c /\ (c = "RolePermission" => x.role \in worker[w].roles)}

(* deleteMany, or deleting files.                                          *)
Delete(docs) == data' = data \ docs /\ stray' = stray \ docs

(* Mutant: the roles are deleted before the permissions that name them.    *)
RolesFirst(w) ==
  LET order == <<"LoginAttempt", "Role", "RolePermission", "Tenant">>
      c     == order[worker[w].at] IN
  /\ At(w, "deleting")
  /\ Delete(Matches(w, c))
  /\ worker' = IF worker[w].at = Len(order)
                 THEN [worker EXCEPT ![w].pc = "storing"]
                 ELSE [worker EXCEPT ![w].at = @ + 1]
  /\ UNCHANGED <<status, records, aged, req, writes, budget>>

DeleteNext(w) ==
  LET c == PURGE_REGISTRY[worker[w].at] IN
  /\ At(w, "deleting")
  /\ Delete(Matches(w, c))
  /\ worker' = IF worker[w].at = Len(PURGE_REGISTRY)
                 THEN [worker EXCEPT ![w].pc = "storing"]
                 ELSE [worker EXCEPT ![w].at = @ + 1]
  /\ UNCHANGED <<status, records, aged, req, writes, budget>>

(* A storage error is kept for the verdict; the purge goes on to count.    *)
purgeStorage(w) ==
  /\ At(w, "storing")
  /\ \E ok \in {TRUE, FALSE} :
       /\ IF ok THEN Delete(Matches(w, "Storage")) ELSE UNCHANGED <<data, stray>>
       /\ budget' = IF ok THEN budget ELSE budget - 1
       /\ budget' \in Nat
       /\ worker' = [worker EXCEPT ![w].pc = "counting", ![w].at = 1, ![w].ok = ok]
  /\ UNCHANGED <<status, records, aged, req, writes>>

(* Verify: count again with the same filters, one collection at a time.    *)
CountNext(w) ==
  LET ok == worker[w].ok /\ Matches(w, Counted[worker[w].at]) = {} IN
  /\ At(w, "counting")
  /\ worker' = IF worker[w].at = Len(Counted)
                 THEN [worker EXCEPT ![w].pc = "marking", ![w].ok = ok]
                 ELSE [worker EXCEPT ![w].at = @ + 1, ![w].ok = ok]
  /\ UNCHANGED <<status, data, records, aged, req, writes, stray, budget>>

(* markPurged and markFailed match a record that is purging, whoever       *)
(* claimed it.                                                             *)
MarkOutcome(w) ==
  LET i == worker[w].rec IN
  /\ At(w, "marking")
  /\ records' = IF records[i].status # "purging" THEN records
                ELSE IF worker[w].ok THEN [records EXCEPT ![i].status = "purged", ![i].waiting = FALSE]
                ELSE [records EXCEPT ![i].status = "failed", ![i].waiting = TRUE]
  /\ worker' = [worker EXCEPT ![w] = Idle]
  /\ UNCHANGED <<status, data, aged, req, writes, stray, budget>>

(* A call of the purge throws: the catch block marks the attempt failed,   *)
(* or cannot do that either. A process dies.                               *)
Throw(w) ==
  /\ worker[w] # Idle /\ budget > 0 /\ budget' = budget - 1
  /\ worker' = [worker EXCEPT ![w] =
                  IF At(w, "marking") /\ ~worker[w].ok THEN Idle ELSE [@ EXCEPT !.pc = "marking", !.ok = FALSE]]
  /\ UNCHANGED <<status, data, records, aged, req, writes, stray>>

Crash ==
  /\ budget > 0 /\ budget' = budget - 1
  /\ \/ \E w \in Worker : worker[w] # Idle /\ worker' = [worker EXCEPT ![w] = Idle] /\ req' = req
     \/ \E r \in Request : req[r] # Idle /\ Done(r) /\ worker' = worker
  /\ UNCHANGED <<status, data, records, aged, writes, stray>>

----------------------------------------------------------------------------
RequestStep(r) ==
  CreateRecord(r) \/ CloseTenant(r) \/ Cancel(r) \/ LookAtTenant(r) \/ GuardRestore(r) \/ WriteStatus(r)

PurgeStep(w) ==
  collectContext(w) \/ CheckTenant(w) \/ DeleteNext(w) \/ purgeStorage(w) \/ CountNext(w) \/ MarkOutcome(w)

Next ==
  \/ \E r \in Request : \/ BeginRequest(r) \/ BeginCancel(r) \/ RequestStep(r)
                        \/ \E to \in DOMAIN allowedFrom : BeginTransition(r, to)
  \/ BeginLogin \/ recordAttempt
  \/ \E r \in RoleId : BeginGrant(r) \/ attachPermission(r) \/ CreateRole(r)
  \/ \E i \in Id : GraceElapses(i) \/ WaitEnds(i)
  \/ Ages \/ ScheduleArchived
  \/ \E w \in Worker : ClaimDue(w) \/ PurgeStep(w) \/ Throw(w)
  \/ Crash

Spec == Init /\ [][Next]_vars

(* A request that has begun goes on until it ends or dies; the purge job   *)
(* runs again and again, one worker or the other going on with its purge;  *)
(* time passes.                                                            *)
FairSpec ==
  /\ Spec
  /\ \A r \in Request : WF_vars(RequestStep(r))
  /\ WF_vars(\E w \in Worker : ClaimDue(w) \/ PurgeStep(w))
  /\ WF_vars(\E i \in Id : GraceElapses(i) \/ WaitEnds(i))

----------------------------------------------------------------------------
(* A workspace in use is whole: while its status is active or pending, no  *)
(* purge has taken anything from it, whatever was requested, cancelled,    *)
(* restored, claimed or retried at the same time (the check in purgeTenant *)
(* is made once, before the deletes).                                      *)
OpenIsWhole == Exists /\ status \in {"active", "pending"} => All \subseteq data

(* A purge that took something is not given up: its record stays purging   *)
(* or failed until it is purged, and no cancellation that read it as       *)
(* scheduled, nor a worker that lost its claim, gets in between.           *)
TornStaysDoomed ==
  ~(All \subseteq data) => \E i \in DOMAIN records : records[i].status \in {"purging", "failed", "purged"}

(* A record says purged only when nothing is left but what was written     *)
(* late: after the count that should have found it, or a permission whose  *)
(* role id the purge did not collect, had passed, or had deleted with the  *)
(* role. Attempts that die half-way, overlap after a lapsed lease or begin *)
(* when the ids they filter by are deleted leave nothing behind.           *)
PurgedLeavesNothing == Purged => data \subseteq stray

(* Every deletion ends: purged, cancelled, or out of attempts.             *)
DeletionSettles ==
  \A i \in Id :
    i \in DOMAIN records ~> (/\ i \in DOMAIN records
                             /\ \/ records[i].status \notin OPEN_DELETION_STATUSES
                                \/ records[i].attempts = MaxAttempts)
=============================================================================
