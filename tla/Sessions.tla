------------------------------ MODULE Sessions ------------------------------
(***************************************************************************)
(* Logins of one account: session families, refresh-token rotation, replay *)
(* detection and revocation (src/src/modules/iam/auth/auth.service.js,     *)
(* session.service.js, password.service.js, src/src/services/              *)
(* profile.service.js, user.service.js, src/src/repositories/              *)
(* session.repository.js).                                                 *)
(*                                                                         *)
(* A session is known by its place in the order of creation. Requests are  *)
(* handlers of any process; between two of their steps is an await. An     *)
(* updateMany is no transaction: it visits the active sessions of the      *)
(* account one by one, in the order of the index on (actorId, status).     *)
(* Restrictions, step-up and lockout are not modelled; `active` stands for *)
(* the status of the account and of its tenant.                            *)
(***************************************************************************)
EXTENDS Naturals, FiniteSets, FiniteSetsExt

CONSTANTS
  MaxSessions, \* bound: sessions ever created
  Request,     \* concurrent requests
  Ttl,         \* refreshTokenTtl
  AbsoluteTtl, \* sessionAbsoluteTtl
  Grace,       \* refreshReuseGraceMs
  MaxTime, MaxLogins, MaxEvents   \* bounds; an event is a crash, a revocation of all or a deactivation

ASSUME SessionsAssumption ==
  /\ MaxSessions \in Nat /\ Ttl \in Nat /\ AbsoluteTtl \in Nat /\ Grace \in Nat
  /\ MaxTime \in Nat /\ MaxLogins \in Nat /\ MaxEvents \in Nat

Sid == 1..MaxSessions

VARIABLES
  session,  \* the Session documents
  born,     \* how many there are
  held,     \* sessions whose refresh token, or an access token for which, was handed out
  tokens,   \* those of which it was the refresh token
  req,      \* what each request is doing
  active,   \* the account and its tenant are active
  now,
  ended,    \* history: families that a finished revocation was about
  budget    \* logins and events left

vars == <<session, born, held, tokens, req, active, now, ended, budget>>

Absent == [status |-> "none", rotated |-> FALSE, next |-> 0, family |-> 0,
           since |-> 0, expires |-> 0, rotatedAt |-> 0]
Session == [status : {"none", "active", "revoked", "expired"}, rotated : BOOLEAN, next : 0..MaxSessions,
            family : 0..MaxSessions, since : 0..MaxTime, expires : 0..MaxTime + Ttl, rotatedAt : 0..MaxTime]

Idle == [pc |-> "idle"]
Busy ==
  [pc : {"signing"}]
    \cup [pc : {"chasing", "checking", "creating", "marking", "answering", "undoing", "rejoining"},
          of : Sid, joins : BOOLEAN, new : 0..MaxSessions]
    \cup [pc : {"sweeping"}, at : 1..MaxSessions + 1, upto : 0..MaxSessions]
    \cup [pc : {"revoking"}, of : Sid, targets : SUBSET Sid, quiet : BOOLEAN]

TypeOK ==
  /\ session \in [Sid -> Session] /\ born \in 0..MaxSessions
  /\ \A s \in Sid : (session[s].status = "none" <=> s > born)
                     /\ (session[s].rotated => session[s].next \in s + 1..born)
  /\ tokens \subseteq held /\ held \subseteq 1..born
  /\ req \in [Request -> {Idle} \cup Busy]
  /\ active \in BOOLEAN
  /\ now \in 0..MaxTime /\ ended \subseteq 1..born
  /\ budget \in [logins : 0..MaxLogins, events : 0..MaxEvents]

Init ==
  /\ session = [s \in Sid |-> Absent] /\ born = 0 /\ held = {} /\ tokens = {}
  /\ req = [c \in Request |-> Idle]
  /\ active = TRUE /\ now = 0 /\ ended = {}
  /\ budget = [logins |-> MaxLogins, events |-> MaxEvents]

----------------------------------------------------------------------------
\* Past its own expiresAt; the family's deadline caps it.
Over(s) == session[s].expires <= now \/ session[s].since + AbsoluteTtl <= now
Live(s) == session[s].status = "active" /\ ~Over(s)

\* create(): a document whose expiry slides, never past the family's deadline.
Created(family, since) ==
  [Absent EXCEPT !.status = "active", !.family = family, !.since = since,
                 !.expires = Min({now + Ttl, since + AbsoluteTtl})]

\* revoke(): only an active session ends.
Revoked(s) ==
  IF session[s].status = "active"
  THEN [session EXCEPT ![s].status = "revoked"] ELSE session

Become(c, state) == req' = [req EXCEPT ![c] = state]
StartsSweep(c) == Become(c, [pc |-> "sweeping", at |-> 1, upto |-> born])

\* A request about this family begins: a logout of it is not alone any more.
Noticed(f) ==
  [d \in Request |->
     IF req[d].pc = "revoking" /\ session[req[d].of].family = f
     THEN [req[d] EXCEPT !.quiet = FALSE] ELSE req[d]]

----------------------------------------------------------------------------
\* Signing in.

\* login: the password is proven and account and tenant are active.
BeginLogin(c) ==
  /\ req[c] = Idle /\ active
  /\ budget.logins > 0 /\ budget' = [budget EXCEPT !.logins = @ - 1]
  /\ Become(c, [pc |-> "signing"])
  /\ UNCHANGED <<session, born, held, tokens, active, now, ended>>

\* startSession: the root of a new family.
SignIn(c) ==
  /\ req[c].pc = "signing" /\ born < MaxSessions
  /\ born' = born + 1
  /\ session' = [session EXCEPT ![born'] = Created(born', now)]
  /\ held' = held \cup {born'} /\ tokens' = tokens \cup {born'}
  /\ Become(c, Idle)
  /\ UNCHANGED <<active, now, ended, budget>>

----------------------------------------------------------------------------
\* refresh.

\* The session of the presented token, as it is now: a token that was rotated
\* within the grace looks for its successor, any other that is not active
\* revokes everything.
BeginRefresh(c, s) ==
  /\ req[c] = Idle /\ s \in tokens
  /\ LET refreshing(pc) == [pc |-> pc, of |-> s, joins |-> FALSE, new |-> 0] IN
     req' = [Noticed(session[s].family) EXCEPT ![c] =
               CASE session[s].status = "active" -> refreshing("checking")
                 [] session[s].rotated /\ now - session[s].rotatedAt <= Grace -> refreshing("chasing")
                 [] OTHER -> [pc |-> "sweeping", at |-> 1, upto |-> born]]
  /\ UNCHANGED <<session, born, held, tokens, active, now, ended, budget>>

\* liveSuccessorOf: one hop.
Chase(c) ==
  /\ req[c].pc = "chasing"
  /\ IF Live(session[req[c].of].next)
     THEN Become(c, [req[c] EXCEPT !.pc = "checking", !.joins = TRUE])
     ELSE StartsSweep(c)
  /\ UNCHANGED <<session, born, held, tokens, active, now, ended, budget>>

\* Expiry, then the account and its tenant. A joining request gets an access
\* token of the successor and leaves the cookie alone.
Check(c) ==
  LET current == IF req[c].joins THEN session[req[c].of].next ELSE req[c].of IN
  /\ req[c].pc = "checking"
  /\ \/ /\ Over(current)   \* markExpired
        /\ session' = IF session[current].status = "active"
                      THEN [session EXCEPT ![current].status = "expired"] ELSE session
        /\ Become(c, Idle) /\ UNCHANGED held
     \/ /\ ~Over(current) /\ ~active
        /\ StartsSweep(c) /\ UNCHANGED <<session, held>>
     \/ /\ ~Over(current) /\ active /\ req[c].joins
        /\ held' = held \cup {current} /\ Become(c, Idle) /\ UNCHANGED session
     \/ /\ ~Over(current) /\ active /\ ~req[c].joins
        /\ Become(c, [req[c] EXCEPT !.pc = "creating"]) /\ UNCHANGED <<session, held>>
  /\ UNCHANGED <<born, tokens, active, now, ended, budget>>

\* Mutant: the successor's lifetime starts afresh.
RenewedSuccessor(s) == Created(session[s].family, now)

\* The successor stays in the family and keeps the original sign-in time.
Successor(s) == Created(session[s].family, session[s].since)

\* rotate: the successor is stored first.
CreateSuccessor(c) ==
  /\ req[c].pc = "creating" /\ born < MaxSessions
  /\ born' = born + 1
  /\ session' = [session EXCEPT ![born'] = Successor(req[c].of)]
  /\ Become(c, [req[c] EXCEPT !.pc = "marking", !.new = born'])
  /\ UNCHANGED <<held, tokens, active, now, ended, budget>>

\* Mutant: markRotated does not compare the status.
BlindMarkRotated(c) ==
  /\ req[c].pc = "marking"
  /\ session' = [session EXCEPT ![req[c].of].status = "revoked", ![req[c].of].rotated = TRUE,
                                ![req[c].of].next = req[c].new, ![req[c].of].rotatedAt = now]
  /\ Become(c, [req[c] EXCEPT !.pc = "answering"])
  /\ UNCHANGED <<born, held, tokens, active, now, ended, budget>>

\* Mutant: replacedBy is not recorded.
TracelessMarkRotated(c) ==
  /\ req[c].pc = "marking" /\ session[req[c].of].status = "active"
  /\ session' = [session EXCEPT ![req[c].of].status = "revoked", ![req[c].of].rotated = TRUE]
  /\ Become(c, [req[c] EXCEPT !.pc = "answering"])
  /\ UNCHANGED <<born, held, tokens, active, now, ended, budget>>

\* markRotated: exactly one caller ends the predecessor.
MarkRotated(c) ==
  LET s == req[c].of IN
  /\ req[c].pc = "marking"
  /\ IF session[s].status = "active"
     THEN /\ session' = [session EXCEPT ![s].status = "revoked", ![s].rotated = TRUE,
                                        ![s].next = req[c].new, ![s].rotatedAt = now]
          /\ Become(c, [req[c] EXCEPT !.pc = "answering"])
     ELSE UNCHANGED session /\ Become(c, [req[c] EXCEPT !.pc = "undoing"])
  /\ UNCHANGED <<born, held, tokens, active, now, ended, budget>>

\* The successor's tokens are handed out.
Answer(c) ==
  /\ req[c].pc = "answering"
  /\ held' = held \cup {req[c].new} /\ tokens' = tokens \cup {req[c].new}
  /\ Become(c, Idle)
  /\ UNCHANGED <<session, born, active, now, ended, budget>>

\* Mutant: the loser of a rotation race answers with the successor it created.
ForkingUndo(c) ==
  /\ req[c].pc = "undoing"
  /\ session' = IF session[req[c].of].rotated THEN session ELSE Revoked(req[c].new)
  /\ Become(c, [req[c] EXCEPT !.pc = IF session[req[c].of].rotated THEN "answering" ELSE "rejoining"])
  /\ UNCHANGED <<born, held, tokens, active, now, ended, budget>>

\* rotation_superseded: the loser ends the successor it created.
Undo(c) ==
  /\ req[c].pc = "undoing"
  /\ session' = Revoked(req[c].new)
  /\ Become(c, [req[c] EXCEPT !.pc = "rejoining"])
  /\ UNCHANGED <<born, held, tokens, active, now, ended, budget>>

\* The loser answers for the winner's successor, if there is a live one.
Rejoin(c) ==
  LET s == req[c].of IN
  /\ req[c].pc = "rejoining"
  /\ held' = IF session[s].rotated /\ Live(session[s].next) THEN held \cup {session[s].next} ELSE held
  /\ Become(c, Idle)
  /\ UNCHANGED <<session, born, tokens, active, now, ended, budget>>

----------------------------------------------------------------------------
\* Ending sessions.

\* resetPassword, logoutAll, removal, lockout: revokeAllForActor.
BeginRevokeAll(c) ==
  /\ req[c] = Idle /\ budget.events > 0
  /\ budget' = [budget EXCEPT !.events = @ - 1]
  /\ StartsSweep(c)
  /\ UNCHANGED <<session, born, held, tokens, active, now, ended>>

\* The next document of the updateMany, or its end.
Sweep(c) ==
  LET left == {s \in req[c].at..born : session[s].status = "active"} IN
  /\ req[c].pc = "sweeping"
  /\ IF left # {}
     THEN /\ session' = Revoked(Min(left)) /\ Become(c, [req[c] EXCEPT !.at = Min(left) + 1])
          /\ UNCHANGED ended
     ELSE /\ ended' = ended \cup {f \in 1..req[c].upto : session[f].family = f}
          /\ Become(c, Idle) /\ UNCHANGED session
  /\ UNCHANGED <<born, held, tokens, active, now, budget>>

\* Where a rotation leads; LOGOUT_MAX_ROTATION_HOPS is 3.
Hop(s) == IF session[s].rotated THEN session[s].next ELSE s
ThirdHop(s) == Hop(Hop(Hop(s)))

\* The live session that a rotated one leads to within those hops.
liveDescendantOf(s) ==
  {h \in {Hop(s), Hop(Hop(s)), ThirdHop(s)} \ {s} : session[h].status = "active"}

\* The cookie's session, and the one it was rotated into.
LogoutTargets(s) == {s} \cup liveDescendantOf(s)

Rotating(d, f) ==
  req[d].pc \in {"checking", "creating", "marking", "answering"} /\ session[req[d].of].family = f

\* logoutByRefreshToken: the sessions to end are read first. It ends the
\* family (quiet) if no refresh is under way and the cookie is no more than
\* three rotations old.
BeginLogout(c, s) ==
  /\ req[c] = Idle /\ s \in tokens
  /\ Become(c, [pc |-> "revoking", of |-> s, targets |-> LogoutTargets(s),
                quiet |-> /\ ~\E d \in Request : Rotating(d, session[s].family)
                          /\ ~session[ThirdHop(s)].rotated])
  /\ UNCHANGED <<session, born, held, tokens, active, now, ended, budget>>

\* changePassword lists the other active sessions, then revokes them.
BeginChangePassword(c, s) ==
  /\ req[c] = Idle /\ s \in held /\ Live(s) /\ active
  /\ Become(c, [pc |-> "revoking", of |-> s, quiet |-> FALSE,
                targets |-> {t \in Sid : session[t].status = "active"} \ {s}])
  /\ UNCHANGED <<session, born, held, tokens, active, now, ended, budget>>

\* revoke() of one target after another.
RevokeNext(c) ==
  /\ req[c].pc = "revoking"
  /\ IF req[c].targets # {}
     THEN LET s == Min(req[c].targets) IN
          /\ session' = Revoked(s) /\ Become(c, [req[c] EXCEPT !.targets = @ \ {s}])
          /\ UNCHANGED ended
     ELSE /\ ended' = IF req[c].quiet THEN ended \cup {session[req[c].of].family} ELSE ended
          /\ Become(c, Idle) /\ UNCHANGED session
  /\ UNCHANGED <<born, held, tokens, active, now, budget>>

----------------------------------------------------------------------------
\* The status of the account.

\* deactivateMember, or a tenant's suspension: the status is written first.
BeginDeactivate(c) ==
  /\ req[c] = Idle /\ active /\ budget.events > 0
  /\ budget' = [budget EXCEPT !.events = @ - 1]
  /\ active' = FALSE /\ StartsSweep(c)
  /\ UNCHANGED <<session, born, held, tokens, now, ended>>

Reactivate ==
  /\ ~active /\ active' = TRUE
  /\ UNCHANGED <<session, born, held, tokens, req, now, ended, budget>>

----------------------------------------------------------------------------
\* A process dies with its request, or its answer is lost.
Crash(c) ==
  /\ req[c] # Idle /\ budget.events > 0
  /\ budget' = [budget EXCEPT !.events = @ - 1]
  /\ Become(c, Idle)
  /\ UNCHANGED <<session, born, held, tokens, active, now, ended>>

Tick ==
  /\ now < MaxTime /\ now' = now + 1
  /\ UNCHANGED <<session, born, held, tokens, req, active, ended, budget>>

Next ==
  \/ \E c \in Request :
       \/ BeginLogin(c) \/ SignIn(c)
       \/ Chase(c) \/ Check(c) \/ CreateSuccessor(c) \/ MarkRotated(c) \/ Answer(c) \/ Undo(c) \/ Rejoin(c)
       \/ BeginRevokeAll(c) \/ Sweep(c) \/ RevokeNext(c)
       \/ BeginDeactivate(c) \/ Crash(c)
       \/ \E s \in Sid : BeginRefresh(c, s) \/ BeginLogout(c, s) \/ BeginChangePassword(c, s)
  \/ Reactivate \/ Tick

Spec == Init /\ [][Next]_vars

----------------------------------------------------------------------------
\* "A login never forks into two live sessions": whatever tabs, retries and
\* lost answers do, one live session of a family is in anybody's hands.
LoginNeverForks ==
  \A s, t \in held : Live(s) /\ Live(t) /\ session[s].family = session[t].family => s = t

\* A family that existed when revokeAllForActor began (or that was logged out
\* while nobody refreshed it, with a cookie at most three rotations old) is
\* over when it returns: no rotation that was under way carries it on in a
\* successor anybody can use.
EndedStaysEnded == \A s \in held : Live(s) => session[s].family \notin ended

\* "However often the family was rotated, a login ends sessionAbsoluteTtl
\* after the original sign-in."
LoginEndsInTime ==
  \A s \in 1..born : session[s].expires <= session[session[s].family].since + AbsoluteTtl
=============================================================================
