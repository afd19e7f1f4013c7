--------------------------- MODULE Sessions_proofs ---------------------------
(***************************************************************************)
(* Proofs about Sessions, for any number of sessions, requests, logins and *)
(* events and any lifetimes.                                               *)
(***************************************************************************)
EXTENDS Sessions, WellFoundedInduction, TLAPS

\* The sessions that a login, or a rotation that took effect, put in place.
\* A successor whose rotation is undecided, or lost its race, is not chained.
Chained(s) ==
  /\ s \in 1..born
  /\ session[s].family = s \/ \E p \in 1..born : session[p].rotated /\ session[p].next = s

\* A family has one root, one sign-in time and one end of its chain.
FamiliesInv ==
  /\ session \in [Sid -> Session] /\ born \in 0..MaxSessions
  /\ \A s \in Sid : session[s].status = "none" <=> s > born
  /\ \A s \in Sid : session[s].rotated => session[s].next \in s + 1..born
  /\ \A s \in 1..born :
       /\ session[s].family \in 1..born
       /\ session[s].since = session[session[s].family].since
       /\ session[s].expires \leq session[s].since + AbsoluteTtl
       /\ session[s].rotated =>
            /\ session[s].status = "revoked" /\ Chained(s)
            /\ session[session[s].next].family = session[s].family
  /\ \A s, t \in 1..born :
       /\ Chained(s) /\ Chained(t) /\ session[s].family = session[t].family
       /\ ~session[s].rotated /\ ~session[t].rotated
       => s = t

\* Only chained sessions are in anybody's hands, and a family that was ended
\* has no active one.
HandsInv ==
  /\ tokens \subseteq held /\ held \subseteq 1..born /\ ended \subseteq 1..born
  /\ \A s \in held : Chained(s)
  /\ \A s \in 1..born : Chained(s) /\ session[s].family \in ended => session[s].status # "active"

\* What a request under way knows about the session it was given, the
\* successor it created, the sessions it has swept or is to revoke.
Knows(c) ==
  /\ req[c].pc \in {"chasing", "checking", "creating", "marking", "answering", "undoing", "rejoining"} =>
       /\ Chained(req[c].of)
       /\ req[c].joins => req[c].pc = "checking"
       /\ req[c].joins \/ req[c].pc = "chasing" => session[req[c].of].rotated
  /\ req[c].pc \in {"marking", "undoing"} =>
       /\ req[c].new \in req[c].of + 1..born
       /\ session[req[c].new].family = session[req[c].of].family
  /\ req[c].pc = "marking" => ~Chained(req[c].new)
  /\ req[c].pc = "answering" => session[req[c].of].rotated /\ session[req[c].of].next = req[c].new
  /\ req[c].pc = "sweeping" =>
       /\ req[c].at \leq born + 1 /\ req[c].upto \leq born
       /\ \A s \in 1..born : s < req[c].at => session[s].status # "active"
  /\ req[c].pc = "revoking" => Chained(req[c].of) /\ req[c].targets \subseteq 1..born

\* A request that may still rotate.
MayRotate(d) == req[d].pc \in {"creating", "marking"} \/ (req[d].pc = "checking" /\ ~req[d].joins)

RequestsInv ==
  /\ req \in [Request -> {Idle} \cup Busy]
  /\ \A c \in Request : Knows(c)
  /\ \A c, d \in Request : c # d /\ req[c].pc = "marking" /\ req[d].pc = "marking" => req[c].new # req[d].new

\* A logout that ends its family is about to revoke whatever of it is active,
\* and nobody can move it on.
QuietInv ==
  \A c \in Request : req[c].pc = "revoking" /\ req[c].quiet =>
    /\ \A d \in Request : MayRotate(d) => session[req[d].of].family # session[req[c].of].family
    /\ \A s \in 1..born :
         /\ Chained(s) /\ session[s].family = session[req[c].of].family /\ session[s].status = "active"
         => s \in req[c].targets

RestInv ==
  /\ active \in BOOLEAN /\ now \in 0..MaxTime
  /\ budget \in [logins : 0..MaxLogins, events : 0..MaxEvents]

IInv == FamiliesInv /\ HandsInv /\ RequestsInv /\ QuietInv /\ RestInv

----------------------------------------------------------------------------
(* What the invariant says of the properties.                              *)

LEMMA LeastOfTwo ==
  ASSUME NEW a \in Nat, NEW b \in Nat
  PROVE  Min({a, b}) \in Nat /\ Min({a, b}) \leq a /\ Min({a, b}) \leq b
<1>1. \E x \in {a, b} : \A y \in {a, b} : x <= y
  OBVIOUS
<1> QED
  BY <1>1 DEF Min

LEMMA LeastOfMany ==
  ASSUME NEW S, S \subseteq Nat, S # {}
  PROVE  Min(S) \in S /\ \A y \in S : Min(S) \leq y
<1> DEFINE less == {p \in Nat \X Nat : p[1] < p[2]}
<1>1. IsWellFoundedOn(less, Nat)
  BY NatLessThanWellFounded DEF OpToRel
<1>2. \A x, y \in Nat : ~(<<y, x>> \in less) => x <= y
  OBVIOUS
<1> HIDE DEF less
<1>3. PICK x \in S : \A y \in S : ~(<<y, x>> \in less)
  BY <1>1, WFMin
<1>4. \A y \in S : x <= y
  BY <1>2, <1>3
<1> QED
  BY <1>4 DEF Min

LEMMA InvTypes == IInv => TypeOK
BY DEF IInv, FamiliesInv, HandsInv, RequestsInv, RestInv, TypeOK

LEMMA InvNeverForks == IInv => LoginNeverForks
BY DEF IInv, FamiliesInv, HandsInv, LoginNeverForks, Live

LEMMA InvEnded == IInv => EndedStaysEnded
BY DEF IInv, HandsInv, EndedStaysEnded, Live

LEMMA InvInTime == IInv => LoginEndsInTime
BY DEF IInv, FamiliesInv, LoginEndsInTime

LEMMA InitInv == Init => IInv
<1> SUFFICES ASSUME Init PROVE IInv
  OBVIOUS
<1>1. Sid = 1..MaxSessions /\ 1..born = {} /\ born = 0 /\ MaxSessions \in Nat
  BY SessionsAssumption DEF Init, Sid
<1>2. FamiliesInv
  <2> DEFINE no == FALSE
  <2>1. no \in BOOLEAN /\ ~no
    OBVIOUS
  <2>2. session = [s \in Sid |-> [status |-> "none", rotated |-> no, next |-> 0, family |-> 0,
                                  since |-> 0, expires |-> 0, rotatedAt |-> 0]]
    BY DEF Init, Absent
  <2> HIDE DEF no
  <2>3. session \in [Sid -> Session]
    BY <2>1, <2>2, SessionsAssumption DEF Session
  <2>4. \A s \in Sid : session[s].status = "none" /\ ~session[s].rotated /\ s > 0
    BY <1>1, <2>1, <2>2
  <2> QED
    BY <1>1, <2>3, <2>4 DEF FamiliesInv
<1>3. HandsInv
  BY <1>1 DEF Init, HandsInv
<1>4. RequestsInv /\ QuietInv
  BY DEF Init, RequestsInv, QuietInv, Knows, Idle
<1>5. active \in BOOLEAN
  BY Zenon DEF Init
<1>6. RestInv
  BY <1>5, SessionsAssumption DEF Init, RestInv
<1> QED
  BY <1>2, <1>3, <1>4, <1>6 DEF IInv

----------------------------------------------------------------------------
(* Steps that at most end sessions.                                        *)

Ends ==
  /\ UNCHANGED born /\ session' \in [Sid -> Session]
  /\ \A s \in Sid :
       /\ session'[s].family = session[s].family /\ session'[s].since = session[s].since
       /\ session'[s].expires = session[s].expires
       /\ session'[s].rotated = session[s].rotated /\ session'[s].next = session[s].next
       /\ \/ session'[s].status = session[s].status
          \/ session[s].status = "active" /\ session'[s].status \in {"revoked", "expired"}

LEMMA Numbers ==
  ASSUME FamiliesInv
  PROVE  1..born \subseteq Sid /\ born \in Nat /\ MaxSessions \in Nat /\ \A s \in 1..born : s \in Nat
BY SessionsAssumption DEF FamiliesInv, Sid

LEMMA NoneEnds ==
  ASSUME FamiliesInv, UNCHANGED <<session, born>>
  PROVE  Ends
BY DEF FamiliesInv, Ends

LEMMA OneEnds ==
  ASSUME FamiliesInv, UNCHANGED born, NEW s \in Sid, session[s].status = "active",
         NEW st \in {"revoked", "expired"}, session' = [session EXCEPT ![s].status = st]
  PROVE  Ends /\ session'[s].status = st
<1> DEFINE d == [session[s] EXCEPT !.status = st]
<1>1. /\ d \in Session /\ d.status = st /\ d.family = session[s].family /\ d.since = session[s].since
      /\ d.expires = session[s].expires /\ d.rotated = session[s].rotated /\ d.next = session[s].next
  BY DEF FamiliesInv, Session
<1>2. session' = [session EXCEPT ![s] = d]
  BY DEF FamiliesInv
<1> HIDE DEF d
<1>3. \A t \in Sid : session'[t] = IF t = s THEN d ELSE session[t]
  BY <1>2 DEF FamiliesInv
<1>4. session' \in [Sid -> Session]
  BY <1>1, <1>2 DEF FamiliesInv
<1> QED
  BY <1>1, <1>3, <1>4 DEF Ends

LEMMA RevokedEnds ==
  ASSUME FamiliesInv, UNCHANGED born, NEW s \in Sid, session' = Revoked(s)
  PROVE  Ends /\ session'[s].status # "active"
BY NoneEnds, OneEnds DEF Revoked

LEMMA EndsChained ==
  ASSUME FamiliesInv, Ends
  PROVE  \A s : Chained(s)' <=> Chained(s)
BY Numbers DEF Ends, Chained

LEMMA EndsFamilies ==
  ASSUME FamiliesInv, Ends
  PROVE  FamiliesInv'
<1>1. \A s : Chained(s)' <=> Chained(s)
  BY EndsChained
<1>2. 1..born \subseteq Sid
  BY Numbers
<1>3. \A s \in Sid : session'[s].status = "none" <=> s > born
  BY DEF FamiliesInv, Ends
<1>4. \A s \in Sid : session'[s].rotated => session'[s].next \in s + 1..born
  BY DEF FamiliesInv, Ends
<1>5. ASSUME NEW s \in 1..born
      PROVE  /\ session'[s].family \in 1..born
             /\ session'[s].since = session'[session'[s].family].since
             /\ session'[s].expires \leq session'[s].since + AbsoluteTtl
  BY <1>2 DEF FamiliesInv, Ends
<1>6. ASSUME NEW s \in 1..born, session'[s].rotated
      PROVE  /\ session'[s].status = "revoked" /\ Chained(s)'
             /\ session'[session'[s].next].family = session'[s].family
  <2>1. session[s].rotated /\ session[s].next \in Sid
    BY <1>2, <1>6, Numbers DEF FamiliesInv, Ends
  <2> QED
    BY <1>1, <1>2, <2>1 DEF FamiliesInv, Ends
<1>7. ASSUME NEW s \in 1..born, NEW t \in 1..born, Chained(s)', Chained(t)',
             session'[s].family = session'[t].family, ~session'[s].rotated, ~session'[t].rotated
      PROVE  s = t
  BY <1>1, <1>2, <1>7 DEF FamiliesInv, Ends
<1> QED
  BY <1>3, <1>4, <1>5, <1>6, <1>7 DEF FamiliesInv, Ends

LEMMA EndsHands ==
  ASSUME FamiliesInv, HandsInv, Ends, tokens' \subseteq held', UNCHANGED ended,
         \A s \in held' : s \in held \/ Chained(s)
  PROVE  HandsInv'
<1>1. \A s : Chained(s)' <=> Chained(s)
  BY EndsChained
<1>2. 1..born \subseteq Sid
  BY Numbers
<1>3. held' \subseteq 1..born
  BY DEF HandsInv, Chained
<1> QED
  BY <1>1, <1>2, <1>3 DEF HandsInv, Ends

\* A request that does not move.
LEMMA EndsKnows ==
  ASSUME FamiliesInv, RequestsInv, Ends, NEW c \in Request, req'[c] = req[c]
  PROVE  Knows(c)'
<1>1. \A s : Chained(s)' <=> Chained(s)
  BY EndsChained
<1>2. 1..born \subseteq Sid /\ Knows(c)
  BY Numbers DEF RequestsInv
<1>3. Chained(req[c].of) => req[c].of \in Sid
  BY <1>2 DEF Chained
<1>4. req[c].pc \in {"marking", "undoing"} => req[c].new \in Sid
  BY <1>2, <1>3, Numbers DEF Knows, Sid
<1>5. req[c].pc = "sweeping" => \A s \in 1..born : s < req[c].at => session'[s].status # "active"
  BY <1>2 DEF Knows, Ends
<1> QED
  BY <1>1, <1>2, <1>3, <1>4, <1>5 DEF Knows, Ends

LEMMA EndsRequest ==
  ASSUME FamiliesInv, RequestsInv, Ends, NEW c \in Request, NEW b \in {Idle} \cup Busy,
         req' = [req EXCEPT ![c] = b], Knows(c)', b.pc # "marking"
  PROVE  RequestsInv'
<1>1. \A d \in Request : req'[d] = IF d = c THEN b ELSE req[d]
  BY DEF RequestsInv
<1>2. req' \in [Request -> {Idle} \cup Busy]
  BY DEF RequestsInv
<1>3. \A d \in Request : Knows(d)'
  BY <1>1, EndsKnows
<1> QED
  BY <1>1, <1>2, <1>3 DEF RequestsInv

LEMMA EndsQuiet ==
  ASSUME FamiliesInv, RequestsInv, QuietInv, Ends,
         \A c \in Request : req'[c].pc = "revoking" /\ req'[c].quiet =>
           /\ req[c].pc = "revoking" /\ req[c].quiet /\ req'[c].of = req[c].of
           /\ \A s \in req[c].targets : s \in req'[c].targets \/ session'[s].status # "active",
         \A d \in Request : MayRotate(d)' => MayRotate(d) /\ req'[d].of = req[d].of
  PROVE  QuietInv'
<1> SUFFICES ASSUME NEW c \in Request, req'[c].pc = "revoking", req'[c].quiet
             PROVE  /\ \A d \in Request : MayRotate(d)' => session'[req'[d].of].family # session'[req'[c].of].family
                    /\ \A s \in 1..born :
                         /\ Chained(s)' /\ session'[s].family = session'[req'[c].of].family
                         /\ session'[s].status = "active"
                         => s \in req'[c].targets
  BY DEF QuietInv, Ends
<1>1. \A s : Chained(s)' <=> Chained(s)
  BY EndsChained
<1>2. 1..born \subseteq Sid
  BY Numbers
<1>3. req[c].pc = "revoking" /\ req[c].quiet /\ req'[c].of = req[c].of
  OBVIOUS
<1>4. req[c].of \in Sid
  BY <1>2, <1>3 DEF RequestsInv, Knows, Chained
<1>5. ASSUME NEW d \in Request, MayRotate(d)' PROVE session'[req'[d].of].family # session'[req'[c].of].family
  <2>1. MayRotate(d) /\ req'[d].of = req[d].of
    BY <1>5
  <2>2. req[d].of \in Sid
    BY <1>2, <2>1 DEF RequestsInv, Knows, Chained, MayRotate
  <2> QED
    BY <1>3, <1>4, <2>1, <2>2 DEF QuietInv, Ends
<1>6. ASSUME NEW s \in 1..born, Chained(s)', session'[s].family = session'[req'[c].of].family,
             session'[s].status = "active"
      PROVE  s \in req'[c].targets
  <2>1. s \in req[c].targets
    BY <1>1, <1>2, <1>3, <1>4, <1>6 DEF QuietInv, Ends
  <2> QED
    BY <1>6, <2>1
<1> QED
  BY <1>5, <1>6

\* One request moves, and no rotation and no quiet logout begins.
LEMMA OneMoves ==
  ASSUME IInv, Ends, NEW c \in Request, NEW b \in {Idle} \cup Busy, Become(c, b), Knows(c)',
         b.pc # "marking",
         b.pc = "revoking" /\ b.quiet =>
           /\ req[c].pc = "revoking" /\ req[c].quiet /\ b.of = req[c].of
           /\ \A s \in req[c].targets : s \in b.targets \/ session'[s].status # "active",
         b.pc = "creating" \/ (b.pc = "checking" /\ ~b.joins) => MayRotate(c) /\ b.of = req[c].of
  PROVE  FamiliesInv' /\ RequestsInv' /\ QuietInv'
<1> USE DEF IInv
<1>1. req' = [req EXCEPT ![c] = b]
  BY DEF Become
<1>2. \A d \in Request : req'[d] = IF d = c THEN b ELSE req[d]
  BY <1>1 DEF RequestsInv
<1>3. RequestsInv'
  BY <1>1, EndsRequest
<1>4. \A d \in Request : req'[d].pc = "revoking" /\ req'[d].quiet =>
         /\ req[d].pc = "revoking" /\ req[d].quiet /\ req'[d].of = req[d].of
         /\ \A s \in req[d].targets : s \in req'[d].targets \/ session'[s].status # "active"
  BY <1>2
<1>5. \A d \in Request : MayRotate(d)' => MayRotate(d) /\ req'[d].of = req[d].of
  BY <1>2 DEF MayRotate
<1>6. QuietInv'
  BY <1>4, <1>5, EndsQuiet
<1> QED
  BY <1>3, <1>6, EndsFamilies

\* To rest.
LEMMA OneRests ==
  ASSUME IInv, Ends, NEW c \in Request, Become(c, Idle)
  PROVE  FamiliesInv' /\ RequestsInv' /\ QuietInv'
<1>1. req'[c] = Idle
  BY DEF IInv, RequestsInv, Become
<1>2. Knows(c)' /\ Idle.pc = "idle"
  BY <1>1 DEF Knows, Idle
<1> QED
  BY <1>2, OneMoves

\* To a sweep over what there is.
LEMMA OneSweeps ==
  ASSUME IInv, UNCHANGED <<session, born>>, NEW c \in Request, StartsSweep(c)
  PROVE  FamiliesInv' /\ RequestsInv' /\ QuietInv'
<1> DEFINE b == [pc |-> "sweeping", at |-> 1, upto |-> born]
<1>1. 1 \in 1..MaxSessions + 1 /\ born \in 0..MaxSessions /\ born \in Nat
  BY Numbers DEF IInv, FamiliesInv
<1>2. b \in Busy /\ b.pc = "sweeping" /\ b.at = 1 /\ b.upto = born
  BY <1>1 DEF Busy
<1>3. Become(c, b)
  BY DEF StartsSweep
<1> HIDE DEF b
<1>4. req'[c] = b
  BY <1>3 DEF Become, IInv, RequestsInv
<1>5. Knows(c)'
  BY <1>1, <1>2, <1>4 DEF Knows
<1>6. Ends
  BY NoneEnds DEF IInv
<1> QED
  BY <1>2, <1>3, <1>5, <1>6, OneMoves

\* When nobody's hands are involved.
LEMMA SameHands ==
  ASSUME IInv, Ends, UNCHANGED <<held, tokens, ended>>
  PROVE  HandsInv'
BY EndsHands DEF IInv, HandsInv

LEMMA RequestBusy ==
  ASSUME IInv, NEW c \in Request
  PROVE  /\ Knows(c)
         /\ req[c].pc \in {"chasing", "checking", "creating", "marking", "answering", "undoing", "rejoining"} =>
              /\ req[c] \in [pc : {"chasing", "checking", "creating", "marking", "answering", "undoing", "rejoining"},
                             of : Sid, joins : BOOLEAN, new : 0..MaxSessions]
              /\ req[c].of \in 1..born
         /\ req[c].pc = "sweeping" => req[c] \in [pc : {"sweeping"}, at : 1..MaxSessions + 1, upto : 0..MaxSessions]
         /\ req[c].pc = "revoking" => req[c] \in [pc : {"revoking"}, of : Sid, targets : SUBSET Sid, quiet : BOOLEAN]
<1>1. Knows(c) /\ req[c] \in {Idle} \cup Busy
  BY DEF IInv, RequestsInv
<1> QED
  BY <1>1 DEF Knows, Chained, Busy, Idle

\* A request for a session in somebody's hands goes on to another place.
LEMMA OneGoesOn ==
  ASSUME IInv, Ends, NEW c \in Request,
         req[c].pc \in {"chasing", "checking", "creating", "marking", "answering", "undoing", "rejoining"},
         NEW pc \in {"checking", "creating", "undoing", "rejoining"}, NEW joins \in BOOLEAN,
         Become(c, [req[c] EXCEPT !.pc = pc, !.joins = joins]),
         joins => pc = "checking" /\ session[req[c].of].rotated,
         pc = "creating" \/ (pc = "checking" /\ ~joins) => MayRotate(c),
         pc = "undoing" => req[c].pc = "marking"
  PROVE  FamiliesInv' /\ RequestsInv' /\ QuietInv'
<1> DEFINE b == [req[c] EXCEPT !.pc = pc, !.joins = joins]
<1>1. /\ b \in [pc : {"chasing", "checking", "creating", "marking", "answering", "undoing", "rejoining"},
               of : Sid, joins : BOOLEAN, new : 0..MaxSessions]
      /\ b.pc = pc /\ b.joins = joins /\ b.of = req[c].of /\ b.new = req[c].new
  BY RequestBusy
<1>2. b \in Busy
  BY <1>1 DEF Busy
<1>3. Become(c, b)
  OBVIOUS
<1> HIDE DEF b
<1>4. req'[c] = b
  BY <1>3 DEF Become, IInv, RequestsInv
<1>6. \A s : Chained(s)' <=> Chained(s)
  BY EndsChained DEF IInv
<1>7. Chained(b.of) /\ b.of \in Sid
  BY <1>1, RequestBusy DEF Knows
<1>8. pc = "undoing" => b.new \in b.of + 1..born /\ b.new \in Sid /\ session[b.new].family = session[b.of].family
  BY <1>1, RequestBusy, Numbers DEF Knows, Sid, IInv
<1>9. Knows(c)'
  BY <1>1, <1>4, <1>6, <1>7, <1>8 DEF Knows, Ends
<1> QED
  BY <1>1, <1>2, <1>3, <1>9, OneMoves

----------------------------------------------------------------------------
(* Steps that neither create nor rotate.                                   *)

LEMMA SameEnds ==
  ASSUME IInv, UNCHANGED <<session, born>>
  PROVE  Ends
BY NoneEnds DEF IInv

LEMMA BeginLoginKeeps ==
  ASSUME IInv, NEW c \in Request, BeginLogin(c)
  PROVE  IInv'
<1> DEFINE b == [pc |-> "signing"]
<1>1. b \in Busy /\ b.pc = "signing"
  BY DEF Busy
<1>2. Become(c, b) /\ UNCHANGED <<session, born, held, tokens, active, now, ended>>
  BY DEF BeginLogin
<1> HIDE DEF b
<1>3. req'[c] = b
  BY <1>2 DEF Become, IInv, RequestsInv
<1>4. Knows(c)'
  BY <1>1, <1>3 DEF Knows
<1>5. FamiliesInv' /\ RequestsInv' /\ QuietInv'
  BY <1>1, <1>2, <1>4, SameEnds, OneMoves
<1>6. budget' \in [logins : 0..MaxLogins, events : 0..MaxEvents]
  BY SessionsAssumption DEF BeginLogin, IInv, RestInv
<1> QED
  BY <1>2, <1>5, <1>6, SameEnds, SameHands DEF IInv, RestInv

LEMMA ChaseKeeps ==
  ASSUME IInv, NEW c \in Request, Chase(c)
  PROVE  IInv'
<1>1. req[c].pc = "chasing" /\ UNCHANGED <<session, born, held, tokens, active, now, ended, budget>>
  BY DEF Chase
<1>2. session[req[c].of].rotated
  BY <1>1, RequestBusy DEF Knows
<1>3. FamiliesInv' /\ RequestsInv' /\ QuietInv'
  <2>1. CASE StartsSweep(c)
    BY <1>1, <2>1, OneSweeps
  <2>2. CASE Become(c, [req[c] EXCEPT !.pc = "checking", !.joins = TRUE])
    <3> DEFINE yes == TRUE
    <3>1. yes \in BOOLEAN /\ yes
      OBVIOUS
    <3>2. Become(c, [req[c] EXCEPT !.pc = "checking", !.joins = yes])
      BY <2>2
    <3> HIDE DEF yes
    <3> QED
      BY <1>1, <1>2, <3>1, <3>2, SameEnds, OneGoesOn
  <2> QED
    BY <2>1, <2>2 DEF Chase
<1> QED
  BY <1>1, <1>3, SameEnds, SameHands DEF IInv, RestInv

\* The successor of a rotated session is chained.
LEMMA NextChained ==
  ASSUME IInv, NEW s \in Sid, session[s].rotated
  PROVE  Chained(session[s].next)
<1>1. s \in 1..born /\ session[s].next \in 1..born
  BY Numbers DEF IInv, FamiliesInv, Sid
<1> QED
  BY <1>1 DEF Chained

LEMMA CheckKeeps ==
  ASSUME IInv, NEW c \in Request, Check(c)
  PROVE  IInv'
<1> DEFINE current == IF req[c].joins THEN session[req[c].of].next ELSE req[c].of
<1>1. req[c].pc = "checking" /\ UNCHANGED <<born, tokens, active, now, ended, budget>>
  BY DEF Check
<1>2. Chained(current) /\ current \in Sid
  <2>1. Knows(c) /\ req[c].of \in Sid
    BY <1>1, RequestBusy
  <2>2. CASE req[c].joins
    BY <1>1, <2>1, <2>2, NextChained, Numbers DEF Knows, Chained, IInv
  <2>3. CASE ~req[c].joins
    BY <1>1, <2>1, <2>3 DEF Knows
  <2> QED
    BY <2>2, <2>3
<1>3. CASE /\ Over(current)
           /\ session' = IF session[current].status = "active"
                         THEN [session EXCEPT ![current].status = "expired"] ELSE session
           /\ Become(c, Idle) /\ UNCHANGED held
  <2>1. Ends
    BY <1>1, <1>2, <1>3, OneEnds, SameEnds DEF IInv
  <2> QED
    BY <1>1, <1>3, <2>1, OneRests, SameHands DEF IInv, RestInv
<1>4. CASE StartsSweep(c) /\ UNCHANGED <<session, held>>
  BY <1>1, <1>4, OneSweeps, SameEnds, SameHands DEF IInv, RestInv
<1>5. CASE held' = held \cup {current} /\ Become(c, Idle) /\ UNCHANGED session
  <2>1. Ends
    BY <1>1, <1>5, SameEnds
  <2>2. HandsInv'
    BY <1>1, <1>2, <1>5, <2>1, EndsHands DEF IInv, HandsInv
  <2> QED
    BY <1>1, <1>5, <2>1, <2>2, OneRests DEF IInv, RestInv
<1>6. CASE ~req[c].joins /\ Become(c, [req[c] EXCEPT !.pc = "creating"]) /\ UNCHANGED <<session, held>>
  <2> DEFINE joins == req[c].joins
  <2>1. joins \in BOOLEAN /\ ~joins /\ req[c] = [req[c] EXCEPT !.joins = joins]
    BY <1>1, <1>6, RequestBusy
  <2>2. Become(c, [req[c] EXCEPT !.pc = "creating", !.joins = joins])
    BY <1>1, <1>6, RequestBusy DEF Become
  <2>3. MayRotate(c)
    BY <1>1, <1>6 DEF MayRotate
  <2> HIDE DEF joins
  <2>4. FamiliesInv' /\ RequestsInv' /\ QuietInv'
    BY <1>1, <1>6, <2>1, <2>2, <2>3, SameEnds, OneGoesOn
  <2> QED
    BY <1>1, <1>6, <2>4, SameEnds, SameHands DEF IInv, RestInv
<1> QED
  BY <1>3, <1>4, <1>5, <1>6 DEF Check

LEMMA AnswerKeeps ==
  ASSUME IInv, NEW c \in Request, Answer(c)
  PROVE  IInv'
<1>1. /\ req[c].pc = "answering" /\ UNCHANGED <<session, born, active, now, ended, budget>> /\ Become(c, Idle)
      /\ held' = held \cup {req[c].new} /\ tokens' = tokens \cup {req[c].new}
  BY DEF Answer
<1>2. Chained(req[c].new)
  BY <1>1, RequestBusy, NextChained DEF Knows
<1>3. HandsInv'
  BY <1>1, <1>2, SameEnds, EndsHands DEF IInv, HandsInv
<1> QED
  BY <1>1, <1>3, SameEnds, OneRests DEF IInv, RestInv

LEMMA UndoKeeps ==
  ASSUME IInv, NEW c \in Request, Undo(c) \/ Rejoin(c)
  PROVE  IInv'
<1>1. CASE Undo(c)
  <2>1. /\ req[c].pc = "undoing" /\ UNCHANGED <<born, held, tokens, active, now, ended, budget>>
        /\ session' = Revoked(req[c].new) /\ Become(c, [req[c] EXCEPT !.pc = "rejoining"])
    BY <1>1 DEF Undo
  <2>2. Knows(c) /\ req[c].of \in 1..born
    BY <2>1, RequestBusy
  <2>3. req[c].new \in Sid
    BY <2>1, <2>2, Numbers DEF Knows, Sid, IInv
  <2>4. Ends
    BY <2>1, <2>3, RevokedEnds DEF IInv
  <2> DEFINE joins == req[c].joins
  <2>5. joins \in BOOLEAN /\ ~joins
    BY <2>1, <2>2, RequestBusy DEF Knows
  <2>6. Become(c, [req[c] EXCEPT !.pc = "rejoining", !.joins = joins])
    BY <2>1, RequestBusy DEF Become
  <2> HIDE DEF joins
  <2>7. FamiliesInv' /\ RequestsInv' /\ QuietInv'
    BY <2>1, <2>4, <2>5, <2>6, OneGoesOn
  <2> QED
    BY <2>1, <2>4, <2>7, SameHands DEF IInv, RestInv
<1>2. CASE Rejoin(c)
  <2>1. /\ req[c].pc = "rejoining" /\ UNCHANGED <<session, born, tokens, active, now, ended, budget>> /\ Become(c, Idle)
        /\ held' = held \/ (session[req[c].of].rotated /\ held' = held \cup {session[req[c].of].next})
    BY <1>2 DEF Rejoin
  <2>2. req[c].of \in Sid
    BY <2>1, RequestBusy
  <2>3. \A s \in held' : s \in held \/ Chained(s)
    BY <2>1, <2>2, NextChained
  <2>4. HandsInv'
    BY <2>1, <2>3, SameEnds, EndsHands DEF IInv, HandsInv
  <2> QED
    BY <2>1, <2>4, SameEnds, OneRests DEF IInv, RestInv
<1> QED
  BY <1>1, <1>2

LEMMA CrashKeeps ==
  ASSUME IInv, NEW c \in Request, BeginRevokeAll(c) \/ BeginDeactivate(c) \/ Crash(c)
  PROVE  IInv'
<1>1. UNCHANGED <<session, born, held, tokens, now, ended>> /\ active' \in {active, FALSE}
  BY DEF BeginRevokeAll, BeginDeactivate, Crash
<1>2. FamiliesInv' /\ RequestsInv' /\ QuietInv'
  BY <1>1, OneSweeps, OneRests, SameEnds DEF BeginRevokeAll, BeginDeactivate, Crash
<1>3. budget' \in [logins : 0..MaxLogins, events : 0..MaxEvents]
  BY SessionsAssumption DEF BeginRevokeAll, BeginDeactivate, Crash, IInv, RestInv
<1>4. active' \in BOOLEAN
  BY <1>1, Zenon DEF IInv, RestInv
<1> QED
  BY <1>1, <1>2, <1>3, <1>4, SameEnds, SameHands DEF IInv, RestInv

LEMMA TickKeeps ==
  ASSUME IInv, Reactivate \/ Tick \/ UNCHANGED vars
  PROVE  IInv'
<1>1. UNCHANGED <<session, born, held, tokens, req, ended, budget>>
  BY DEF Reactivate, Tick, vars
<1>2. Ends
  BY <1>1, SameEnds
<1>3. RequestsInv'
  BY <1>1, <1>2, EndsKnows DEF IInv, RequestsInv
<1>4. QuietInv'
  BY <1>1 DEF IInv, QuietInv, Chained, MayRotate
<1>5. active' \in BOOLEAN
  BY Zenon DEF Reactivate, Tick, vars, IInv, RestInv
<1>6. now' \in 0..MaxTime
  BY SessionsAssumption DEF Reactivate, Tick, vars, IInv, RestInv
<1> QED
  BY <1>1, <1>2, <1>3, <1>4, <1>5, <1>6, EndsFamilies, SameHands DEF IInv, RestInv

----------------------------------------------------------------------------
(* Steps that end sessions one by one.                                     *)

\* What was active and chained in a family that is about to count as ended.
LEMMA EndsMore ==
  ASSUME IInv, UNCHANGED <<session, born, held, tokens>>, NEW F, F \subseteq 1..born, ended' = ended \cup F,
         \A s \in 1..born : Chained(s) /\ session[s].family \in F => session[s].status # "active"
  PROVE  HandsInv'
<1>1. \A s : Chained(s)' <=> Chained(s)
  BY SameEnds, EndsChained DEF IInv
<1> QED
  BY <1>1 DEF IInv, HandsInv

LEMMA SweepKeeps ==
  ASSUME IInv, NEW c \in Request, Sweep(c)
  PROVE  IInv'
<1> DEFINE left == {s \in req[c].at..born : session[s].status = "active"}
<1>1. req[c].pc = "sweeping" /\ UNCHANGED <<born, held, tokens, active, now, budget>>
  BY DEF Sweep
<1>2. /\ req[c] \in [pc : {"sweeping"}, at : 1..MaxSessions + 1, upto : 0..MaxSessions]
      /\ req[c].at \leq born + 1 /\ req[c].upto \leq born
      /\ \A s \in 1..born : s < req[c].at => session[s].status # "active"
  BY <1>1, RequestBusy DEF Knows
<1>3. 1..born \subseteq Sid /\ born \in Nat /\ MaxSessions \in Nat /\ req[c].at \in Nat /\ req[c].at \geq 1
      /\ req[c].upto \in Nat
  BY <1>2, Numbers DEF IInv
<1>4. CASE left # {}
  <2> DEFINE s == Min(left)
             b == [req[c] EXCEPT !.at = s + 1]
  <2>1. left \subseteq 1..born
    BY <1>3
  <2>2. left \subseteq Nat
    BY <2>1
  <2>3. s \in left /\ \A y \in left : s \leq y
    BY <1>4, <2>2, LeastOfMany
  <2>4. s \in 1..born /\ s \in Sid /\ s \in Nat /\ s \geq req[c].at
    BY <1>3, <2>1, <2>3
  <2>5. \A y \in 1..born : y < s => session[y].status # "active"
    <3> SUFFICES ASSUME NEW y \in 1..born, y < s, y \geq req[c].at, session[y].status = "active" PROVE FALSE
      BY <1>2, <1>3
    <3>1. y \in left
      BY <1>3
    <3> QED
      BY <2>3, <2>4, <3>1
  <2>6. session' = Revoked(s) /\ Become(c, b) /\ UNCHANGED ended
    BY <1>4 DEF Sweep
  <2> HIDE DEF s
  <2>7. Ends /\ session'[s].status # "active"
    BY <1>1, <2>4, <2>6, RevokedEnds DEF IInv
  <2>8. s + 1 \in 1..MaxSessions + 1 /\ s + 1 \leq born + 1
    BY <1>3, <2>4 DEF Sid
  <2>9. /\ b \in [pc : {"sweeping"}, at : 1..MaxSessions + 1, upto : 0..MaxSessions]
        /\ b.pc = "sweeping" /\ b.at = s + 1 /\ b.upto = req[c].upto
    BY <1>1, <1>2, <2>8
  <2>10. b \in Busy
    BY <2>9 DEF Busy
  <2> HIDE DEF b
  <2>11. req'[c] = b
    BY <2>6 DEF Become, IInv, RequestsInv
  <2>12. \A y \in 1..born : y < s + 1 => session'[y].status # "active"
    BY <1>3, <2>4, <2>5, <2>7 DEF Ends
  <2>13. Knows(c)'
    BY <1>1, <1>2, <2>8, <2>9, <2>11, <2>12 DEF Knows
  <2>14. FamiliesInv' /\ RequestsInv' /\ QuietInv'
    BY <2>6, <2>7, <2>9, <2>10, <2>13, OneMoves
  <2> QED
    BY <1>1, <2>6, <2>7, <2>14, SameHands DEF IInv, RestInv
<1>5. CASE left = {}
  <2> DEFINE F == {f \in 1..req[c].upto : session[f].family = f}
  <2>1. Become(c, Idle) /\ UNCHANGED session /\ ended' = ended \cup F
    BY <1>5 DEF Sweep
  <2>2. \A s \in 1..born : session[s].status # "active"
    <3> SUFFICES ASSUME NEW s \in 1..born, s \geq req[c].at, session[s].status = "active" PROVE FALSE
      BY <1>2, <1>3
    <3>1. s \in left
      BY <1>3
    <3> QED
      BY <1>5, <3>1
  <2>3. F \subseteq 1..born
    BY <1>2, <1>3
  <2> HIDE DEF F
  <2>4. HandsInv'
    BY <1>1, <2>1, <2>2, <2>3, EndsMore
  <2> QED
    BY <1>1, <2>1, <2>4, SameEnds, OneRests DEF IInv, RestInv
<1> QED
  BY <1>4, <1>5

LEMMA RevokeNextKeeps ==
  ASSUME IInv, NEW c \in Request, RevokeNext(c)
  PROVE  IInv'
<1>1. req[c].pc = "revoking" /\ UNCHANGED <<born, held, tokens, active, now, budget>>
  BY DEF RevokeNext
<1>2. /\ req[c] \in [pc : {"revoking"}, of : Sid, targets : SUBSET Sid, quiet : BOOLEAN]
      /\ Chained(req[c].of) /\ req[c].targets \subseteq 1..born
  BY <1>1, RequestBusy DEF Knows
<1>3. 1..born \subseteq Sid /\ born \in Nat
  BY Numbers DEF IInv
<1>4. CASE req[c].targets # {}
  <2> DEFINE s == Min(req[c].targets)
             b == [req[c] EXCEPT !.targets = @ \ {s}]
  <2>1. s \in req[c].targets
    BY <1>2, <1>3, <1>4, LeastOfMany
  <2>2. session' = Revoked(s) /\ Become(c, b) /\ UNCHANGED ended
    BY <1>4 DEF RevokeNext
  <2> HIDE DEF s
  <2>3. s \in Sid
    BY <1>2, <1>3, <2>1
  <2>4. Ends /\ session'[s].status # "active"
    BY <1>1, <2>2, <2>3, RevokedEnds DEF IInv
  <2>5. /\ b \in [pc : {"revoking"}, of : Sid, targets : SUBSET Sid, quiet : BOOLEAN]
        /\ b.pc = "revoking" /\ b.of = req[c].of /\ b.quiet = req[c].quiet /\ b.targets = req[c].targets \ {s}
    BY <1>1, <1>2
  <2>6. b \in Busy
    BY <2>5 DEF Busy
  <2> HIDE DEF b
  <2>7. req'[c] = b
    BY <2>2 DEF Become, IInv, RequestsInv
  <2>8. /\ Chained(b.of) /\ b.targets \subseteq 1..born
        /\ \A t : Chained(t)' <=> Chained(t)
    BY <1>2, <2>4, <2>5, EndsChained DEF IInv
  <2>9. Knows(c)'
    BY <1>1, <2>5, <2>7, <2>8 DEF Knows
  <2>10. \A t \in req[c].targets : t \in b.targets \/ session'[t].status # "active"
    BY <2>4, <2>5
  <2>11. FamiliesInv' /\ RequestsInv' /\ QuietInv'
    BY <1>1, <2>2, <2>4, <2>5, <2>6, <2>9, <2>10, OneMoves
  <2> QED
    BY <1>1, <2>2, <2>4, <2>11, SameHands DEF IInv, RestInv
<1>5. CASE req[c].targets = {}
  <2> DEFINE F == IF req[c].quiet THEN {session[req[c].of].family} ELSE {}
  <2>1. Become(c, Idle) /\ UNCHANGED session /\ ended' = ended \cup F
    BY <1>5 DEF RevokeNext
  <2>2. F \subseteq 1..born
    BY <1>2 DEF Chained, IInv, FamiliesInv
  <2>3. \A s \in 1..born : Chained(s) /\ session[s].family \in F => session[s].status # "active"
    BY <1>1, <1>5 DEF IInv, QuietInv
  <2> HIDE DEF F
  <2>4. HandsInv'
    BY <1>1, <2>1, <2>2, <2>3, EndsMore
  <2> QED
    BY <1>1, <2>1, <2>4, SameEnds, OneRests DEF IInv, RestInv
<1> QED
  BY <1>4, <1>5

----------------------------------------------------------------------------
(* Requests about a session that somebody holds.                           *)

\* A rotated session leads to a chained one of its family.
LEMMA HopStays ==
  ASSUME IInv, NEW s, Chained(s)
  PROVE  Chained(Hop(s)) /\ session[Hop(s)].family = session[s].family
<1>1. s \in 1..born /\ s \in Sid
  BY Numbers DEF Chained, IInv
<1>2. session[s].rotated => session[session[s].next].family = session[s].family
  BY <1>1 DEF IInv, FamiliesInv
<1> QED
  BY <1>1, <1>2, NextChained DEF Hop

\* An active chained session of the family is the end of its chain.
LEMMA ActiveIsLast ==
  ASSUME IInv, NEW s, NEW t, Chained(s), Chained(t), session[s].family = session[t].family,
         ~session[s].rotated, session[t].status = "active"
  PROVE  s = t
<1>1. s \in 1..born /\ t \in 1..born
  BY DEF Chained
<1> QED
  BY <1>1 DEF IInv, FamiliesInv

LEMMA BeginLogoutKeeps ==
  ASSUME IInv, NEW c \in Request, NEW s \in Sid, BeginLogout(c, s)
  PROVE  IInv'
<1> DEFINE q == /\ ~\E d \in Request : Rotating(d, session[s].family)
                /\ ~session[ThirdHop(s)].rotated
           b == [pc |-> "revoking", of |-> s, targets |-> LogoutTargets(s), quiet |-> q]
<1>1. req[c] = Idle /\ s \in tokens /\ Become(c, b) /\ UNCHANGED <<session, born, held, tokens, active, now, ended>>
      /\ UNCHANGED budget
  BY DEF BeginLogout
<1>2. Chained(s) /\ s \in 1..born
  BY <1>1 DEF IInv, HandsInv, Chained
<1>3. /\ Chained(Hop(s)) /\ Chained(Hop(Hop(s))) /\ Chained(ThirdHop(s))
      /\ session[ThirdHop(s)].family = session[s].family
  BY <1>2, HopStays DEF ThirdHop
<1>4. LogoutTargets(s) \subseteq 1..born
  BY <1>2, <1>3 DEF LogoutTargets, liveDescendantOf, Chained
<1>5. q \in BOOLEAN
  BY Zenon
<1>6. q => /\ \A d \in Request : MayRotate(d) => session[req[d].of].family # session[s].family
           /\ \A t \in 1..born : Chained(t) /\ session[t].family = session[s].family /\ session[t].status = "active"
                => t \in LogoutTargets(s)
  <2> SUFFICES ASSUME q
               PROVE  /\ \A d \in Request : MayRotate(d) => session[req[d].of].family # session[s].family
                      /\ \A t \in 1..born : Chained(t) /\ session[t].family = session[s].family
                                            /\ session[t].status = "active" => t \in LogoutTargets(s)
    OBVIOUS
  <2>1. \A d \in Request : MayRotate(d) => session[req[d].of].family # session[s].family
    BY DEF MayRotate, Rotating
  <2>2. ASSUME NEW t \in 1..born, Chained(t), session[t].family = session[s].family, session[t].status = "active"
        PROVE  t \in LogoutTargets(s)
    <3>1. t = ThirdHop(s)
      BY <1>3, <2>2, ActiveIsLast
    <3> QED
      BY <2>2, <3>1 DEF LogoutTargets, liveDescendantOf
  <2> QED
    BY <2>1, <2>2
<1> HIDE DEF q
<1>7. LogoutTargets(s) \in SUBSET Sid
  BY <1>4, Numbers DEF IInv
<1>8. /\ b \in [pc : {"revoking"}, of : Sid, targets : SUBSET Sid, quiet : BOOLEAN]
      /\ b.pc = "revoking" /\ b.of = s /\ b.quiet = q /\ b.targets = LogoutTargets(s)
  BY <1>5, <1>7
<1>9. b \in Busy
  BY <1>8 DEF Busy
<1> HIDE DEF b
<1>10. req' = [req EXCEPT ![c] = b] /\ \A d \in Request : req'[d] = IF d = c THEN b ELSE req[d]
  BY <1>1 DEF Become, IInv, RequestsInv
<1>11. Ends /\ \A t : Chained(t)' <=> Chained(t)
  BY <1>1, SameEnds, EndsChained DEF IInv
<1>12. Knows(c)'
  BY <1>1, <1>2, <1>4, <1>8, <1>10, <1>11 DEF Knows
<1>13. RequestsInv'
  BY <1>8, <1>9, <1>10, <1>11, <1>12, EndsRequest DEF IInv
<1>14. \A d \in Request : MayRotate(d)' => d # c /\ MayRotate(d)
  BY <1>8, <1>10 DEF MayRotate
<1>15. QuietInv'
  <2> SUFFICES ASSUME NEW e \in Request, req'[e].pc = "revoking", req'[e].quiet
               PROVE  /\ \A d \in Request : MayRotate(d)' => session'[req'[d].of].family # session'[req'[e].of].family
                      /\ \A t \in 1..born :
                           /\ Chained(t)' /\ session'[t].family = session'[req'[e].of].family
                           /\ session'[t].status = "active"
                           => t \in req'[e].targets
    BY <1>1 DEF QuietInv
  <2>1. CASE e = c
    <3>1. q /\ req'[e].of = s /\ req'[e].targets = LogoutTargets(s)
      BY <1>8, <1>10, <2>1
    <3> QED
      BY <1>1, <1>6, <1>10, <1>11, <1>14, <3>1
  <2>2. CASE e # c
    BY <1>1, <1>10, <1>11, <1>14, <2>2 DEF IInv, QuietInv
  <2> QED
    BY <2>1, <2>2
<1>16. FamiliesInv' /\ HandsInv'
  BY <1>1, <1>11, EndsFamilies, SameHands DEF IInv
<1> QED
  BY <1>1, <1>13, <1>15, <1>16 DEF IInv, RestInv

LEMMA BeginChangePasswordKeeps ==
  ASSUME IInv, NEW c \in Request, NEW s \in Sid, BeginChangePassword(c, s)
  PROVE  IInv'
<1> DEFINE no == FALSE
           T == {t \in Sid : session[t].status = "active"} \ {s}
           b == [pc |-> "revoking", of |-> s, quiet |-> no, targets |-> T]
<1>1. s \in held /\ Become(c, b) /\ UNCHANGED <<session, born, held, tokens, active, now, ended, budget>>
  BY DEF BeginChangePassword
<1>2. no \in BOOLEAN /\ ~no
  OBVIOUS
<1> HIDE DEF no
<1>3. Chained(s)
  BY <1>1 DEF IInv, HandsInv
<1>4. T \subseteq Sid /\ T \subseteq 1..born
  BY Numbers DEF IInv, FamiliesInv, Sid
<1> HIDE DEF T
<1>5. /\ b \in [pc : {"revoking"}, of : Sid, targets : SUBSET Sid, quiet : BOOLEAN]
      /\ b.pc = "revoking" /\ b.of = s /\ ~b.quiet /\ b.targets = T
  BY <1>2, <1>4
<1>6. b \in Busy
  BY <1>5 DEF Busy
<1> HIDE DEF b
<1>7. req'[c] = b
  BY <1>1 DEF Become, IInv, RequestsInv
<1>8. Ends /\ \A t : Chained(t)' <=> Chained(t)
  BY <1>1, SameEnds, EndsChained DEF IInv
<1>9. Knows(c)'
  BY <1>1, <1>3, <1>4, <1>5, <1>7, <1>8 DEF Knows
<1>10. FamiliesInv' /\ RequestsInv' /\ QuietInv'
  BY <1>1, <1>5, <1>6, <1>8, <1>9, OneMoves
<1> QED
  BY <1>1, <1>8, <1>10, SameHands DEF IInv, RestInv

LEMMA BeginRefreshKeeps ==
  ASSUME IInv, NEW c \in Request, NEW s \in Sid, BeginRefresh(c, s)
  PROVE  IInv'
<1> DEFINE no == FALSE
           refreshing(pc) == [pc |-> pc, of |-> s, joins |-> no, new |-> 0]
           sweeping == [pc |-> "sweeping", at |-> 1, upto |-> born]
           f == session[s].family
           b == CASE session[s].status = "active" -> refreshing("checking")
                  [] session[s].rotated /\ now - session[s].rotatedAt <= Grace -> refreshing("chasing")
                  [] OTHER -> sweeping
<1>1. /\ req[c] = Idle /\ s \in tokens
      /\ UNCHANGED <<session, born, held, tokens, active, now, ended, budget>>
  BY DEF BeginRefresh
<1>2. req' = [Noticed(f) EXCEPT ![c] = b]
  BY DEF BeginRefresh
<1>3. no \in BOOLEAN /\ ~no
  OBVIOUS
<1> HIDE DEF no
<1>4. Chained(s) /\ s \in 1..born
  BY <1>1 DEF IInv, HandsInv, Chained
<1>5. \/ b = refreshing("checking")
      \/ b = refreshing("chasing") /\ session[s].rotated
      \/ b = sweeping
  <2> HIDE DEF refreshing, sweeping
  <2>1. CASE session[s].status = "active"
    BY <2>1
  <2>2. CASE session[s].status # "active" /\ session[s].rotated /\ now - session[s].rotatedAt <= Grace
    BY <2>2
  <2>3. CASE session[s].status # "active" /\ ~(session[s].rotated /\ now - session[s].rotatedAt <= Grace)
    BY <2>3
  <2> QED
    BY <2>1, <2>2, <2>3
<1> HIDE DEF b
<1>6. 1 \in 1..MaxSessions + 1 /\ born \in 0..MaxSessions /\ born \in Nat /\ 0 \in 0..MaxSessions
  BY Numbers DEF IInv, FamiliesInv
<1>7. /\ b \in Busy
      /\ \/ b.pc \in {"checking", "chasing"} /\ b.of = s /\ ~b.joins /\ (b.pc = "chasing" => session[s].rotated)
         \/ b.pc = "sweeping" /\ b.at = 1 /\ b.upto = born
  <2>1. CASE b = refreshing("checking")
    BY <1>3, <1>6, <2>1 DEF Busy
  <2>2. CASE b = refreshing("chasing") /\ session[s].rotated
    BY <1>3, <1>6, <2>2 DEF Busy
  <2>3. CASE b = sweeping
    BY <1>6, <2>3 DEF Busy
  <2> QED
    BY <1>5, <2>1, <2>2, <2>3
<1> HIDE DEF refreshing, sweeping, f
<1>8. Ends /\ \A t : Chained(t)' <=> Chained(t)
  BY <1>1, SameEnds, EndsChained DEF IInv
<1>9. ASSUME NEW d \in Request, d # c
      PROVE  /\ req'[d] \in {Idle} \cup Busy
             /\ \/ req'[d] = req[d] /\ ~(req[d].pc = "revoking" /\ session[req[d].of].family = f)
                \/ /\ req[d].pc = "revoking" /\ req'[d].pc = "revoking" /\ ~req'[d].quiet
                   /\ req'[d].of = req[d].of /\ req'[d].targets = req[d].targets
  <2>1. req'[d] = IF req[d].pc = "revoking" /\ session[req[d].of].family = f
                  THEN [req[d] EXCEPT !.quiet = FALSE] ELSE req[d]
    BY <1>2, <1>9 DEF Noticed
  <2>2. CASE req[d].pc = "revoking" /\ session[req[d].of].family = f
    <3> DEFINE n == [req[d] EXCEPT !.quiet = no]
    <3>1. req'[d] = n
      BY <2>1, <2>2 DEF no
    <3>2. req[d] \in [pc : {"revoking"}, of : Sid, targets : SUBSET Sid, quiet : BOOLEAN]
      BY <2>2, RequestBusy
    <3>3. /\ n \in [pc : {"revoking"}, of : Sid, targets : SUBSET Sid, quiet : BOOLEAN]
          /\ n.pc = "revoking" /\ ~n.quiet /\ n.of = req[d].of /\ n.targets = req[d].targets
      BY <1>3, <3>2
    <3> HIDE DEF n
    <3>4. n \in Busy
      BY <3>3 DEF Busy
    <3> QED
      BY <2>2, <3>1, <3>3, <3>4
  <2>3. CASE ~(req[d].pc = "revoking" /\ session[req[d].of].family = f)
    BY <2>1, <2>3 DEF IInv, RequestsInv
  <2> QED
    BY <2>2, <2>3
<1>10. req'[c] = b /\ DOMAIN req' = Request
  BY <1>2 DEF Noticed
<1>11. req' \in [Request -> {Idle} \cup Busy]
  <2>1. \A d \in Request : req'[d] \in {Idle} \cup Busy
    BY <1>7, <1>9, <1>10
  <2>2. req' = [d \in Request |-> req'[d]]
    BY <1>2 DEF Noticed
  <2> QED
    BY <2>1, <2>2
<1>12. Knows(c)'
  BY <1>1, <1>4, <1>6, <1>7, <1>8, <1>10 DEF Knows
<1>13. ASSUME NEW d \in Request, d # c PROVE Knows(d)'
  <2>1. CASE req'[d] = req[d]
    BY <1>8, <2>1, EndsKnows DEF IInv
  <2>2. CASE req[d].pc = "revoking" /\ req'[d].pc = "revoking" /\ req'[d].of = req[d].of
             /\ req'[d].targets = req[d].targets
    BY <1>1, <1>8, <2>2, RequestBusy DEF Knows
  <2> QED
    BY <1>9, <1>13, <2>1, <2>2
<1>14. \A d \in Request : req'[d].pc = "marking" => d # c /\ req'[d] = req[d]
  BY <1>7, <1>9, <1>10
<1>15. RequestsInv'
  BY <1>11, <1>12, <1>13, <1>14 DEF IInv, RequestsInv
<1>16. QuietInv'
  <2> SUFFICES ASSUME NEW e \in Request, req'[e].pc = "revoking", req'[e].quiet
               PROVE  /\ \A d \in Request : MayRotate(d)' => session'[req'[d].of].family # session'[req'[e].of].family
                      /\ \A t \in 1..born :
                           /\ Chained(t)' /\ session'[t].family = session'[req'[e].of].family
                           /\ session'[t].status = "active"
                           => t \in req'[e].targets
    BY <1>1 DEF QuietInv
  <2>1. e # c
    BY <1>7, <1>10
  <2>2. req'[e] = req[e] /\ session[req[e].of].family # f
    BY <1>9, <2>1
  <2>3. ASSUME NEW d \in Request, MayRotate(d)' PROVE session'[req'[d].of].family # session'[req'[e].of].family
    <3>1. CASE d = c
      BY <1>1, <1>7, <1>10, <2>2, <2>3, <3>1 DEF MayRotate, f
    <3>2. CASE d # c
      <4>1. MayRotate(d) /\ req'[d] = req[d]
        BY <1>9, <2>3, <3>2 DEF MayRotate
      <4> QED
        BY <1>1, <2>2, <4>1 DEF IInv, QuietInv
    <3> QED
      BY <3>1, <3>2
  <2> QED
    BY <1>1, <1>8, <2>2, <2>3 DEF IInv, QuietInv
<1>17. FamiliesInv' /\ HandsInv'
  BY <1>1, <1>8, EndsFamilies, SameHands DEF IInv
<1> QED
  BY <1>1, <1>15, <1>16, <1>17 DEF IInv, RestInv

----------------------------------------------------------------------------
(* Steps that create a session.                                            *)

LEMMA CreatedIs ==
  ASSUME IInv, NEW family \in 0..MaxSessions, NEW since \in 0..MaxTime
  PROVE  /\ Created(family, since) \in Session /\ Created(family, since).status = "active"
         /\ Created(family, since).family = family /\ Created(family, since).since = since
         /\ ~Created(family, since).rotated
         /\ Created(family, since).expires \leq since + AbsoluteTtl
<1> DEFINE no == FALSE
           e == Min({now + Ttl, since + AbsoluteTtl})
           a == [status |-> "none", rotated |-> no, next |-> 0, family |-> 0,
                 since |-> 0, expires |-> 0, rotatedAt |-> 0]
           d == [a EXCEPT !.status = "active", !.family = family, !.since = since, !.expires = e]
<1>1. no \in BOOLEAN /\ ~no
  OBVIOUS
<1>2. Created(family, since) = d
  BY DEF Created, Absent
<1> HIDE DEF no
<1>3. now \in 0..MaxTime /\ now + Ttl \in Nat /\ since + AbsoluteTtl \in Nat
  BY SessionsAssumption DEF IInv, RestInv
<1>4. e \in Nat /\ e \leq now + Ttl /\ e \leq since + AbsoluteTtl
  BY <1>3, LeastOfTwo
<1> HIDE DEF e
<1>5. e \in 0..MaxTime + Ttl /\ 0 \in 0..MaxSessions /\ 0 \in 0..MaxTime /\ 0 \in 0..MaxTime + Ttl
  BY <1>3, <1>4, SessionsAssumption
<1>6. a \in Session /\ ~a.rotated
  BY <1>1, <1>5 DEF Session
<1> HIDE DEF a
<1>7. d \in Session /\ d.status = "active" /\ d.family = family /\ d.since = since /\ ~d.rotated /\ d.expires = e
  BY <1>5, <1>6 DEF Session
<1> HIDE DEF d
<1> QED
  BY <1>2, <1>4, <1>7

LEMMA Appends ==
  ASSUME IInv, born < MaxSessions, born' = born + 1,
         NEW family \in 1..born + 1, NEW since \in 0..MaxTime,
         session' = [session EXCEPT ![born'] = Created(family, since)]
  PROVE  /\ born \in Nat /\ born + 1 \in Sid /\ 1..born' = 1..born \cup {born + 1} /\ born + 1 \notin 1..born
         /\ session' \in [Sid -> Session]
         /\ \A s \in Sid : s # born + 1 => session'[s] = session[s]
         /\ session'[born + 1].status = "active" /\ session'[born + 1].family = family
         /\ session'[born + 1].since = since /\ ~session'[born + 1].rotated
         /\ session'[born + 1].expires \leq since + AbsoluteTtl
         /\ \A s \in 1..born : Chained(s)' <=> Chained(s)
         /\ Chained(born)' <=> family = born + 1
<1>1. born \in Nat /\ born + 1 \in Sid /\ 1..born' = 1..born \cup {born + 1} /\ 1..born \subseteq Sid
      /\ born + 1 \notin 1..born
  BY Numbers DEF IInv, Sid
<1>2. family \in 0..MaxSessions
  BY <1>1 DEF Sid
<1> DEFINE d == Created(family, since)
<1>3. /\ d \in Session /\ d.status = "active" /\ d.family = family /\ d.since = since /\ ~d.rotated
      /\ d.expires \leq since + AbsoluteTtl
  BY <1>2, CreatedIs
<1>4. session' = [session EXCEPT ![born + 1] = d]
  OBVIOUS
<1> HIDE DEF d
<1>5. session' \in [Sid -> Session] /\ \A s \in Sid : session'[s] = IF s = born + 1 THEN d ELSE session[s]
  <2>1. session \in [Sid -> Session]
    BY DEF IInv, FamiliesInv
  <2> QED
    BY <1>3, <1>4, <2>1
<1>6. ASSUME NEW s \in 1..born PROVE Chained(s)' <=> Chained(s)
  BY <1>1, <1>3, <1>5 DEF Chained
<1>7. \A p \in 1..born : session'[p].rotated => session'[p].next # born + 1
  BY <1>1, <1>5 DEF IInv, FamiliesInv
<1>8. Chained(born)' <=> family = born + 1
  BY <1>1, <1>3, <1>5, <1>7 DEF Chained
<1> QED
  BY <1>1, <1>3, <1>5, <1>6, <1>8

LEMMA AppendsFamilies ==
  ASSUME IInv, born < MaxSessions, born' = born + 1,
         NEW family \in 1..born + 1, NEW since \in 0..MaxTime,
         session' = [session EXCEPT ![born'] = Created(family, since)],
         family = born + 1 \/ since = session[family].since
  PROVE  FamiliesInv'
<1>1. /\ born \in Nat /\ born + 1 \in Sid /\ 1..born' = 1..born \cup {born + 1} /\ born + 1 \notin 1..born
      /\ session' \in [Sid -> Session]
      /\ \A s \in Sid : s # born + 1 => session'[s] = session[s]
      /\ session'[born + 1].status = "active" /\ session'[born + 1].family = family
      /\ session'[born + 1].since = since /\ ~session'[born + 1].rotated
      /\ session'[born + 1].expires \leq since + AbsoluteTtl
      /\ \A s \in 1..born : Chained(s)' <=> Chained(s)
      /\ Chained(born)' <=> family = born + 1
  BY Appends
<1>2. 1..born \subseteq Sid /\ \A s \in 1..born : s # born + 1 /\ session'[s] = session[s]
  BY <1>1, Numbers DEF IInv
<1>3. born' \in 0..MaxSessions
  BY <1>1 DEF Sid
<1>4. \A s \in Sid : session'[s].status = "none" <=> s > born'
  BY <1>1 DEF IInv, FamiliesInv, Sid
<1>5. \A s \in Sid : session'[s].rotated => session'[s].next \in s + 1..born'
  BY <1>1 DEF IInv, FamiliesInv, Sid
<1>6. ASSUME NEW s \in 1..born'
      PROVE  /\ session'[s].family \in 1..born'
             /\ session'[s].since = session'[session'[s].family].since
             /\ session'[s].expires \leq session'[s].since + AbsoluteTtl
  <2>1. CASE s \in 1..born
    BY <1>1, <1>2, <2>1 DEF IInv, FamiliesInv
  <2>2. CASE s = born + 1
    BY <1>1, <1>2, <2>2
  <2> QED
    BY <1>1, <2>1, <2>2
<1>7. ASSUME NEW s \in 1..born', session'[s].rotated
      PROVE  /\ session'[s].status = "revoked" /\ Chained(s)'
             /\ session'[session'[s].next].family = session'[s].family
  <2>1. s \in 1..born
    BY <1>1, <1>7
  <2>2. session'[s] = session[s] /\ session[s].next \in 1..born
    BY <1>2, <1>7, <2>1, Numbers DEF IInv, FamiliesInv
  <2> QED
    BY <1>1, <1>2, <1>7, <2>1, <2>2 DEF IInv, FamiliesInv
<1>8. ASSUME NEW s \in 1..born', NEW t \in 1..born', Chained(s)', Chained(t)',
             session'[s].family = session'[t].family, ~session'[s].rotated, ~session'[t].rotated
      PROVE  s = t
  <2>1. \A x \in 1..born : session'[x].family \in 1..born
    BY <1>2 DEF IInv, FamiliesInv
  <2>2. CASE s \in 1..born /\ t \in 1..born
    BY <1>1, <1>2, <1>8, <2>2 DEF IInv, FamiliesInv
  <2>3. CASE s = born + 1 \/ t = born + 1
    BY <1>1, <1>8, <2>1, <2>3
  <2> QED
    BY <1>1, <2>2, <2>3
<1> QED
  BY <1>1, <1>3, <1>4, <1>5, <1>6, <1>7, <1>8 DEF FamiliesInv

\* A request that does not move.
LEMMA AppendsKnows ==
  ASSUME IInv, born < MaxSessions, born' = born + 1,
         NEW family \in 1..born + 1, NEW since \in 0..MaxTime,
         session' = [session EXCEPT ![born'] = Created(family, since)],
         NEW c \in Request, req'[c] = req[c]
  PROVE  Knows(c)'
<1>1. /\ born \in Nat /\ 1..born' = 1..born \cup {born + 1}
      /\ \A s \in Sid : s # born + 1 => session'[s] = session[s]
      /\ \A s \in 1..born : Chained(s)' <=> Chained(s)
      /\ born + 1 \notin 1..born
  BY Appends
<1>2. 1..born \subseteq Sid /\ \A s \in 1..born : s # born + 1 /\ session'[s] = session[s]
  BY <1>1, Numbers DEF IInv
<1>3. Knows(c)
  BY RequestBusy
<1>4. \A x : Chained(x) => x \in 1..born /\ Chained(x)' /\ session'[x] = session[x]
  BY <1>1, <1>2 DEF Chained
<1>5. req[c].pc \in {"marking", "undoing"} =>
        /\ req[c].new \in 1..born /\ req[c].new \in req[c].of + 1..born'
        /\ session'[req[c].new].family = session'[req[c].of].family
  BY <1>1, <1>2, <1>3, <1>4 DEF Knows
<1>6. req[c].pc = "marking" => ~Chained(req[c].new)'
  BY <1>1, <1>3, <1>5 DEF Knows
<1>7. req[c].pc = "sweeping" =>
        /\ req[c].at \leq born' + 1 /\ req[c].upto \leq born'
        /\ \A s \in 1..born' : s < req[c].at => session'[s].status # "active"
  <2> SUFFICES ASSUME req[c].pc = "sweeping"
               PROVE  /\ req[c].at \leq born' + 1 /\ req[c].upto \leq born'
                      /\ \A s \in 1..born' : s < req[c].at => session'[s].status # "active"
    OBVIOUS
  <2>1. /\ req[c].at \in Nat /\ req[c].upto \in Nat /\ req[c].at \leq born + 1 /\ req[c].upto \leq born
        /\ \A s \in 1..born : s < req[c].at => session[s].status # "active"
    BY <1>3, RequestBusy DEF Knows
  <2> QED
    BY <1>1, <1>2, <2>1
<1>8. req[c].pc = "revoking" => Chained(req[c].of)' /\ req[c].targets \subseteq 1..born'
  BY <1>1, <1>3, <1>4 DEF Knows
<1>9. req[c].pc \in {"chasing", "checking", "creating", "marking", "answering", "undoing", "rejoining"} =>
        Chained(req[c].of)' /\ session'[req[c].of] = session[req[c].of]
  BY <1>3, <1>4 DEF Knows
<1> QED
  BY <1>3, <1>5, <1>6, <1>7, <1>8, <1>9 DEF Knows

LEMMA AppendsQuiet ==
  ASSUME IInv, born < MaxSessions, born' = born + 1,
         NEW family \in 1..born + 1, NEW since \in 0..MaxTime,
         session' = [session EXCEPT ![born'] = Created(family, since)],
         \A e \in Request : req'[e].pc = "revoking" => req'[e] = req[e],
         \A d \in Request : MayRotate(d)' => MayRotate(d) /\ req'[d].of = req[d].of
  PROVE  QuietInv'
<1>1. /\ born \in Nat /\ 1..born' = 1..born \cup {born + 1}
      /\ \A s \in Sid : s # born + 1 => session'[s] = session[s]
      /\ \A s \in 1..born : Chained(s)' <=> Chained(s)
      /\ born + 1 \notin 1..born /\ session'[born + 1].family = family
      /\ Chained(born)' <=> family = born + 1
  BY Appends
<1>2. 1..born \subseteq Sid /\ \A s \in 1..born : s # born + 1 /\ session'[s] = session[s]
  BY <1>1, Numbers DEF IInv
<1> SUFFICES ASSUME NEW e \in Request, req'[e].pc = "revoking", req'[e].quiet
             PROVE  /\ \A d \in Request : MayRotate(d)' => session'[req'[d].of].family # session'[req'[e].of].family
                    /\ \A t \in 1..born' :
                         /\ Chained(t)' /\ session'[t].family = session'[req'[e].of].family
                         /\ session'[t].status = "active"
                         => t \in req'[e].targets
  BY DEF QuietInv
<1>3. req'[e] = req[e] /\ req[e].of \in 1..born
  BY RequestBusy DEF Knows, Chained
<1>4. session'[req[e].of] = session[req[e].of] /\ session[req[e].of].family \in 1..born
  BY <1>2, <1>3 DEF IInv, FamiliesInv
<1>5. ASSUME NEW d \in Request, MayRotate(d)' PROVE session'[req'[d].of].family # session'[req'[e].of].family
  <2>1. MayRotate(d) /\ req'[d].of = req[d].of
    BY <1>5
  <2>2. req[d].of \in 1..born
    BY <2>1, RequestBusy DEF MayRotate
  <2>3. session[req[d].of].family # session[req[e].of].family
    BY <1>3, <2>1 DEF IInv, QuietInv
  <2> QED
    BY <1>2, <1>3, <1>4, <2>1, <2>2, <2>3
<1>6. ASSUME NEW t \in 1..born', Chained(t)', session'[t].family = session'[req'[e].of].family,
             session'[t].status = "active"
      PROVE  t \in req'[e].targets
  <2>1. t \in 1..born
    BY <1>1, <1>3, <1>4, <1>6
  <2> QED
    BY <1>1, <1>2, <1>3, <1>4, <1>6, <2>1 DEF IInv, QuietInv
<1> QED
  BY <1>5, <1>6

LEMMA SignInKeeps ==
  ASSUME IInv, NEW c \in Request, SignIn(c)
  PROVE  IInv'
<1>1. /\ born < MaxSessions /\ born' = born + 1 /\ session' = [session EXCEPT ![born'] = Created(born', now)]
      /\ held' = held \cup {born'} /\ tokens' = tokens \cup {born'} /\ Become(c, Idle)
      /\ UNCHANGED <<active, now, ended, budget>>
  BY DEF SignIn
<1>2. born + 1 \in 1..born + 1 /\ now \in 0..MaxTime
      /\ session' = [session EXCEPT ![born'] = Created(born + 1, now)]
  BY <1>1, Numbers DEF IInv, RestInv
<1>3. /\ born \in Nat /\ 1..born' = 1..born \cup {born + 1} /\ born + 1 \notin 1..born
      /\ \A s \in Sid : s # born + 1 => session'[s] = session[s]
      /\ session'[born + 1].family = born + 1
      /\ \A s \in 1..born : Chained(s)' <=> Chained(s)
      /\ Chained(born)'
  BY <1>1, <1>2, Appends
<1>4. 1..born \subseteq Sid /\ \A s \in 1..born : s # born + 1 /\ session'[s] = session[s]
  BY <1>3, Numbers DEF IInv
<1>5. FamiliesInv'
  BY <1>1, <1>2, AppendsFamilies
<1>6. HandsInv'
  <2>1. tokens' \subseteq held' /\ held' \subseteq 1..born' /\ ended' \subseteq 1..born'
    BY <1>1, <1>3 DEF IInv, HandsInv
  <2>2. ASSUME NEW s \in held' PROVE Chained(s)'
    <3>1. CASE s \in held
      BY <1>3, <3>1 DEF IInv, HandsInv, Chained
    <3>2. CASE s = born'
      BY <1>3, <3>2
    <3> QED
      BY <1>1, <2>2, <3>1, <3>2
  <2>3. ASSUME NEW s \in 1..born', Chained(s)', session'[s].family \in ended'
        PROVE  session'[s].status # "active"
    <3>1. s \in 1..born
      BY <1>1, <1>3, <2>3 DEF IInv, HandsInv
    <3> QED
      BY <1>1, <1>3, <1>4, <2>3, <3>1 DEF IInv, HandsInv
  <2> QED
    BY <2>1, <2>2, <2>3 DEF HandsInv
<1>7. \A d \in Request : req'[d] = IF d = c THEN Idle ELSE req[d]
  BY <1>1 DEF Become, IInv, RequestsInv
<1>8. RequestsInv'
  <2>1. req' \in [Request -> {Idle} \cup Busy]
    BY <1>1 DEF Become, IInv, RequestsInv
  <2>2. Knows(c)'
    BY <1>7 DEF Knows, Idle
  <2>3. ASSUME NEW d \in Request, d # c PROVE Knows(d)'
    BY <1>1, <1>2, <1>7, <2>3, AppendsKnows
  <2>4. Idle.pc = "idle"
    BY DEF Idle
  <2> QED
    BY <1>7, <2>1, <2>2, <2>3, <2>4 DEF IInv, RequestsInv
<1>9. QuietInv'
  <2>1. Idle.pc = "idle"
    BY DEF Idle
  <2>2. \A e \in Request : req'[e].pc = "revoking" => req'[e] = req[e]
    BY <1>7, <2>1
  <2>3. \A d \in Request : MayRotate(d)' => MayRotate(d) /\ req'[d].of = req[d].of
    BY <1>7, <2>1 DEF MayRotate
  <2> QED
    BY <1>1, <1>2, <2>2, <2>3, AppendsQuiet
<1> QED
  BY <1>1, <1>5, <1>6, <1>8, <1>9 DEF IInv, RestInv

LEMMA CreateSuccessorKeeps ==
  ASSUME IInv, NEW c \in Request, CreateSuccessor(c)
  PROVE  IInv'
<1> DEFINE s == req[c].of
           family == session[s].family
           since == session[s].since
           b == [req[c] EXCEPT !.pc = "marking", !.new = born + 1]
<1>1. /\ req[c].pc = "creating" /\ born < MaxSessions /\ born' = born + 1
      /\ session' = [session EXCEPT ![born'] = Created(family, since)]
      /\ req' = [req EXCEPT ![c] = b]
      /\ UNCHANGED <<held, tokens, active, now, ended, budget>>
  BY DEF CreateSuccessor, Successor, Become
<1>2. /\ Knows(c) /\ s \in 1..born /\ s \in Sid
      /\ req[c] \in [pc : {"chasing", "checking", "creating", "marking", "answering", "undoing", "rejoining"},
                     of : Sid, joins : BOOLEAN, new : 0..MaxSessions]
  BY <1>1, RequestBusy
<1>3. /\ family \in 1..born /\ family \in 1..born + 1 /\ since \in 0..MaxTime /\ since = session[family].since
      /\ family # born + 1
  BY <1>2, Numbers DEF IInv, FamiliesInv, Session
<1>4. Chained(s) /\ ~req[c].joins
  BY <1>1, <1>2 DEF Knows
<1> HIDE DEF family, since
<1>5. /\ born \in Nat /\ born + 1 \in Sid /\ 1..born' = 1..born \cup {born + 1} /\ born + 1 \notin 1..born
      /\ \A x \in Sid : x # born + 1 => session'[x] = session[x]
      /\ session'[born + 1].family = family
      /\ \A x \in 1..born : Chained(x)' <=> Chained(x)
      /\ ~Chained(born)'
  BY <1>1, <1>3, Appends
<1>6. 1..born \subseteq Sid /\ \A x \in 1..born : x # born + 1 /\ session'[x] = session[x]
  BY <1>5, Numbers DEF IInv
<1>7. FamiliesInv'
  BY <1>1, <1>3, AppendsFamilies
<1>8. HandsInv'
  <2>1. \A x \in held' : Chained(x)'
    BY <1>1, <1>5 DEF IInv, HandsInv, Chained
  <2>2. ASSUME NEW x \in 1..born', Chained(x)', session'[x].family \in ended'
        PROVE  session'[x].status # "active"
    <3>1. x \in 1..born
      BY <1>1, <1>5, <2>2
    <3> QED
      BY <1>1, <1>5, <1>6, <2>2, <3>1 DEF IInv, HandsInv
  <2>3. tokens' \subseteq held' /\ held' \subseteq 1..born' /\ ended' \subseteq 1..born'
    BY <1>1, <1>5 DEF IInv, HandsInv
  <2> QED
    BY <2>1, <2>2, <2>3 DEF HandsInv
<1>9. /\ b \in [pc : {"chasing", "checking", "creating", "marking", "answering", "undoing", "rejoining"},
                of : Sid, joins : BOOLEAN, new : 0..MaxSessions]
      /\ b.pc = "marking" /\ b.of = s /\ b.joins = req[c].joins /\ b.new = born + 1
  <2>1. born + 1 \in 0..MaxSessions
    BY <1>5 DEF Sid
  <2> QED
    BY <1>2, <2>1
<1>10. b \in Busy
  BY <1>9 DEF Busy
<1> HIDE DEF b
<1>11. \A d \in Request : req'[d] = IF d = c THEN b ELSE req[d]
  BY <1>1 DEF IInv, RequestsInv
<1>12. Knows(c)'
  <2>1. req'[c] = b
    BY <1>11
  <2>2. Chained(s) /\ session'[s] = session[s] /\ \A x : x = s => Chained(x)'
    BY <1>2, <1>4, <1>5, <1>6
  <2>3. born + 1 \in s + 1..born'
    BY <1>1, <1>2, <1>5
  <2>4. session'[born + 1].family = session'[s].family
    BY <1>5, <2>2 DEF family
  <2>5. \A x : x = born + 1 => ~Chained(x)'
    BY <1>1, <1>5
  <2> HIDE DEF s
  <2> QED
    BY <1>4, <1>9, <2>1, <2>2, <2>3, <2>4, <2>5 DEF Knows
<1>13. RequestsInv'
  <2>1. req' \in [Request -> {Idle} \cup Busy]
    BY <1>1, <1>10 DEF IInv, RequestsInv
  <2>2. ASSUME NEW d \in Request, d # c PROVE Knows(d)'
    BY <1>1, <1>3, <1>11, <2>2, AppendsKnows
  <2>3. ASSUME NEW d \in Request, d # c, req[d].pc = "marking" PROVE req'[d].new # b.new /\ req'[d] = req[d]
    BY <1>5, <1>9, <1>11, <2>3, RequestBusy, Numbers DEF Knows, IInv
  <2>4. ASSUME NEW d \in Request, NEW e \in Request, d # e, req'[d].pc = "marking", req'[e].pc = "marking"
        PROVE  req'[d].new # req'[e].new
    BY <1>11, <2>3, <2>4 DEF IInv, RequestsInv
  <2> QED
    BY <1>12, <2>1, <2>2, <2>4 DEF RequestsInv
<1>14. QuietInv'
  <2>1. \A e \in Request : req'[e].pc = "revoking" => req'[e] = req[e]
    BY <1>9, <1>11
  <2>2. \A d \in Request : MayRotate(d)' => MayRotate(d) /\ req'[d].of = req[d].of
    BY <1>1, <1>9, <1>11 DEF MayRotate
  <2> QED
    BY <1>1, <1>3, <2>1, <2>2, AppendsQuiet
<1> QED
  BY <1>1, <1>7, <1>8, <1>13, <1>14 DEF IInv, RestInv

----------------------------------------------------------------------------
(* A rotation takes effect.                                                *)

\* Its successor is chained from now on, and nothing else is.
LEMMA MarkedChained ==
  ASSUME IInv, UNCHANGED born, NEW s \in 1..born, NEW n \in s + 1..born, session[s].status = "active",
         session' = [session EXCEPT ![s].status = "revoked", ![s].rotated = TRUE,
                                    ![s].next = n, ![s].rotatedAt = now]
  PROVE  /\ session' \in [Sid -> Session] /\ 1..born \subseteq Sid /\ n \in 1..born /\ n # s /\ ~session[s].rotated
         /\ \A x \in Sid : x # s => session'[x] = session[x]
         /\ \A x \in Sid : session'[x].family = session[x].family /\ session'[x].since = session[x].since
                           /\ session'[x].expires = session[x].expires
         /\ session'[s].status = "revoked" /\ session'[s].rotated /\ session'[s].next = n
         /\ \A x : Chained(x)' <=> Chained(x) \/ x = n
<1>1. /\ 1..born \subseteq Sid /\ n \in 1..born /\ n # s /\ n \in 0..MaxSessions /\ now \in 0..MaxTime
      /\ session \in [Sid -> Session]
  BY Numbers DEF IInv, RestInv, FamiliesInv
<1>2. ~session[s].rotated
  BY DEF IInv, FamiliesInv
<1> DEFINE yes == TRUE
           d == [session[s] EXCEPT !.status = "revoked", !.rotated = yes, !.next = n, !.rotatedAt = now]
<1>3. yes \in BOOLEAN /\ yes
  OBVIOUS
<1>4. session' = [session EXCEPT ![s] = d]
  BY <1>1
<1> HIDE DEF yes
<1>5. session[s] \in Session
  BY <1>1
<1>6. /\ d \in Session /\ d.status = "revoked" /\ d.rotated /\ d.next = n
      /\ d.family = session[s].family /\ d.since = session[s].since /\ d.expires = session[s].expires
  BY <1>1, <1>3, <1>5 DEF Session
<1> HIDE DEF d
<1>7. session' \in [Sid -> Session] /\ \A x \in Sid : session'[x] = IF x = s THEN d ELSE session[x]
  <2>1. s \in Sid /\ session \in [Sid -> Session] /\ d \in Session
    BY <1>1, <1>6
  <2>2. session' \in [Sid -> Session]
    BY <1>4, <2>1
  <2>3. \A x \in Sid : session'[x] = IF x = s THEN d ELSE session[x]
    BY <1>4, <2>1
  <2> QED
    BY <2>2, <2>3
<1>8. \A x \in Sid : session'[x].family = session[x].family /\ session'[x].since = session[x].since
                     /\ session'[x].expires = session[x].expires
  BY <1>6, <1>7
<1>9. ASSUME NEW x PROVE Chained(x)' <=> Chained(x) \/ x = n
  <2>1. CASE x \notin 1..born
    BY <1>1, <2>1 DEF Chained
  <2>2. CASE x \in 1..born
    <3>1. Chained(x) => Chained(x)'
      BY <1>1, <1>2, <1>7, <1>8, <2>2 DEF Chained
    <3>2. x = n => Chained(x)'
      BY <1>1, <1>6, <1>7, <2>2 DEF Chained
    <3>3. Chained(x)' => Chained(x) \/ x = n
      BY <1>1, <1>6, <1>7, <1>8, <2>2 DEF Chained
    <3> QED
      BY <3>1, <3>2, <3>3
  <2> QED
    BY <2>1, <2>2
<1> QED
  BY <1>1, <1>2, <1>6, <1>7, <1>8, <1>9

LEMMA MarkRotatedKeeps ==
  ASSUME IInv, NEW c \in Request, MarkRotated(c)
  PROVE  IInv'
<1> DEFINE s == req[c].of
           n == req[c].new
<1>1. req[c].pc = "marking" /\ UNCHANGED <<born, held, tokens, active, now, ended, budget>>
  BY DEF MarkRotated
<1>2. /\ Knows(c) /\ s \in 1..born /\ Chained(s) /\ ~req[c].joins
      /\ n \in s + 1..born /\ session[n].family = session[s].family /\ ~Chained(n)
      /\ req[c] \in [pc : {"chasing", "checking", "creating", "marking", "answering", "undoing", "rejoining"},
                     of : Sid, joins : BOOLEAN, new : 0..MaxSessions]
  BY <1>1, RequestBusy DEF Knows
<1>3. CASE session[s].status # "active"
  <2> DEFINE joins == req[c].joins
  <2>1. joins \in BOOLEAN /\ ~joins
    BY <1>2
  <2>2. UNCHANGED session /\ Become(c, [req[c] EXCEPT !.pc = "undoing"])
    BY <1>3 DEF MarkRotated
  <2>3. Become(c, [req[c] EXCEPT !.pc = "undoing", !.joins = joins])
    BY <1>2, <2>2 DEF Become
  <2> HIDE DEF joins
  <2>4. FamiliesInv' /\ RequestsInv' /\ QuietInv'
    BY <1>1, <2>1, <2>2, <2>3, SameEnds, OneGoesOn
  <2> QED
    BY <1>1, <2>2, <2>4, SameEnds, SameHands DEF IInv, RestInv
<1>4. CASE session[s].status = "active"
  <2> DEFINE b == [req[c] EXCEPT !.pc = "answering"]
  <2>1. /\ session' = [session EXCEPT ![s].status = "revoked", ![s].rotated = TRUE,
                                      ![s].next = n, ![s].rotatedAt = now]
        /\ req' = [req EXCEPT ![c] = b]
    BY <1>4 DEF MarkRotated, Become
  <2>2. /\ b \in [pc : {"chasing", "checking", "creating", "marking", "answering", "undoing", "rejoining"},
                  of : Sid, joins : BOOLEAN, new : 0..MaxSessions]
        /\ b.pc = "answering" /\ b.of = s /\ b.joins = req[c].joins /\ b.new = n
    BY <1>2
  <2>3. b \in Busy
    BY <2>2 DEF Busy
  <2> HIDE DEF b
  <2>4. \A d \in Request : req'[d] = IF d = c THEN b ELSE req[d]
    BY <2>1 DEF IInv, RequestsInv
  <2> HIDE DEF s, n
  <2>5. /\ session' \in [Sid -> Session] /\ 1..born \subseteq Sid /\ n \in 1..born /\ n # s /\ ~session[s].rotated
        /\ \A x \in Sid : x # s => session'[x] = session[x]
        /\ \A x \in Sid : session'[x].family = session[x].family /\ session'[x].since = session[x].since
                          /\ session'[x].expires = session[x].expires
        /\ session'[s].status = "revoked" /\ session'[s].rotated /\ session'[s].next = n
        /\ \A x : Chained(x)' <=> Chained(x) \/ x = n
    BY <1>1, <1>2, <1>4, <2>1, MarkedChained
  <2>6. s \in Sid /\ n \in Sid /\ ~session[n].rotated
    BY <1>2, <2>5 DEF IInv, FamiliesInv
  <2>7. FamiliesInv'
    <3>1. \A x \in Sid : session'[x].status = "none" <=> x > born'
      BY <1>1, <1>4, <2>5, <2>6 DEF IInv, FamiliesInv
    <3>2. \A x \in Sid : session'[x].rotated => session'[x].next \in x + 1..born'
      BY <1>1, <1>2, <2>5, <2>6 DEF IInv, FamiliesInv
    <3>3. ASSUME NEW x \in 1..born
          PROVE  /\ session'[x].family \in 1..born
                 /\ session'[x].since = session'[session'[x].family].since
                 /\ session'[x].expires \leq session'[x].since + AbsoluteTtl
      BY <2>5 DEF IInv, FamiliesInv
    <3>4. ASSUME NEW x \in 1..born, session'[x].rotated
          PROVE  /\ session'[x].status = "revoked" /\ Chained(x)'
                 /\ session'[session'[x].next].family = session'[x].family
      <4>1. CASE x = s
        BY <1>2, <2>5, <2>6, <4>1
      <4>2. CASE x # s
        <5>1. session'[x] = session[x] /\ session[x].next \in Sid
          BY <2>5, <3>4, <4>2, Numbers DEF IInv, FamiliesInv
        <5> QED
          BY <2>5, <3>4, <5>1 DEF IInv, FamiliesInv
      <4> QED
        BY <4>1, <4>2
    <3>5. ASSUME NEW x \in 1..born, Chained(x)', ~session'[x].rotated, session'[x].family = session'[s].family
          PROVE  x = n
      <4>1. x # s
        BY <2>5, <3>5
      <4>2. CASE Chained(x)
        <5>1. x \in Sid /\ session'[x] = session[x] /\ session[x].family = session[s].family
          BY <2>5, <2>6, <3>5, <4>1
        <5>2. x = s
          BY <1>2, <1>4, <2>5, <3>5, <4>2, <5>1, ActiveIsLast
        <5> QED
          BY <4>1, <5>2
      <4> QED
        BY <2>5, <3>5, <4>2
    <3>6. ASSUME NEW x \in 1..born, NEW y \in 1..born, Chained(x)', Chained(y)',
                 session'[x].family = session'[y].family, ~session'[x].rotated, ~session'[y].rotated
          PROVE  x = y
      <4>1. CASE session'[x].family = session'[s].family
        BY <3>5, <3>6, <4>1
      <4>2. CASE session'[x].family # session'[s].family
        <5>1. x # s /\ y # s /\ x # n /\ y # n
          BY <1>2, <2>5, <2>6, <3>6, <4>2
        <5>2. Chained(x) /\ Chained(y) /\ session'[x] = session[x] /\ session'[y] = session[y]
          BY <2>5, <3>6, <5>1
        <5> QED
          BY <3>6, <5>2 DEF IInv, FamiliesInv
      <4> QED
        BY <4>1, <4>2
    <3>7. born' \in 0..MaxSessions
      BY <1>1 DEF IInv, FamiliesInv
    <3> QED
      BY <1>1, <2>5, <3>1, <3>2, <3>3, <3>4, <3>6, <3>7 DEF FamiliesInv
  <2>8. HandsInv'
    <3>1. ASSUME NEW x \in 1..born, Chained(x)', session'[x].family \in ended PROVE session'[x].status # "active"
      <4>1. session[x].family \in ended /\ session[s].family \notin ended
        BY <1>2, <1>4, <2>5, <3>1 DEF IInv, HandsInv
      <4>2. x # n /\ x # s
        BY <1>2, <4>1
      <4>3. Chained(x) /\ session'[x] = session[x]
        BY <2>5, <3>1, <4>2
      <4> QED
        BY <4>1, <4>3 DEF IInv, HandsInv
    <3>2. \A x \in held : Chained(x)'
      BY <2>5 DEF IInv, HandsInv
    <3> QED
      BY <1>1, <3>1, <3>2 DEF IInv, HandsInv
  <2>9. Knows(c)'
    <3>1. req'[c] = b
      BY <2>4
    <3>2. Chained(s) /\ \A x : x = s => Chained(x)'
      BY <1>2, <2>5
    <3> QED
      BY <1>2, <2>2, <2>5, <3>1, <3>2 DEF Knows
  <2>10. ASSUME NEW d \in Request, d # c PROVE Knows(d)'
    <3>1. req'[d] = req[d] /\ Knows(d)
      BY <2>4, <2>10, RequestBusy
    <3>2. ASSUME req[d].pc \in {"chasing", "checking", "creating", "marking", "answering", "undoing", "rejoining"}
          PROVE  /\ Chained(req[d].of) /\ req[d].of \in Sid
                 /\ session'[req[d].of].family = session[req[d].of].family
                 /\ session[req[d].of].rotated => session'[req[d].of] = session[req[d].of]
      BY <2>5, <3>1, <3>2, RequestBusy DEF Knows
    <3>3. ASSUME req[d].pc \in {"marking", "undoing"}
          PROVE  /\ req[d].new \in req[d].of + 1..born
                 /\ session'[req[d].new].family = session'[req[d].of].family
      <4>1. req[d].new \in req[d].of + 1..born /\ session[req[d].new].family = session[req[d].of].family
            /\ req[d].of \in 1..born /\ req[d].of \in Sid
        BY <3>1, <3>3, RequestBusy, <3>2 DEF Knows
      <4>2. req[d].new \in Sid
        BY <2>5, <4>1
      <4> QED
        BY <2>5, <4>1, <4>2
    <3>4. ASSUME req[d].pc = "marking" PROVE ~Chained(req[d].new) /\ req[d].new # n
      BY <1>1, <2>10, <3>1, <3>4 DEF Knows, IInv, RequestsInv, n
    <3>5. ASSUME req[d].pc = "sweeping", NEW x \in 1..born, x < req[d].at PROVE session'[x].status # "active"
      BY <2>5, <2>6, <3>1, <3>5 DEF Knows
    <3>6. \A x : x = req[d].of /\ Chained(x) => Chained(x)'
      BY <2>5
    <3>7. \A x : x = req[d].new /\ ~Chained(x) /\ x # n => ~Chained(x)'
      BY <2>5
    <3> QED
      BY <1>1, <3>1, <3>2, <3>3, <3>4, <3>5, <3>6, <3>7 DEF Knows
  <2>11. RequestsInv'
    <3>1. req' \in [Request -> {Idle} \cup Busy]
      BY <2>1, <2>3 DEF IInv, RequestsInv
    <3> QED
      BY <2>2, <2>4, <2>9, <2>10, <3>1 DEF IInv, RequestsInv
  <2>12. QuietInv'
    <3> SUFFICES ASSUME NEW e \in Request, req'[e].pc = "revoking", req'[e].quiet
                 PROVE  /\ \A d \in Request :
                             MayRotate(d)' => session'[req'[d].of].family # session'[req'[e].of].family
                        /\ \A t \in 1..born :
                             /\ Chained(t)' /\ session'[t].family = session'[req'[e].of].family
                             /\ session'[t].status = "active"
                             => t \in req'[e].targets
      BY <1>1 DEF QuietInv
    <3>1. e # c /\ req'[e] = req[e] /\ req[e].of \in Sid
      BY <2>2, <2>4, <2>5, RequestBusy DEF Knows, Chained
    <3>2. session[req[e].of].family # session[s].family
      BY <1>1, <3>1 DEF IInv, QuietInv, MayRotate, s
    <3>3. ASSUME NEW d \in Request, MayRotate(d)' PROVE session'[req'[d].of].family # session'[req'[e].of].family
      <4>1. MayRotate(d) /\ req'[d] = req[d]
        BY <2>2, <2>4, <3>3 DEF MayRotate
      <4>2. req[d].of \in Sid
        BY <2>5, <4>1, RequestBusy DEF MayRotate
      <4> QED
        BY <2>5, <3>1, <4>1, <4>2 DEF IInv, QuietInv
    <3>4. ASSUME NEW t \in 1..born, Chained(t)', session'[t].family = session'[req'[e].of].family,
                 session'[t].status = "active"
          PROVE  t \in req'[e].targets
      <4>1. session[t].family = session[req[e].of].family /\ t # s /\ t # n
        BY <1>2, <2>5, <3>1, <3>2, <3>4
      <4>2. Chained(t) /\ session'[t] = session[t]
        BY <2>5, <3>4, <4>1
      <4> QED
        BY <3>1, <3>4, <4>1, <4>2 DEF IInv, QuietInv
    <3> QED
      BY <3>3, <3>4
  <2> QED
    BY <1>1, <2>7, <2>8, <2>11, <2>12 DEF IInv, RestInv
<1> QED
  BY <1>3, <1>4

----------------------------------------------------------------------------
(* The invariant is inductive.                                             *)

LEMMA NextInv == IInv /\ [Next]_vars => IInv'
<1> SUFFICES ASSUME IInv, [Next]_vars PROVE IInv'
  OBVIOUS
<1>1. ASSUME NEW c \in Request, BeginLogin(c) \/ SignIn(c) PROVE IInv'
  BY <1>1, BeginLoginKeeps, SignInKeeps
<1>2. ASSUME NEW c \in Request, Chase(c) \/ Check(c) \/ Answer(c) \/ Undo(c) \/ Rejoin(c) PROVE IInv'
  BY <1>2, ChaseKeeps, CheckKeeps, AnswerKeeps, UndoKeeps
<1>3. ASSUME NEW c \in Request, CreateSuccessor(c) \/ MarkRotated(c) PROVE IInv'
  BY <1>3, CreateSuccessorKeeps, MarkRotatedKeeps
<1>4. ASSUME NEW c \in Request, BeginRevokeAll(c) \/ BeginDeactivate(c) \/ Crash(c) PROVE IInv'
  BY <1>4, CrashKeeps
<1>5. ASSUME NEW c \in Request, Sweep(c) \/ RevokeNext(c) PROVE IInv'
  BY <1>5, SweepKeeps, RevokeNextKeeps
<1>6. ASSUME NEW c \in Request, NEW s \in Sid, BeginRefresh(c, s) \/ BeginLogout(c, s) \/ BeginChangePassword(c, s)
      PROVE  IInv'
  BY <1>6, BeginRefreshKeeps, BeginLogoutKeeps, BeginChangePasswordKeeps
<1>7. CASE Reactivate \/ Tick \/ UNCHANGED vars
  BY <1>7, TickKeeps
<1> QED
  BY <1>1, <1>2, <1>3, <1>4, <1>5, <1>6, <1>7 DEF Next

LEMMA AlwaysInv == Spec => []IInv
<1> QED
  BY InitInv, NextInv, PTL DEF Spec

\* Every variable stays in its type (TypeOK), whatever the bounds are.
THEOREM TypeInvariant == Spec => []TypeOK
<1> QED
  BY AlwaysInv, InvTypes, PTL

\* auth.service.js rotate and its callers: of the live sessions of one login,
\* at most one is in anybody's hands (LoginNeverForks), for any number of
\* concurrent refreshes, logouts, revocations and crashes.
THEOREM OneLiveSession == Spec => []LoginNeverForks
<1> QED
  BY AlwaysInv, InvNeverForks, PTL

\* A family that revokeAllForActor, or a logout nobody's refresh disturbed,
\* was done with stays over (EndedStaysEnded).
THEOREM EndedIsOver == Spec => []EndedStaysEnded
<1> QED
  BY AlwaysInv, InvEnded, PTL

\* However often a login was rotated, none of its sessions is good for longer
\* than sessionAbsoluteTtl after the sign-in (LoginEndsInTime).
THEOREM LoginIsBounded == Spec => []LoginEndsInTime
<1> QED
  BY AlwaysInv, InvInTime, PTL
=============================================================================
