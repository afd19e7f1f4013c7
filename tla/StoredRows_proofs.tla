------------------------- MODULE StoredRows_proofs -------------------------
(***************************************************************************)
(* Proofs about StoredRows, for any deliveries, rows, workers, limit and   *)
(* faults: the capacity on the counter is accounted for, and the plan's    *)
(* limit holds.                                                            *)
(***************************************************************************)
EXTENDS StoredRows, FiniteSetTheorems, TLAPS

----------------------------------------------------------------------------
(* The inductive invariant.                                                *)

\* Until its entry is recorded, a delivery has nothing in the ledger.
LedgerOK(d) ==
  /\ ledger[d].remaining > 0 => ledger[d].open
  /\ req[d].pc \in {"new", "recording"} => ~ledger[d].open

\* What a worker has to give back it has only while it gives back; and it took
\* enough for the rows of its batch that are still missing.
Covers(work, stored) ==
  /\ work.pc # "returning" => work.back = 0 /\ work.rel = 0
  /\ work.pc \in {"drawing", "consuming", "writing"} =>
       Cardinality(work.batch \ stored) <= work.fresh
  /\ work.pc = "consuming" => work.taken <= work.fresh

Typed ==
  /\ counter \in [value : Nat, recent : BOOLEAN] /\ ledgerRecent \in BOOLEAN
  /\ ledger \in [Delivery -> Entry] /\ rows \subseteq Row
  /\ req \in [Delivery -> Request] /\ job \in [Delivery -> Job]
  /\ worker \in [Worker -> Work] /\ rec \in Recon
  /\ lost \in Int /\ faults \in Nat
  /\ \A d \in Delivery : LedgerOK(d)
  /\ \A w \in Worker : Covers(worker[w], rows)

\* Nobody holds capacity that was taken before the window, and nobody holds
\* any while nothing changed within it.
Flagged == counter.recent \/ ledgerRecent
WindowOK == ~Flagged => InFlight = 0

\* What the reconciler has read, as far as it will use it.
Trusted == ~rec.recent /\ ~rec.dirty
RecOK ==
  /\ rec.pc # "idle" /\ Trusted => ~counter.recent /\ counter.value = rec.seen
  /\ rec.pc \in {"counting", "summing"} =>
       \A d \in Delivery : ~(ledger[d].open /\ ledger[d].stale)
  /\ rec.pc = "summing" /\ ~Flagged => rec.count = Cardinality(rows)
  /\ rec.pc = "writing" /\ Trusted =>
       /\ rec.count + rec.held <= counter.value
       /\ counter.value - (rec.count + rec.held) <= lost

Accounted ==
  /\ Conservation /\ counter.value <= Limit
  /\ WindowOK /\ RecOK

IInv == Typed /\ Accounted

----------------------------------------------------------------------------
(* Sums of natural numbers over a finite set of keys.                      *)

\* The units of key x.
Own(f, x) == {x} \X (1 .. f[x])

LEMMA OwnUnits ==
  ASSUME NEW S, NEW f \in [S -> Nat], NEW x \in S
  PROVE  IsFiniteSet(Own(f, x)) /\ Cardinality(Own(f, x)) = f[x]
<1>1. IsFiniteSet({x}) /\ Cardinality({x}) = 1
  BY FS_Singleton
<1>2. f[x] \in Nat
  OBVIOUS
<1>3. IsFiniteSet(1 .. f[x]) /\ Cardinality(1 .. f[x]) = f[x]
  BY <1>2, FS_Interval
<1>4. IsFiniteSet({x} \X (1 .. f[x])) /\ Cardinality({x} \X (1 .. f[x])) = 1 * f[x]
  BY <1>1, <1>3, FS_Product
<1> QED
  BY <1>2, <1>4 DEF Own

LEMMA UnitsFinite ==
  ASSUME NEW S, IsFiniteSet(S), NEW f \in [S -> Nat]
  PROVE  IsFiniteSet(Units(f)) /\ Total(f) \in Nat
<1>1. \A T \in {Own(f, x) : x \in S} : IsFiniteSet(T)
  BY OwnUnits
<1>2. IsFiniteSet({Own(f, x) : x \in S})
  <2> DEFINE own == [x \in S |-> Own(f, x)]
  <2>1. own \in Surjection(S, {Own(f, x) : x \in S})
    BY DEF Surjection
  <2> QED
    BY <2>1, FS_Surjection
<1>3. IsFiniteSet(UNION {Own(f, x) : x \in S})
  BY <1>1, <1>2, FS_UNION
<1>4. Units(f) = UNION {Own(f, x) : x \in S}
  BY DEF Units, Own
<1> QED
  BY <1>3, <1>4, FS_CardinalityType DEF Total

LEMMA UnitsOf ==
  ASSUME NEW S, NEW f \in [S -> Nat], NEW u
  PROVE  u \in Units(f) <=> \E x \in S : \E i \in 1 .. f[x] : u = <<x, i>>
  BY DEF Units

\* Total is the sum: one key's value can be split off.
LEMMA TotalSplits ==
  ASSUME NEW S, IsFiniteSet(S), NEW f \in [S -> Nat], NEW T \in SUBSET S
  PROVE  Total(f) = Total([x \in T |-> f[x]]) + Total([x \in S \ T |-> f[x]])
<1> DEFINE g == [x \in T |-> f[x]]
           h == [x \in S \ T |-> f[x]]
<1>1. IsFiniteSet(T) /\ IsFiniteSet(S \ T)
  BY FS_Subset, FS_Difference
<1>2. g \in [T -> Nat] /\ h \in [S \ T -> Nat]
  OBVIOUS
<1>3. IsFiniteSet(Units(g)) /\ IsFiniteSet(Units(h))
  BY <1>1, <1>2, UnitsFinite
<1>4. Units(f) = Units(g) \cup Units(h)
  <2>1. \A u : u \in Units(f) <=> \E x \in S : \E i \in 1 .. f[x] : u = <<x, i>>
    BY UnitsOf
  <2>2. \A u : u \in Units(g) <=> \E x \in T : \E i \in 1 .. f[x] : u = <<x, i>>
    BY <1>2, UnitsOf
  <2>3. \A u : u \in Units(h) <=> \E x \in S \ T : \E i \in 1 .. f[x] : u = <<x, i>>
    BY <1>2, UnitsOf
  <2> HIDE DEF g, h
  <2> QED
    BY <2>1, <2>2, <2>3
<1>5. Units(g) \cap Units(h) = {}
  <2>1. \A u \in Units(g) : u[1] \in T
    BY <1>2, UnitsOf
  <2>2. \A u \in Units(h) : u[1] \notin T
    BY <1>2, UnitsOf
  <2> QED
    BY <2>1, <2>2
<1> HIDE DEF g, h
<1>6. Cardinality(Units(f)) = Cardinality(Units(g)) + Cardinality(Units(h)) - 0
  BY <1>3, <1>4, <1>5, FS_Union, FS_EmptySet
<1> QED
  BY <1>1, <1>2, <1>6, UnitsFinite DEF Total, g, h

LEMMA TotalOfOne ==
  ASSUME NEW x, NEW n \in Nat
  PROVE  Total([y \in {x} |-> n]) = n
<1> DEFINE f == [y \in {x} |-> n]
<1>1. f \in [{x} -> Nat] /\ f[x] = n
  OBVIOUS
<1>2. Units(f) = Own(f, x)
  BY DEF Units, Own
<1> QED
  BY <1>1, <1>2, OwnUnits DEF Total

\* Changing one key's value changes the sum by the difference.
LEMMA TotalMoves ==
  ASSUME NEW S, IsFiniteSet(S), NEW f \in [S -> Nat], NEW g \in [S -> Nat], NEW x \in S,
         \A y \in S \ {x} : g[y] = f[y]
  PROVE  Total(g) = Total(f) - f[x] + g[x]
<1>1. Total(f) = Total([y \in {x} |-> f[y]]) + Total([y \in S \ {x} |-> f[y]])
  BY TotalSplits, {x} \in SUBSET S
<1>2. Total(g) = Total([y \in {x} |-> g[y]]) + Total([y \in S \ {x} |-> g[y]])
  BY TotalSplits, {x} \in SUBSET S
<1>3. [y \in {x} |-> f[y]] = [y \in {x} |-> f[x]] /\ [y \in {x} |-> g[y]] = [y \in {x} |-> g[x]]
  BY Zenon
<1>4. [y \in S \ {x} |-> f[y]] = [y \in S \ {x} |-> g[y]]
  BY Zenon
<1>5. Total([y \in {x} |-> f[x]]) = f[x] /\ Total([y \in {x} |-> g[x]]) = g[x]
  BY TotalOfOne, f[x] \in Nat, g[x] \in Nat
<1>6. IsFiniteSet(S \ {x}) /\ [y \in S \ {x} |-> g[y]] \in [S \ {x} -> Nat]
  BY FS_RemoveElement
<1>7. Total([y \in S \ {x} |-> g[y]]) \in Nat
  BY <1>6, UnitsFinite
<1> QED
  BY <1>1, <1>2, <1>3, <1>4, <1>5, <1>7, f[x] \in Nat, g[x] \in Nat

LEMMA TotalBounds ==
  ASSUME NEW S, IsFiniteSet(S), NEW f \in [S -> Nat], NEW x \in S
  PROVE  f[x] <= Total(f)
<1>1. Own(f, x) \in SUBSET Units(f)
  BY DEF Own, Units
<1>2. Cardinality(Own(f, x)) <= Cardinality(Units(f))
  BY <1>1, UnitsFinite, FS_Subset
<1> QED
  BY <1>2, OwnUnits DEF Total

LEMMA TotalOfNothing ==
  ASSUME NEW S, NEW f \in [S -> Nat], \A x \in S : f[x] = 0
  PROVE  Total(f) = 0
<1>1. \A x \in S : 1 .. f[x] = {}
  BY SMT
<1>2. Units(f) = {}
  BY <1>1 DEF Units
<1> QED
  BY <1>2, FS_EmptySet DEF Total

----------------------------------------------------------------------------
(* Who holds how much.                                                     *)

HeldByWorkers == Total([w \in Worker |-> Held(w)])
HeldByRequests == Total([d \in Delivery |-> Asked(d)])

LEMMA AmountNat ==
  ASSUME NEW d \in Delivery
  PROVE  Amount(d) \in Nat
<1>1. RowsOf[d] \in SUBSET Row /\ IsFiniteSet(Row)
  BY StoredRowsAssumption
<1> QED
  BY <1>1, FS_Subset, FS_CardinalityType DEF Amount

LEMMA HeldNat ==
  ASSUME Typed
  PROVE  (\A w \in Worker : Held(w) \in Nat) /\ (\A d \in Delivery : Asked(d) \in Nat)
<1>1. ASSUME NEW w \in Worker PROVE Held(w) \in Nat
  <2>1. worker[w] \in Work
    BY DEF Typed
  <2> QED
    BY <2>1 DEF Held, Work
<1>2. ASSUME NEW d \in Delivery PROVE Asked(d) \in Nat
  <2>1. req[d] \in Request
    BY DEF Typed
  <2> QED
    BY <2>1, AmountNat DEF Asked, Request
<1> QED
  BY <1>1, <1>2

Sums ==
  /\ Reserved \in Nat /\ HeldByWorkers \in Nat /\ HeldByRequests \in Nat
  /\ InFlight = HeldByWorkers + HeldByRequests
  /\ \A w \in Worker : Held(w) <= HeldByWorkers
  /\ \A d \in Delivery : Asked(d) <= HeldByRequests

LEMMA SumsTyped == Typed => Sums
<1> SUFFICES ASSUME Typed PROVE Sums
  OBVIOUS
<1>1. IsFiniteSet(Worker) /\ IsFiniteSet(Delivery)
  BY StoredRowsAssumption
<1>2. [w \in Worker |-> Held(w)] \in [Worker -> Nat] /\ [d \in Delivery |-> Asked(d)] \in [Delivery -> Nat]
  BY HeldNat
<1>3. [d \in Delivery |-> ledger[d].remaining] \in [Delivery -> Nat]
  BY DEF Typed, Entry
<1>4. Reserved \in Nat /\ HeldByWorkers \in Nat /\ HeldByRequests \in Nat
  BY <1>1, <1>2, <1>3, UnitsFinite DEF Reserved, Remaining, HeldByWorkers, HeldByRequests
<1>5. ASSUME NEW w \in Worker PROVE Held(w) <= HeldByWorkers
  BY <1>1, <1>2, TotalBounds DEF HeldByWorkers
<1>6. ASSUME NEW d \in Delivery PROVE Asked(d) <= HeldByRequests
  BY <1>1, <1>2, TotalBounds DEF HeldByRequests
<1> QED
  BY <1>4, <1>5, <1>6 DEF Sums, InFlight, HeldByWorkers, HeldByRequests

LEMMA SumsNat ==
  ASSUME Typed
  PROVE  /\ Reserved \in Nat /\ HeldByWorkers \in Nat /\ HeldByRequests \in Nat
         /\ InFlight = HeldByWorkers + HeldByRequests /\ InFlight \in Nat
         /\ \A w \in Worker : Held(w) <= HeldByWorkers
         /\ \A d \in Delivery : Asked(d) <= HeldByRequests
BY SumsTyped DEF Sums

LEMMA SumsPrimed ==
  ASSUME Typed'
  PROVE  /\ Reserved' \in Nat /\ HeldByWorkers' \in Nat /\ HeldByRequests' \in Nat
         /\ InFlight' = HeldByWorkers' + HeldByRequests' /\ InFlight' \in Nat
<1>1. Typed' => Sums'
  BY SumsTyped, PTL
<1> QED
  BY <1>1 DEF Sums

LEMMA LedgerShifts ==
  ASSUME Typed, ledger' \in [Delivery -> Entry], NEW d \in Delivery,
         \A e \in Delivery \ {d} : ledger'[e].remaining = ledger[e].remaining
  PROVE  Reserved' = Reserved - ledger[d].remaining + ledger'[d].remaining
<1> DEFINE f == [e \in Delivery |-> ledger[e].remaining]
           g == [e \in Delivery |-> ledger'[e].remaining]
<1>1. f \in [Delivery -> Nat] /\ g \in [Delivery -> Nat]
  BY DEF Typed, Entry
<1>2. Total(g) = Total(f) - f[d] + g[d]
  <2>1. IsFiniteSet(Delivery)
    BY StoredRowsAssumption
  <2>2. \A e \in Delivery \ {d} : g[e] = f[e]
    OBVIOUS
  <2> HIDE DEF f, g
  <2> QED
    BY <1>1, <2>1, <2>2, TotalMoves
<1> QED
  BY <1>2 DEF Reserved, Remaining

LEMMA WorkersShift ==
  ASSUME Typed, worker' \in [Worker -> Work], NEW w \in Worker,
         \A v \in Worker \ {w} : worker'[v] = worker[v]
  PROVE  HeldByWorkers' = HeldByWorkers - Held(w) + Held(w)'
<1> DEFINE f == [v \in Worker |-> Held(v)]
           g == [v \in Worker |-> Held(v)']
<1>1. \A v \in Worker : Held(v)' \in Nat
  BY DEF Held, Work
<1>2. f \in [Worker -> Nat] /\ g \in [Worker -> Nat]
  BY <1>1, HeldNat
<1>3. \A v \in Worker \ {w} : g[v] = f[v]
  BY DEF Held
<1>4. Total(g) = Total(f) - f[w] + g[w]
  <2>1. IsFiniteSet(Worker)
    BY StoredRowsAssumption
  <2> HIDE DEF f, g
  <2> QED
    BY <1>2, <1>3, <2>1, TotalMoves
<1> QED
  BY <1>4 DEF HeldByWorkers

LEMMA RequestsShift ==
  ASSUME Typed, req' \in [Delivery -> Request], NEW d \in Delivery,
         \A e \in Delivery \ {d} : req'[e] = req[e]
  PROVE  HeldByRequests' = HeldByRequests - Asked(d) + Asked(d)'
<1> DEFINE f == [e \in Delivery |-> Asked(e)]
           g == [e \in Delivery |-> Asked(e)']
<1>1. \A e \in Delivery : Asked(e)' \in Nat
  BY AmountNat DEF Asked, Request
<1>2. f \in [Delivery -> Nat] /\ g \in [Delivery -> Nat]
  BY <1>1, HeldNat
<1>3. \A e \in Delivery \ {d} : g[e] = f[e]
  BY DEF Asked
<1>4. Total(g) = Total(f) - f[d] + g[d]
  <2>1. IsFiniteSet(Delivery)
    BY StoredRowsAssumption
  <2> HIDE DEF f, g
  <2> QED
    BY <1>2, <1>3, <2>1, TotalMoves
<1> QED
  BY <1>4 DEF HeldByRequests

LEMMA NobodyMoves ==
  /\ ledger' = ledger => Reserved' = Reserved
  /\ worker' = worker => HeldByWorkers' = HeldByWorkers
  /\ req' = req => HeldByRequests' = HeldByRequests
BY DEF Reserved, Remaining, HeldByWorkers, HeldByRequests, Held, Asked

----------------------------------------------------------------------------
(* Steps of requests and workers.                                          *)

LEMMA RowsNat ==
  ASSUME Typed
  PROVE  IsFiniteSet(rows) /\ Cardinality(rows) \in Nat
BY StoredRowsAssumption, FS_Subset, FS_CardinalityType DEF Typed

\* What they may do: either the counter is left alone, or the step shows on it;
\* and what they take, move and give back adds up.
Orderly ==
  /\ \/ UNCHANGED <<counter, rec>>
     \/ counter'.recent /\ rec' = [rec EXCEPT !.dirty = rec.pc # "idle"]
  /\ ledgerRecent => ledgerRecent'
  /\ \A d \in Delivery : ledger'[d].open /\ ledger'[d].stale => ledger[d].open /\ ledger[d].stale
  /\ lost <= lost' /\ counter'.value <= Limit
  /\ counter'.value = Cardinality(rows') + Reserved' + InFlight' + lost'
  /\ ~Flagged' => InFlight' = 0
  /\ rows' = rows \/ InFlight # 0

LEMMA OrderlyKeeps ==
  ASSUME Typed, Typed', Accounted, Orderly
  PROVE  Accounted'
<1>1. rec \in Recon /\ counter \in [value : Nat, recent : BOOLEAN] /\ lost \in Int /\ lost' \in Int
  BY DEF Typed
<1>2. Conservation' /\ (counter.value <= Limit)' /\ WindowOK'
  BY <1>1 DEF Accounted, Orderly, Conservation, WindowOK
<1>3. CASE UNCHANGED <<counter, rec>>
  <2>1. ~Flagged' => ~Flagged /\ rows' = rows
    BY <1>3 DEF Orderly, Flagged, Accounted, WindowOK
  <2>2. (rec.pc # "idle" /\ Trusted => ~counter.recent /\ counter.value = rec.seen)'
    BY <1>3 DEF Accounted, RecOK, Trusted
  <2>3. (rec.pc \in {"counting", "summing"} =>
           \A d \in Delivery : ~(ledger[d].open /\ ledger[d].stale))'
    BY <1>3 DEF Accounted, RecOK, Orderly
  <2>4. (rec.pc = "summing" /\ ~Flagged => rec.count = Cardinality(rows))'
    BY <1>3, <2>1 DEF Accounted, RecOK
  <2>5. (rec.pc = "writing" /\ Trusted =>
           /\ rec.count + rec.held <= counter.value
           /\ counter.value - (rec.count + rec.held) <= lost)'
    <3>1. rec.count \in Nat /\ rec.held \in Nat /\ counter.value \in Nat
      BY <1>1 DEF Recon
    <3> QED
      BY <1>1, <1>3, <3>1 DEF Accounted, RecOK, Trusted, Orderly
  <2> QED
    BY <1>2, <2>2, <2>3, <2>4, <2>5 DEF Accounted, RecOK
<1>4. CASE counter'.recent /\ rec' = [rec EXCEPT !.dirty = rec.pc # "idle"]
  <2>1. rec'.pc = rec.pc /\ (rec.pc # "idle" => rec'.dirty)
    BY <1>1, <1>4 DEF Recon
  <2>2. Flagged' /\ (rec'.pc # "idle" => ~Trusted')
    BY <1>4, <2>1 DEF Flagged, Trusted
  <2>3. (rec.pc \in {"counting", "summing"} =>
           \A d \in Delivery : ~(ledger[d].open /\ ledger[d].stale))'
    BY <2>1 DEF Accounted, RecOK, Orderly
  <2> QED
    BY <1>2, <2>2, <2>3 DEF Accounted, RecOK
<1> QED
  BY <1>3, <1>4 DEF Orderly

\* Counting up or down leaves typed values behind.
LEMMA Counts ==
  ASSUME Typed, NEW n \in Nat, Count(n)
  PROVE  /\ counter' \in [value : Nat, recent : BOOLEAN] /\ rec' \in Recon
         /\ counter'.value = n /\ counter'.recent
         /\ rec' = [rec EXCEPT !.dirty = rec.pc # "idle"]
BY DEF Count, Typed, Recon

\* A step that leaves the counter alone moves capacity between its holders; it
\* is in nobody's hands afresh unless the ledger shows it.
LEMMA Moves ==
  ASSUME Typed, Typed', Accounted, UNCHANGED <<counter, rec>>,
         ledgerRecent => ledgerRecent',
         \A d \in Delivery : ledger'[d].open /\ ledger'[d].stale => ledger[d].open /\ ledger[d].stale,
         lost <= lost', rows' = rows \/ InFlight # 0,
         Cardinality(rows') + Reserved' + InFlight' + lost' = Cardinality(rows) + Reserved + InFlight + lost,
         ~ledgerRecent' => InFlight' <= InFlight
  PROVE  Orderly
<1>1. counter'.value = Cardinality(rows') + Reserved' + InFlight' + lost'
  BY DEF Accounted, Conservation
<1>2. ~Flagged' => InFlight' = 0
  <2>1. InFlight' \in Nat
    BY SumsPrimed
  <2>2. ~Flagged' => ~Flagged /\ ~ledgerRecent'
    BY DEF Flagged
  <2>3. ~Flagged => InFlight = 0
    BY DEF Accounted, WindowOK
  <2>4. ASSUME ~Flagged' PROVE InFlight' = 0
    <3>1. InFlight = 0 /\ InFlight' <= InFlight
      BY <2>2, <2>3, <2>4
    <3> QED
      BY <2>1, <3>1
  <2> QED
    BY <2>4
<1> QED
  BY <1>1, <1>2 DEF Orderly, Accounted

\* A step that counts up or down counts what it takes or gives back.
LEMMA Takes ==
  ASSUME Typed, Typed', Accounted, NEW n \in Nat, Count(n), n <= Limit,
         UNCHANGED <<ledger, ledgerRecent, rows, lost>>,
         InFlight' = InFlight + n - counter.value
  PROVE  Orderly
<1>1. counter'.value = n /\ counter'.recent /\ rec' = [rec EXCEPT !.dirty = rec.pc # "idle"]
  BY Counts
<1>2. counter'.value = Cardinality(rows') + Reserved' + InFlight' + lost'
  <2>1. counter.value = Cardinality(rows) + Reserved + InFlight + lost /\ Reserved' = Reserved
    BY NobodyMoves DEF Accounted, Conservation
  <2>2. counter.value \in Nat /\ lost \in Int
    BY DEF Typed
  <2> QED
    BY <1>1, <2>1, <2>2, RowsNat, SumsNat
<1> QED
  BY <1>1, <1>2 DEF Orderly, Flagged, Typed

LEMMA LedgerGoesOn ==
  ASSUME Typed, NEW d \in Delivery, NEW e \in Entry, ledger' = [ledger EXCEPT ![d] = e]
  PROVE  /\ ledger' \in [Delivery -> Entry] /\ ledger'[d] = e
         /\ \A other \in Delivery \ {d} : ledger'[other] = ledger[other]
         /\ Reserved' = Reserved - ledger[d].remaining + e.remaining
<1>1. /\ ledger' \in [Delivery -> Entry] /\ ledger'[d] = e
      /\ \A other \in Delivery \ {d} : ledger'[other] = ledger[other]
  BY DEF Typed
<1> QED
  BY <1>1, LedgerShifts

----------------------------------------------------------------------------
(* The webhook request.                                                    *)

Asks(d, q) ==
  CASE q.pc = "recording" -> Amount(d)
    [] q.pc = "returning" -> q.rel
    [] OTHER -> 0

LEMMA RequestGoesOn ==
  ASSUME Typed, NEW d \in Delivery, NEW q \in Request, req' = [req EXCEPT ![d] = q]
  PROVE  /\ req' \in [Delivery -> Request] /\ req'[d] = q
         /\ \A e \in Delivery \ {d} : req'[e] = req[e]
         /\ HeldByRequests' = HeldByRequests - Asks(d, req[d]) + Asks(d, q)
         /\ Asks(d, req[d]) \in Nat /\ Asks(d, req[d]) <= HeldByRequests /\ Asks(d, q) \in Nat
<1>1. /\ req' \in [Delivery -> Request] /\ req'[d] = q
      /\ \A e \in Delivery \ {d} : req'[e] = req[e]
  BY DEF Typed
<1>2. HeldByRequests' = HeldByRequests - Asked(d) + Asked(d)'
  BY <1>1, RequestsShift
<1>3. Asked(d) = Asks(d, req[d]) /\ Asked(d)' = Asks(d, q)
  BY <1>1 DEF Asked, Asks, Amount
<1>4. Asks(d, q) \in Nat
  BY AmountNat DEF Asks, Request
<1> QED
  BY <1>1, <1>2, <1>3, <1>4, HeldNat, SumsNat

LEMMA ConsumeKeeps ==
  ASSUME Typed, NEW d \in Delivery, Consume(d)
  PROVE  Typed' /\ (Accounted => Orderly)
<1>1. PICK pc \in {"recording", "done"} : req' = [req EXCEPT ![d].pc = pc] /\
        \/ pc = "recording" /\ Fits(Amount(d)) /\ Count(counter.value + Amount(d))
        \/ pc = "done" /\ UNCHANGED <<counter, rec>>
  BY DEF Consume
<1>2. req[d] \in Request /\ req[d].pc = "new"
  BY DEF Typed, Consume
<1> DEFINE q == [req[d] EXCEPT !.pc = pc]
<1>3. q \in Request /\ q.pc = pc /\ req' = [req EXCEPT ![d] = q]
  BY <1>1, <1>2 DEF Request
<1> HIDE DEF q
<1>4. /\ req' \in [Delivery -> Request] /\ req'[d] = q
      /\ \A e \in Delivery \ {d} : req'[e] = req[e]
      /\ HeldByRequests' = HeldByRequests - Asks(d, req[d]) + Asks(d, q)
  BY <1>3, RequestGoesOn
<1>5. Amount(d) \in Nat /\ counter.value \in Nat /\ counter.value + Amount(d) \in Nat
  BY AmountNat DEF Typed
<1>6. Typed'
  <2>1. counter' \in [value : Nat, recent : BOOLEAN] /\ rec' \in Recon
    BY <1>1, <1>5, Counts DEF Typed
  <2>2. \A e \in Delivery : LedgerOK(e)'
    BY <1>2, <1>4 DEF LedgerOK, Typed, Consume
  <2> QED
    BY <1>4, <2>1, <2>2 DEF Typed, Consume
<1>7. InFlight' = InFlight + (IF pc = "recording" THEN Amount(d) ELSE 0)
  <2>1. Asks(d, req[d]) = 0 /\ Asks(d, q) = IF pc = "recording" THEN Amount(d) ELSE 0
    BY <1>2, <1>3 DEF Asks
  <2>2. HeldByWorkers' = HeldByWorkers
    BY NobodyMoves DEF Consume
  <2> QED
    BY <1>4, <1>5, <1>6, <2>1, <2>2, SumsNat, SumsPrimed
<1>8. UNCHANGED <<ledger, ledgerRecent, rows, lost>> /\ Reserved' = Reserved
  BY NobodyMoves DEF Consume
<1>9. ASSUME Accounted PROVE Orderly
  <2>1. CASE pc = "recording"
    <3>1. InFlight' = InFlight + (counter.value + Amount(d)) - counter.value
      BY <1>5, <1>7, <2>1, SumsNat
    <3> QED
      BY <1>1, <1>5, <1>6, <1>8, <1>9, <2>1, <3>1, Takes DEF Fits
  <2>2. CASE pc = "done"
    <3>1. InFlight' = InFlight
      BY <1>7, <2>2, SumsNat
    <3> QED
      BY <1>1, <1>6, <1>8, <1>9, <2>2, <3>1, Moves, SumsNat DEF Typed
  <2> QED
    BY <2>1, <2>2
<1> QED
  BY <1>6, <1>9

LEMMA RecordKeeps ==
  ASSUME Typed, NEW d \in Delivery, Record(d)
  PROVE  Typed' /\ (Accounted => Orderly)
<1>1. req[d] \in Request /\ req[d].pc = "recording" /\ ledger[d].remaining = 0
  <2>1. req[d] \in Request /\ LedgerOK(d) /\ ledger[d].remaining \in Nat
    BY DEF Typed, Entry
  <2> QED
    BY <2>1 DEF Record, LedgerOK
<1> DEFINE q == [req[d] EXCEPT !.pc = "queueing"]
           e == [open |-> TRUE, remaining |-> Amount(d), stale |-> FALSE]
<1>2. q \in Request /\ q.pc = "queueing" /\ req' = [req EXCEPT ![d] = q]
  BY <1>1 DEF Request, Record
<1>3. e \in Entry /\ e.remaining = Amount(d) /\ e.open /\ ~e.stale /\ ledger' = [ledger EXCEPT ![d] = e]
  BY AmountNat DEF Entry, Record
<1> HIDE DEF q, e
<1>4. /\ req' \in [Delivery -> Request] /\ req'[d] = q
      /\ \A x \in Delivery \ {d} : req'[x] = req[x]
      /\ HeldByRequests' = HeldByRequests - Asks(d, req[d]) + Asks(d, q)
  BY <1>2, RequestGoesOn
<1>5. /\ ledger' \in [Delivery -> Entry] /\ ledger'[d] = e
      /\ \A x \in Delivery \ {d} : ledger'[x] = ledger[x]
      /\ Reserved' = Reserved - ledger[d].remaining + e.remaining
  BY <1>3, LedgerGoesOn
<1>6. Typed'
  <2>1. \A x \in Delivery : LedgerOK(x)'
    BY <1>2, <1>3, <1>4, <1>5 DEF LedgerOK, Typed
  <2> QED
    BY <1>4, <1>5, <2>1 DEF Typed, Record
<1>7. Reserved' = Reserved + Amount(d) /\ InFlight' = InFlight - Amount(d)
  <2>1. Asks(d, req[d]) = Amount(d) /\ Asks(d, q) = 0
    BY <1>1, <1>2 DEF Asks
  <2>2. HeldByWorkers' = HeldByWorkers
    BY NobodyMoves DEF Record
  <2> QED
    BY <1>1, <1>3, <1>4, <1>5, <1>6, <2>1, <2>2, SumsNat, SumsPrimed, AmountNat
<1>8. ASSUME Accounted PROVE Orderly
  <2>1. UNCHANGED <<counter, rec, rows, lost>> /\ ledgerRecent'
    BY DEF Record
  <2>2. \A x \in Delivery : ledger'[x].open /\ ledger'[x].stale => ledger[x].open /\ ledger[x].stale
    BY <1>3, <1>5
  <2>3. Cardinality(rows') + Reserved' + InFlight' + lost' = Cardinality(rows) + Reserved + InFlight + lost
    BY <1>7, <2>1, SumsNat, RowsNat, AmountNat DEF Typed
  <2> QED
    BY <1>6, <1>8, <2>1, <2>2, <2>3, Moves DEF Typed
<1> QED
  BY <1>6, <1>8

LEMMA LedgerStays ==
  ASSUME Typed, NEW d \in Delivery, req'[d].pc \notin {"new", "recording"},
         \A e \in Delivery \ {d} : req'[e] = req[e] /\ ledger'[e] = ledger[e],
         ledger'[d].remaining > 0 => ledger'[d].open
  PROVE  \A e \in Delivery : LedgerOK(e)'
BY DEF Typed, LedgerOK

LEMMA FaultCounted ==
  ASSUME Typed, NEW kind, Goes(kind)
  PROVE  faults' \in Nat
BY DEF Typed, Goes

LEMMA RecordFailsKeeps ==
  ASSUME Typed, NEW d \in Delivery, RecordFails(d)
  PROVE  Typed' /\ (Accounted => Orderly)
<1> DEFINE q == [pc |-> "returning", rel |-> Amount(d)]
<1>1. q \in Request /\ q.pc = "returning" /\ q.rel = Amount(d) /\ req' = [req EXCEPT ![d] = q]
  BY AmountNat DEF Request, RecordFails
<1> HIDE DEF q
<1>2. /\ req' \in [Delivery -> Request] /\ req'[d] = q
      /\ \A e \in Delivery \ {d} : req'[e] = req[e]
      /\ HeldByRequests' = HeldByRequests - Asks(d, req[d]) + Asks(d, q)
  BY <1>1, RequestGoesOn
<1>3. UNCHANGED <<counter, ledger, ledgerRecent, rows, job, worker, rec, lost>> /\ faults' \in Nat
  BY FaultCounted DEF RecordFails
<1>4. Typed'
  <2>1. \A e \in Delivery : LedgerOK(e)'
    BY <1>1, <1>2, <1>3 DEF LedgerOK, Typed
  <2> QED
    BY <1>2, <1>3, <2>1 DEF Typed
<1>5. InFlight' = InFlight /\ Reserved' = Reserved
  <2>1. Asks(d, req[d]) = Amount(d) /\ Asks(d, q) = Amount(d)
    BY <1>1 DEF Asks, RecordFails
  <2> QED
    BY <1>2, <1>3, <1>4, <2>1, SumsNat, SumsPrimed, NobodyMoves, AmountNat
<1>6. ASSUME Accounted PROVE Orderly
  BY <1>3, <1>4, <1>5, <1>6, Moves, SumsNat DEF Typed
<1> QED
  BY <1>4, <1>6

LEMMA QueuedTyped ==
  ASSUME Typed, NEW d \in Delivery
  PROVE  Queued(d) \in [Delivery -> Job]
BY DEF Typed, Queued, Job

\* Enqueue and EnqueueFails: the request holds nothing before or after.
LEMMA EnqueueKeeps ==
  ASSUME Typed, NEW d \in Delivery, Enqueue(d) \/ EnqueueFails(d)
  PROVE  Typed' /\ (Accounted => Orderly)
<1>1. PICK pc \in {"done", "cancelling"} : req' = [req EXCEPT ![d].pc = pc]
  BY DEF Enqueue, EnqueueFails
<1>2. req[d] \in Request /\ req[d].pc = "queueing"
  BY DEF Typed, Enqueue, EnqueueFails
<1> DEFINE q == [req[d] EXCEPT !.pc = pc]
<1>3. q \in Request /\ q.pc = pc /\ req' = [req EXCEPT ![d] = q]
  BY <1>1, <1>2 DEF Request
<1> HIDE DEF q
<1>4. /\ req' \in [Delivery -> Request] /\ req'[d] = q
      /\ \A e \in Delivery \ {d} : req'[e] = req[e]
      /\ HeldByRequests' = HeldByRequests - Asks(d, req[d]) + Asks(d, q)
  BY <1>3, RequestGoesOn
<1>5. /\ UNCHANGED <<counter, ledger, ledgerRecent, rows, worker, rec, lost>>
      /\ faults' \in Nat /\ job' \in [Delivery -> Job]
  <2>1. CASE Enqueue(d)
    BY <2>1, QueuedTyped DEF Enqueue, Typed
  <2>2. CASE EnqueueFails(d)
    BY <2>2, QueuedTyped, FaultCounted DEF EnqueueFails, Typed
  <2> QED
    BY <2>1, <2>2
<1>6. Typed'
  <2>1. \A e \in Delivery : LedgerOK(e)'
    BY <1>3, <1>4, <1>5 DEF LedgerOK, Typed
  <2> QED
    BY <1>4, <1>5, <2>1 DEF Typed
<1>7. InFlight' = InFlight /\ Reserved' = Reserved
  <2>1. Asks(d, req[d]) = 0 /\ Asks(d, q) = 0
    BY <1>2, <1>3 DEF Asks
  <2> QED
    BY <1>4, <1>5, <1>6, <2>1, SumsNat, SumsPrimed, NobodyMoves
<1>8. ASSUME Accounted PROVE Orderly
  BY <1>5, <1>6, <1>7, <1>8, Moves, SumsNat DEF Typed
<1> QED
  BY <1>6, <1>8

\* Settling an entry: what was left in it is in the hands of whoever settles.
LEMMA SettledEntry ==
  ASSUME Typed, NEW d \in Delivery, ledger' = Settled(d), ledgerRecent' = (ledgerRecent \/ ledger[d].open)
  PROVE  /\ ledger' \in [Delivery -> Entry] /\ ~ledger'[d].open /\ ledger'[d].remaining = 0
         /\ \A e \in Delivery \ {d} : ledger'[e] = ledger[e]
         /\ Reserved' = Reserved - ledger[d].remaining /\ ledger[d].remaining \in Nat
         /\ ledgerRecent' \in BOOLEAN /\ (ledgerRecent => ledgerRecent')
         /\ ~ledgerRecent' => ledger[d].remaining = 0
<1>1. ledger[d] \in Entry /\ (ledger[d].remaining > 0 => ledger[d].open) /\ ledgerRecent \in BOOLEAN
  BY DEF Typed, LedgerOK
<1>2. ledger[d].remaining \in Nat /\ (~ledger[d].open => ledger[d].remaining = 0)
  BY <1>1 DEF Entry
<1>3. /\ ledgerRecent' \in BOOLEAN /\ (ledgerRecent => ledgerRecent')
      /\ ~ledgerRecent' => ledger[d].remaining = 0
  BY <1>1, <1>2 DEF Entry
<1>4. CASE ledger[d].open
  <2>1. Closed \in Entry /\ Closed.remaining = 0 /\ ~Closed.open /\ ledger' = [ledger EXCEPT ![d] = Closed]
    BY <1>4 DEF Closed, Entry, Settled
  <2>2. /\ ledger' \in [Delivery -> Entry] /\ ledger'[d] = Closed
        /\ \A e \in Delivery \ {d} : ledger'[e] = ledger[e]
        /\ Reserved' = Reserved - ledger[d].remaining + Closed.remaining
    BY <2>1, LedgerGoesOn
  <2>3. Reserved' = Reserved - ledger[d].remaining
    BY <1>2, <2>1, <2>2, SumsNat
  <2> QED
    BY <1>2, <1>3, <2>1, <2>2, <2>3
<1>5. CASE ~ledger[d].open
  <2>1. ledger' = ledger /\ Reserved' = Reserved
    BY <1>5, NobodyMoves DEF Settled
  <2> QED
    BY <1>2, <1>3, <1>5, <2>1, SumsNat DEF Typed
<1> QED
  BY <1>4, <1>5

LEMMA CancelKeeps ==
  ASSUME Typed, NEW d \in Delivery, Cancel(d)
  PROVE  Typed' /\ (Accounted => Orderly)
<1> DEFINE q == [pc |-> "returning", rel |-> ledger[d].remaining]
<1>1. /\ ledger' \in [Delivery -> Entry] /\ ~ledger'[d].open /\ ledger'[d].remaining = 0
      /\ \A e \in Delivery \ {d} : ledger'[e] = ledger[e]
      /\ Reserved' = Reserved - ledger[d].remaining /\ ledger[d].remaining \in Nat
      /\ ledgerRecent' \in BOOLEAN /\ (ledgerRecent => ledgerRecent')
      /\ ~ledgerRecent' => ledger[d].remaining = 0
  BY SettledEntry DEF Cancel
<1>2. q \in Request /\ q.pc = "returning" /\ q.rel = ledger[d].remaining /\ req' = [req EXCEPT ![d] = q]
  BY <1>1 DEF Request, Cancel
<1> HIDE DEF q
<1>3. /\ req' \in [Delivery -> Request] /\ req'[d] = q
      /\ \A e \in Delivery \ {d} : req'[e] = req[e]
      /\ HeldByRequests' = HeldByRequests - Asks(d, req[d]) + Asks(d, q)
  BY <1>2, RequestGoesOn
<1>4. UNCHANGED <<counter, rows, job, worker, rec, lost, faults>>
  BY DEF Cancel
<1>5. Typed'
  <2>1. \A e \in Delivery : LedgerOK(e)'
    BY <1>1, <1>2, <1>3, LedgerStays
  <2> QED
    BY <1>1, <1>3, <1>4, <2>1 DEF Typed
<1>6. InFlight' = InFlight + ledger[d].remaining
  <2>1. Asks(d, req[d]) = 0 /\ Asks(d, q) = ledger[d].remaining
    BY <1>2 DEF Asks, Cancel
  <2> QED
    BY <1>1, <1>3, <1>4, <1>5, <2>1, SumsNat, SumsPrimed, NobodyMoves
<1>7. ASSUME Accounted PROVE Orderly
  <2>1. Cardinality(rows') + Reserved' + InFlight' + lost' = Cardinality(rows) + Reserved + InFlight + lost
    BY <1>1, <1>4, <1>6, SumsNat, RowsNat DEF Typed
  <2>2. ~ledgerRecent' => InFlight' <= InFlight
    BY <1>1, <1>6, SumsNat
  <2> QED
    BY <1>1, <1>4, <1>5, <1>7, <2>1, <2>2, Moves DEF Typed
<1> QED
  BY <1>5, <1>7

\* What somebody holds is on the counter.
LEMMA HeldIsCounted ==
  ASSUME Typed, Accounted
  PROVE  InFlight <= counter.value /\ HeldByWorkers <= counter.value /\ HeldByRequests <= counter.value
BY SumsNat, RowsNat DEF Accounted, Conservation, Typed

LEMMA ReturnKeeps ==
  ASSUME Typed, NEW d \in Delivery, Return(d)
  PROVE  Typed' /\ (Accounted => Orderly)
<1> DEFINE q == [pc |-> "done", rel |-> 0]
           n == Less(counter.value, req[d].rel)
<1>1. q \in Request /\ q.pc = "done" /\ req' = [req EXCEPT ![d] = q]
  BY DEF Request, Return
<1> HIDE DEF q
<1>2. /\ req' \in [Delivery -> Request] /\ req'[d] = q
      /\ \A e \in Delivery \ {d} : req'[e] = req[e]
      /\ HeldByRequests' = HeldByRequests - Asks(d, req[d]) + Asks(d, q)
      /\ Asks(d, req[d]) <= HeldByRequests
  BY <1>1, RequestGoesOn
<1>3. UNCHANGED <<ledger, ledgerRecent, rows, job, worker, lost, faults>>
  BY DEF Return
<1>4. req[d].rel \in Nat /\ counter.value \in Nat /\ n \in Nat
  BY DEF Typed, Request, Less
<1>5. CASE req[d].rel > 0
  <2>1. Count(n)
    BY <1>5 DEF Return
  <2> HIDE DEF n
  <2>2. counter' \in [value : Nat, recent : BOOLEAN] /\ rec' \in Recon
    BY <1>4, <2>1, Counts
  <2>3. Typed'
    <3>1. \A e \in Delivery : LedgerOK(e)'
      BY <1>1, <1>2, <1>3 DEF LedgerOK, Typed
    <3> QED
      BY <1>2, <1>3, <2>2, <3>1 DEF Typed
  <2>4. ASSUME Accounted PROVE Orderly
    <3>1. req[d].rel <= counter.value
      <4>1. Asks(d, req[d]) = req[d].rel
        BY DEF Asks, Return
      <4>2. HeldByRequests <= counter.value
        BY <2>4, HeldIsCounted
      <4> QED
        BY <1>2, <1>4, <4>1, <4>2, SumsNat
    <3>2. n = counter.value - req[d].rel
      BY <1>4, <3>1 DEF n, Less
    <3>3. n <= Limit
      <4>1. counter.value <= Limit /\ Limit \in Nat
        BY <2>4, StoredRowsAssumption DEF Accounted
      <4> QED
        BY <1>4, <3>2, <4>1
    <3>4. InFlight' = InFlight + n - counter.value
      <4>1. Asks(d, req[d]) = req[d].rel /\ Asks(d, q) = 0
        BY <1>1 DEF Asks, Return
      <4> QED
        BY <1>2, <1>3, <1>4, <2>3, <3>2, <4>1, SumsNat, SumsPrimed, NobodyMoves
    <3> QED
      BY <1>3, <1>4, <2>1, <2>3, <2>4, <3>3, <3>4, Takes
  <2> QED
    BY <2>3, <2>4
<1>6. CASE req[d].rel = 0
  <2>1. UNCHANGED <<counter, rec>>
    BY <1>6 DEF Return
  <2>2. Typed'
    <3>1. \A e \in Delivery : LedgerOK(e)'
      BY <1>1, <1>2, <1>3 DEF LedgerOK, Typed
    <3> QED
      BY <1>2, <1>3, <2>1, <3>1 DEF Typed
  <2>3. InFlight' = InFlight /\ Reserved' = Reserved
    <3>1. Asks(d, req[d]) = 0 /\ Asks(d, q) = 0
      BY <1>1, <1>6 DEF Asks, Return
    <3> QED
      BY <1>2, <1>3, <2>2, <3>1, SumsNat, SumsPrimed, NobodyMoves
  <2>4. ASSUME Accounted PROVE Orderly
    BY <1>3, <2>1, <2>2, <2>3, <2>4, Moves, SumsNat DEF Typed
  <2> QED
    BY <2>2, <2>4
<1> QED
  BY <1>4, <1>5, <1>6

LEMMA CrashRequestKeeps ==
  ASSUME Typed, NEW d \in Delivery, CrashRequest(d)
  PROVE  Typed' /\ (Accounted => Orderly)
<1> DEFINE q == [pc |-> "done", rel |-> 0]
<1>1. q \in Request /\ q.pc = "done" /\ req' = [req EXCEPT ![d] = q]
  BY DEF Request, CrashRequest
<1> HIDE DEF q
<1>2. /\ req' \in [Delivery -> Request] /\ req'[d] = q
      /\ \A e \in Delivery \ {d} : req'[e] = req[e]
      /\ HeldByRequests' = HeldByRequests - Asks(d, req[d]) + Asks(d, q)
      /\ Asks(d, req[d]) \in Nat
  BY <1>1, RequestGoesOn
<1>3. UNCHANGED <<counter, ledger, ledgerRecent, rows, job, worker, rec>> /\ faults' \in Nat
  BY FaultCounted DEF CrashRequest
<1>4. lost' = lost + Asks(d, req[d])
  BY DEF CrashRequest, Asked, Asks
<1>5. Typed'
  <2>1. \A e \in Delivery : LedgerOK(e)'
    BY <1>1, <1>2, <1>3 DEF LedgerOK, Typed
  <2> QED
    BY <1>2, <1>3, <1>4, <2>1 DEF Typed
<1>6. InFlight' = InFlight - Asks(d, req[d]) /\ Reserved' = Reserved
  <2>1. Asks(d, q) = 0
    BY <1>1 DEF Asks
  <2> QED
    BY <1>2, <1>3, <1>5, <2>1, SumsNat, SumsPrimed, NobodyMoves
<1>7. ASSUME Accounted PROVE Orderly
  <2>1. Cardinality(rows') + Reserved' + InFlight' + lost' = Cardinality(rows) + Reserved + InFlight + lost
    BY <1>2, <1>3, <1>4, <1>6, SumsNat, RowsNat DEF Typed
  <2>2. InFlight' <= InFlight /\ lost <= lost'
    BY <1>2, <1>4, <1>6, SumsNat DEF Typed
  <2> QED
    BY <1>3, <1>5, <1>7, <2>1, <2>2, Moves DEF Typed
<1> QED
  BY <1>5, <1>7

LEMMA StallKeeps ==
  ASSUME Typed, NEW d \in Delivery, Stall(d)
  PROVE  Typed' /\ (Accounted => Orderly)
<1>1. UNCHANGED <<counter, ledger, ledgerRecent, rows, req, worker, rec, lost>> /\ faults' \in Nat
  BY FaultCounted DEF Stall
<1>2. job' \in [Delivery -> Job]
  <2> DEFINE j == [job[d] EXCEPT !.state = "queued", !.owner = Nobody]
  <2>1. job \in [Delivery -> Job] /\ job' = [job EXCEPT ![d].state = "queued", ![d].owner = Nobody]
    BY DEF Stall, Typed
  <2>2. j \in Job /\ job' = [job EXCEPT ![d] = j]
    BY <2>1 DEF Job
  <2> HIDE DEF j
  <2> QED
    BY <2>1, <2>2
<1>3. Typed'
  BY <1>1, <1>2 DEF Typed, LedgerOK
<1>4. InFlight' = InFlight /\ Reserved' = Reserved
  BY <1>1, <1>3, SumsNat, SumsPrimed, NobodyMoves
<1> QED
  BY <1>1, <1>3, <1>4, Moves, SumsNat DEF Typed

----------------------------------------------------------------------------
(* The worker.                                                             *)

Holds(work) ==
  CASE work.pc = "consuming" -> work.taken
    [] work.pc = "writing" -> work.fresh
    [] work.pc = "returning" -> work.back + work.rel
    [] OTHER -> 0

LEMMA MissingRows ==
  ASSUME NEW batch \in SUBSET Row, NEW fewer \in SUBSET Row, NEW more \in SUBSET Row, fewer \subseteq more
  PROVE  /\ Cardinality(batch \ more) \in Nat /\ Cardinality(batch \ fewer) \in Nat
         /\ Cardinality(batch \ more) <= Cardinality(batch \ fewer)
<1>1. IsFiniteSet(batch \ fewer) /\ IsFiniteSet(batch \ more)
  BY StoredRowsAssumption, FS_Subset
<1>2. batch \ more \in SUBSET (batch \ fewer)
  OBVIOUS
<1> QED
  BY <1>1, <1>2, FS_Subset, FS_CardinalityType

LEMMA StillCovers ==
  ASSUME NEW b \in Work, rows \subseteq Row, rows' \subseteq Row, rows \subseteq rows', Covers(b, rows)
  PROVE  Covers(b, rows')
<1>1. Cardinality(b.batch \ rows') <= Cardinality(b.batch \ rows) /\ Cardinality(b.batch \ rows) \in Nat
      /\ Cardinality(b.batch \ rows') \in Nat
  BY MissingRows DEF Work
<1>2. b.fresh \in Nat
  BY DEF Work
<1> QED
  BY <1>1, <1>2 DEF Covers

LEMMA WorkGoesOn ==
  ASSUME Typed, NEW w \in Worker, NEW b \in Work, worker' = [worker EXCEPT ![w] = b],
         rows' \subseteq Row, rows \subseteq rows', Covers(b, rows')
  PROVE  /\ worker' \in [Worker -> Work] /\ worker'[w] = b
         /\ \A v \in Worker : Covers(worker'[v], rows')
         /\ HeldByWorkers' = HeldByWorkers - Holds(worker[w]) + Holds(b)
         /\ Holds(worker[w]) \in Nat /\ Holds(worker[w]) <= HeldByWorkers /\ Holds(b) \in Nat
<1>1. /\ worker' \in [Worker -> Work] /\ worker'[w] = b
      /\ \A v \in Worker \ {w} : worker'[v] = worker[v]
  BY DEF Typed
<1>2. \A v \in Worker : Covers(worker'[v], rows')
  <2>1. ASSUME NEW v \in Worker PROVE Covers(worker[v], rows')
    <3>1. worker[v] \in Work /\ Covers(worker[v], rows) /\ rows \subseteq Row
      BY DEF Typed
    <3> QED
      BY <3>1, StillCovers
  <2> QED
    BY <1>1, <2>1
<1>3. HeldByWorkers' = HeldByWorkers - Held(w) + Held(w)'
  BY <1>1, WorkersShift
<1>4. Held(w) = Holds(worker[w]) /\ Held(w)' = Holds(b)
  BY <1>1 DEF Held, Holds
<1>5. Holds(b) \in Nat
  BY DEF Holds, Work
<1> QED
  BY <1>1, <1>2, <1>3, <1>4, <1>5, HeldNat, SumsNat

\* A step of a worker that touches neither counter, ledger, rows nor requests.
LEMMA WorkOnly ==
  ASSUME Typed, NEW w \in Worker, NEW b \in Work, worker' = [worker EXCEPT ![w] = b], Covers(b, rows),
         Holds(b) = Holds(worker[w]), job' \in [Delivery -> Job], faults' \in Nat,
         UNCHANGED <<counter, ledger, ledgerRecent, rows, req, rec, lost>>
  PROVE  Typed' /\ (Accounted => Orderly)
<1>1. rows' = rows /\ rows \subseteq Row
  BY DEF Typed
<1>2. /\ worker' \in [Worker -> Work] /\ \A v \in Worker : Covers(worker'[v], rows')
      /\ HeldByWorkers' = HeldByWorkers - Holds(worker[w]) + Holds(b)
      /\ Holds(worker[w]) \in Nat
  BY <1>1, WorkGoesOn
<1>3. Typed'
  BY <1>2 DEF Typed, LedgerOK
<1>4. InFlight' = InFlight /\ Reserved' = Reserved
  BY <1>2, <1>3, SumsNat, SumsPrimed, NobodyMoves
<1> QED
  BY <1>3, <1>4, Moves, SumsNat DEF Typed

LEMMA RestingWork == Resting \in Work /\ Covers(Resting, rows) /\ Holds(Resting) = 0
<1>1. (CHOOSE d \in Delivery : TRUE) \in Delivery
  BY StoredRowsAssumption
<1> QED
  BY <1>1 DEF Resting, Work, Covers, Holds

LEMMA DeliverKeeps ==
  ASSUME Typed, NEW w \in Worker, NEW d \in Delivery, Deliver(w, d)
  PROVE  Typed' /\ (Accounted => Orderly)
<1>1. UNCHANGED <<counter, ledger, ledgerRecent, rows, req, rec, lost>> /\ faults' \in Nat
  BY DEF Deliver, Typed
<1>2. worker[w] \in Work /\ Covers(worker[w], rows) /\ worker[w].pc = "idle" /\ job[d] \in Job
  BY DEF Deliver, Typed
<1>3. CASE job[d].closed
  <2>1. job' = [job EXCEPT ![d].state = "done"] /\ worker' = worker
    BY <1>3 DEF Deliver
  <2>2. job' \in [Delivery -> Job]
    BY <2>1 DEF Typed, Job
  <2>3. worker' = [worker EXCEPT ![w] = worker[w]]
    BY <2>1 DEF Typed
  <2> QED
    BY <1>1, <1>2, <2>2, <2>3, WorkOnly
<1>4. CASE ~job[d].closed
  <2>1. PICK pc \in {"reading", "finishing"} :
          worker' = [worker EXCEPT ![w] =
            [Resting EXCEPT !.pc = pc, !.d = d, !.todo = RowsOf[d], !.attempt = job[d].failures + 1]]
    BY <1>4 DEF Deliver
  <2> DEFINE b == [Resting EXCEPT !.pc = pc, !.d = d, !.todo = RowsOf[d], !.attempt = job[d].failures + 1]
  <2>2. job[d].failures \in Nat /\ RowsOf[d] \in SUBSET Row
    BY <1>2, StoredRowsAssumption DEF Job
  <2>3. b \in Work /\ Covers(b, rows) /\ Holds(b) = 0
    <3>1. Resting \in Work /\ Resting.back = 0 /\ Resting.rel = 0
      BY RestingWork DEF Resting
    <3>2. PICK r \in Work : r = Resting
      BY <3>1
    <3> DEFINE c == [r EXCEPT !.pc = pc, !.d = d, !.todo = RowsOf[d], !.attempt = job[d].failures + 1]
    <3>3. b = c
      BY <3>2, Zenon
    <3>4. c \in Work
      <4>1. PICK todo \in SUBSET Row, n \in Nat : todo = RowsOf[d] /\ n = job[d].failures + 1
        BY <2>2
      <4>2. [r EXCEPT !.pc = pc, !.d = d, !.todo = todo, !.attempt = n] \in Work
        BY DEF Work
      <4> QED
        BY <4>1, <4>2
    <3>5. b.back = 0 /\ b.rel = 0 /\ b.pc = pc
      BY <3>1 DEF Work
    <3> HIDE DEF b, c
    <3> QED
      BY <3>3, <3>4, <3>5 DEF Covers, Holds
  <2>4. Holds(worker[w]) = 0
    BY <1>2 DEF Holds
  <2>5. job' \in [Delivery -> Job]
    BY <1>4 DEF Deliver, Typed, Job
  <2> HIDE DEF b
  <2> QED
    BY <1>1, <2>1, <2>3, <2>4, <2>5, WorkOnly DEF b
<1> QED
  BY <1>3, <1>4

LEMMA ReadKeeps ==
  ASSUME Typed, NEW w \in Worker, Read(w)
  PROVE  Typed' /\ (Accounted => Orderly)
<1>1. UNCHANGED <<counter, ledger, ledgerRecent, rows, req, rec, lost, job, faults>>
  BY DEF Read
<1>2. worker[w] \in Work /\ Covers(worker[w], rows) /\ worker[w].pc = "reading" /\ rows \in SUBSET Row
  BY DEF Read, Typed
<1>3. PICK batch \in SUBSET worker[w].todo :
        LET fresh == Cardinality(batch \ rows) IN
        worker' = [worker EXCEPT ![w] =
          [@ EXCEPT !.pc = IF fresh > 0 THEN "drawing" ELSE "writing",
                    !.batch = batch, !.fresh = fresh, !.taken = 0]]
  BY DEF Read, kSubset
<1> DEFINE fresh == Cardinality(batch \ rows)
           b == [worker[w] EXCEPT !.pc = IF fresh > 0 THEN "drawing" ELSE "writing",
                                  !.batch = batch, !.fresh = fresh, !.taken = 0]
<1>4. batch \in SUBSET Row
  BY <1>2 DEF Work
<1>5. fresh \in Nat
  BY <1>2, <1>4, MissingRows
<1>6. worker' = [worker EXCEPT ![w] = b]
  BY <1>3
<1> HIDE DEF fresh
<1>7. b \in Work
  BY <1>2, <1>4, <1>5 DEF Work
<1>8. Covers(b, rows)
  BY <1>2, <1>4, <1>5 DEF Work, Covers, fresh
<1>9. Holds(b) = 0 /\ Holds(worker[w]) = 0
  BY <1>2, <1>5 DEF Work, Holds
<1> HIDE DEF b
<1> QED
  BY <1>1, <1>6, <1>7, <1>8, <1>9, WorkOnly DEF Typed

LEMMA DrawKeeps ==
  ASSUME Typed, NEW w \in Worker, Draw(w)
  PROVE  Typed' /\ (Accounted => Orderly)
<1>1. UNCHANGED <<counter, rows, req, job, rec, lost, faults>>
  BY DEF Draw
<1>2. worker[w] \in Work /\ Covers(worker[w], rows) /\ worker[w].pc = "drawing"
  BY DEF Draw, Typed
<1>3. PICK d \in Delivery : d = worker[w].d
  BY <1>2 DEF Work
<1>4. ledger[d] \in Entry /\ LedgerOK(d)
  BY DEF Typed
<1> DEFINE taken == Lesser(worker[w].fresh, ledger[d].remaining)
           b == [worker[w] EXCEPT !.taken = taken,
                                  !.pc = IF taken < worker[w].fresh THEN "consuming" ELSE "writing"]
           e == [ledger[d] EXCEPT !.remaining = @ - taken]
<1>5. taken \in Nat /\ taken <= ledger[d].remaining /\ taken <= worker[w].fresh
  BY <1>2, <1>4 DEF Work, Entry, Lesser
<1>6. /\ ledger' = [ledger EXCEPT ![d] = e] /\ worker' = [worker EXCEPT ![w] = b]
      /\ ledgerRecent' = (ledgerRecent \/ taken > 0)
  BY <1>3 DEF Draw, Typed
<1> HIDE DEF taken
<1>7. /\ e \in Entry /\ e.remaining = ledger[d].remaining - taken /\ e.open = ledger[d].open
      /\ e.stale = ledger[d].stale /\ ledger[d].remaining \in Nat
  BY <1>4, <1>5 DEF Entry
<1>8. b \in Work /\ Covers(b, rows)
  BY <1>2, <1>5 DEF Work, Covers
<1>9. Holds(worker[w]) = 0 /\ Holds(b) = taken
  BY <1>2, <1>5 DEF Work, Holds
<1> HIDE DEF b, e
<1>10. /\ ledger' \in [Delivery -> Entry] /\ ledger'[d] = e
       /\ \A other \in Delivery \ {d} : ledger'[other] = ledger[other]
       /\ Reserved' = Reserved - ledger[d].remaining + e.remaining
  BY <1>6, <1>7, LedgerGoesOn
<1>11. /\ worker' \in [Worker -> Work] /\ \A v \in Worker : Covers(worker'[v], rows')
       /\ HeldByWorkers' = HeldByWorkers - Holds(worker[w]) + Holds(b)
  BY <1>1, <1>6, <1>8, WorkGoesOn DEF Typed
<1>12. Typed'
  <2>1. LedgerOK(d)'
    BY <1>1, <1>4, <1>5, <1>7, <1>10 DEF LedgerOK
  <2>2. \A x \in Delivery : LedgerOK(x)'
    BY <1>1, <1>10, <2>1 DEF LedgerOK, Typed
  <2>3. ledgerRecent' \in BOOLEAN
    BY <1>6 DEF Typed
  <2> QED
    BY <1>1, <1>10, <1>11, <2>2, <2>3 DEF Typed
<1>13. Reserved' = Reserved - taken /\ InFlight' = InFlight + taken
  BY <1>1, <1>5, <1>7, <1>9, <1>10, <1>11, <1>12, SumsNat, SumsPrimed, NobodyMoves
<1>14. ASSUME Accounted PROVE Orderly
  <2>1. Cardinality(rows') + Reserved' + InFlight' + lost' = Cardinality(rows) + Reserved + InFlight + lost
    BY <1>1, <1>5, <1>13, SumsNat, RowsNat DEF Typed
  <2>2. ~ledgerRecent' => InFlight' <= InFlight
    <3>1. ~ledgerRecent' => taken = 0
      <4>1. taken > 0 => ledgerRecent' = TRUE
        BY <1>6
      <4> QED
        BY <1>5, <4>1
    <3>2. taken = 0 => InFlight' <= InFlight
      BY <1>13, SumsNat
    <3> QED
      BY <3>1, <3>2
  <2>3. \A x \in Delivery : ledger'[x].open /\ ledger'[x].stale => ledger[x].open /\ ledger[x].stale
    BY <1>7, <1>10
  <2> QED
    BY <1>1, <1>6, <1>12, <1>14, <2>1, <2>2, <2>3, Moves DEF Typed
<1> QED
  BY <1>12, <1>14

LEMMA Returning ==
  ASSUME NEW b, NEW stored, b.pc = "returning"
  PROVE  Covers(b, stored) /\ Holds(b) = b.back + b.rel
BY DEF Covers, Holds

\* Nothing is stored, so what was drawn is to be given back.
LEMMA GivenUp ==
  ASSUME Typed, NEW w \in Worker, worker[w].pc = "consuming", NEW then \in {"fail", "retry"}, GivesUp(w, then)
  PROVE  \E b \in Work : /\ worker' = [worker EXCEPT ![w] = b]
                          /\ Covers(b, rows) /\ Holds(b) = Holds(worker[w])
<1> DEFINE b == [worker[w] EXCEPT !.pc = "returning", !.then = then, !.back = worker[w].taken]
<1>1. worker[w] \in Work /\ worker[w].taken \in Nat /\ worker[w].rel = 0
  BY DEF Typed, Covers, Work
<1>2. worker' = [worker EXCEPT ![w] = b]
  BY DEF GivesUp
<1>3. b \in Work
  BY <1>1 DEF Work
<1>4. b.pc = "returning" /\ b.back = worker[w].taken /\ b.rel = 0
  BY <1>1 DEF Work
<1>5. Holds(worker[w]) = worker[w].taken
  BY DEF Holds
<1> HIDE DEF b
<1>6. Covers(b, rows) /\ Holds(b) = worker[w].taken
  BY <1>1, <1>4, Returning
<1> QED
  BY <1>2, <1>3, <1>5, <1>6

LEMMA ConsumeRestKeeps ==
  ASSUME Typed, NEW w \in Worker, ConsumeRest(w)
  PROVE  Typed' /\ (Accounted => Orderly)
<1> DEFINE need == worker[w].fresh - worker[w].taken
<1>1. UNCHANGED <<ledger, ledgerRecent, rows, req, job, lost, faults>>
  BY DEF ConsumeRest
<1>2. worker[w] \in Work /\ Covers(worker[w], rows) /\ worker[w].pc = "consuming"
  BY DEF ConsumeRest, Typed
<1>3. need \in Nat /\ counter.value \in Nat /\ worker[w].fresh = worker[w].taken + need
  BY <1>2 DEF Work, Covers, Typed
<1>4. CASE Fits(need)
  <2> DEFINE b == [worker[w] EXCEPT !.pc = "writing"]
  <2>1. Count(counter.value + need) /\ worker' = [worker EXCEPT ![w] = b]
    BY <1>4 DEF ConsumeRest
  <2>2. b \in Work /\ Covers(b, rows)
    BY <1>2 DEF Work, Covers
  <2>3. Holds(worker[w]) = worker[w].taken /\ Holds(b) = worker[w].fresh
    BY <1>2 DEF Work, Holds
  <2> HIDE DEF b, need
  <2>4. /\ worker' \in [Worker -> Work] /\ \A v \in Worker : Covers(worker'[v], rows')
        /\ HeldByWorkers' = HeldByWorkers - Holds(worker[w]) + Holds(b) /\ Holds(worker[w]) \in Nat
    BY <1>1, <2>1, <2>2, WorkGoesOn DEF Typed
  <2>5. counter.value + need \in Nat /\ counter.value + need <= Limit
    BY <1>3, <1>4 DEF Fits
  <2>6. counter' \in [value : Nat, recent : BOOLEAN] /\ rec' \in Recon
    BY <2>1, <2>5, Counts
  <2>7. Typed'
    BY <1>1, <2>4, <2>6 DEF Typed, LedgerOK
  <2>8. InFlight' = InFlight + (counter.value + need) - counter.value
    BY <1>1, <1>3, <2>3, <2>4, <2>7, SumsNat, SumsPrimed, NobodyMoves
  <2>9. ASSUME Accounted PROVE Orderly
    BY <1>1, <2>1, <2>5, <2>7, <2>8, <2>9, Takes
  <2> QED
    BY <2>7, <2>9
<1>5. CASE ~Fits(need)
  <2>1. UNCHANGED <<counter, rec>> /\ GivesUp(w, "fail")
    BY <1>5 DEF ConsumeRest
  <2>2. PICK b \in Work : /\ worker' = [worker EXCEPT ![w] = b]
                          /\ Covers(b, rows) /\ Holds(b) = Holds(worker[w])
    BY <1>2, <2>1, GivenUp
  <2> QED
    BY <1>1, <2>1, <2>2, WorkOnly DEF Typed
<1> QED
  BY <1>4, <1>5

LEMMA ConsumeFailsKeeps ==
  ASSUME Typed, NEW w \in Worker, ConsumeFails(w)
  PROVE  Typed' /\ (Accounted => Orderly)
<1>1. worker[w].pc = "consuming" /\ GivesUp(w, "retry")
  BY DEF ConsumeFails
<1>2. UNCHANGED <<counter, ledger, ledgerRecent, rows, req, job, rec, lost>> /\ faults' \in Nat
  BY FaultCounted DEF ConsumeFails
<1>3. PICK b \in Work : /\ worker' = [worker EXCEPT ![w] = b]
                        /\ Covers(b, rows) /\ Holds(b) = Holds(worker[w])
  BY <1>1, GivenUp
<1> QED
  BY <1>2, <1>3, WorkOnly DEF Typed

\* Storing rows takes as much off what their worker holds as it stores.
LEMMA Stores ==
  ASSUME Typed, NEW w \in Worker, worker[w].pc = "writing", NEW stored \in SUBSET worker[w].batch
  PROVE  /\ Cardinality(stored \ rows) \in Nat /\ worker[w].fresh \in Nat
         /\ Cardinality(stored \ rows) <= worker[w].fresh
         /\ Cardinality(rows \cup stored) = Cardinality(rows) + Cardinality(stored \ rows)
         /\ rows \cup stored \subseteq Row /\ (Cardinality(stored \ rows) = 0 => rows \cup stored = rows)
<1>1. worker[w] \in Work /\ Covers(worker[w], rows) /\ rows \in SUBSET Row
  BY DEF Typed
<1>2. stored \in SUBSET Row /\ worker[w].batch \in SUBSET Row /\ worker[w].fresh \in Nat
  BY <1>1 DEF Work
<1>3. IsFiniteSet(stored \ rows) /\ IsFiniteSet(worker[w].batch \ rows) /\ IsFiniteSet(rows)
  BY <1>1, <1>2, StoredRowsAssumption, FS_Subset
<1>4. /\ Cardinality(stored \ rows) \in Nat /\ Cardinality(worker[w].batch \ rows) \in Nat
      /\ Cardinality(stored \ rows) <= Cardinality(worker[w].batch \ rows)
  <2>1. stored \ rows \in SUBSET (worker[w].batch \ rows)
    OBVIOUS
  <2> QED
    BY <1>3, <2>1, FS_Subset, FS_CardinalityType
<1>5. Cardinality(worker[w].batch \ rows) <= worker[w].fresh
  BY <1>1 DEF Covers
<1>6. Cardinality(rows \cup stored) = Cardinality(rows) + Cardinality(stored \ rows)
  <2>1. rows \cup stored = rows \cup (stored \ rows) /\ rows \cap (stored \ rows) = {}
    OBVIOUS
  <2>2. /\ Cardinality(rows \cup (stored \ rows)) =
              Cardinality(rows) + Cardinality(stored \ rows) - Cardinality(rows \cap (stored \ rows))
        /\ Cardinality(rows \cap (stored \ rows)) = 0
    BY <1>3, <2>1, FS_Union, FS_EmptySet
  <2>3. Cardinality(rows) \in Nat
    BY RowsNat
  <2> QED
    BY <1>4, <2>1, <2>2, <2>3
<1>7. Cardinality(stored \ rows) = 0 => rows \cup stored = rows
  BY <1>3, FS_EmptySet
<1> QED
  BY <1>1, <1>2, <1>4, <1>5, <1>6, <1>7

\* Rows are stored by somebody who holds capacity for them.
LEMMA StoresHeld ==
  ASSUME Typed, NEW w \in Worker, worker[w].pc = "writing", NEW stored \in SUBSET worker[w].batch,
         rows' = rows \cup stored
  PROVE  rows' = rows \/ InFlight # 0
<1>1. Holds(worker[w]) = worker[w].fresh /\ Held(w) = worker[w].fresh
  BY DEF Holds, Held
<1>2. /\ Cardinality(stored \ rows) \in Nat /\ worker[w].fresh \in Nat
      /\ Cardinality(stored \ rows) <= worker[w].fresh
      /\ Cardinality(stored \ rows) = 0 => rows \cup stored = rows
  BY Stores
<1>3. worker[w].fresh <= HeldByWorkers /\ InFlight = HeldByWorkers + HeldByRequests
      /\ HeldByWorkers \in Nat /\ HeldByRequests \in Nat
  BY <1>1, SumsNat
<1>4. CASE worker[w].fresh = 0
  BY <1>2, <1>4
<1>5. CASE worker[w].fresh > 0
  BY <1>2, <1>3, <1>5
<1> QED
  BY <1>2, <1>4, <1>5

LEMMA WriteKeeps ==
  ASSUME Typed, NEW w \in Worker, Write(w)
  PROVE  Typed' /\ (Accounted => Orderly)
<1>1. UNCHANGED <<counter, ledger, ledgerRecent, req, job, rec, lost, faults>>
  BY DEF Write
<1>2. worker[w] \in Work /\ Covers(worker[w], rows) /\ worker[w].pc = "writing"
  BY DEF Write, Typed
<1> DEFINE new == Cardinality(worker[w].batch \ rows)
           b == [worker[w] EXCEPT !.pc = "returning", !.then = "next", !.todo = @ \ worker[w].batch,
                                  !.rel = worker[w].fresh - new]
<1>3. rows' = rows \cup worker[w].batch /\ worker' = [worker EXCEPT ![w] = b]
  BY DEF Write
<1>4. /\ new \in Nat /\ worker[w].fresh \in Nat /\ new <= worker[w].fresh
      /\ Cardinality(rows') = Cardinality(rows) + new /\ rows' \subseteq Row /\ rows \subseteq rows'
      /\ rows' = rows \/ InFlight # 0
  BY <1>2, <1>3, Stores, StoresHeld
<1> HIDE DEF new
<1>5. b \in Work /\ Covers(b, rows') /\ Holds(b) = worker[w].fresh - new /\ Holds(worker[w]) = worker[w].fresh
  <2>1. PICK todo \in SUBSET Row, rel \in Nat :
          todo = worker[w].todo \ worker[w].batch /\ rel = worker[w].fresh - new
    <3>1. worker[w].todo \ worker[w].batch \in SUBSET Row
      BY <1>2 DEF Work
    <3>2. worker[w].fresh - new \in Nat
      BY <1>4
    <3> QED
      BY <3>1, <3>2
  <2>2. b \in Work
    <3>1. [worker[w] EXCEPT !.pc = "returning", !.then = "next", !.todo = todo, !.rel = rel] \in Work
      BY <1>2 DEF Work
    <3> QED
      BY <2>1, <3>1
  <2>3. b.pc = "returning" /\ b.back = 0 /\ b.rel = rel
    BY <1>2, <2>1 DEF Work, Covers
  <2>4. Holds(worker[w]) = worker[w].fresh
    BY <1>2 DEF Holds
  <2> HIDE DEF b
  <2> QED
    BY <2>1, <2>2, <2>3, <2>4, Returning
<1> HIDE DEF b
<1>6. /\ worker' \in [Worker -> Work] /\ \A v \in Worker : Covers(worker'[v], rows')
      /\ HeldByWorkers' = HeldByWorkers - Holds(worker[w]) + Holds(b)
  BY <1>3, <1>4, <1>5, WorkGoesOn
<1>7. Typed'
  BY <1>1, <1>4, <1>6 DEF Typed, LedgerOK
<1>8. InFlight' = InFlight - new /\ Reserved' = Reserved
  BY <1>1, <1>4, <1>5, <1>6, <1>7, SumsNat, SumsPrimed, NobodyMoves
<1>9. ASSUME Accounted PROVE Orderly
  <2>1. Cardinality(rows') + Reserved' + InFlight' + lost' = Cardinality(rows) + Reserved + InFlight + lost
    BY <1>1, <1>4, <1>8, SumsNat, RowsNat DEF Typed
  <2>2. InFlight' <= InFlight
    BY <1>4, <1>8, SumsNat
  <2> QED
    BY <1>1, <1>4, <1>7, <1>9, <2>1, <2>2, Moves DEF Typed
<1> QED
  BY <1>7, <1>9

\* What a failed write leaves to give back, in the ledger's and the counter's share.
LEMMA UnwrittenSplits ==
  ASSUME Typed, NEW w \in Worker, NEW partial \in Nat
  PROVE  /\ Unwritten(w, partial).back \in Nat /\ Unwritten(w, partial).rel \in Nat
         /\ Unwritten(w, partial).back + Unwritten(w, partial).rel = Less(worker[w].fresh, partial)
<1>1. worker[w].fresh \in Nat /\ worker[w].taken \in Nat
  BY DEF Typed, Work
<1>2. Less(worker[w].fresh, partial) \in Nat /\ Less(worker[w].taken, partial) \in Nat
  BY <1>1 DEF Less
<1> QED
  BY <1>2 DEF Unwritten, Lesser

LEMMA WriteFailsKeeps ==
  ASSUME Typed, NEW w \in Worker, WriteFails(w)
  PROVE  Typed' /\ ("blind" \notin Faults => (Accounted => Orderly))
<1>1. UNCHANGED <<counter, ledger, ledgerRecent, req, job, rec, lost>> /\ worker[w].pc = "writing"
  BY DEF WriteFails
<1>2. worker[w] \in Work /\ Covers(worker[w], rows)
  BY DEF Typed
<1>3. PICK stored \in SUBSET worker[w].batch :
        \E partial \in {Cardinality(stored \ rows), 0} :
          /\ Goes(IF partial = Cardinality(stored \ rows) THEN "write" ELSE "blind")
          /\ rows' = rows \cup stored
          /\ worker' = [worker EXCEPT ![w].pc = "returning", ![w].then = "retry",
                          ![w].back = Unwritten(w, partial).back, ![w].rel = Unwritten(w, partial).rel]
  BY DEF WriteFails
<1> DEFINE new == Cardinality(stored \ rows)
<1>4. PICK partial \in {new, 0} :
        /\ Goes(IF partial = new THEN "write" ELSE "blind")
        /\ rows' = rows \cup stored
        /\ worker' = [worker EXCEPT ![w].pc = "returning", ![w].then = "retry",
                        ![w].back = Unwritten(w, partial).back, ![w].rel = Unwritten(w, partial).rel]
  BY <1>3
<1>5. /\ new \in Nat /\ worker[w].fresh \in Nat /\ new <= worker[w].fresh
      /\ Cardinality(rows') = Cardinality(rows) + new /\ rows' \subseteq Row /\ rows \subseteq rows'
      /\ rows' = rows \/ InFlight # 0
  BY <1>1, <1>4, Stores, StoresHeld
<1> HIDE DEF new
<1>6. partial \in Nat
  BY <1>5
<1>7. PICK back \in Nat, rel \in Nat :
        /\ back = Unwritten(w, partial).back /\ rel = Unwritten(w, partial).rel
        /\ back + rel = Less(worker[w].fresh, partial)
  BY <1>6, UnwrittenSplits
<1> DEFINE b == [worker[w] EXCEPT !.pc = "returning", !.then = "retry", !.back = back, !.rel = rel]
<1>8. worker' = [worker EXCEPT ![w] = b]
  BY <1>4, <1>7
<1>9. b \in Work
  BY <1>2 DEF Work
<1>10. b.pc = "returning" /\ b.back = back /\ b.rel = rel
  BY <1>2 DEF Work
<1> HIDE DEF b
<1>11. Covers(b, rows') /\ Holds(b) = back + rel /\ Holds(worker[w]) = worker[w].fresh
  BY <1>1, <1>10, Returning DEF Holds
<1>12. /\ worker' \in [Worker -> Work] /\ \A v \in Worker : Covers(worker'[v], rows')
       /\ HeldByWorkers' = HeldByWorkers - Holds(worker[w]) + Holds(b)
  BY <1>5, <1>8, <1>9, <1>11, WorkGoesOn
<1>13. faults' \in Nat
  BY <1>4, FaultCounted
<1>14. Typed'
  BY <1>1, <1>5, <1>12, <1>13 DEF Typed, LedgerOK
<1>15. ASSUME "blind" \notin Faults, Accounted PROVE Orderly
  <2>1. partial = new
    BY <1>4, <1>15 DEF Goes, new
  <2>2. back + rel = worker[w].fresh - new
    BY <1>5, <1>7, <2>1 DEF Less
  <2>3. InFlight' = InFlight - new /\ Reserved' = Reserved
    BY <1>1, <1>5, <1>11, <1>12, <1>14, <2>2, SumsNat, SumsPrimed, NobodyMoves
  <2>4. Cardinality(rows') + Reserved' + InFlight' + lost' = Cardinality(rows) + Reserved + InFlight + lost
    BY <1>1, <1>5, <2>3, SumsNat, RowsNat DEF Typed
  <2>5. InFlight' <= InFlight
    BY <1>5, <2>3, SumsNat
  <2> QED
    BY <1>1, <1>5, <1>14, <1>15, <2>4, <2>5, Moves DEF Typed
<1> QED
  BY <1>14, <1>15

LEMMA GiveBackKeeps ==
  ASSUME Typed, NEW w \in Worker, GiveBack(w)
  PROVE  Typed' /\ (Accounted => Orderly)
<1>1. UNCHANGED <<counter, rows, req, job, rec, lost>>
  BY DEF GiveBack
<1>2. worker[w] \in Work /\ worker[w].pc = "returning" /\ rows' = rows /\ rows' \subseteq Row
  BY DEF Typed, GiveBack
<1>3. PICK d \in Delivery, back \in Nat : d = worker[w].d /\ back = worker[w].back
  BY <1>2 DEF Work
<1>4. ledger[d] \in Entry /\ LedgerOK(d)
  BY DEF Typed
<1>5. CASE /\ ledger[d].open
           /\ ledger' = [ledger EXCEPT ![d].remaining = @ + back] /\ ledgerRecent' = TRUE
           /\ worker' = [worker EXCEPT ![w].back = 0]
           /\ UNCHANGED faults
  <2> DEFINE b == [worker[w] EXCEPT !.back = 0]
             e == [ledger[d] EXCEPT !.remaining = @ + back]
  <2>1. /\ e \in Entry /\ e.remaining = ledger[d].remaining + back /\ e.open /\ e.stale = ledger[d].stale
        /\ ledger[d].remaining \in Nat /\ ledger' = [ledger EXCEPT ![d] = e]
    BY <1>4, <1>5 DEF Entry
  <2>2. b \in Work /\ b.pc = "returning" /\ b.back = 0 /\ b.rel = worker[w].rel /\ worker[w].rel \in Nat
        /\ worker' = [worker EXCEPT ![w] = b]
    BY <1>2, <1>5 DEF Work
  <2> HIDE DEF b, e
  <2>3. Covers(b, rows') /\ Holds(b) = worker[w].rel /\ Holds(worker[w]) = back + worker[w].rel
    BY <1>2, <1>3, <2>2, Returning
  <2>4. /\ ledger' \in [Delivery -> Entry] /\ ledger'[d] = e
        /\ \A other \in Delivery \ {d} : ledger'[other] = ledger[other]
        /\ Reserved' = Reserved - ledger[d].remaining + e.remaining
    BY <2>1, LedgerGoesOn
  <2>5. /\ worker' \in [Worker -> Work] /\ \A v \in Worker : Covers(worker'[v], rows')
        /\ HeldByWorkers' = HeldByWorkers - Holds(worker[w]) + Holds(b)
    BY <1>2, <2>2, <2>3, WorkGoesOn
  <2>6. Typed'
    <3>1. \A x \in Delivery : LedgerOK(x)'
      BY <1>1, <1>4, <1>5, <2>1, <2>4 DEF LedgerOK, Typed
    <3> QED
      BY <1>1, <1>5, <2>4, <2>5, <3>1 DEF Typed
  <2>7. Reserved' = Reserved + back /\ InFlight' = InFlight - back
    BY <1>1, <2>1, <2>2, <2>3, <2>4, <2>5, <2>6, SumsNat, SumsPrimed, NobodyMoves
  <2>8. ASSUME Accounted PROVE Orderly
    <3>1. Cardinality(rows') + Reserved' + InFlight' + lost' = Cardinality(rows) + Reserved + InFlight + lost
      BY <1>1, <2>7, SumsNat, RowsNat DEF Typed
    <3>2. \A x \in Delivery : ledger'[x].open /\ ledger'[x].stale => ledger[x].open /\ ledger[x].stale
      BY <1>5, <2>1, <2>4
    <3> QED
      BY <1>1, <1>5, <2>6, <2>8, <3>1, <3>2, Moves DEF Typed
  <2> QED
    BY <2>6, <2>8
<1>6. CASE /\ IF ledger[d].open THEN Goes("ledger") ELSE UNCHANGED faults
           /\ worker' = [worker EXCEPT ![w].back = 0, ![w].rel = @ + back]
           /\ UNCHANGED <<ledger, ledgerRecent>>
  <2>1. PICK rel \in Nat : rel = worker[w].rel + back /\ worker[w].rel \in Nat
    BY <1>2 DEF Work
  <2> DEFINE b == [worker[w] EXCEPT !.back = 0, !.rel = rel]
  <2>2. worker' = [worker EXCEPT ![w] = b]
    BY <1>6, <2>1
  <2>3. b \in Work /\ b.pc = "returning" /\ b.back = 0 /\ b.rel = rel
    BY <1>2 DEF Work
  <2> HIDE DEF b
  <2>4. Covers(b, rows) /\ Holds(b) = Holds(worker[w])
    <3>1. Covers(b, rows) /\ Holds(b) = 0 + rel
      BY <2>3, Returning
    <3>2. Holds(worker[w]) = back + worker[w].rel
      BY <1>2, <1>3, Returning
    <3> QED
      BY <2>1, <3>1, <3>2
  <2>5. faults' \in Nat
    BY <1>6, FaultCounted DEF Typed
  <2> QED
    BY <1>1, <1>6, <2>2, <2>4, <2>5, <2>3, WorkOnly DEF Typed
<1> QED
  BY <1>3, <1>5, <1>6 DEF GiveBack

LEMMA ReleaseKeeps ==
  ASSUME Typed, NEW w \in Worker, Release(w)
  PROVE  Typed' /\ (Accounted => Orderly)
<1>1. UNCHANGED <<ledger, ledgerRecent, rows, req, job>>
  BY DEF Release
<1>2. worker[w] \in Work /\ worker[w].pc = "returning" /\ worker[w].back = 0 /\ rows' = rows /\ rows' \subseteq Row
  BY DEF Typed, Release
<1>3. PICK rel \in Nat : rel = worker[w].rel
  BY <1>2 DEF Work
<1> DEFINE b == [worker[w] EXCEPT !.rel = 0]
<1>4. b \in Work /\ b.pc = "returning" /\ b.back = 0 /\ b.rel = 0 /\ worker' = [worker EXCEPT ![w] = b]
  BY <1>2 DEF Work, Release
<1> HIDE DEF b
<1>5. Covers(b, rows') /\ Holds(b) = 0 /\ Holds(worker[w]) = rel
  <2>1. Covers(b, rows') /\ Holds(b) = 0 + 0 /\ Holds(worker[w]) = 0 + rel
    BY <1>2, <1>3, <1>4, Returning
  <2> QED
    BY <2>1
<1>6. /\ worker' \in [Worker -> Work] /\ \A v \in Worker : Covers(worker'[v], rows')
      /\ HeldByWorkers' = HeldByWorkers - Holds(worker[w]) + Holds(b) /\ Holds(worker[w]) <= HeldByWorkers
  BY <1>2, <1>4, <1>5, WorkGoesOn
<1>7. counter.value \in Nat
  BY DEF Typed
<1>8. CASE Count(Less(counter.value, rel)) /\ UNCHANGED <<lost, faults>>
  <2>1. PICK n \in Nat : n = Less(counter.value, rel) /\ Count(n)
    BY <1>7, <1>8 DEF Less
  <2>2. Typed'
    BY <1>1, <1>6, <1>8, <2>1, Counts DEF Typed, LedgerOK
  <2>3. ASSUME Accounted PROVE Orderly
    <3>1. n = counter.value - rel
      <4>1. rel <= HeldByWorkers /\ HeldByWorkers <= counter.value
        BY <1>5, <1>6, <2>3, HeldIsCounted
      <4> QED
        BY <1>7, <2>1, <4>1, SumsNat DEF Less
    <3>2. n <= Limit
      <4>1. counter.value <= Limit /\ Limit \in Nat
        BY <2>3, StoredRowsAssumption DEF Accounted
      <4> QED
        BY <1>7, <3>1, <4>1
    <3>3. InFlight' = InFlight + n - counter.value
      BY <1>1, <1>5, <1>6, <1>7, <2>2, <3>1, SumsNat, SumsPrimed, NobodyMoves
    <3> QED
      BY <1>1, <1>8, <2>1, <2>2, <2>3, <3>2, <3>3, Takes
  <2> QED
    BY <2>2, <2>3
<1>9. CASE Goes("leak") /\ lost' = lost + rel /\ UNCHANGED <<counter, rec>>
  <2>1. lost' \in Int /\ faults' \in Nat /\ lost <= lost'
    BY <1>9, FaultCounted DEF Typed
  <2>2. Typed'
    BY <1>1, <1>6, <1>9, <2>1 DEF Typed, LedgerOK
  <2>3. InFlight' = InFlight - rel /\ Reserved' = Reserved
    BY <1>1, <1>5, <1>6, <2>2, SumsNat, SumsPrimed, NobodyMoves
  <2>4. ASSUME Accounted PROVE Orderly
    <3>1. Cardinality(rows') + Reserved' + InFlight' + lost' = Cardinality(rows) + Reserved + InFlight + lost
      BY <1>1, <1>9, <2>3, SumsNat, RowsNat DEF Typed
    <3>2. InFlight' <= InFlight
      BY <2>3, SumsNat
    <3> QED
      BY <1>1, <1>9, <2>1, <2>2, <2>4, <3>1, <3>2, Moves DEF Typed
  <2> QED
    BY <2>2, <2>4
<1> QED
  BY <1>3, <1>8, <1>9 DEF Release

LEMMA AckedTyped ==
  ASSUME Typed, NEW w \in Worker, NEW state \in {"queued", "done"}, NEW failed \in {0, 1}
  PROVE  Acked(w, state, failed) \in [Delivery -> Job]
<1>1. PICK d \in Delivery : d = worker[w].d
  BY DEF Typed, Work
<1>2. job[d] \in Job /\ job[d].failures + failed \in Nat
  BY DEF Typed, Job
<1>3. CASE job[d].owner = w
  <2>1. Acked(w, state, failed) =
          [job EXCEPT ![d] = [job[d] EXCEPT !.state = state, !.owner = Nobody, !.failures = @ + failed]]
    BY <1>1, <1>3 DEF Acked
  <2>2. [job[d] EXCEPT !.state = state, !.owner = Nobody, !.failures = @ + failed] \in Job
    BY <1>2 DEF Job
  <2> QED
    BY <2>1, <2>2 DEF Typed
<1>4. CASE job[d].owner # w
  BY <1>1, <1>4 DEF Acked, Typed
<1> QED
  BY <1>3, <1>4

LEMMA ProceedKeeps ==
  ASSUME Typed, NEW w \in Worker, Proceed(w)
  PROVE  Typed' /\ (Accounted => Orderly)
<1>1. UNCHANGED <<counter, ledger, ledgerRecent, rows, req, rec, lost, faults>>
  BY DEF Proceed
<1>2. worker[w] \in Work /\ worker[w].pc = "returning" /\ worker[w].back = 0 /\ worker[w].rel = 0
  BY DEF Typed, Proceed
<1>3. Holds(worker[w]) = 0
  BY <1>2 DEF Holds
<1>4. job' \in [Delivery -> Job]
  <2>1. job' \in {Acked(w, "queued", 1), Acked(w, "done", 0), job}
    BY DEF Proceed
  <2> QED
    BY <2>1, AckedTyped DEF Typed
<1>5. CASE worker' = [worker EXCEPT ![w] = Resting]
  BY <1>1, <1>3, <1>4, <1>5, RestingWork, WorkOnly DEF Typed
<1>6. ASSUME NEW pc \in {"reading", "finishing"}, worker' = [worker EXCEPT ![w].pc = pc]
      PROVE  Typed' /\ (Accounted => Orderly)
  <2> DEFINE b == [worker[w] EXCEPT !.pc = pc]
  <2>1. b \in Work /\ b.pc = pc /\ b.back = 0 /\ b.rel = 0 /\ worker' = [worker EXCEPT ![w] = b]
    BY <1>2, <1>6 DEF Work
  <2> HIDE DEF b
  <2>2. Covers(b, rows) /\ Holds(b) = 0
    BY <2>1 DEF Covers, Holds
  <2> QED
    BY <1>1, <1>3, <1>4, <2>1, <2>2, WorkOnly DEF Typed
<1>7. \/ worker' = [worker EXCEPT ![w] = Resting]
      \/ \E pc \in {"reading", "finishing"} : worker' = [worker EXCEPT ![w].pc = pc]
  BY DEF Proceed
<1> QED
  BY <1>5, <1>6, <1>7

LEMMA FinishKeeps ==
  ASSUME Typed, NEW w \in Worker, Finish(w)
  PROVE  Typed' /\ (Accounted => Orderly)
<1>1. UNCHANGED <<counter, ledger, ledgerRecent, rows, req, rec, lost, faults>>
  BY DEF Finish
<1>2. worker[w] \in Work /\ Covers(worker[w], rows) /\ worker[w].pc = "finishing"
  BY DEF Typed, Finish
<1>3. job' \in [Delivery -> Job]
  <2> DEFINE e == worker[w].d
             j == [job[e] EXCEPT !.closed = TRUE]
  <2>1. e \in Delivery /\ job \in [Delivery -> Job] /\ job' = [job EXCEPT ![e].closed = TRUE]
    BY <1>2 DEF Finish, Typed, Work
  <2>2. j \in Job /\ job' = [job EXCEPT ![e] = j]
    BY <2>1 DEF Job
  <2> HIDE DEF e, j
  <2> QED
    BY <2>1, <2>2
<1> DEFINE b == [worker[w] EXCEPT !.pc = "settling"]
<1>4. b \in Work /\ b.pc = "settling" /\ b.back = 0 /\ b.rel = 0 /\ worker' = [worker EXCEPT ![w] = b]
  BY <1>2 DEF Work, Covers, Finish
<1> HIDE DEF b
<1>5. Covers(b, rows) /\ Holds(b) = 0 /\ Holds(worker[w]) = 0
  BY <1>2, <1>4 DEF Covers, Holds
<1> QED
  BY <1>1, <1>3, <1>4, <1>5, WorkOnly DEF Typed

LEMMA SettleKeeps ==
  ASSUME Typed, NEW w \in Worker, Settle(w)
  PROVE  Typed' /\ (Accounted => Orderly)
<1>1. UNCHANGED <<counter, rows, req, job, rec, lost, faults>>
  BY DEF Settle
<1>2. worker[w] \in Work /\ Covers(worker[w], rows) /\ worker[w].pc = "settling" /\ rows' = rows /\ rows' \subseteq Row
  BY DEF Typed, Settle
<1>3. PICK d \in Delivery : d = worker[w].d
  BY <1>2 DEF Work
<1>4. /\ ledger' = Settled(d) /\ ledgerRecent' = (ledgerRecent \/ ledger[d].open)
      /\ worker' = [worker EXCEPT ![w].pc = "returning", ![w].then = "done", ![w].rel = ledger[d].remaining]
  BY <1>3 DEF Settle
<1>5. /\ ledger' \in [Delivery -> Entry] /\ ~ledger'[d].open /\ ledger'[d].remaining = 0
      /\ \A e \in Delivery \ {d} : ledger'[e] = ledger[e]
      /\ Reserved' = Reserved - ledger[d].remaining /\ ledger[d].remaining \in Nat
      /\ ledgerRecent' \in BOOLEAN /\ (ledgerRecent => ledgerRecent')
      /\ ~ledgerRecent' => ledger[d].remaining = 0
  BY <1>4, SettledEntry
<1>6. PICK rel \in Nat : rel = ledger[d].remaining
  BY <1>5
<1> DEFINE b == [worker[w] EXCEPT !.pc = "returning", !.then = "done", !.rel = rel]
<1>7. b \in Work /\ b.pc = "returning" /\ b.back = 0 /\ b.rel = rel /\ worker' = [worker EXCEPT ![w] = b]
  BY <1>2, <1>4, <1>6 DEF Work, Covers
<1> HIDE DEF b
<1>8. Covers(b, rows') /\ Holds(b) = rel /\ Holds(worker[w]) = 0
  <2>1. Covers(b, rows') /\ Holds(b) = 0 + rel
    BY <1>7, Returning
  <2>2. Holds(worker[w]) = 0
    BY <1>2 DEF Holds
  <2> QED
    BY <2>1, <2>2
<1>9. /\ worker' \in [Worker -> Work] /\ \A v \in Worker : Covers(worker'[v], rows')
      /\ HeldByWorkers' = HeldByWorkers - Holds(worker[w]) + Holds(b)
  BY <1>2, <1>7, <1>8, WorkGoesOn
<1>10. Typed'
  <2>1. \A e \in Delivery : LedgerOK(e)'
    BY <1>1, <1>5 DEF LedgerOK, Typed
  <2> QED
    BY <1>1, <1>5, <1>9, <2>1 DEF Typed
<1>11. InFlight' = InFlight + rel /\ Reserved' = Reserved - rel
  BY <1>1, <1>5, <1>6, <1>8, <1>9, <1>10, SumsNat, SumsPrimed, NobodyMoves
<1>12. ASSUME Accounted PROVE Orderly
  <2>1. Cardinality(rows') + Reserved' + InFlight' + lost' = Cardinality(rows) + Reserved + InFlight + lost
    BY <1>1, <1>11, SumsNat, RowsNat DEF Typed
  <2>2. ~ledgerRecent' => InFlight' <= InFlight
    <3>1. rel = 0 => InFlight' <= InFlight
      BY <1>11, SumsNat
    <3> QED
      BY <1>5, <1>6, <3>1
  <2>3. \A x \in Delivery : ledger'[x].open /\ ledger'[x].stale => ledger[x].open /\ ledger[x].stale
    BY <1>5
  <2> QED
    BY <1>1, <1>5, <1>10, <1>12, <2>1, <2>2, <2>3, Moves DEF Typed
<1> QED
  BY <1>10, <1>12

LEMMA CrashWorkerKeeps ==
  ASSUME Typed, NEW w \in Worker, CrashWorker(w)
  PROVE  Typed' /\ (Accounted => Orderly)
<1>1. /\ UNCHANGED <<counter, ledger, ledgerRecent, rows, req, rec>> /\ faults' \in Nat
      /\ worker' = [worker EXCEPT ![w] = Resting]
  BY FaultCounted DEF CrashWorker
<1>2. rows' = rows /\ rows' \subseteq Row
  BY <1>1 DEF Typed
<1>3. lost' = lost + Holds(worker[w])
  BY DEF CrashWorker, Held, Holds
<1>4. job' \in [Delivery -> Job]
  <2>1. job' \in {Acked(w, "queued", 0), Acked(w, "done", 0)}
    BY DEF CrashWorker
  <2> QED
    BY <2>1, AckedTyped
<1>5. /\ worker' \in [Worker -> Work] /\ \A v \in Worker : Covers(worker'[v], rows')
      /\ HeldByWorkers' = HeldByWorkers - Holds(worker[w]) + Holds(Resting)
      /\ Holds(worker[w]) \in Nat
  <2>1. Resting \in Work /\ Covers(Resting, rows')
    BY <1>2, RestingWork
  <2> QED
    BY <1>1, <1>2, <2>1, WorkGoesOn
<1>6. Typed'
  <2>1. lost' \in Int
    BY <1>3, <1>5 DEF Typed
  <2> QED
    BY <1>1, <1>4, <1>5, <2>1 DEF Typed, LedgerOK
<1>7. InFlight' = InFlight - Holds(worker[w]) /\ Reserved' = Reserved
  BY <1>1, <1>5, <1>6, RestingWork, SumsNat, SumsPrimed, NobodyMoves
<1>8. ASSUME Accounted PROVE Orderly
  <2>1. Cardinality(rows') + Reserved' + InFlight' + lost' = Cardinality(rows) + Reserved + InFlight + lost
    BY <1>1, <1>3, <1>5, <1>7, SumsNat, RowsNat DEF Typed
  <2>2. InFlight' <= InFlight /\ lost <= lost'
    BY <1>3, <1>5, <1>7, SumsNat DEF Typed
  <2> QED
    BY <1>1, <1>6, <1>8, <2>1, <2>2, Moves DEF Typed
<1> QED
  BY <1>6, <1>8

----------------------------------------------------------------------------
(* The reconciler and the clock.                                           *)

\* A step that moves no capacity.
LEMMA NothingMoves ==
  ASSUME Typed, UNCHANGED <<req, worker>>
  PROVE  InFlight' = InFlight /\ (ledger' = ledger => Reserved' = Reserved)
BY NobodyMoves DEF InFlight, HeldByWorkers, HeldByRequests

LEMMA ReadCounterKeeps ==
  ASSUME Typed, ReadCounter
  PROVE  Typed' /\ (Accounted => Accounted')
<1>1. UNCHANGED <<counter, ledger, ledgerRecent, rows, req, job, worker, lost, faults>>
  BY DEF ReadCounter
<1>2. /\ rec' \in Recon /\ rec'.pc = "voiding" /\ rec'.seen = counter.value /\ rec'.recent = counter.recent
  BY DEF ReadCounter, RecIdle, Recon, Typed
<1>3. Typed'
  BY <1>1, <1>2 DEF Typed, LedgerOK
<1>4. InFlight' = InFlight /\ Reserved' = Reserved
  BY <1>1, NothingMoves
<1> QED
  BY <1>1, <1>2, <1>3, <1>4 DEF Accounted, Conservation, WindowOK, Flagged, RecOK, Trusted

Splits(part) ==
  /\ Reserved = Remaining(part) + Remaining(Delivery \ part)
  /\ Remaining(part) \in Nat /\ Remaining(Delivery \ part) \in Nat

AllSplit == \A part \in SUBSET Delivery : Splits(part)

LEMMA RemainingSplits == Typed => AllSplit
<1> SUFFICES ASSUME Typed, NEW part \in SUBSET Delivery PROVE Splits(part)
  BY DEF AllSplit
<1> DEFINE f == [d \in Delivery |-> ledger[d].remaining]
           g == [d \in part |-> f[d]]
           h == [d \in Delivery \ part |-> f[d]]
<1>1. f \in [Delivery -> Nat]
  BY DEF Typed, Entry
<1>2. g = [d \in part |-> ledger[d].remaining] /\ h = [d \in Delivery \ part |-> ledger[d].remaining]
  OBVIOUS
<1>3. IsFiniteSet(Delivery) /\ IsFiniteSet(part) /\ IsFiniteSet(Delivery \ part)
  BY StoredRowsAssumption, FS_Subset
<1>4. g \in [part -> Nat] /\ h \in [Delivery \ part -> Nat]
  BY <1>1
<1> HIDE DEF f
<1>5. Total(f) = Total(g) + Total(h)
  BY <1>1, <1>3, TotalSplits
<1> HIDE DEF g, h
<1>6. Total(g) \in Nat /\ Total(h) \in Nat
  BY <1>3, <1>4, UnitsFinite
<1>7. Reserved = Total(f) /\ Remaining(part) = Total(g) /\ Remaining(Delivery \ part) = Total(h)
  BY <1>2 DEF Reserved, Remaining, f
<1> QED
  BY <1>5, <1>6, <1>7 DEF Splits

LEMMA NothingRemains ==
  ASSUME Typed', NEW part \in SUBSET Delivery, \A d \in part : ledger'[d].remaining = 0
  PROVE  Remaining(part)' = 0
<1> DEFINE f == [d \in part |-> ledger'[d].remaining]
<1>1. f \in [part -> Nat] /\ \A d \in part : f[d] = 0
  BY DEF Typed, Entry
<1> HIDE DEF f
<1>2. Total(f) = 0
  BY <1>1, TotalOfNothing
<1> QED
  BY <1>2 DEF Remaining, f

LEMMA VoidStaleKeeps ==
  ASSUME Typed, VoidStale
  PROVE  Typed' /\ (Accounted => Accounted')
<1>1. PICK stale \in SUBSET Delivery :
        /\ stale = {d \in Delivery : ledger[d].open /\ ledger[d].stale}
        /\ ledger' = [d \in Delivery |-> IF d \in stale THEN Closed ELSE ledger[d]]
        /\ lost' = lost + Remaining(stale)
  BY DEF VoidStale
<1>2. UNCHANGED <<counter, ledgerRecent, rows, req, job, worker, faults>> /\ rec.pc = "voiding"
  BY DEF VoidStale
<1>3. /\ rec' \in Recon /\ rec'.pc = "counting" /\ rec'.recent = rec.recent /\ rec'.dirty = rec.dirty
      /\ rec'.seen = rec.seen
  BY DEF VoidStale, Recon, Typed
<1>4. Closed \in Entry /\ Closed.remaining = 0 /\ ~Closed.open
  BY DEF Closed, Entry
<1>5. ledger' \in [Delivery -> Entry]
  BY <1>1, <1>4 DEF Typed
<1>6. Splits(stale)
  BY RemainingSplits DEF AllSplit
<1>7. Typed'
  <2>1. \A d \in Delivery : LedgerOK(d)'
    BY <1>1, <1>2, <1>4 DEF LedgerOK, Typed
  <2>2. lost' \in Int
    BY <1>1, <1>6 DEF Typed, Splits
  <2> QED
    BY <1>2, <1>3, <1>5, <2>1, <2>2 DEF Typed
<1>8. Reserved' = Reserved - Remaining(stale)
  <2>1. Splits(stale)'
    <3>1. Typed' => AllSplit'
      BY RemainingSplits, PTL
    <3> QED
      BY <1>7, <3>1 DEF AllSplit
  <2>2. Remaining(stale)' = 0
    BY <1>1, <1>4, <1>7, NothingRemains
  <2>3. Remaining(Delivery \ stale)' = Remaining(Delivery \ stale)
    <3>1. [d \in Delivery \ stale |-> ledger'[d].remaining] = [d \in Delivery \ stale |-> ledger[d].remaining]
      BY <1>1
    <3> QED
      BY <3>1 DEF Remaining
  <2> QED
    BY <1>6, <2>1, <2>2, <2>3 DEF Splits
<1>9. InFlight' = InFlight
  BY <1>2, NothingMoves
<1>10. ASSUME Accounted PROVE Accounted'
  <2>1. Conservation'
    BY <1>1, <1>2, <1>6, <1>8, <1>9, <1>10, SumsNat, RowsNat DEF Accounted, Conservation, Splits, Typed
  <2>2. (counter.value <= Limit)' /\ WindowOK'
    BY <1>2, <1>9, <1>10 DEF Accounted, WindowOK, Flagged
  <2>3. \A d \in Delivery : ~(ledger'[d].open /\ ledger'[d].stale)
    BY <1>1, <1>4
  <2>4. RecOK'
    BY <1>2, <1>3, <1>10, <2>3 DEF Accounted, RecOK, Trusted
  <2> QED
    BY <2>1, <2>2, <2>4 DEF Accounted
<1> QED
  BY <1>7, <1>10

LEMMA CountRowsKeeps ==
  ASSUME Typed, CountRows
  PROVE  Typed' /\ (Accounted => Accounted')
<1>1. UNCHANGED <<counter, ledger, ledgerRecent, rows, req, job, worker, lost, faults>> /\ rec.pc = "counting"
  BY DEF CountRows
<1>2. /\ rec' \in Recon /\ rec'.pc = "summing" /\ rec'.count = Cardinality(rows)
      /\ rec'.recent = rec.recent /\ rec'.dirty = rec.dirty /\ rec'.seen = rec.seen
  BY RowsNat DEF CountRows, Recon, Typed
<1>3. Typed'
  BY <1>1, <1>2 DEF Typed, LedgerOK
<1>4. InFlight' = InFlight /\ Reserved' = Reserved
  BY <1>1, NothingMoves
<1> QED
  BY <1>1, <1>2, <1>3, <1>4 DEF Accounted, Conservation, WindowOK, Flagged, RecOK, Trusted

\* With nothing stale, what the reconciler sums up is all that is reserved.
LEMMA OutstandingNat ==
  ASSUME Typed
  PROVE  /\ Outstanding \in Nat
         /\ (\A d \in Delivery : ~(ledger[d].open /\ ledger[d].stale)) => Outstanding = Reserved
<1> DEFINE fresh == {d \in Delivery : ledger[d].open /\ ~ledger[d].stale}
<1>1. Splits(fresh) /\ Outstanding = Remaining(fresh)
  BY RemainingSplits DEF Outstanding, AllSplit
<1>2. ASSUME \A d \in Delivery : ~(ledger[d].open /\ ledger[d].stale)
      PROVE  Remaining(Delivery \ fresh) = 0
  <2> DEFINE f == [d \in Delivery \ fresh |-> ledger[d].remaining]
  <2>1. \A d \in Delivery \ fresh : ledger[d].remaining \in Nat /\ ~ledger[d].open /\ LedgerOK(d)
    BY <1>2 DEF Typed, Entry
  <2>2. f \in [Delivery \ fresh -> Nat] /\ \A d \in Delivery \ fresh : f[d] = 0
    BY <2>1 DEF LedgerOK
  <2> HIDE DEF f
  <2>3. Total(f) = 0
    BY <2>2, TotalOfNothing
  <2> QED
    BY <2>3 DEF Remaining, f
<1> HIDE DEF fresh
<1> QED
  BY <1>1, <1>2, SumsNat DEF Splits

LEMMA SummarizeKeeps ==
  ASSUME Typed, Summarize
  PROVE  Typed' /\ (Accounted => Accounted')
<1>1. UNCHANGED <<counter, ledger, ledgerRecent, rows, req, job, worker, lost, faults>> /\ rec.pc = "summing"
  BY DEF Summarize
<1>2. rec \in Recon /\ counter.value \in Nat /\ ledgerRecent \in BOOLEAN /\ lost \in Int
  BY DEF Typed
<1>3. /\ rec' \in Recon /\ rec'.pc = "writing" /\ rec'.count = rec.count /\ rec'.held = Outstanding
      /\ rec'.recent = (rec.recent \/ ledgerRecent) /\ rec'.dirty = rec.dirty /\ rec'.seen = rec.seen
  BY <1>2, OutstandingNat DEF Summarize, Recon
<1>4. Typed'
  BY <1>1, <1>3 DEF Typed, LedgerOK
<1>5. InFlight' = InFlight /\ Reserved' = Reserved
  BY <1>1, NothingMoves
<1>6. ASSUME Accounted PROVE Accounted'
  <2>1. Conservation' /\ (counter.value <= Limit)' /\ WindowOK'
    BY <1>1, <1>5, <1>6 DEF Accounted, Conservation, WindowOK, Flagged
  <2>2. ASSUME Trusted'
        PROVE  /\ rec'.count + rec'.held = counter.value - lost /\ lost >= 0
               /\ ~counter.recent /\ counter.value = rec.seen
    <3>1. Trusted /\ ~ledgerRecent
      BY <1>2, <1>3, <2>2 DEF Trusted
    <3>2. ~counter.recent /\ counter.value = rec.seen
      BY <1>1, <1>6, <3>1 DEF Accounted, RecOK
    <3>3. InFlight = 0 /\ rec.count = Cardinality(rows)
      BY <1>1, <1>6, <3>1, <3>2 DEF Accounted, RecOK, WindowOK, Flagged
    <3>4. Outstanding = Reserved
      BY <1>1, <1>6, OutstandingNat DEF Accounted, RecOK
    <3>5. counter.value = Cardinality(rows) + Reserved + InFlight + lost /\ lost >= 0
      BY <1>6 DEF Accounted, Conservation
    <3> QED
      BY <1>2, <1>3, <3>2, <3>3, <3>4, <3>5, SumsNat, RowsNat
  <2>3. RecOK'
    <3>1. rec'.count + rec'.held \in Nat
      BY <1>3 DEF Recon
    <3>2. Trusted' => /\ rec'.count + rec'.held <= counter'.value
                      /\ counter'.value - (rec'.count + rec'.held) <= lost'
      BY <1>1, <1>2, <2>2, <3>1
    <3>3. Trusted' => ~counter'.recent /\ counter'.value = rec'.seen
      BY <1>1, <1>3, <2>2
    <3> QED
      BY <1>3, <3>2, <3>3 DEF RecOK
  <2> QED
    BY <2>1, <2>3 DEF Accounted
<1> QED
  BY <1>4, <1>6

LEMMA CorrectKeeps ==
  ASSUME Typed, Correct
  PROVE  Typed' /\ (Accounted => Accounted')
<1> DEFINE real == rec.count + rec.held
           written == real # rec.seen /\ ~rec.recent /\ ~rec.dirty /\ counter.value = rec.seen
<1>1. UNCHANGED <<ledger, ledgerRecent, rows, req, job, worker, faults>> /\ rec.pc = "writing"
  BY DEF Correct
<1>2. rec \in Recon /\ counter \in [value : Nat, recent : BOOLEAN] /\ lost \in Int
  BY DEF Typed
<1>3. rec' \in Recon /\ rec'.pc = "idle"
  BY DEF Correct, RecIdle, Recon
<1>4. real \in Nat /\ rec.seen \in Nat
  BY <1>2 DEF Recon
<1>5. CASE ~written
  <2>1. UNCHANGED <<counter, lost>>
    BY <1>5 DEF Correct
  <2>2. Typed'
    BY <1>1, <1>3, <2>1 DEF Typed, LedgerOK
  <2>3. InFlight' = InFlight /\ Reserved' = Reserved
    BY <1>1, NothingMoves
  <2> QED
    BY <1>1, <1>3, <2>1, <2>2, <2>3 DEF Accounted, Conservation, WindowOK, Flagged, RecOK
<1>6. CASE written
  <2>1. /\ counter' \in [value : Nat, recent : BOOLEAN] /\ counter'.value = real /\ counter'.recent = counter.recent
        /\ lost' = lost - (rec.seen - real)
    BY <1>2, <1>4, <1>6 DEF Correct
  <2>2. Typed'
    BY <1>1, <1>2, <1>3, <1>4, <2>1 DEF Typed, LedgerOK
  <2>3. InFlight' = InFlight /\ Reserved' = Reserved
    BY <1>1, NothingMoves
  <2>4. ASSUME Accounted PROVE Accounted'
    <3>1. real <= counter.value /\ counter.value - real <= lost /\ counter.value = rec.seen
      BY <1>1, <1>6, <2>4 DEF Accounted, RecOK, Trusted
    <3>2. /\ counter.value = Cardinality(rows) + Reserved + InFlight + lost
          /\ counter.value <= Limit /\ WindowOK /\ Limit \in Nat /\ counter.value \in Nat
      BY <1>2, <2>4, StoredRowsAssumption DEF Accounted, Conservation
    <3> HIDE DEF real
    <3>3. Conservation'
      BY <1>1, <1>2, <1>4, <2>1, <2>3, <3>1, <3>2, SumsNat, RowsNat DEF Conservation
    <3>4. (counter.value <= Limit)'
      BY <1>4, <2>1, <3>1, <3>2
    <3>5. WindowOK'
      BY <1>1, <2>1, <2>3, <3>2 DEF WindowOK, Flagged
    <3> QED
      BY <1>3, <3>3, <3>4, <3>5 DEF Accounted, RecOK
  <2> QED
    BY <2>2, <2>4
<1> QED
  BY <1>5, <1>6

----------------------------------------------------------------------------
(* Time.                                                                   *)

LEMMA WindowEndsKeeps ==
  ASSUME Typed, WindowEnds
  PROVE  Typed' /\ (Accounted => Accounted')
<1>1. UNCHANGED <<ledger, rows, req, job, worker, rec, lost, faults>> /\ rec.pc = "idle" /\ InFlight = 0
  BY DEF WindowEnds
<1>2. counter' \in [value : Nat, recent : BOOLEAN] /\ counter'.value = counter.value /\ ledgerRecent' = FALSE
  BY DEF WindowEnds, Typed
<1>3. Typed'
  BY <1>1, <1>2 DEF Typed, LedgerOK
<1>4. InFlight' = InFlight /\ Reserved' = Reserved
  BY <1>1, NothingMoves
<1> QED
  BY <1>1, <1>2, <1>3, <1>4 DEF Accounted, Conservation, WindowOK, RecOK

LEMMA GoesStaleKeeps ==
  ASSUME Typed, NEW d \in Delivery, GoesStale(d)
  PROVE  Typed' /\ (Accounted => Accounted')
<1>1. UNCHANGED <<counter, ledgerRecent, rows, req, job, worker, rec, lost, faults>> /\ rec.pc = "idle"
  BY DEF GoesStale
<1>2. ledger[d] \in Entry /\ ledger[d].open /\ LedgerOK(d)
  BY DEF GoesStale, Typed
<1> DEFINE e == [ledger[d] EXCEPT !.stale = TRUE]
<1>3. e \in Entry /\ e.open = ledger[d].open /\ e.remaining = ledger[d].remaining
  BY <1>2 DEF Entry
<1>4. ledger' = [ledger EXCEPT ![d] = e]
  BY DEF GoesStale
<1> HIDE DEF e
<1>5. /\ ledger' \in [Delivery -> Entry] /\ ledger'[d] = e
      /\ \A other \in Delivery \ {d} : ledger'[other] = ledger[other]
      /\ Reserved' = Reserved - ledger[d].remaining + e.remaining
  BY <1>3, <1>4, LedgerGoesOn
<1>6. \A other \in Delivery : LedgerOK(other)'
  BY <1>1, <1>2, <1>3, <1>5 DEF LedgerOK, Typed
<1>7. Typed'
  BY <1>1, <1>5, <1>6 DEF Typed
<1>8. InFlight' = InFlight /\ Reserved' = Reserved
  <2>1. Reserved \in Nat /\ ledger[d].remaining \in Nat
    BY <1>2, SumsNat DEF Entry
  <2> QED
    BY <1>1, <1>3, <1>5, <2>1, NothingMoves
<1> QED
  BY <1>1, <1>7, <1>8 DEF Accounted, Conservation, WindowOK, Flagged, RecOK

----------------------------------------------------------------------------
(* The invariant.                                                          *)

LEMMA InitInv ==
  ASSUME Init
  PROVE  IInv
<1>1. /\ counter = [value |-> 0, recent |-> FALSE] /\ ledgerRecent = FALSE /\ rows = {}
      /\ ledger = [d \in Delivery |-> Closed]
      /\ req = [d \in Delivery |-> [pc |-> "new", rel |-> 0]]
      /\ worker = [w \in Worker |-> Resting] /\ rec = RecIdle /\ lost = 0 /\ faults = 0
  BY DEF Init
<1>2. Closed \in Entry /\ ~Closed.open /\ Closed.remaining = 0
  BY DEF Closed, Entry
<1>3. job \in [Delivery -> Job]
  BY DEF Init, Job
<1>4. rec \in Recon /\ rec.pc = "idle"
  BY <1>1 DEF RecIdle, Recon
<1>5. req \in [Delivery -> Request] /\ \A d \in Delivery : Asked(d) = 0
  BY <1>1 DEF Request, Asked
<1>6. worker \in [Worker -> Work] /\ \A w \in Worker : worker[w] = Resting /\ Covers(worker[w], rows)
  BY <1>1, RestingWork
<1>7. \A w \in Worker : Held(w) = 0
  BY <1>6 DEF Held, Resting
<1>8. ledger \in [Delivery -> Entry] /\ \A d \in Delivery : ledger[d].remaining = 0 /\ LedgerOK(d)
  BY <1>1, <1>2 DEF LedgerOK
<1>9. Typed
  <2>1. counter \in [value : Nat, recent : BOOLEAN]
    <3>1. counter = [value |-> 0, recent |-> FALSE]
      BY <1>1
    <3> QED
      BY <3>1
  <2>2. ledgerRecent \in BOOLEAN /\ rows \subseteq Row
    BY <1>1, Zenon
  <2>3. lost \in Int /\ faults \in Nat
    <3>1. lost = 0 /\ faults = 0
      BY <1>1
    <3> QED
      BY <3>1
  <2> QED
    BY <1>3, <1>4, <1>5, <1>6, <1>8, <2>1, <2>2, <2>3 DEF Typed
<1>10. Reserved = 0
  <2> DEFINE f == [d \in Delivery |-> ledger[d].remaining]
  <2>1. f \in [Delivery -> Nat] /\ \A d \in Delivery : f[d] = 0
    BY <1>8
  <2> HIDE DEF f
  <2>2. Total(f) = 0
    BY <2>1, TotalOfNothing
  <2> QED
    BY <2>2 DEF Reserved, Remaining, f
<1>11. InFlight = 0
  <2> DEFINE f == [w \in Worker |-> Held(w)]
             g == [d \in Delivery |-> Asked(d)]
  <2>1. f \in [Worker -> Nat] /\ g \in [Delivery -> Nat]
    BY <1>5, <1>7
  <2>2. (\A w \in Worker : f[w] = 0) /\ \A d \in Delivery : g[d] = 0
    BY <1>5, <1>7
  <2> HIDE DEF f, g
  <2>3. Total(f) = 0 /\ Total(g) = 0
    BY <2>1, <2>2, TotalOfNothing
  <2> QED
    BY <2>3 DEF InFlight, f, g
<1>12. Cardinality(rows) = 0 /\ Limit \in Nat
  BY <1>1, FS_EmptySet, StoredRowsAssumption
<1> QED
  BY <1>1, <1>4, <1>9, <1>10, <1>11, <1>12 DEF IInv, Accounted, Conservation, WindowOK, RecOK

\* A step of a request, of a worker, or of what befalls them.
Doing ==
  \/ \E d \in Delivery : Ask(d) \/ RecordFails(d) \/ EnqueueFails(d) \/ CrashRequest(d) \/ Stall(d)
  \/ \E d \in Delivery, w \in Worker : Deliver(w, d)
  \/ \E w \in Worker : Store(w) \/ ConsumeFails(w) \/ WriteFails(w) \/ CrashWorker(w)

LEMMA DoingKeeps ==
  ASSUME Typed, Doing
  PROVE  Typed' /\ ("blind" \notin Faults => (Accounted => Orderly))
<1>1. ASSUME NEW d \in Delivery, Ask(d)
      PROVE  Typed' /\ (Accounted => Orderly)
  BY <1>1, ConsumeKeeps, RecordKeeps, EnqueueKeeps, CancelKeeps, ReturnKeeps DEF Ask
<1>2. ASSUME NEW d \in Delivery, RecordFails(d) \/ EnqueueFails(d) \/ CrashRequest(d) \/ Stall(d)
      PROVE  Typed' /\ (Accounted => Orderly)
  BY <1>2, RecordFailsKeeps, EnqueueKeeps, CrashRequestKeeps, StallKeeps
<1>3. ASSUME NEW d \in Delivery, NEW w \in Worker, Deliver(w, d)
      PROVE  Typed' /\ (Accounted => Orderly)
  BY <1>3, DeliverKeeps
<1>4. ASSUME NEW w \in Worker, Store(w)
      PROVE  Typed' /\ (Accounted => Orderly)
  <2>1. CASE Read(w) \/ Draw(w) \/ ConsumeRest(w) \/ Write(w)
    BY <2>1, ReadKeeps, DrawKeeps, ConsumeRestKeeps, WriteKeeps
  <2>2. CASE GiveBack(w) \/ Release(w) \/ Proceed(w) \/ Finish(w) \/ Settle(w)
    BY <2>2, GiveBackKeeps, ReleaseKeeps, ProceedKeeps, FinishKeeps, SettleKeeps
  <2> QED
    BY <1>4, <2>1, <2>2 DEF Store
<1>5. ASSUME NEW w \in Worker, ConsumeFails(w) \/ CrashWorker(w)
      PROVE  Typed' /\ (Accounted => Orderly)
  BY <1>5, ConsumeFailsKeeps, CrashWorkerKeeps
<1>6. ASSUME NEW w \in Worker, WriteFails(w)
      PROVE  Typed' /\ ("blind" \notin Faults => (Accounted => Orderly))
  BY <1>6, WriteFailsKeeps
<1> QED
  BY <1>1, <1>2, <1>3, <1>4, <1>5, <1>6 DEF Doing

LEMMA NextKeeps ==
  ASSUME Typed, [Next]_vars
  PROVE  Typed' /\ ("blind" \notin Faults => (Accounted => Accounted'))
<1>1. CASE Doing
  BY <1>1, DoingKeeps, OrderlyKeeps
<1>2. CASE Reconcile
  BY <1>2, ReadCounterKeeps, VoidStaleKeeps, CountRowsKeeps, SummarizeKeeps, CorrectKeeps DEF Reconcile
<1>3. CASE WindowEnds \/ \E d \in Delivery : GoesStale(d)
  BY <1>3, WindowEndsKeeps, GoesStaleKeeps
<1>4. CASE UNCHANGED vars
  <2>1. UNCHANGED <<counter, ledger, ledgerRecent, rows, req, job, worker, rec, lost, faults>>
    BY <1>4 DEF vars
  <2>2. Typed'
    BY <2>1 DEF Typed, LedgerOK
  <2>3. InFlight' = InFlight /\ Reserved' = Reserved
    BY <2>1, NothingMoves
  <2> QED
    BY <2>1, <2>2, <2>3 DEF Accounted, Conservation, WindowOK, Flagged, RecOK, Trusted
<1>5. Next => Doing \/ Reconcile \/ WindowEnds \/ \E d \in Delivery : GoesStale(d)
  BY DEF Next, Mishap, Doing
<1> QED
  BY <1>1, <1>2, <1>3, <1>4, <1>5

\* What the types say of the counter, the ledger, the requests, the jobs, the
\* workers and the reconciler, with and without a batch whose failure does not
\* say what it stored; and an entry with capacity left in it is open: settle and
\* the reconciler empty what they close (usageReservationRepository.settle).
THEOREM TypeInvariant == Spec => []TypeOK
<1>1. Init => Typed
  BY InitInv DEF IInv
<1>2. Typed /\ [Next]_vars => Typed'
  BY NextKeeps
<1>3. Typed => TypeOK
  BY DEF Typed, TypeOK, LedgerOK
<1> QED
  BY <1>1, <1>2, <1>3, PTL DEF Spec

\* The invariant, where every failed batch says how many rows it stored.
LEMMA Invariant ==
  ASSUME "blind" \notin Faults
  PROVE  Spec => []IInv
<1>1. Init => IInv
  BY InitInv
<1>2. IInv /\ [Next]_vars => IInv'
  BY NextKeeps DEF IInv
<1> QED
  BY <1>1, <1>2, PTL DEF Spec

\* Capacity is neither lost nor counted twice, whatever crashes, redeliveries,
\* refused enqueues, failed releases and reconciliations come between reserve,
\* draw, checkAndConsume, giveBack, release and settle: the counter is the rows
\* stored, what the ledger, requests and workers hold, and what was abandoned.
THEOREM CapacityConserved ==
  ASSUME "blind" \notin Faults
  PROVE  Spec => []Conservation
<1>1. IInv => Conservation
  BY DEF IInv, Accounted
<1> QED
  BY <1>1, Invariant, PTL

\* incrementWithinLimit is a hard limit: the counter is never past it, and never
\* below the rows stored, so a tenant never stores more than its plan allows.
THEOREM PlanHolds ==
  ASSUME "blind" \notin Faults
  PROVE  Spec => []WithinPlan
<1>1. ASSUME IInv PROVE WithinPlan
  <2>1. counter.value = Cardinality(rows) + Reserved + InFlight + lost /\ lost >= 0
    BY <1>1 DEF IInv, Accounted, Conservation
  <2>2. Cardinality(rows) \in Nat /\ Reserved \in Nat /\ InFlight \in Nat /\ lost \in Int
    BY <1>1, SumsNat, RowsNat DEF IInv, Typed
  <2>3. NoRowUncounted
    BY <2>1, <2>2 DEF NoRowUncounted
  <2> QED
    BY <1>1, <2>3 DEF WithinPlan, IInv, Accounted
<1> QED
  BY <1>1, Invariant, PTL
=============================================================================
