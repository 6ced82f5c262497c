----------------------------- MODULE QuoteProofs ------------------------------
(*************************************************************************)
(* Proofs about the stock quotes and what is served beside them.         *)
(* QuotePoll, for any symbols, slice, interval and number of adds and    *)
(* removals: the types, that a tick that ends has stored what it was     *)
(* served, and that the turn of everybody in the tail comes. QuoteRows,  *)
(* for any market clock, calendar, lags and bars: the types, and that the*)
(* price a row holds, the close it is compared with and its open are of  *)
(* the row's own session or of a trade the row may carry. MCSessions, of *)
(* which the index board is one part: the board settles in every run of  *)
(* all the parts.                                                        *)
(*************************************************************************)
EXTENDS MCSessions, IndexBoardProofs, FiniteSetTheorems

(***************************************************************************)
(* The poll of the quotes.                                                 *)
(***************************************************************************)

\* A row's id is new when the row is made: an id read at the start of a tick is of
\* that row or of one that is gone for good.
IdsAreFresh ==
    \A s \in Symbols : stock[s] <= changes + 1 /\ tick.ids[s] <= changes + 1

\* The tick only ever has to do with symbols that had a row when it began.
ServedHadRow ==
    /\ tick.ids \in [Symbols -> Nat] /\ tick.id \in Nat
    /\ \A s \in tick.served : s \in Symbols /\ tick.ids[s] # 0

\* What is no longer to be written has been, or its row is not the one read.
WrittenOrGone ==
    tick.pc \in {"find", "upsert", "done"} =>
        /\ tick.left \subseteq tick.served
        /\ tick.pc = "upsert" => tick.of \in tick.left
        /\ tick.pc = "done" => tick.left = {}
        /\ \A s \in tick.served \ tick.left : stock[s] = tick.ids[s] => read[s] = ticks

\* A tick of the poll, at each of its steps.
Ticks == [pc : Phases, ids : [Symbols -> Nat], served : SUBSET Symbols,
          left : SUBSET Symbols, of : Symbols \cup {0}, id : Nat]

\* The inductive invariant of the poll.
PollInv == PollTypeOK /\ tick \in Ticks /\ IdsAreFresh /\ ServedHadRow /\ WrittenOrGone

---------------------------------------------------------------------------

\* The number of symbols missing is a number.
LEMMA MissingCount == Cardinality(Missing) \in Nat
<1>1. Missing \in SUBSET Symbols
  BY DEF Missing, Wanted
<1>2. IsFiniteSet(Missing)
  BY <1>1, PollAssumption, FS_Subset
<1>3. QED
  BY <1>2, FS_CardinalityType

\* The cursor stays a number.
LEMMA CursorType == ASSUME cursor \in Nat PROVE cursorAfter \in Nat
<1> DEFINE n == Cardinality(Missing)
<1>1. n \in Nat /\ Slice \in Nat
  BY MissingCount, PollAssumption
<1> HIDE DEF n
<1>2. ASSUME n > Slice PROVE ((cursor % n) + Slice) % n \in Nat
  <2>1. cursor % n \in Nat
    BY <1>1, <1>2
  <2> DEFINE k == (cursor % n) + Slice
  <2>2. k \in Nat
    BY <1>1, <2>1
  <2> HIDE DEF k
  <2>3. k % n \in Nat
    BY <1>1, <1>2, <2>2
  <2>4. QED
    BY <2>3 DEF k
<1>3. QED
  BY <1>2 DEF cursorAfter, Rotates, n

\* A symbol a tick asks for by itself has a row, and its bulk answer is missing.
LEMMA TargetsMissing == Targets \subseteq Symbols /\ \A s \in Targets : tick.ids[s] # 0
BY DEF Targets, Missing, Wanted

\* The poll starts in the invariant.
LEMMA InitPollInv == InitPoll => PollInv
<1> SUFFICES ASSUME InitPoll PROVE PollInv
  OBVIOUS
<1>1. Quiet \in Ticks
  BY DEF Quiet, Ticks, Phases
<1>2. PollTypeOK
  BY <1>1, PollAssumption DEF InitPoll, PollTypeOK, Quiet, Phases
<1>3. QED
  BY <1>1, <1>2, PollAssumption DEF InitPoll, PollInv, IdsAreFresh, ServedHadRow, WrittenOrGone, Quiet

---------------------------------------------------------------------------

\* Every step keeps the invariant.
LEMMA StepPollInv ==
    ASSUME PollInv, [NextPoll]_pollVars PROVE PollInv'
<1> USE PollAssumption DEF PollInv
<1>1. CASE StartPoll
  <2>1. tick' = [pc |-> "series", ids |-> stock, served |-> {}, left |-> {}, of |-> 0, id |-> 0]
    BY <1>1 DEF StartPoll, Quiet
  <2>2. stock \in [Symbols -> Nat]
    BY DEF PollTypeOK
  <2>3. tick' \in Ticks
    BY <2>1, <2>2 DEF Ticks, Phases
  <2>4. PollTypeOK'
    <3>1. ticks' \in 0..MaxTicks /\ sinceSeries' \in 0..MinInterval
      BY <1>1 DEF StartPoll, PollTypeOK
    <3>2. tick'.pc \in Phases /\ tick'.served \subseteq Symbols /\ tick'.left \subseteq Symbols
      BY <2>3 DEF Ticks
    <3>3. UNCHANGED <<stock, changes, cursor, read, tail, waited>>
      BY <1>1 DEF StartPoll
    <3>4. QED
      BY <3>1, <3>2, <3>3 DEF PollTypeOK
  <2>5. IdsAreFresh'
    <3>1. stock' = stock /\ changes' = changes /\ tick'.ids = stock
      BY <1>1, <2>1 DEF StartPoll
    <3>2. QED
      BY <3>1 DEF IdsAreFresh
  <2>6. ServedHadRow' /\ WrittenOrGone'
    BY <2>1, <2>2 DEF ServedHadRow, WrittenOrGone
  <2>7. QED
    BY <2>3, <2>4, <2>5, <2>6
<1>2. CASE ReadSeries
  <2>1. \/ tick' = [tick EXCEPT !.pc = "ticker"]
        \/ \E S \in SUBSET Wanted : tick' = [tick EXCEPT !.pc = "ticker", !.served = S]
    BY <1>2 DEF ReadSeries, fetchMany
  <2>2. /\ tick' \in Ticks /\ tick'.pc = "ticker" /\ tick'.ids = tick.ids /\ tick'.id = tick.id
        /\ tick'.served = tick.served \/ tick'.served \subseteq Wanted
    <3>1. CASE tick' = [tick EXCEPT !.pc = "ticker"]
      BY <3>1 DEF Ticks, Phases
    <3>2. ASSUME NEW S \in SUBSET Wanted, tick' = [tick EXCEPT !.pc = "ticker", !.served = S]
          PROVE  tick' \in Ticks /\ tick'.pc = "ticker" /\ tick'.ids = tick.ids
                 /\ tick'.id = tick.id /\ tick'.served \subseteq Wanted
      <4>1. S \in SUBSET Symbols
        BY <3>2 DEF Wanted
      <4>2. tick'.served = S
        BY <3>2 DEF Ticks
      <4>3. QED
        BY <3>2, <4>1, <4>2 DEF Ticks, Phases
    <3>3. QED
      BY <2>1, <3>1, <3>2
  <2>3. PollTypeOK'
    <3>1. sinceSeries' = 0 \/ sinceSeries' = sinceSeries
      BY <1>2 DEF ReadSeries
    <3>2. sinceSeries' \in 0..MinInterval
      BY <3>1 DEF PollTypeOK
    <3>3. UNCHANGED <<stock, changes, cursor, ticks, read, tail, waited>>
      BY <1>2 DEF ReadSeries
    <3>4. QED
      BY <2>2, <3>2, <3>3 DEF PollTypeOK, Ticks
  <2>4. IdsAreFresh' /\ ServedHadRow' /\ WrittenOrGone'
    BY <1>2, <2>2 DEF ReadSeries, IdsAreFresh, ServedHadRow, WrittenOrGone, Ticks, Wanted
  <2>5. QED
    BY <2>2, <2>3, <2>4
<1>3. CASE ReadTicker
  <2>1. PICK S \in SUBSET Missing :
            tick' = [tick EXCEPT !.pc = "perSymbol", !.served = tick.served \cup S]
    BY <1>3 DEF ReadTicker, fetchSarmaayaTicker
  <2>2. /\ tick' \in Ticks /\ tick'.pc = "perSymbol" /\ tick'.ids = tick.ids /\ tick'.id = tick.id
        /\ tick'.served = tick.served \cup S
    BY <2>1 DEF Ticks, Phases, Missing, Wanted
  <2>3. PollTypeOK'
    BY <1>3, <2>2 DEF ReadTicker, PollTypeOK, Ticks
  <2>4. IdsAreFresh' /\ ServedHadRow' /\ WrittenOrGone'
    BY <1>3, <2>2 DEF ReadTicker, IdsAreFresh, ServedHadRow, WrittenOrGone, Ticks, Wanted, Missing
  <2>5. QED
    BY <2>2, <2>3, <2>4
<1>4. CASE ReadPerSymbol
  <2>1. PICK S \in SUBSET Targets :
            tick' = [tick EXCEPT !.pc = IF tick.served \cup S = {} THEN "idle" ELSE "find",
                                 !.served = tick.served \cup S, !.left = tick.served \cup S]
    BY <1>4 DEF ReadPerSymbol, fetchSarmaayaQuotes
  <2>2. tick' \in Ticks /\ tick'.ids = tick.ids /\ tick'.served = tick.served \cup S
        /\ tick'.left = tick'.served /\ tick'.pc \in {"idle", "find"}
    BY <2>1, TargetsMissing DEF Ticks, Phases
  <2>3. PollTypeOK'
    <3>1. cursor' \in Nat
      BY <1>4, CursorType DEF ReadPerSymbol, PollTypeOK
    <3>2. tail' \subseteq Symbols /\ waited' \in [Symbols -> Nat]
      BY <1>4 DEF ReadPerSymbol, PollTypeOK, Missing, Wanted
    <3>3. QED
      BY <1>4, <2>2, <3>1, <3>2 DEF ReadPerSymbol, PollTypeOK, Ticks
  <2>4. IdsAreFresh' /\ ServedHadRow' /\ WrittenOrGone'
    BY <1>4, <2>2, TargetsMissing
    DEF ReadPerSymbol, IdsAreFresh, ServedHadRow, WrittenOrGone, Ticks
  <2>5. QED
    BY <2>2, <2>3, <2>4
<1>5. CASE FindStock
  <2> USE <1>5 DEF FindStock
  <2>1. CASE tick.left = {}
    <3>1. tick' = [tick EXCEPT !.pc = "done"] /\ tick' \in Ticks
      BY <2>1 DEF Ticks, Phases
    <3>2. PollTypeOK'
      BY <3>1 DEF PollTypeOK, Ticks
    <3>3. IdsAreFresh' /\ ServedHadRow' /\ WrittenOrGone'
      BY <2>1, <3>1 DEF IdsAreFresh, ServedHadRow, WrittenOrGone, Ticks
    <3>4. QED
      BY <3>1, <3>2, <3>3
  <2>2. ASSUME NEW s \in tick.left, stock[s] = 0, tick' = [tick EXCEPT !.left = tick.left \ {s}]
        PROVE  PollInv'
    <3>1. tick' \in Ticks
      BY <2>2 DEF Ticks
    <3>2. PollTypeOK'
      BY <3>1 DEF PollTypeOK, Ticks
    <3>3. IdsAreFresh' /\ ServedHadRow' /\ WrittenOrGone'
      BY <2>2, <3>1 DEF IdsAreFresh, ServedHadRow, WrittenOrGone, Ticks
    <3>4. QED
      BY <3>1, <3>2, <3>3
  <2>3. ASSUME NEW s \in tick.left,
               tick' = [tick EXCEPT !.pc = "upsert", !.of = s, !.id = stock[s]]
        PROVE  PollInv'
    <3>1. /\ tick' \in Ticks /\ tick'.ids = tick.ids /\ tick'.served = tick.served
          /\ tick'.left = tick.left /\ tick'.pc = "upsert" /\ tick'.of = s /\ tick.pc = "find"
      <4>1. tick.pc = "find"
        BY <1>5
      <4> HIDE <1>5
      <4>2. s \in Symbols /\ stock[s] \in Nat
        <5>1. s \in Symbols
          BY DEF PollTypeOK
        <5>2. stock \in [Symbols -> Nat]
          BY DEF PollTypeOK
        <5>3. QED
          BY <5>1, <5>2
      <4>3. QED
        BY <2>3, <4>1, <4>2 DEF Ticks, Phases
    <3>2. PollTypeOK'
      BY <3>1 DEF PollTypeOK, Ticks
    <3>3. IdsAreFresh' /\ ServedHadRow' /\ WrittenOrGone'
      BY <2>3, <3>1 DEF IdsAreFresh, ServedHadRow, WrittenOrGone, Ticks
    <3>4. QED
      BY <3>1, <3>2, <3>3
  <2>4. QED
    BY <2>1, <2>2, <2>3
<1>6. CASE UpsertPrice
  <2>1. tick.pc = "upsert" /\ tick.of \in tick.left /\ tick.of \in Symbols
    BY <1>6 DEF UpsertPrice, WrittenOrGone, Ticks
  <2>2. CASE stock[tick.of] = tick.id
    <3>1. /\ tick' = [tick EXCEPT !.pc = "find", !.left = tick.left \ {tick.of}]
          /\ read' = [read EXCEPT ![tick.of] = ticks]
      BY <1>6, <2>2 DEF UpsertPrice
    <3>2. tick' \in Ticks
      BY <3>1 DEF Ticks, Phases
    <3>3. PollTypeOK'
      BY <1>6, <2>1, <3>1, <3>2 DEF UpsertPrice, PollTypeOK, Ticks
    <3>4. IdsAreFresh' /\ ServedHadRow' /\ WrittenOrGone'
      BY <1>6, <2>1, <3>1, <3>2
      DEF UpsertPrice, IdsAreFresh, ServedHadRow, WrittenOrGone, Ticks, PollTypeOK
    <3>5. QED
      BY <3>2, <3>3, <3>4
  <2>3. CASE stock[tick.of] # tick.id
    <3>1. tick' = [tick EXCEPT !.pc = "idle"] /\ read' = read /\ tick' \in Ticks
      BY <1>6, <2>3 DEF UpsertPrice, Ticks, Phases
    <3>2. PollTypeOK'
      BY <1>6, <3>1 DEF UpsertPrice, PollTypeOK, Ticks
    <3>3. IdsAreFresh' /\ ServedHadRow' /\ WrittenOrGone'
      BY <1>6, <3>1 DEF UpsertPrice, IdsAreFresh, ServedHadRow, WrittenOrGone, Ticks
    <3>4. QED
      BY <3>1, <3>2, <3>3
  <2>4. QED
    BY <2>2, <2>3
<1>7. ASSUME NEW s \in Symbols, RemoveStock(s) PROVE PollInv'
  <2>1. /\ stock' = [stock EXCEPT ![s] = 0] /\ read' = [read EXCEPT ![s] = 0]
        /\ changes' = changes + 1 /\ changes < MaxChanges /\ tick' = tick
    BY <1>7 DEF RemoveStock
  <2>2. PollTypeOK'
    BY <1>7, <2>1 DEF RemoveStock, PollTypeOK
  <2>3. IdsAreFresh'
    BY <2>1, <2>2 DEF IdsAreFresh, PollTypeOK, Ticks
  <2>4. ServedHadRow' /\ WrittenOrGone'
    BY <1>7, <2>1 DEF RemoveStock, ServedHadRow, WrittenOrGone, PollTypeOK
  <2>5. QED
    BY <2>1, <2>2, <2>3, <2>4
<1>8. ASSUME NEW s \in Symbols, AddStock(s) PROVE PollInv'
  <2>1. /\ stock' = [stock EXCEPT ![s] = changes + 2] /\ read' = read
        /\ changes' = changes + 1 /\ changes < MaxChanges /\ tick' = tick
    BY <1>8 DEF AddStock
  <2>2. PollTypeOK'
    BY <1>8, <2>1 DEF AddStock, PollTypeOK
  <2>3. IdsAreFresh'
    BY <2>1 DEF IdsAreFresh, PollTypeOK, Ticks
  <2>4. stock'[s] # tick.ids[s]
    BY <2>1 DEF IdsAreFresh, PollTypeOK, Ticks
  <2>5. ServedHadRow' /\ WrittenOrGone'
    BY <1>8, <2>1, <2>4 DEF AddStock, ServedHadRow, WrittenOrGone, PollTypeOK
  <2>6. QED
    BY <2>1, <2>2, <2>3, <2>5
<1>9. CASE UNCHANGED pollVars
  BY <1>9 DEF pollVars, PollTypeOK, IdsAreFresh, ServedHadRow, WrittenOrGone
<1>10. QED
  BY <1>1, <1>2, <1>3, <1>4, <1>5, <1>6, <1>7, <1>8, <1>9 DEF NextPoll

\* The invariant holds throughout.
LEMMA PollAlways == PollSpec => []PollInv
<1>1. PollInv /\ [NextPoll]_pollVars => PollInv'
  BY StepPollInv
<1>2. QED
  BY InitPollInv, <1>1, PTL DEF PollSpec

\* The poll's variables keep their types; the cursor stays a number whatever length
\* the tails have.
THEOREM PollTypes == PollSpec => []PollTypeOK
<1>1. PollInv => PollTypeOK
  BY DEF PollInv
<1>2. QED
  BY PollAlways, <1>1, PTL

\* A tick that ends has stored the reading of every symbol it was served whose row
\* is still the one it began with, for any symbols, slice and interleaving with the
\* API's adds and removals.
THEOREM ServedStored == PollSpec => []ServedIsStored
<1>1. PollInv => ServedIsStored
  BY DEF PollInv, WrittenOrGone, ServedIsStored
<1>2. QED
  BY PollAlways, <1>1, PTL

\* A number below twice n, and what is left of it.
LEMMA Wraps ==
    ASSUME NEW n \in Nat, n > 0, NEW a \in Nat, a < 2 * n
    PROVE  a % n = IF a < n THEN a ELSE a - n
<1>1. CASE a < n
  BY <1>1
<1>2. CASE a >= n
  BY <1>2
<1> QED
  BY <1>1, <1>2

\* What is left of any number.
LEMMA Remains == ASSUME NEW n \in Nat, n > 0, NEW a \in Nat PROVE a % n \in Nat /\ a % n < n
OBVIOUS

\* Fewer than the ticks that slices of S take to cover n.
LEMMA Covers ==
    ASSUME NEW n \in Nat, NEW S \in Nat, S > 0, NEW w \in Nat, w * S < n
    PROVE  w < CeilDiv(n, S)
<1> DEFINE q == CeilDiv(n, S)
<1>1. q \in Int /\ q * S + S > n + S - 1
  BY DEF CeilDiv
<1> HIDE DEF q
<1>2. q * S > n - 1
  <2>1. q * S \in Int
    BY <1>1
  <2> QED
    BY <1>1, <2>1
<1>3. ASSUME w >= q PROVE FALSE
  <2>1. w * S >= q * S
    BY <1>1, <1>3
  <2> QED
    BY <1>1, <1>2, <2>1
<1> QED
  BY <1>1, <1>3 DEF q

\* A set of symbols is finite, and a place in it is below its size.
LEMMA Places ==
    ASSUME NEW M \in SUBSET Symbols
    PROVE  /\ Cardinality(M) \in Nat
           /\ \A s \in M : Place(s, M) \in Nat /\ Place(s, M) < Cardinality(M)
<1>1. IsFiniteSet(M)
  BY PollAssumption, FS_Subset
<1>2. ASSUME NEW s \in M PROVE Place(s, M) \in Nat /\ Place(s, M) < Cardinality(M)
  <2> DEFINE before == {r \in M : r < s}
  <2>1. before \subseteq M /\ s \notin before
    BY PollAssumption
  <2>2. IsFiniteSet(before) /\ Cardinality(before) \in Nat
        /\ Cardinality(before) <= Cardinality(M)
        /\ (Cardinality(before) = Cardinality(M) => before = M)
    BY <1>1, <2>1, FS_Subset, FS_CardinalityType
  <2>3. Cardinality(M) \in Nat
    BY <1>1, FS_CardinalityType
  <2>4. Cardinality(before) # Cardinality(M)
    BY <2>1, <2>2
  <2>5. Cardinality(before) < Cardinality(M)
    <3> HIDE DEF before
    <3> QED
      BY <2>2, <2>3, <2>4
  <2> QED
    BY <2>2, <2>5 DEF Place
<1> QED
  BY <1>1, <1>2, FS_CardinalityType

\* How far a symbol of the tail is from where the next slice starts.
Distance(s) == (Place(s, tail) + Cardinality(tail) - cursor) % Cardinality(tail)

\* A symbol that has waited is of a tail that is rotated, and the slices since have
\* brought the cursor that much nearer.
TurnComes ==
    \A s \in Symbols : waited[s] > 0 =>
        /\ Slice > 0 /\ Cardinality(tail) > Slice /\ s \in tail
        /\ cursor < Cardinality(tail)
        /\ waited[s] * Slice + Distance(s) < Cardinality(tail)

\* A slice that does not reach a symbol brings the next one nearer by its length.
LEMMA SliceBringsNearer ==
    ASSUME NEW n \in Nat, NEW S \in Nat, S > 0, n > S, NEW start \in Nat, start < n,
           NEW p \in Nat, p < n, ~((p + n - start) % n < S)
    PROVE  LET next == (start + S) % n IN
           /\ next \in Nat /\ next < n
           /\ (p + n - next) % n = ((p + n - start) % n) - S
           /\ (p + n - start) % n < n
<1> DEFINE next == (start + S) % n
           d == (p + n - start) % n
<1>1. next = IF start + S < n THEN start + S ELSE start + S - n
  <2>1. start + S \in Nat /\ start + S < 2 * n
    OBVIOUS
  <2> DEFINE a == start + S
  <2> HIDE DEF a
  <2> QED
    BY <2>1, Wraps DEF a
<1>2. d = IF p < start THEN p + n - start ELSE p - start
  <2>1. p + n - start \in Nat /\ p + n - start < 2 * n
    OBVIOUS
  <2>2. (p + n - start) % n = IF p + n - start < n THEN p + n - start ELSE p + n - start - n
    BY <2>1, Wraps
  <2> QED
    BY <2>2
<1>3. next \in Nat /\ next < n
  BY <1>1
<1> HIDE DEF next, d
<1>4. (p + n - next) % n = IF p < next THEN p + n - next ELSE p - next
  <2> DEFINE e == p + n - next
  <2>1. e \in Nat /\ e < 2 * n
    BY <1>3
  <2>2. e = p + n - next
    OBVIOUS
  <2> HIDE DEF e
  <2>3. e % n = IF e < n THEN e ELSE e - n
    BY <2>1, Wraps
  <2>4. e % n = IF p < next THEN p + n - next ELSE p - next
    BY <1>3, <2>2, <2>3
  <2> QED
    BY <2>4 DEF e
<1>5. ~(d < S)
  BY DEF d
<1>6. (p + n - next) % n = d - S /\ d < n
  BY <1>1, <1>2, <1>3, <1>4, <1>5
<1> QED
  BY <1>3, <1>6 DEF next, d

\* Nobody has waited yet.
LEMMA NobodyWaits == InitPoll => TurnComes
BY DEF InitPoll, TurnComes

\* Every step keeps the turns.
LEMMA TurnStep ==
    ASSUME PollInv, TurnComes, [NextPoll]_pollVars PROVE TurnComes'
<1>0. /\ tail \in SUBSET Symbols /\ cursor \in Nat /\ waited \in [Symbols -> Nat]
      /\ Slice \in Nat /\ Missing \in SUBSET Symbols /\ Cardinality(Missing) \in Nat
  BY PollAssumption, MissingCount DEF PollInv, PollTypeOK, Missing, Wanted
<1>1. ASSUME UNCHANGED <<cursor, tail, waited>> PROVE TurnComes'
  BY <1>1 DEF TurnComes, Distance, Place
<1>2. ASSUME ReadPerSymbol PROVE TurnComes'
  <2> DEFINE n == Cardinality(Missing)
             start == cursor % n
  <2>1. /\ cursor' = cursorAfter /\ tail' = Missing
        /\ waited' = [s \in Symbols |->
              IF ~Rotates \/ s \in Targets \/ s \notin Missing THEN 0
              ELSE 1 + (IF tail = Missing THEN waited[s] ELSE 0)]
    BY <1>2 DEF ReadPerSymbol
  <2>2. ASSUME NEW s \in Symbols, waited'[s] > 0
        PROVE  /\ Slice > 0 /\ Cardinality(tail') > Slice /\ s \in tail'
               /\ cursor' < Cardinality(tail')
               /\ waited'[s] * Slice + Distance(s)' < Cardinality(tail')
    <3>1. Rotates /\ s \notin Targets /\ s \in Missing
          /\ waited'[s] = 1 + (IF tail = Missing THEN waited[s] ELSE 0)
      BY <2>1, <2>2
    <3>2. Slice > 0 /\ n > Slice /\ n \in Nat /\ n > 0
      BY <1>0, <3>1 DEF Rotates
    <3>3. start \in Nat /\ start < n
      <4> HIDE DEF n
      <4> QED
        BY <1>0, <3>2, Remains
    <3>4. Place(s, Missing) \in Nat /\ Place(s, Missing) < n
      BY <1>0, <3>1, Places
    <3> DEFINE p == Place(s, Missing)
               next == (start + Slice) % n
               d == (p + n - start) % n
               after == (p + n - next) % n
    <3>5. cursor' = next
      BY <2>1, <3>1 DEF cursorAfter
    <3>6. ~(d < Slice)
      BY <3>1 DEF Targets
    <3>7. Distance(s)' = after
      BY <2>1, <3>5 DEF Distance, Place
    <3> HIDE DEF n, start, p
    <3>8. next \in Nat /\ next < n /\ after = d - Slice /\ d < n /\ d \in Nat
      <4>1. next \in Nat /\ next < n /\ after = d - Slice /\ d < n
        BY <1>0, <3>2, <3>3, <3>4, <3>6, SliceBringsNearer DEF p
      <4>2. p + n - start \in Nat
        BY <3>2, <3>3, <3>4 DEF p
      <4>3. d \in Nat
        <5> DEFINE a == p + n - start
        <5> HIDE DEF a
        <5>1. a % n \in Nat
          BY <3>2, <4>2, Remains DEF a
        <5> QED
          BY <5>1 DEF a
      <4> QED
        BY <4>1, <4>3
    <3> HIDE DEF next, d, after
    <3>9. waited'[s] * Slice + after < n
      <4>1. CASE tail = Missing /\ waited[s] > 0
        <5>1. cursor < n /\ waited[s] * Slice + Distance(s) < n
          BY <2>2, <4>1 DEF TurnComes, n
        <5>2. start = cursor
          BY <1>0, <3>2, <5>1, Wraps DEF start
        <5>3. Distance(s) = d
          BY <4>1, <5>2 DEF Distance, d, p, n
        <5>4. waited[s] \in Nat /\ waited'[s] = waited[s] + 1
          BY <1>0, <2>2, <3>1, <4>1
        <5> DEFINE w == waited[s]
        <5>5. w \in Nat /\ w * Slice \in Nat /\ (w + 1) * Slice = w * Slice + Slice
          BY <1>0, <5>4
        <5>6. waited'[s] * Slice = (w + 1) * Slice
          BY <5>4
        <5>7. w * Slice + d < n
          BY <5>1, <5>3
        <5> DEFINE product == w * Slice
        <5>8. product \in Nat /\ product + d < n /\ (w + 1) * Slice = product + Slice
          BY <5>5, <5>7
        <5> HIDE DEF product, w
        <5> QED
          BY <1>0, <3>2, <3>8, <5>6, <5>8
      <4>2. CASE ~(tail = Missing /\ waited[s] > 0)
        <5>1. waited'[s] = 1
          BY <1>0, <2>2, <3>1, <4>2
        <5> QED
          BY <1>0, <3>2, <3>8, <5>1
      <4> QED
        BY <4>1, <4>2
    <3> QED
      BY <2>1, <3>1, <3>2, <3>5, <3>7, <3>8, <3>9 DEF n
  <2> QED
    BY <2>2 DEF TurnComes
<1>3. ASSUME ~ReadPerSymbol PROVE UNCHANGED <<cursor, tail, waited>>
  BY <1>3 DEF NextPoll, pollVars, StartPoll, ReadSeries, ReadTicker, FindStock, UpsertPrice,
              RemoveStock, AddStock
<1> QED
  BY <1>1, <1>2, <1>3

\* No symbol of a tail that stays the same waits as long as the slices take to go round:
\* the cursor, taken modulo the tail, passes over nobody.
THEOREM EveryTurnComes == PollSpec => []AskedInTurn
<1>1. PollInv /\ TurnComes => AskedInTurn
  <2> SUFFICES ASSUME PollInv, TurnComes, NEW s \in Symbols, waited[s] > 0
               PROVE  waited[s] < CeilDiv(Cardinality(tail), Slice)
    BY DEF AskedInTurn
  <2> DEFINE n == Cardinality(tail)
             w == waited[s]
  <2>1. Slice > 0 /\ n > Slice /\ cursor < n /\ w * Slice + Distance(s) < n
    BY DEF TurnComes
  <2>2. /\ w \in Nat /\ Slice \in Nat /\ cursor \in Nat /\ tail \in SUBSET Symbols
    BY PollAssumption DEF PollInv, PollTypeOK
  <2>3. n \in Nat /\ Place(s, tail) \in Nat /\ Place(s, tail) < n
    BY <2>2, Places DEF TurnComes
  <2>4. Distance(s) \in Nat
    <3> DEFINE a == Place(s, tail) + n - cursor
    <3> HIDE DEF n
    <3>1. a \in Nat
      BY <2>1, <2>2, <2>3
    <3> HIDE DEF a
    <3>2. a % n \in Nat
      BY <2>1, <2>2, <2>3, <3>1, Remains
    <3> QED
      BY <3>2 DEF Distance, a, n
  <2> HIDE DEF n, w
  <2>5. w * Slice \in Nat
    BY <2>2
  <2>6. w * Slice < n
    <3> DEFINE product == w * Slice
    <3> HIDE DEF product
    <3>1. product < n
      BY <2>1, <2>3, <2>4, <2>5 DEF product
    <3> QED
      BY <3>1 DEF product
  <2> QED
    BY <2>1, <2>2, <2>3, <2>6, Covers DEF n, w
<1>2. InitPoll => TurnComes
  BY NobodyWaits
<1>3. PollInv /\ TurnComes /\ [NextPoll]_pollVars => TurnComes'
  BY TurnStep
<1> QED
  BY <1>1, <1>2, <1>3, PollAlways, PTL DEF PollSpec

---------------------------------------------------------------------------
(***************************************************************************)
(* The rows the quotes are kept in.                                        *)
(***************************************************************************)

\* And the change the page gives is against the close of the session before.
LEMMA ChangeIsOfTheSession ==
    ASSUME NEW t \in Nat, NEW s \in Sessions, First(s) <= t,
           \A e \in Sessions : e <= dayOf(t) => e <= s
    PROVE  ChangeIsFrom(t) = closeBefore(s)
<1>1. /\ s \in Nat /\ s * DayLength \in Nat /\ PageTurnsAt \in Nat
      /\ PageTurnsAt <= TradeFrom /\ TradeFrom \in Nat
  BY SessionDays, DayLengths, MarketAssumption, MarkerAssumption
<1>2. s * DayLength + PageTurnsAt <= t
  BY <1>1 DEF First
<1>3. \A e \in Sessions : e * DayLength + PageTurnsAt <= t => e <= s
  <2> SUFFICES ASSUME NEW d \in Sessions, d * DayLength + PageTurnsAt <= t PROVE d <= s
    OBVIOUS
  <2>1. d \in Nat /\ 0 \in 0..(DayLength - 1) /\ d * DayLength \in Nat
    BY SessionDays, DayLengths
  <2>2. dayOf(d * DayLength + 0) = d /\ d * DayLength + 0 <= t
    BY <1>1, <2>1, MomentIsOfItsDay
  <2>3. d <= dayOf(t)
    BY <2>1, <2>2, DaysAreOrdered
  <2> QED
    BY <2>1, <2>3
<1>4. described(t) = s
  BY <1>2, <1>3, DescribedSession
<1> QED
  BY <1>4 DEF ChangeIsFrom, closeBefore

\* The closes a change may be against are moments.
LEMMA CloseBeforeIsAMoment ==
    ASSUME NEW d \in Days PROVE closeBefore(d) \in Moments
<1>1. 0 \in Moments
  BY MarketAssumption, DayLengths DEF Moments
<1>2. CASE d # 0
  <2> DEFINE E == {e \in Sessions : e < d}
  <2>0. d \in Nat /\ 0 \in Sessions /\ Sessions \subseteq Nat
    BY SessionDays
  <2>a. 0 < d
    BY <1>2, <2>0
  <2>b. 0 \in E /\ E \in SUBSET Nat
    BY <2>0, <2>a
  <2>c. \A e \in E : e <= d
    BY <2>0
  <2>1. 0 \in E /\ E \in SUBSET Nat /\ \A e \in E : e <= d
    BY <2>b, <2>c
  <2>2. d \in Nat /\ E # {}
    BY <2>1, SessionDays
  <2>3. Latest(E) \in E
    <3> HIDE DEF E
    <3> QED
      BY <2>1, <2>2, LatestOf
  <2>4. SessionBefore(d) \in Days
    BY <2>3, SessionDays DEF SessionBefore
  <2>5. SettledAt \in Nat /\ SettledAt <= DayLength
    BY MarketAssumption
  <2> QED
    BY <1>2, <2>4, <2>5, MomentOfDay DEF closeBefore, Close
<1> QED
  BY <1>1, <1>2 DEF closeBefore

\* What a row can be keyed by.
Stamps == {t \in Nat : t <= TheEnd}

\* A session's marker is a moment of its day.
LEMMA MarkerIsOfItsDay ==
    ASSUME NEW d \in Days
    PROVE  marker(d) \in Stamps /\ dayOf(marker(d)) = d /\ tickOf(marker(d)) = Marker
<1>1. d \in Nat /\ Marker \in 0..(DayLength - 1) /\ Marker <= DayLength /\ Marker \in Nat
      /\ d <= Horizon /\ Horizon \in Nat /\ DayLength \in Nat
  BY SessionDays, QuoteAssumption, MarketAssumption
<1>2. /\ d * DayLength + DayLength <= (Horizon + 1) * DayLength /\ d * DayLength \in Nat
      /\ (Horizon + 1) * DayLength \in Nat
  BY <1>1, DayLengths
<1>3. marker(d) \in Stamps
  BY <1>1, <1>2 DEF marker, Stamps, TheEnd
<1> QED
  BY <1>1, <1>3, MomentIsOfItsDay DEF marker

\* A stamp is a moment of one of the days.
LEMMA StampsAreMoments ==
    /\ Stamps \subseteq Moments /\ Present \subseteq Stamps /\ Stamps \subseteq Nat
    /\ \A t \in Stamps : dayOf(t) \in Days
<1>1. Horizon \in Nat /\ DayLength \in Nat /\ (Horizon + 1) * DayLength \in Nat
  BY MarketAssumption, DayLengths
<1>2. Stamps \subseteq Moments /\ Present \subseteq Stamps /\ Stamps \subseteq Nat
  BY <1>1 DEF Stamps, Moments, Present, TheEnd
<1>3. ASSUME NEW t \in Stamps PROVE dayOf(t) \in Days
  <2>1. /\ t \in Nat /\ dayOf(t) \in Nat /\ tickOf(t) \in 0..(DayLength - 1)
        /\ t = dayOf(t) * DayLength + tickOf(t) /\ dayOf(t) * DayLength \in Nat
    BY <1>2, DayAndTick, DayLengths
  <2>2. Horizon + 1 <= dayOf(t) => (Horizon + 1) * DayLength <= dayOf(t) * DayLength
    BY <1>1, <2>1, DayLengths
  <2> QED
    BY <1>1, <2>1, <2>2 DEF Stamps, TheEnd, Days
<1> QED
  BY <1>2, <1>3

\* Going back a day keeps the tick.
LEMMA DayBefore ==
    ASSUME NEW k \in Nat, NEW w \in Nat
    PROVE  /\ tickOf(k + w * DayLength) = tickOf(k) /\ w * DayLength \in Nat
           /\ (w + 1) * DayLength = w * DayLength + DayLength
           /\ dayOf(k) # 0 => /\ k - DayLength \in Nat
                              /\ tickOf(k - DayLength) = tickOf(k)
                              /\ dayOf(k - DayLength) = dayOf(k) - 1
<1>1. /\ dayOf(k) \in Nat /\ tickOf(k) \in 0..(DayLength - 1) /\ k = dayOf(k) * DayLength + tickOf(k)
      /\ DayLength \in Nat /\ dayOf(k) * DayLength \in Nat /\ w * DayLength \in Nat
  BY DayAndTick, DayLengths, MarketAssumption
<1>2. tickOf(k + w * DayLength) = tickOf(k)
  <2>1. (dayOf(k) + w) * DayLength = dayOf(k) * DayLength + w * DayLength
    BY <1>1, SMT
  <2>2. k + w * DayLength = (dayOf(k) + w) * DayLength + tickOf(k)
    BY <1>1, <2>1
  <2>3. dayOf(k) + w \in Nat
    BY <1>1
  <2> QED
    BY <1>1, <2>2, <2>3, MomentIsOfItsDay
<1>3. (w + 1) * DayLength = w * DayLength + DayLength
  BY <1>1, SMT
<1>4. ASSUME dayOf(k) # 0
      PROVE  /\ k - DayLength \in Nat /\ tickOf(k - DayLength) = tickOf(k)
             /\ dayOf(k - DayLength) = dayOf(k) - 1
  <2> DEFINE d == dayOf(k) - 1
  <2>1. d \in Nat /\ dayOf(k) = d + 1
    BY <1>1, <1>4
  <2>2. (d + 1) * DayLength = d * DayLength + DayLength /\ d * DayLength \in Nat
    BY <1>1, <2>1, DayLengths, SMT
  <2>3. k - DayLength = d * DayLength + tickOf(k)
    <3> HIDE DEF d
    <3>1. k = (d + 1) * DayLength + tickOf(k)
      BY <1>1, <2>1
    <3>2. tickOf(k) \in Nat
      BY <1>1
    <3> QED
      BY <1>1, <2>2, <3>1, <3>2
  <2>4. dayOf(k - DayLength) = d /\ tickOf(k - DayLength) = tickOf(k)
    BY <1>1, <2>1, <2>3, MomentIsOfItsDay
  <2> QED
    BY <1>1, <2>2, <2>3, <2>4
<1> QED
  BY <1>1, <1>2, <1>3, <1>4

---------------------------------------------------------------------------
\* What a row, a quote on its way, a scrape and a candle hold.
QuoteRow == [price : Moments, from : Moments, open : Moments]
PollRow == {Resting} \cup [pc : {"write"}, asOf : Nat, key : Stamps, price : Moments,
                           from : Moments, open : Moments]
SyncRow == {Resting}
    \cup [pc : {"clamp", "verify", "write"}, asOf : Nat, key : Stamps, walked : Nat,
          price : Moments, from : Moments, open : Moments]
BarRow == {Resting} \cup [pc : {"fetch"}, asOf : Present, price : Moments]
                    \cup [pc : {"write"}, asOf : Present]

\* Figures of one session: what was traded in it, and the close before it.
OfSession(d, r) ==
    /\ dayOf(r.price) = d
    /\ r.open # 0 => dayOf(r.open) = d
    /\ r.from # 0 => r.from = closeBefore(d)

\* The rows of the markers, as long as the calendar could be read.
RowsFit ==
    faults = 0 => \A k \in Moments : tickOf(k) = Marker /\ quotes[k] # NoQuote
                                        => OfSession(dayOf(k), quotes[k])

\* A quote on its way is of the session its key is of.
PollFits == poll # Resting => tickOf(poll.key) = Marker /\ OfSession(dayOf(poll.key), poll)

\* A walk back that started at a marker has not passed the session its price is of, and
\* has the days left to reach it.
Walking(s) ==
    LET d == dayOf(s.price)
    IN /\ s.key + s.walked * DayLength \in Stamps
       /\ tickOf(s.key) = Marker =>
             /\ OfSession(d, s) /\ d \in Sessions
             /\ d <= dayOf(s.key) /\ \A e \in Sessions : e <= dayOf(s.key) => e <= d
             /\ dayOf(s.key) + s.walked - d < MaxWalk

\* A scrape is of the session it walks back to, and then of its key's.
SyncFits(s) ==
    /\ s.pc = "clamp" => Walking(s)
    /\ s.pc \in {"verify", "write"} /\ faults = 0 /\ tickOf(s.key) = Marker
          => OfSession(dayOf(s.key), s)

\* The inductive invariant of the rows.
QuotesInv ==
    /\ now \in Present /\ faults \in Nat /\ pages \in 0..MaxPages
    /\ quotes \in [Moments -> QuoteRow] /\ poll \in PollRow /\ bar \in BarRow
    /\ sync \in [Lanes -> SyncRow]
    /\ RowsFit /\ PollFits /\ \A l \in Lanes : SyncFits(sync[l])

\* The marks of the day are numbers, and the sessions are days.
LEMMA QuoteNumbers ==
    /\ Marker \in 0..(DayLength - 1) /\ MaxWalk \in Nat \ {0} /\ MaxPages \in Nat
    /\ 0 \in Moments /\ Moments \subseteq Nat /\ DayLength \in Nat
    /\ \A d \in Days : First(d) \in Moments
    /\ \A d \in Days : (d \in Weekdays \ Listed) <=> d \in Sessions
    /\ \A t \in Present : t \in Moments /\ dayOf(t) \in Days
<1>1. 0 \in Moments /\ Moments \subseteq Nat /\ DayLength \in Nat
  BY MarketAssumption, DayLengths DEF Moments
<1>2. \A d \in Days : First(d) \in Moments
  BY MarketAssumption, MomentOfDay DEF First
<1> QED
  BY <1>1, <1>2, QuoteAssumption, MarkerAssumption, PresentFacts

\* What a page or a tick can show now.
LEMMA ShownIsReadable ==
    ASSUME now \in Present, NEW of \in Shown
    PROVE  /\ of \in Readable /\ of \in Nat /\ of <= now /\ now <= TheEnd
           /\ tickOf(now) = Marker => First(dayOf(now)) <= of
<1>1. PICK lag \in QuoteLags : of = now - lag /\ of \in Nat
  BY DEF Shown
<1>2. /\ lag \in Nat /\ lag <= Marker - TradeFrom /\ Marker \in Nat /\ Marker < DayLength
      /\ TradeFrom \in Nat /\ PageTurnsAt \in Nat /\ PageTurnsAt <= TradeFrom
      /\ now \in Nat /\ DayLength <= now /\ now <= TheEnd /\ DayLength \in Nat
      /\ Horizon \in Nat
  BY QuoteAssumption, MarkerAssumption, MarketAssumption DEF Present
<1>3. TheEnd \in Int
  <2>1. (Horizon + 1) * DayLength \in Nat
    BY <1>2, DayLengths
  <2> QED
    BY <2>1 DEF TheEnd
<1>4. of <= now /\ of <= TheEnd /\ PageTurnsAt <= of
  BY <1>1, <1>2, <1>3
<1>5. tickOf(now) = Marker => First(dayOf(now)) <= of
  <2>1. now = dayOf(now) * DayLength + tickOf(now) /\ dayOf(now) * DayLength \in Nat
    BY <1>2, DayAndTick, DayLengths
  <2> QED
    BY <1>1, <1>2, <2>1 DEF First
<1> QED
  BY <1>1, <1>2, <1>4, <1>5 DEF Readable

\* The rows start in the invariant.
LEMMA QuotesStart == InitQuotes => QuotesInv
<1> SUFFICES ASSUME InitQuotes PROVE QuotesInv
  OBVIOUS
<1>1. now \in Present
  <2>1. Horizon \in Nat \ {0} /\ DayLength \in Nat
    BY MarketAssumption
  <2>2. 1 * DayLength = DayLength /\ 1 * DayLength + DayLength <= (Horizon + 1) * DayLength
        /\ (Horizon + 1) * DayLength \in Nat /\ DayLength > 0
    BY <2>1, DayLengths
  <2> QED
    BY <2>1, <2>2 DEF InitQuotes, Present, TheEnd
<1>2. 0 \in Days /\ 0 * DayLength = 0 /\ TradeFrom \in Nat /\ SettledAt \in Nat
      /\ TradeFrom <= DayLength /\ SettledAt <= DayLength
  BY MarketAssumption DEF Days
<1>3. Close(0) \in Moments /\ TradeFrom \in Moments /\ First(0) = TradeFrom
  BY <1>2, MomentOfDay DEF Close, First
<1>4. quotes \in [Moments -> QuoteRow]
  BY <1>3, QuoteNumbers DEF InitQuotes, QuoteRow, NoQuote
<1>5. RowsFit
  <2> SUFFICES ASSUME NEW k \in Moments, quotes[k] # NoQuote
               PROVE  OfSession(dayOf(k), quotes[k])
    BY DEF RowsFit
  <2>1. k = Marker /\ quotes[k] = [price |-> Close(0), from |-> 0, open |-> TradeFrom]
    BY DEF InitQuotes
  <2>2. dayOf(Marker) = 0
    <3>1. marker(0) = Marker
      BY <1>2, QuoteNumbers DEF marker
    <3> QED
      BY <1>2, <3>1, MarkerIsOfItsDay
  <2>3. dayOf(Close(0)) = 0 /\ dayOf(TradeFrom) = 0
    BY <1>2, <1>3, SessionDays
  <2> QED
    BY <2>1, <2>2, <2>3 DEF OfSession
<1>6. poll \in PollRow /\ bar \in BarRow /\ sync \in [Lanes -> SyncRow] /\ PollFits
      /\ faults \in Nat /\ pages \in 0..MaxPages
  BY QuoteNumbers DEF InitQuotes, PollRow, BarRow, SyncRow, PollFits
<1>7. \A l \in Lanes : SyncFits(sync[l])
  BY DEF InitQuotes, SyncFits, Resting
<1> QED
  BY <1>1, <1>4, <1>5, <1>6, <1>7 DEF QuotesInv

\* Faults are only added.
LEMMA CalendarAnswers ==
    ASSUME faults \in Nat, NEW d \in Days, NEW state \in States, CalendarSays(d, state)
    PROVE  /\ faults' \in Nat /\ (faults' = 0 => faults = 0 /\ state # "unknown")
           /\ state = "trading" => d \in Sessions
           /\ state \in {"weekend", "holiday"} => d \notin Sessions
<1>1. Sessions = Weekdays \ Listed /\ Sessions \subseteq Weekdays
  BY MarketAssumption, MarkerAssumption
<1>2. faults' \in Nat /\ (faults' = 0 => faults = 0 /\ state # "unknown")
  BY DEF CalendarSays, Fault
<1>3. /\ state = "trading" => d \in Sessions
      /\ state \in {"weekend", "holiday"} => d \notin Sessions
  BY <1>1 DEF CalendarSays, Fault
<1> QED
  BY <1>2, <1>3

\* A quote is read: its key and its figures are of one session.
LEMMA PollTickStep == QuotesInv /\ PollTick => QuotesInv'
<1> SUFFICES ASSUME QuotesInv, PollTick PROVE QuotesInv'
  OBVIOUS
<1> USE DEF QuotesInv
<1>1. PICK of \in Shown, statesOpen \in BOOLEAN :
         poll' = [pc |-> "write", asOf |-> now, key |-> rowOf(Level(of)), price |-> Level(of),
                  from |-> closeBefore(dayOf(Level(of))),
                  open |-> IF statesOpen THEN First(dayOf(Level(of))) ELSE 0]
  BY DEF PollTick
<1> DEFINE p == Level(of)
           d == dayOf(p)
<1>2. of \in Nat /\ of <= TheEnd
  <2>1. of \in Nat /\ of <= now /\ now <= TheEnd /\ now \in Nat
    BY ShownIsReadable DEF Present
  <2>2. TheEnd \in Int
    BY MarketAssumption, DayLengths DEF TheEnd
  <2> QED
    BY <2>1, <2>2
<1>3. p \in Moments /\ d \in Sessions /\ d \in Days
  BY <1>2, LevelIsTraded, SessionDays
<1>4. /\ marker(d) \in Stamps /\ dayOf(marker(d)) = d /\ tickOf(marker(d)) = Marker
      /\ closeBefore(d) \in Moments /\ First(d) \in Moments /\ dayOf(First(d)) = d /\ 0 \in Moments
  BY <1>3, MarkerIsOfItsDay, CloseBeforeIsAMoment, QuoteNumbers, SessionDays
<1> HIDE DEF d, p
<1>5. \E open \in Moments :
         /\ open # 0 => dayOf(open) = d
         /\ poll' = [pc |-> "write", asOf |-> now, key |-> marker(d), price |-> p,
                     from |-> closeBefore(d), open |-> open]
  <2>1. PICK open \in {0, First(d)} :
           poll' = [pc |-> "write", asOf |-> now, key |-> marker(d), price |-> p,
                     from |-> closeBefore(d), open |-> open]
    BY <1>1 DEF d, p, rowOf
  <2> QED
    BY <1>4, <2>1
<1>6. poll' \in PollRow /\ PollFits'
  <2>1. now \in Nat /\ dayOf(p) = d
    BY DEF Present, d
  <2> QED
    BY <1>3, <1>4, <1>5, <2>1 DEF PollRow, PollFits, OfSession
<1> QED
  BY <1>6 DEF PollTick, RowsFit, SyncFits, Walking, OfSession

\* A quote is written on the row of its session.
LEMMA UpsertStep == QuotesInv /\ upsertQuoteSnapshot => QuotesInv'
<1> SUFFICES ASSUME QuotesInv, upsertQuoteSnapshot PROVE QuotesInv'
  OBVIOUS
<1> USE DEF QuotesInv
<1>1. /\ poll # Resting /\ poll \in [pc : {"write"}, asOf : Nat, key : Stamps, price : Moments,
                                     from : Moments, open : Moments]
      /\ poll' = Resting /\ UNCHANGED <<now, faults, sync, bar, pages>>
  BY DEF upsertQuoteSnapshot, PollRow, Resting
<1>2. poll.key \in Stamps /\ tickOf(poll.key) = Marker /\ OfSession(dayOf(poll.key), poll)
  BY <1>1 DEF PollFits
<1> DEFINE k == poll.key
           row == [price |-> poll.price, from |-> poll.from,
                   open |-> IF poll.open = 0 THEN quotes[k].open ELSE poll.open]
<1>3. quotes' = [quotes EXCEPT ![k] = row] /\ quotes[k] \in QuoteRow
  BY <1>1, StampsAreMoments DEF upsertQuoteSnapshot
<1>4. row \in QuoteRow
  <2>1. quotes[k].open \in Moments /\ poll.open \in Moments /\ poll.price \in Moments
        /\ poll.from \in Moments
    BY <1>1, <1>3 DEF QuoteRow
  <2> QED
    BY <2>1 DEF QuoteRow
<1>5. faults = 0 => OfSession(dayOf(k), row)
  <2> SUFFICES ASSUME faults = 0 PROVE OfSession(dayOf(k), row)
    OBVIOUS
  <2>1. CASE poll.open = 0
    <3>1. quotes[k].open # 0 => dayOf(quotes[k].open) = dayOf(k)
      <4>1. quotes[k] = NoQuote => quotes[k].open = 0
        BY DEF NoQuote
      <4> QED
        BY <1>2, <4>1, StampsAreMoments DEF RowsFit, OfSession
    <3> QED
      BY <1>2, <2>1, <3>1 DEF OfSession
  <2>2. CASE poll.open # 0
    BY <1>2, <2>2 DEF OfSession
  <2> QED
    BY <2>1, <2>2
<1> HIDE DEF row, k
<1>6. quotes' \in [Moments -> QuoteRow] /\ RowsFit'
  BY <1>1, <1>3, <1>4, <1>5 DEF RowsFit, OfSession
<1>7. poll' \in PollRow /\ PollFits'
  BY <1>1 DEF PollRow, PollFits
<1> QED
  BY <1>1, <1>6, <1>7 DEF SyncFits, Walking, OfSession

\* What a step of one lane leaves to show.
LEMMA LaneStep ==
    ASSUME QuotesInv, NEW l \in Lanes, NEW s, sync' = [sync EXCEPT ![l] = s],
           s \in SyncRow, SyncFits(s)', faults' \in Nat, faults' = 0 => faults = 0,
           UNCHANGED <<now, poll, bar>>, pages' \in 0..MaxPages,
           quotes' \in [Moments -> QuoteRow], RowsFit'
    PROVE  QuotesInv'
<1> USE DEF QuotesInv
<1>1. sync' \in [Lanes -> SyncRow]
  OBVIOUS
<1>2. \A m \in Lanes : SyncFits(sync[m])'
  <2> SUFFICES ASSUME NEW m \in Lanes PROVE SyncFits(sync[m])'
    OBVIOUS
  <2>1. CASE m = l
    <3>1. sync'[m] = s
      BY <2>1
    <3> QED
      BY <3>1 DEF SyncFits, Walking, OfSession
  <2>2. CASE m # l
    <3>1. sync'[m] = sync[m] /\ SyncFits(sync[m])
      BY <2>2
    <3> QED
      BY <3>1 DEF SyncFits, Walking, OfSession
  <2> QED
    BY <2>1, <2>2
<1>3. PollFits'
  BY DEF PollFits, OfSession
<1> QED
  BY <1>1, <1>2, <1>3

\* A symbol is scraped: what is stated of the session is of its date.
LEMMA ScrapeStep == ASSUME QuotesInv, NEW l \in Lanes, scrapeSymbol(l) PROVE QuotesInv'
<1> USE DEF QuotesInv
<1>1. PICK provider \in Providers, of \in Shown, statesOpen \in BOOLEAN :
          sync' = [sync EXCEPT ![l] =
             [pc |-> "clamp", asOf |-> now, key |-> stampOf(provider, of), walked |-> 0,
              price |-> Level(of),
              from |-> IF provider = "psx" THEN ChangeIsFrom(of) ELSE closeBefore(dayOf(Level(of))),
              open |-> IF statesOpen THEN First(dayOf(Level(of))) ELSE 0]]
  BY DEF scrapeSymbol
<1> DEFINE p == Level(of)
           d == dayOf(p)
           key == stampOf(provider, of)
           from == IF provider = "psx" THEN ChangeIsFrom(of) ELSE closeBefore(d)
           open == IF statesOpen THEN First(d) ELSE 0
           s == [pc |-> "clamp", asOf |-> now, key |-> key, walked |-> 0, price |-> p,
                 from |-> from, open |-> open]
<1>2. of \in Readable /\ of \in Nat /\ of <= TheEnd /\ now \in Nat /\ now <= TheEnd /\ of <= now
  <2>1. of \in Readable /\ of \in Nat /\ of <= now /\ now <= TheEnd /\ now \in Nat
    BY ShownIsReadable DEF Present
  <2>2. TheEnd \in Int
    BY MarketAssumption, DayLengths DEF TheEnd
  <2> QED
    BY <2>1, <2>2
<1>3. p \in Moments /\ d \in Sessions /\ d \in Days /\ d \in Nat
  BY <1>2, LevelIsTraded, SessionDays
<1>4. /\ marker(d) \in Stamps /\ dayOf(marker(d)) = d /\ tickOf(marker(d)) = Marker
      /\ closeBefore(d) \in Moments /\ First(d) \in Moments /\ dayOf(First(d)) = d
      /\ 0 \in Moments /\ ChangeIsFrom(of) \in Moments /\ now \in Stamps /\ dayOf(now) \in Days
  BY <1>2, <1>3, MarkerIsOfItsDay, CloseBeforeIsAMoment, ChangeBound, QuoteNumbers, SessionDays, StampsAreMoments
<1> HIDE DEF p, d
<1>5. open \in Moments /\ (open # 0 => dayOf(open) = d) /\ from \in Moments
  BY <1>4
<1>6. key \in Stamps
  BY <1>4 DEF stampOf, rowOf, p, d
<1>7. tickOf(key) = Marker =>
        /\ (from # 0 => from = closeBefore(d)) /\ d <= dayOf(key)
        /\ (\A e \in Sessions : e <= dayOf(key) => e <= d)
        /\ dayOf(key) - d < MaxWalk
  <2>1. CASE provider # "psx"
    <3>1. key = marker(d) /\ from = closeBefore(d)
      BY <2>1 DEF stampOf, rowOf, p, d
    <3>2. d <= d /\ d - d < MaxWalk
      BY <1>3, QuoteNumbers
    <3>3. dayOf(key) = d
      BY <3>1, <1>4
    <3> QED
      BY <3>1, <3>2, <3>3
  <2>2. CASE provider = "psx"
    <3>1. key = now /\ from = ChangeIsFrom(of)
      BY <2>2 DEF stampOf
    <3>2. SUFFICES ASSUME tickOf(now) = Marker
                   PROVE  /\ (from # 0 => from = closeBefore(d)) /\ d <= dayOf(now)
                          /\ (\A e \in Sessions : e <= dayOf(now) => e <= d)
                          /\ dayOf(now) - d < MaxWalk
      BY <3>1
    <3>3. First(dayOf(now)) <= of
      BY <3>2, ShownIsReadable
    <3>4. PICK t \in Sessions : t <= dayOf(now) /\ dayOf(now) - t < MaxWalk
      BY <1>4, MarkerAssumption
    <3> DEFINE E == {e \in Sessions : e <= dayOf(now)}
               u == Latest(E)
    <3>5. u \in E /\ \A e \in E : e <= u
      <4>1. E \in SUBSET Nat /\ E # {} /\ dayOf(now) \in Nat
        BY <1>4, <3>4, SessionDays
      <4> HIDE DEF E
      <4> QED
        BY <4>1, LatestOf DEF E
    <3> HIDE DEF u
    <3>6. u \in Sessions /\ u <= dayOf(now) /\ t <= u /\ u \in Nat /\ t \in Nat /\ dayOf(now) \in Nat
      BY <3>4, <3>5, <1>4, SessionDays
    <3>7. First(u) <= of
      <4>1. /\ u * DayLength <= dayOf(now) * DayLength /\ u * DayLength \in Nat
            /\ dayOf(now) * DayLength \in Nat
        BY <3>6, DayLengths
      <4>2. First(u) <= First(dayOf(now)) /\ First(u) \in Nat /\ First(dayOf(now)) \in Nat
        BY <4>1, MarketAssumption DEF First
      <4> QED
        BY <1>2, <3>3, <4>2
    <3>8. \A e \in Sessions : e <= dayOf(of) => e <= u
      <4>1. dayOf(of) <= dayOf(now) /\ dayOf(of) \in Nat
        BY <1>2, DaysAreOrdered, DayAndTick
      <4>2. \A e \in Sessions : e \in Nat
        BY SessionDays
      <4> QED
        BY <3>5, <3>6, <4>1, <4>2
    <3>9. d = u
      BY <1>2, <3>6, <3>7, <3>8, LevelIsOfTheSession DEF d, p
    <3>10. from = closeBefore(d)
      BY <1>2, <3>1, <3>6, <3>7, <3>8, <3>9, ChangeIsOfTheSession
    <3>11. dayOf(now) - d < MaxWalk
      BY <3>4, <3>6, <3>9, QuoteNumbers
    <3>12. \A e \in Sessions : e <= dayOf(now) => e <= d
      BY <3>5, <3>9
    <3> QED
      BY <3>6, <3>9, <3>10, <3>11, <3>12
  <2> QED
    BY <2>1, <2>2
<1>8. sync' = [sync EXCEPT ![l] = [pc |-> "clamp", asOf |-> now, key |-> key, walked |-> 0,
                                    price |-> p, from |-> from, open |-> open]]
  BY <1>1 DEF key, from, open, d, p
<1> HIDE DEF key, from, open
<1>9. PICK at \in Stamps, asOf \in Nat, of0 \in Moments, open0 \in Moments :
          at = key /\ asOf = now /\ of0 = from /\ open0 = open
  BY <1>2, <1>5, <1>6
<1> DEFINE r == [pc |-> "clamp", asOf |-> asOf, key |-> at, walked |-> 0, price |-> p,
                 from |-> of0, open |-> open0]
<1>10. sync' = [sync EXCEPT ![l] = r]
  BY <1>8, <1>9
<1>11. r \in SyncRow
  BY <1>3, <1>9 DEF SyncRow
<1>12. SyncFits(r)'
  <2>1. at + 0 * DayLength = at /\ dayOf(at) + 0 = dayOf(at)
    <3>1. at \in Nat
      BY StampsAreMoments
    <3>2. 0 * DayLength = 0 /\ dayOf(at) \in Nat
      BY <3>1, QuoteNumbers, DayAndTick
    <3> QED
      BY <3>1, <3>2
  <2>2. OfSession(d, r) <=> /\ (open0 # 0 => dayOf(open0) = d)
                            /\ (of0 # 0 => of0 = closeBefore(d))
    BY DEF OfSession, d
  <2>3. Walking(r)
    <3>1. r.key = at /\ r.walked = 0 /\ dayOf(r.price) = d
      BY DEF d
    <3>2. tickOf(at) = Marker => OfSession(d, r) /\ dayOf(at) - d < MaxWalk
      <4>1. open0 # 0 => dayOf(open0) = d
        BY <1>5, <1>9
      <4>2. tickOf(at) = Marker => (of0 # 0 => of0 = closeBefore(d)) /\ dayOf(at) - d < MaxWalk
        BY <1>7, <1>9
      <4> HIDE DEF r
      <4> QED
        BY <4>1, <4>2, <2>2
    <3> HIDE DEF r
    <3>3. at + 0 * DayLength \in Stamps
      <4>1. at \in Stamps
        OBVIOUS
      <4> QED
        BY <2>1, <4>1, Zenon
    <3>4. dayOf(at) + 0 - d = dayOf(at) - d
      <4>1. dayOf(at) \in Nat /\ d \in Nat
        BY <1>3, StampsAreMoments, DayAndTick
      <4> HIDE DEF d
      <4> QED
        BY <4>1
    <3> QED
      BY <1>3, <1>7, <1>9, <3>1, <3>2, <3>3, <3>4 DEF Walking
  <2>4. Walking(r)'
    BY <2>3 DEF Walking, OfSession
  <2> QED
    BY <2>4 DEF SyncFits
<1>13. RowsFit' /\ quotes' \in [Moments -> QuoteRow] /\ pages' \in 0..MaxPages
       /\ faults' \in Nat /\ (faults' = 0 => faults = 0) /\ UNCHANGED <<now, poll, bar>>
  BY QuoteNumbers DEF scrapeSymbol, RowsFit, OfSession
<1> HIDE DEF r
<1> QED
  BY <1>10, <1>11, <1>12, <1>13, LaneStep

\* The stamp of a scrape is brought back to a session, one day at a time.
LEMMA ClampStep == ASSUME QuotesInv, NEW l \in Lanes, clampSessionStamp(l) PROVE QuotesInv'
<1> USE DEF QuotesInv
<1>1. PICK s \in SyncRow : s = sync[l]
  OBVIOUS
<1> DEFINE back == s.key - DayLength
<1>2. PICK state \in States :
        /\ CalendarSays(dayOf(s.key), state)
        /\ sync' = [sync EXCEPT ![l] =
             CASE state \in {"trading", "unknown"} -> [s EXCEPT !.pc = "verify"]
               [] state \in {"weekend", "holiday"} /\ s.walked + 1 = MaxWalk ->
                    [s EXCEPT !.pc = "verify", !.key = @ + s.walked * DayLength]
               [] OTHER -> [s EXCEPT !.key = back, !.walked = @ + 1]]
  BY <1>1 DEF clampSessionStamp
<1>3. /\ s \in [pc : {"clamp"}, asOf : Nat, key : Stamps, walked : Nat, price : Moments,
                from : Moments, open : Moments]
      /\ Walking(s) /\ s.pc = "clamp"
  BY <1>1 DEF clampSessionStamp, SyncFits, SyncRow, Resting
<1> DEFINE d == dayOf(s.price)
           e == dayOf(s.key)
<1>4. /\ s.key \in Nat /\ s.key \in Stamps /\ e \in Days /\ e \in Nat /\ s.walked \in Nat
      /\ DayLength \in Nat /\ MaxWalk \in Nat
  <2>1. s.key \in Stamps /\ s.walked \in Nat
    BY <1>3
  <2>2. e \in Days /\ s.key \in Nat
    BY <2>1, StampsAreMoments
  <2> QED
    BY <2>1, <2>2, QuoteNumbers, SessionDays
<1>5. /\ faults' \in Nat /\ (faults' = 0 => faults = 0 /\ state # "unknown")
      /\ state = "trading" => e \in Sessions
      /\ state \in {"weekend", "holiday"} => e \notin Sessions
  BY <1>2, <1>4, CalendarAnswers
<1>6. /\ tickOf(s.key + s.walked * DayLength) = tickOf(s.key)
      /\ (s.walked + 1) * DayLength = s.walked * DayLength + DayLength
      /\ s.walked * DayLength \in Nat
      /\ e # 0 => /\ back \in Nat /\ tickOf(back) = tickOf(s.key) /\ dayOf(back) = e - 1
  BY <1>4, DayBefore
<1>7. RowsFit' /\ quotes' \in [Moments -> QuoteRow] /\ pages' \in 0..MaxPages
      /\ UNCHANGED <<now, poll, bar>>
  BY <1>5 DEF clampSessionStamp, RowsFit, OfSession
<1>8. ASSUME NEW r \in SyncRow, sync' = [sync EXCEPT ![l] = r], SyncFits(r)' PROVE QuotesInv'
  BY <1>5, <1>7, <1>8, LaneStep
<1> HIDE DEF d, e, back
<1>a. s.key + s.walked * DayLength \in Stamps
  BY <1>3 DEF Walking
<1>b. ASSUME tickOf(s.key) = Marker
      PROVE  /\ OfSession(d, s) /\ d \in Sessions /\ d <= e
             /\ (\A f \in Sessions : f <= e => f <= d) /\ e + s.walked - d < MaxWalk /\ d \in Nat
  BY <1>3, <1>b, SessionDays DEF Walking, d, e
<1>9. CASE state \in {"trading", "unknown"}
  <2> DEFINE r == [s EXCEPT !.pc = "verify"]
  <2>1. r \in SyncRow
    BY <1>3 DEF SyncRow
  <2>2. SyncFits(r)'
    <3> SUFFICES ASSUME faults' = 0, tickOf(s.key) = Marker PROVE OfSession(e, s)
      BY <1>3 DEF SyncFits, OfSession, e
    <3>1. e = d
      BY <1>4, <1>5, <1>9, <1>b
    <3> QED
      BY <3>1, <1>b
  <2>3. sync' = [sync EXCEPT ![l] = r]
    BY <1>2, <1>9
  <2> QED
    BY <2>1, <2>2, <2>3, <1>8
<1>10. CASE state \in {"weekend", "holiday"} /\ s.walked + 1 = MaxWalk
  <2> DEFINE key == s.key + s.walked * DayLength
             r == [s EXCEPT !.pc = "verify", !.key = key]
  <2>1. r \in SyncRow
    BY <1>3, <1>a DEF SyncRow
  <2>2. SyncFits(r)'
    <3> SUFFICES ASSUME tickOf(s.key) = Marker PROVE FALSE
      BY <1>3, <1>6 DEF SyncFits
    <3>1. d # e
      BY <1>5, <1>10, <1>b
    <3>2. d + 1 <= e
      BY <1>4, <1>b, <3>1
    <3> QED
      BY <1>4, <1>10, <1>b, <3>2
  <2>3. sync' = [sync EXCEPT ![l] = r]
    BY <1>2, <1>10
  <2> QED
    BY <2>1, <2>2, <2>3, <1>8
<1>11. CASE state \in {"weekend", "holiday"} /\ s.walked + 1 # MaxWalk
  <2> DEFINE w == s.walked + 1
             r == [s EXCEPT !.key = back, !.walked = w]
  <2>0. e # 0
    BY <1>5, <1>11, MarketAssumption
  <2>1. back \in Stamps /\ w \in Nat /\ back + w * DayLength = s.key + s.walked * DayLength
    <3>1. back \in Nat /\ back = s.key - DayLength
      BY <2>0, <1>6 DEF back
    <3>2. TheEnd \in Int /\ s.key <= TheEnd
      BY <1>4, MarketAssumption, DayLengths DEF Stamps, TheEnd
    <3>3. back \in Stamps
      BY <1>4, <3>1, <3>2 DEF Stamps
    <3>4. back + (s.walked + 1) * DayLength = s.key + s.walked * DayLength
      BY <1>4, <1>6, <3>1
    <3> QED
      BY <1>4, <3>3, <3>4
  <2>2. r \in SyncRow
    BY <1>3, <2>1 DEF SyncRow
  <2>3. SyncFits(r)'
    <3>1. tickOf(back) = tickOf(s.key) /\ dayOf(back) = e - 1
      BY <2>0, <1>6
    <3>2. ASSUME tickOf(s.key) = Marker
          PROVE  /\ OfSession(d, s) /\ d \in Sessions /\ d <= e - 1
                 /\ (\A f \in Sessions : f <= e - 1 => f <= d) /\ e - 1 + w - d < MaxWalk
      <4>1. d # e
        BY <1>5, <1>11, <1>b, <3>2
      <4>2. \A f \in Sessions : f \in Nat
        BY SessionDays
      <4>3. d <= e - 1 /\ e - 1 + w - d < MaxWalk
        BY <1>4, <1>b, <3>2, <4>1
      <4> QED
        BY <1>4, <1>b, <3>2, <4>2, <4>3
    <3>3. r.pc = "clamp" /\ r.key = back /\ r.walked = w /\ r.price = s.price
          /\ r.open = s.open /\ r.from = s.from
      BY <1>3
    <3> HIDE DEF r, w
    <3>4. Walking(r)
      BY <2>1, <1>a, <3>1, <3>2, <3>3 DEF Walking, OfSession, d
    <3>5. Walking(r)'
      BY <3>4 DEF Walking, OfSession
    <3> QED
      BY <3>3, <3>5 DEF SyncFits
  <2>4. sync' = [sync EXCEPT ![l] = r]
    BY <1>2, <1>3, <1>11 DEF back
  <2> QED
    BY <2>2, <2>3, <2>4, <1>8
<1> QED
  BY <1>9, <1>10, <1>11 DEF States

\* A scrape is checked against the close stored before it.
LEMMA VerifyStep == ASSUME QuotesInv, NEW l \in Lanes, verifyQuote(l) PROVE QuotesInv'
<1> USE DEF QuotesInv
<1>1. PICK s \in SyncRow : s = sync[l]
  OBVIOUS
<1>2. /\ s \in [pc : {"verify"}, asOf : Nat, key : Stamps, walked : Nat, price : Moments,
                from : Moments, open : Moments]
      /\ faults = 0 /\ tickOf(s.key) = Marker => OfSession(dayOf(s.key), s)
  BY <1>1 DEF verifyQuote, SyncFits, SyncRow, Resting
<1>3. PICK r \in SyncRow :
        /\ sync' = [sync EXCEPT ![l] = r]
        /\ r = Resting \/ (r.pc = "write" /\ r.key = s.key /\ r.price = s.price
                           /\ r.open = s.open /\ r.from \in {0, s.from})
  <2> DEFINE close == previousCloseBefore(s.key)
             r == IF ~(dayOf(now) - dayOf(s.key) <= MaxQuoteAge) THEN Resting
                  ELSE [s EXCEPT !.pc = "write", !.from = IF close \in {0, s.from} THEN s.from ELSE 0]
  <2>1. sync' = [sync EXCEPT ![l] = r]
    BY <1>1, <1>2 DEF verifyQuote
  <2>2. r = Resting \/ r \in [pc : {"write"}, asOf : Nat, key : Stamps, walked : Nat,
                              price : Moments, from : Moments, open : Moments]
    BY <1>2, QuoteNumbers
  <2>3. r = Resting \/ (r.pc = "write" /\ r.key = s.key /\ r.price = s.price
                        /\ r.open = s.open /\ r.from \in {0, s.from})
    BY <1>2
  <2>4. r \in SyncRow
    BY <2>2 DEF SyncRow
  <2> HIDE DEF r
  <2> QED
    BY <2>1, <2>3, <2>4
<1>4. SyncFits(r)'
  <2>1. CASE r = Resting
    BY <2>1 DEF SyncFits, Resting
  <2>2. CASE r # Resting
    BY <1>2, <1>3, <2>2 DEF verifyQuote, SyncFits, OfSession
  <2> QED
    BY <2>1, <2>2
<1>5. RowsFit' /\ quotes' \in [Moments -> QuoteRow] /\ pages' \in 0..MaxPages
      /\ faults' \in Nat /\ (faults' = 0 => faults = 0) /\ UNCHANGED <<now, poll, bar>>
  BY DEF verifyQuote, RowsFit, OfSession
<1> QED
  BY <1>3, <1>4, <1>5, LaneStep

\* A scrape is written on the row of its session.
LEMMA PersistStep == ASSUME QuotesInv, NEW l \in Lanes, persistScrapeResult(l) PROVE QuotesInv'
<1> USE DEF QuotesInv
<1>1. PICK s \in SyncRow : s = sync[l]
  OBVIOUS
<1>2. /\ s \in [pc : {"write"}, asOf : Nat, key : Stamps, walked : Nat, price : Moments,
                from : Moments, open : Moments]
      /\ faults = 0 /\ tickOf(s.key) = Marker => OfSession(dayOf(s.key), s)
  BY <1>1 DEF persistScrapeResult, SyncFits, SyncRow, Resting
<1> DEFINE row == [price |-> s.price, from |-> s.from, open |-> s.open]
<1>3. quotes' = [quotes EXCEPT ![s.key] = row] /\ sync' = [sync EXCEPT ![l] = Resting]
  BY <1>1 DEF persistScrapeResult
<1>4. row \in QuoteRow
  BY <1>2 DEF QuoteRow
<1>5. faults = 0 /\ tickOf(s.key) = Marker => OfSession(dayOf(s.key), row)
  BY <1>2 DEF OfSession
<1>6. s.key \in Moments
  BY <1>2, StampsAreMoments
<1> HIDE DEF row
<1>7. quotes' \in [Moments -> QuoteRow]
  BY <1>3, <1>4
<1>8. RowsFit'
  BY <1>3, <1>5, <1>6 DEF persistScrapeResult, RowsFit, OfSession
<1>9. Resting \in SyncRow /\ SyncFits(Resting)'
  BY DEF SyncRow, SyncFits, Resting
<1> QED
  BY <1>3, <1>7, <1>8, <1>9, LaneStep DEF persistScrapeResult

\* The candle of a session is asked for, and arrives.
LEMMA BarStep == QuotesInv /\ (StartBar \/ FetchBar) => QuotesInv'
<1> SUFFICES ASSUME QuotesInv, StartBar \/ FetchBar PROVE QuotesInv'
  OBVIOUS
<1> USE DEF QuotesInv
<1>1. bar' \in BarRow /\ faults' \in Nat /\ (faults' = 0 => faults = 0)
      /\ UNCHANGED <<now, quotes, poll, sync, pages>>
  <2>1. CASE StartBar
    <3>1. marker(dayOf(now)) \in Moments /\ dayOf(now) \in Days
      BY QuoteNumbers, MarkerIsOfItsDay, StampsAreMoments
    <3>2. quotes[marker(dayOf(now))].price \in Moments
      BY <3>1 DEF QuoteRow
    <3>3. faults' \in Nat /\ (faults' = 0 => faults = 0)
      BY <2>1, <3>1, CalendarAnswers DEF StartBar
    <3>4. bar' \in BarRow
      BY <2>1, <3>2 DEF StartBar, BarRow
    <3> QED
      BY <2>1, <3>3, <3>4 DEF StartBar
  <2>2. CASE FetchBar
    <3>1. bar \in [pc : {"fetch"}, asOf : Present, price : Moments]
      BY <2>2 DEF FetchBar, BarRow, Resting
    <3> QED
      BY <2>2, <3>1 DEF FetchBar, BarRow
  <2> QED
    BY <2>1, <2>2
<1> QED
  BY <1>1 DEF RowsFit, PollFits, SyncFits, Walking, OfSession

\* The open of the candle is set on the row.
LEMMA CandleOpenStep == QuotesInv /\ setSessionCandle => QuotesInv'
<1> SUFFICES ASSUME QuotesInv, setSessionCandle PROVE QuotesInv'
  OBVIOUS
<1> USE DEF QuotesInv
<1> DEFINE d == dayOf(bar.asOf)
           k == marker(d)
<1>1. bar \in [pc : {"write"}, asOf : Present]
  BY DEF setSessionCandle, BarRow, Resting
<1>2. d \in Days /\ k \in Moments /\ dayOf(k) = d /\ First(d) \in Moments /\ dayOf(First(d)) = d
  BY <1>1, QuoteNumbers, MarkerIsOfItsDay, StampsAreMoments, SessionDays
<1> DEFINE row == [quotes[k] EXCEPT !.open = First(d)]
<1>3. row \in QuoteRow
  BY <1>2 DEF QuoteRow
<1>4. OfSession(d, quotes[k]) => OfSession(d, row)
  <2>1. quotes[k] \in QuoteRow
    BY <1>2
  <2> QED
    BY <1>2, <2>1 DEF OfSession, QuoteRow
<1>5. /\ bar' = Resting /\ UNCHANGED <<now, faults, poll, sync, pages>>
      /\ \/ quotes' = quotes
         \/ quotes[k] # NoQuote /\ quotes' = [quotes EXCEPT ![k] = row]
  BY DEF setSessionCandle
<1> HIDE DEF row, d, k
<1>6. quotes' \in [Moments -> QuoteRow]
  BY <1>2, <1>3, <1>5
<1>7. RowsFit'
  BY <1>2, <1>4, <1>5 DEF RowsFit, OfSession
<1>8. bar' \in BarRow
  BY <1>5 DEF BarRow
<1> QED
  BY <1>5, <1>6, <1>7, <1>8 DEF PollFits, SyncFits, Walking, OfSession

\* Every step keeps the invariant.
LEMMA QuotesStep == QuotesInv /\ [NextQuotes]_quoteVars => QuotesInv'
<1> SUFFICES ASSUME QuotesInv, [NextQuotes]_quoteVars PROVE QuotesInv'
  OBVIOUS
<1>1. CASE QuoteClock
  <2>1. now' \in Present
    <3>1. TheEnd \in Int
      BY MarketAssumption, DayLengths DEF TheEnd
    <3> QED
      BY <1>1, <3>1, MarketAssumption DEF QuoteClock, QuotesInv, Present
  <2> QED
    BY <1>1, <2>1 DEF QuoteClock, QuotesInv, RowsFit, PollFits, SyncFits, Walking, OfSession
<1>2. CASE UNCHANGED quoteVars
  BY <1>2 DEF quoteVars, QuotesInv, RowsFit, PollFits, SyncFits, Walking, OfSession
<1> QED
  BY <1>1, <1>2, PollTickStep, UpsertStep, ScrapeStep, ClampStep, VerifyStep, PersistStep,
     BarStep, CandleOpenStep DEF NextQuotes

\* The rows, the poll, the syncs and the candles have their types.
THEOREM QuoteTypes == QuotesSpec => []QuotesTypeOK
<1>1. QuotesInv => QuotesTypeOK
  <2> SUFFICES ASSUME QuotesInv PROVE QuotesTypeOK
    OBVIOUS
  <2>1. quotes \in [Moments -> [price : Moments, from : Moments, open : Moments]]
    BY DEF QuotesInv, QuoteRow
  <2>2. poll.pc \in {"idle", "write"}
    BY DEF QuotesInv, PollRow, Resting
  <2>3. bar.pc \in {"idle", "fetch", "write"}
    BY DEF QuotesInv, BarRow, Resting
  <2>4. \A l \in Lanes : sync[l].pc \in {"idle", "clamp", "verify", "write"}
    BY DEF QuotesInv, SyncRow, Resting
  <2> QED
    BY <2>1, <2>2, <2>3, <2>4 DEF QuotesInv, QuotesTypeOK
<1> QED
  BY <1>1, QuotesStart, QuotesStep, PTL DEF QuotesSpec

\* The price, the close it is compared with and the open that a row holds are of one
\* session, whichever of the poll, the syncs and the candles wrote them last.
THEOREM PricesAreOfTheirSessions == QuotesSpec => []PriceIsOfItsSession
<1>1. QuotesInv => PriceIsOfItsSession
  BY DEF QuotesInv, RowsFit, OfSession, PriceIsOfItsSession, Held
<1> QED
  BY <1>1, QuotesStart, QuotesStep, PTL DEF QuotesSpec

---------------------------------------------------------------------------
(***************************************************************************)
(* The board among the modules about a session's rows: a behaviour is      *)
(* about one of them, and the one that is about the board is the board's.  *)
(***************************************************************************)
LEMMA BoardIsElsewhere == Spec /\ part # "board" => [](part # "board")
<1>1. part # "board" /\ [Next]_allVars => (part # "board")'
  BY DEF Next, allVars
<1> QED
  BY <1>1, PTL DEF Spec

LEMMA BoardRuns == Spec /\ part = "board" => BoardSpec
<1>1. Init => InitBoard
  BY DEF Init
<1>2. part = "board" /\ [Next]_allVars => (part = "board")' /\ [NextBoard]_boardVars
  BY DEF Next, allVars, sessionVars, boardVars
<1> QED
  BY <1>1, <1>2, PTL DEF Spec, BoardSpec

\* Beside everything else that keeps the session's rows, a board that nothing fails for
\* has stored the settled close of every session whose window has ended.
THEOREM BoardsSettle == Spec => []BoardSettles
<1>1. SettledCloseLands => BoardSettles
  BY DEF BoardSettles
<1>2. part # "board" => BoardSettles
  BY DEF BoardSettles
<1>3. part = "board" \/ part # "board"
  OBVIOUS
<1> QED
  BY <1>1, <1>2, <1>3, BoardRuns, BoardIsElsewhere, SettledClosesLand, PTL

=============================================================================
