---------------------------- MODULE FiguresProofs ---------------------------
(*************************************************************************)
(* Proofs about what is stored and what is said. ScrapeWrite, for any    *)
(* prices and ranges a provider may state and any number of syncs: the   *)
(* two ends of a stored 52-week range were accepted together. MarketCap, *)
(* for any companies, figures, rows and refreshes: what a refresh leaves *)
(* of caps two symbols share, the scanner reported. Fundamentals, for    *)
(* any lines, profiles, publications and runs: the income statement      *)
(* served is the company's, line by line in the source's order. SyncDesk,*)
(* for any stocks, fan-outs, answers and failures of these: the table    *)
(* shows what was stored when the dashboard says a sync is complete, and *)
(* a failure is counted until it is dismissed or retried. MCBackground,  *)
(* which composes these with what runs by itself: the page of the queue  *)
(* and the figures read again are right in every run of all the parts.   *)
(*************************************************************************)
EXTENDS MCBackground, Fundamentals, BackgroundProofs, SequenceTheorems

(***************************************************************************)
(* The 52-week range.                                                      *)
(***************************************************************************)
Beta == [pc |-> "beta"]
Write == [pc : {"write"}, session : Sessions, quote : Blocks,
          stated : SUBSET RatioFields, annual : BOOLEAN, by : 1..MaxSyncs]
Tasks == {Done, Beta} \cup Write

\* A block states no range, or one that verification accepted, both ends.
Bracketed(b) ==
    \/ b.low = Null /\ b.high = Null
    \/ b.low # Null /\ b.high # Null /\ b.low < b.high /\ <<b.low, b.high>> \in judged

\* The strengthening: what a sync is about to write is bracketed too.
WriteInv ==
    /\ WriteTypeOK
    /\ task \in [Writers -> Tasks]
    /\ \A s \in Sessions : Bracketed(row[s])
    /\ \A w \in Writers : task[w].pc = "write" => Bracketed(task[w].quote)

---------------------------------------------------------------------------

LEMMA BlockTypes ==
    /\ \A b \in Blocks : b.price \in Nat /\ b.low \in Nat /\ b.high \in Nat
    /\ NoRow \in Blocks
BY WriteAssumption DEF Blocks, NoRow, Null

\* The merge of two providers' blocks is a block.
LEMMA MergeType ==
    ASSUME NEW a \in Blocks, NEW b \in Blocks PROVE mergePrice(a, b) \in Blocks
BY DEF mergePrice, pick, Blocks

\* What verification lets through is a block with no range, or with a range whose
\* ends are there and in order.
LEMMA VerifyBrackets ==
    ASSUME NEW b \in Blocks
    PROVE  /\ verifyQuote(b) \in Blocks
           /\ LET q == verifyQuote(b) IN
                \/ q.low = Null /\ q.high = Null
                \/ q.low # Null /\ q.high # Null /\ q.low < q.high
<1>1. CASE b.low # Null /\ b.high # Null /\ b.low < b.high /\ b.price \in b.low..b.high
  BY <1>1 DEF verifyQuote
<1>2. CASE ~(b.low # Null /\ b.high # Null /\ b.low < b.high /\ b.price \in b.low..b.high)
  <2>1. verifyQuote(b) = [price |-> b.price, low |-> Null, high |-> Null]
    BY <1>2 DEF verifyQuote, Blocks
  <2>2. QED
    BY <2>1 DEF Blocks
<1>3. QED
  BY <1>1, <1>2

\* A write over a row takes the new range or keeps the old one, never an end of
\* each.
LEMMA UpsertBrackets ==
    ASSUME NEW old \in Blocks, NEW q \in Blocks, Bracketed(old), Bracketed(q)
    PROVE  upsertPrice(old, q) \in Blocks /\ Bracketed(upsertPrice(old, q))
<1>1. upsertPrice(old, q) \in Blocks
  BY DEF upsertPrice, pick, Blocks
<1>2. Bracketed(upsertPrice(old, q))
  BY DEF upsertPrice, pick, Bracketed
<1>3. QED
  BY <1>1, <1>2

LEMMA InitWriteInv == InitWrite => WriteInv
<1> SUFFICES ASSUME InitWrite PROVE WriteInv
  OBVIOUS
<1>1. WriteTypeOK
  BY BlockTypes, WriteAssumption DEF InitWrite, WriteTypeOK, Done
<1>2. QED
  BY <1>1 DEF InitWrite, WriteInv, Tasks, Done, Bracketed, NoRow

---------------------------------------------------------------------------

LEMMA StepWriteInv ==
    ASSUME WriteInv, [NextWrite]_writeVars PROVE WriteInv'
<1> USE DEF WriteInv
<1>1. ASSUME NEW w \in Writers, scrapeAndVerify(w) PROVE WriteInv'
  <2>1. PICK s \in Sessions, psx \in Blocks, sarmaaya \in Blocks, stated \in SUBSET RatioFields :
           LET q == verifyQuote(mergePrice(psx, sarmaaya))
           IN /\ task' = [task EXCEPT ![w] =
                   IF q.price = Null THEN Done
                   ELSE [pc |-> "write", session |-> s, quote |-> q, stated |-> stated,
                         annual |-> sarmaaya # NoRow, by |-> started + 1]]
              /\ judged' = IF q.price = Null THEN judged ELSE judged \cup {<<q.low, q.high>>}
    BY <1>1 DEF scrapeAndVerify
  <2> DEFINE q == verifyQuote(mergePrice(psx, sarmaaya))
             new == [pc |-> "write", session |-> s, quote |-> q, stated |-> stated,
                     annual |-> sarmaaya # NoRow, by |-> started + 1]
  <2>2. /\ q \in Blocks
        /\ \/ q.low = Null /\ q.high = Null
           \/ q.low # Null /\ q.high # Null /\ q.low < q.high
    BY MergeType, VerifyBrackets
  <2>3. started' = started + 1 /\ started + 1 \in 1..MaxSyncs /\ UNCHANGED <<row, ratio, financials>>
    BY <1>1, WriteAssumption DEF scrapeAndVerify, WriteTypeOK
  <2> HIDE DEF q
  <2>4. new \in Write
    BY <2>2, <2>3 DEF Write
  <2>5. task' = [task EXCEPT ![w] = IF q.price = Null THEN Done ELSE new]
    BY <2>1 DEF q
  <2>6. judged' = IF q.price = Null THEN judged ELSE judged \cup {<<q.low, q.high>>}
    BY <2>1 DEF q
  <2> HIDE DEF new
  <2>7. task' \in [Writers -> Tasks]
    BY <2>4, <2>5 DEF Tasks
  <2>8. \A v \in Writers : task'[v].pc \in {"idle", "write", "beta"}
    BY <2>7 DEF Tasks, Done, Beta, Write
  <2>9. WriteTypeOK'
    BY <2>3, <2>8 DEF WriteTypeOK
  <2>10. \A b : Bracketed(b) => Bracketed(b)'
    BY <2>6 DEF Bracketed
  <2>11. \A s2 \in Sessions : Bracketed(row[s2])'
    BY <2>3, <2>6 DEF Bracketed
  <2>12. ASSUME NEW v \in Writers, task'[v].pc = "write" PROVE Bracketed(task[v].quote)'
    <3>1. CASE v = w
      <4>1. q.price # Null /\ task'[v] = new
        BY <2>5, <2>12, <3>1 DEF Done
      <4>2. task'[v].quote = q
        BY <4>1 DEF new
      <4>3. judged' = judged \cup {<<q.low, q.high>>}
        BY <2>6, <4>1
      <4>4. QED
        BY <2>2, <4>2, <4>3 DEF Bracketed
    <3>2. CASE v # w
      <4>1. task'[v] = task[v]
        BY <2>5, <3>2
      <4>2. QED
        BY <2>6, <2>12, <4>1 DEF Bracketed
    <3>3. QED
      BY <3>1, <3>2
  <2>13. QED
    BY <2>7, <2>9, <2>11, <2>12
<1>2. ASSUME NEW w \in Writers, persistScrapeResult(w) PROVE WriteInv'
  <2>1. task[w].pc = "write" /\ task[w] \in Write
    BY <1>2 DEF persistScrapeResult, Tasks, Done, Beta
  <2> DEFINE s == task[w].session
             new == upsertPrice(row[s], task[w].quote)
  <2>2. s \in Sessions /\ task[w].quote \in Blocks /\ Bracketed(task[w].quote)
    BY <2>1 DEF Write
  <2>3. row[s] \in Blocks /\ Bracketed(row[s])
    BY <2>2 DEF WriteTypeOK
  <2>4. new \in Blocks /\ Bracketed(new)
    BY <2>2, <2>3, UpsertBrackets
  <2>5. row' = [row EXCEPT ![s] = new] /\ UNCHANGED <<started, judged>>
    BY <1>2 DEF persistScrapeResult
  <2> HIDE DEF new, s
  <2>6. row' \in [Sessions -> Blocks]
    BY <2>4, <2>5 DEF WriteTypeOK
  <2>7. \A s2 \in Sessions : Bracketed(row[s2])'
    <3>1. \A s2 \in Sessions : row'[s2] = IF s2 = s THEN new ELSE row[s2]
      BY <2>5 DEF WriteTypeOK
    <3>2. QED
      BY <2>4, <2>5, <3>1 DEF Bracketed
  <2>8. ratio' \subseteq RatioFields
    BY <1>2, <2>1 DEF persistScrapeResult, Write, WriteTypeOK
  <2>9. financials' \subseteq [by : 1..MaxSyncs, quarter : {Null}]
    <3>1. task[w].by \in 1..MaxSyncs
      BY <2>1 DEF Write
    <3>2. [by |-> task[w].by, quarter |-> Null] \in [by : 1..MaxSyncs, quarter : {Null}]
      BY <3>1
    <3>3. financials' \subseteq financials \cup {[by |-> task[w].by, quarter |-> Null]}
      BY <1>2 DEF persistScrapeResult, upsertFinancial
    <3>4. QED
      BY <3>2, <3>3 DEF WriteTypeOK
  <2>10. task' = [task EXCEPT ![w] = Beta]
    BY <1>2 DEF persistScrapeResult, Beta
  <2>11. task' \in [Writers -> Tasks]
    BY <2>10 DEF Tasks
  <2>12. \A v \in Writers : task'[v].pc \in {"idle", "write", "beta"}
    BY <2>11 DEF Tasks, Done, Beta, Write
  <2>13. WriteTypeOK'
    BY <2>5, <2>6, <2>8, <2>9, <2>12 DEF WriteTypeOK
  <2>14. \A v \in Writers : task'[v].pc = "write" => Bracketed(task[v].quote)'
    BY <2>5, <2>10 DEF Bracketed, Beta
  <2>15. QED
    BY <2>7, <2>11, <2>13, <2>14
<1>3. ASSUME NEW w \in Writers, refreshBeta(w) PROVE WriteInv'
  <2>1. task' = [task EXCEPT ![w] = Done] /\ UNCHANGED <<row, financials, started, judged>>
    BY <1>3 DEF refreshBeta
  <2>2. ratio' \subseteq RatioFields
    BY <1>3 DEF refreshBeta, WriteTypeOK, RatioFields
  <2>3. task' \in [Writers -> Tasks]
    BY <2>1 DEF Tasks
  <2>4. WriteTypeOK'
    BY <2>1, <2>2, <2>3 DEF WriteTypeOK, Done
  <2>5. \A v \in Writers : task'[v].pc = "write" => Bracketed(task[v].quote)'
    BY <2>1 DEF Bracketed, Done
  <2>6. QED
    BY <2>1, <2>3, <2>4, <2>5 DEF Bracketed
<1>4. CASE PollWrites
  <2>1. PICK s \in Sessions, p \in Prices : row' = [row EXCEPT ![s].price = p]
    BY <1>4 DEF PollWrites
  <2>2. UNCHANGED <<ratio, financials, task, started, judged>>
    BY <1>4 DEF PollWrites
  <2>3. row[s] \in Blocks /\ row' = [row EXCEPT ![s] = [price |-> p, low |-> row[s].low, high |-> row[s].high]]
    <3>1. row[s] \in Blocks
      BY DEF WriteTypeOK
    <3>2. [row[s] EXCEPT !.price = p] = [price |-> p, low |-> row[s].low, high |-> row[s].high]
      BY <3>1 DEF Blocks
    <3>3. row' = [row EXCEPT ![s] = [row[s] EXCEPT !.price = p]]
      BY <2>1
    <3>4. QED
      BY <3>1, <3>2, <3>3
  <2>4. row' \in [Sessions -> Blocks]
    BY <2>3 DEF WriteTypeOK, Blocks
  <2>5. \A s2 \in Sessions : row'[s2].low = row[s2].low /\ row'[s2].high = row[s2].high
    BY <2>3 DEF WriteTypeOK
  <2>6. WriteTypeOK'
    BY <2>2, <2>4 DEF WriteTypeOK
  <2>7. QED
    BY <2>2, <2>5, <2>6 DEF Bracketed
<1>5. CASE UNCHANGED writeVars
  BY <1>5 DEF writeVars, WriteTypeOK, Bracketed
<1>6. QED
  BY <1>1, <1>2, <1>3, <1>4, <1>5 DEF NextWrite

LEMMA WriteAlways == WriteSpec => []WriteInv
<1>1. WriteInv /\ [NextWrite]_writeVars => WriteInv'
  BY StepWriteInv
<1>2. QED
  BY InitWriteInv, <1>1, PTL DEF WriteSpec

\* What the syncs store and keep in hand is of its type.
THEOREM WriteTypes == WriteSpec => []WriteTypeOK
<1>1. WriteInv => WriteTypeOK
  BY DEF WriteInv
<1>2. QED
  BY WriteAlways, <1>1, PTL

\* A stored 52-week range is one pair that verification accepted, for any figures
\* the providers state, any syncs in flight and any price writes between them.
THEOREM RangesAreWhole == WriteSpec => []RangeIsOnePair
<1>1. WriteInv => RangeIsOnePair
  BY DEF WriteInv, Bracketed, RangeIsOnePair
<1>2. QED
  BY WriteAlways, <1>1, PTL


---------------------------------------------------------------------------
(***************************************************************************)
(* The market cap.                                                         *)
(***************************************************************************)
Refresh == [pc : {"idle", "gaps", "walk", "write", "carry", "find", "clear", "done"},
            scanner : Reading, gaps : SUBSET Companies, gapFill : Reading,
            clear : SUBSET Companies]

\* What is shared and not vouched for is marked to be cleared, rows apart that were
\* written between the look and the clearing.
SharedIsMarked ==
    \A c, d \in Companies \ since :
        c # d /\ newest[c] = newest[d] /\ newest[c] # 0 => c \in Covered \cup refresh.clear

CapsInv ==
    /\ CapsTypeOK
    /\ refresh \in Refresh
    /\ refresh.pc = "clear" => vouched = Covered /\ SharedIsMarked
    /\ SharedCapIsVouchedFor

LEMMA ReadingFacts ==
    /\ Nothing \in Reading
    /\ \A f \in Reading, c \in Companies : f[c] \in Caps \cup {0}
BY DEF Reading, Nothing

LEMMA InitCapsInv == InitCaps => CapsInv
<1> SUFFICES ASSUME InitCaps PROVE CapsInv
  OBVIOUS
<1>1. Unasked \in Refresh
  BY ReadingFacts DEF Unasked, Refresh
<1>2. CapsTypeOK
  BY ReadingFacts, CapAssumption DEF InitCaps, CapsTypeOK, Unasked
<1>3. SharedCapIsVouchedFor /\ refresh.pc = "idle" /\ refresh \in Refresh
  BY <1>1 DEF InitCaps, Unasked, Nothing, SharedCapIsVouchedFor
<1>4. QED
  BY <1>2, <1>3 DEF CapsInv

\* A step that leaves the figures and the question alone keeps the types.
LEMMA TypeFrame ==
    ASSUME CapsInv, refresh' \in Refresh, newest' \in Reading,
           refresh'.gaps \subseteq Companies \ Covered',
           vouched' \subseteq Companies, since' \subseteq Companies,
           UNCHANGED <<earlier, priceRows, refreshes>>
    PROVE  CapsTypeOK'
BY DEF CapsInv, CapsTypeOK, Refresh

LEMMA StepCapsInv ==
    ASSUME CapsInv, [NextCaps]_capVars PROVE CapsInv'
<1> USE DEF CapsInv
<1>1. CASE fetchTradingViewMarketCaps
  <2>1. PICK scanner \in Reading :
           refresh' = [pc |-> "gaps", scanner |-> scanner, gaps |-> {}, gapFill |-> Nothing, clear |-> {}]
    BY <1>1 DEF fetchTradingViewMarketCaps, Unasked
  <2>2. refresh' \in Refresh
    BY <2>1, ReadingFacts DEF Refresh
  <2>3. CapsTypeOK'
    <3>1. refreshes' \in 0..MaxRefreshes /\ UNCHANGED <<newest, earlier, priceRows, standing>>
      BY <1>1, CapAssumption DEF fetchTradingViewMarketCaps, CapsTypeOK
    <3>2. refresh'.gaps = {} /\ refresh'.clear = {}
          /\ refresh'.scanner \in Reading /\ refresh'.gapFill \in Reading
      BY <2>1, ReadingFacts
    <3>3. QED
      BY <3>1, <3>2 DEF CapsTypeOK, standing
  <2>4. QED
    BY <1>1, <2>1, <2>2, <2>3 DEF SharedCapIsVouchedFor, fetchTradingViewMarketCaps, standing
<1>2. CASE findSymbolsWithoutLatestMarketCap
  <2> DEFINE G == {c \in Companies : newest[c] = 0} \ Covered
  <2>1. refresh' = [refresh EXCEPT !.pc = "walk", !.gaps = G] /\ UNCHANGED <<newest, earlier, priceRows, refreshes, standing>>
    BY <1>2 DEF findSymbolsWithoutLatestMarketCap
  <2>2. refresh' \in Refresh /\ refresh'.pc = "walk" /\ refresh'.gaps = G /\ refresh'.scanner = refresh.scanner
    BY <2>1 DEF Refresh
  <2>3. Covered' = Covered
    BY <2>2 DEF Covered
  <2>4. CapsTypeOK'
    BY <2>1, <2>2, <2>3, TypeFrame DEF CapsTypeOK, standing
  <2>5. QED
    BY <1>2, <2>1, <2>2, <2>4 DEF SharedCapIsVouchedFor, findSymbolsWithoutLatestMarketCap, standing
<1>3. CASE fetchMarketCaps
  <2>1. PICK figures \in Reading : refresh' = [refresh EXCEPT !.pc = "write", !.gapFill = figures]
    BY <1>3 DEF fetchMarketCaps
  <2>2. refresh' \in Refresh /\ refresh'.pc = "write" /\ refresh'.gaps = refresh.gaps /\ refresh'.scanner = refresh.scanner
    BY <2>1 DEF Refresh
  <2>3. Covered' = Covered
    BY <2>2 DEF Covered
  <2>4. CapsTypeOK'
    BY <1>3, <2>2, <2>3, TypeFrame DEF fetchMarketCaps, CapsTypeOK, standing
  <2>5. QED
    BY <1>3, <2>2, <2>4 DEF SharedCapIsVouchedFor, fetchMarketCaps, standing
<1>4. CASE updateLatestMarketCaps
  <2>1. /\ refresh' = [refresh EXCEPT !.pc = "carry"] /\ UNCHANGED <<earlier, priceRows, refreshes, standing>>
        /\ newest' = [c \in Companies |-> IF Trusted(c) # 0 THEN Trusted(c) ELSE newest[c]]
    BY <1>4 DEF updateLatestMarketCaps
  <2>2. refresh' \in Refresh /\ refresh'.pc = "carry" /\ refresh'.gaps = refresh.gaps /\ refresh'.scanner = refresh.scanner
    BY <2>1 DEF Refresh
  <2>3. Covered' = Covered
    BY <2>2 DEF Covered
  <2>4. \A c \in Companies : Trusted(c) \in Caps \cup {0} /\ newest[c] \in Caps \cup {0}
    BY ReadingFacts DEF Trusted, Refresh, CapsTypeOK
  <2>5. newest' \in Reading
    BY <2>1, <2>4 DEF Reading
  <2>6. CapsTypeOK'
    BY <2>1, <2>2, <2>3, <2>5, TypeFrame DEF CapsTypeOK, standing
  <2>7. QED
    BY <2>2, <2>6 DEF SharedCapIsVouchedFor
<1>5. ASSUME carryForwardLatestMarketCaps PROVE newest' \in Reading
  <2>1. \A c \in Companies : newest[c] \in Caps \cup {0} /\ earlier[c] \in Caps \cup {0}
    BY ReadingFacts DEF CapsTypeOK, standing
  <2>2. QED
    BY <1>5, <2>1 DEF carryForwardLatestMarketCaps, Reading
<1>6. CASE RefreshCarries
  <2>1. refresh' = [refresh EXCEPT !.pc = "find"] /\ UNCHANGED <<earlier, priceRows, refreshes, standing>> /\ newest' \in Reading
    BY <1>5, <1>6 DEF RefreshCarries
  <2>2. refresh' \in Refresh /\ refresh'.pc = "find" /\ refresh'.gaps = refresh.gaps /\ refresh'.scanner = refresh.scanner
    BY <2>1 DEF Refresh
  <2>3. Covered' = Covered
    BY <2>2 DEF Covered
  <2>4. CapsTypeOK'
    BY <2>1, <2>2, <2>3, TypeFrame DEF CapsTypeOK, standing
  <2>5. QED
    BY <2>2, <2>4 DEF SharedCapIsVouchedFor
<1>7. CASE findSymbolsWithDuplicateMarketCap
  <2> DEFINE shared == {c \in Companies : newest[c] # 0 /\ \E d \in Companies \ {c} : newest[d] = newest[c]}
             C == dropSharedGapValues \cup (shared \ Covered)
  <2>1. /\ refresh' = [refresh EXCEPT !.pc = "clear", !.clear = C]
        /\ vouched' = Covered /\ since' = {} /\ UNCHANGED <<newest, earlier, priceRows, refreshes>>
    BY <1>7 DEF findSymbolsWithDuplicateMarketCap
  <2>2. C \in SUBSET Companies
    BY DEF dropSharedGapValues
  <2>3. /\ refresh' \in Refresh /\ refresh'.pc = "clear" /\ refresh'.clear = C
        /\ refresh'.gaps = refresh.gaps /\ refresh'.scanner = refresh.scanner
    BY <2>1, <2>2 DEF Refresh
  <2>4. Covered' = Covered /\ Covered \subseteq Companies
    BY <2>3 DEF Covered
  <2>5. CapsTypeOK'
    BY <2>1, <2>3, <2>4, TypeFrame DEF CapsTypeOK
  <2>6. SharedIsMarked'
    BY <2>1, <2>3, <2>4 DEF SharedIsMarked
  <2>7. QED
    BY <2>1, <2>3, <2>4, <2>5, <2>6 DEF SharedCapIsVouchedFor
<1>8. CASE clearLatestMarketCap
  <2>1. /\ refresh.pc = "clear" /\ refresh' = [refresh EXCEPT !.pc = "done"]
        /\ UNCHANGED <<earlier, priceRows, refreshes, standing>>
        /\ newest' = [c \in Companies |-> IF c \in refresh.clear THEN 0 ELSE newest[c]]
    BY <1>8 DEF clearLatestMarketCap
  <2>2. refresh' \in Refresh /\ refresh'.pc = "done" /\ refresh'.gaps = refresh.gaps /\ refresh'.scanner = refresh.scanner
    BY <2>1 DEF Refresh
  <2>3. Covered' = Covered
    BY <2>2 DEF Covered
  <2>4. newest' \in Reading
    BY <2>1, ReadingFacts DEF Reading, CapsTypeOK
  <2>5. CapsTypeOK'
    BY <2>1, <2>2, <2>3, <2>4, TypeFrame DEF CapsTypeOK, standing
  <2>6. ASSUME NEW c \in Companies \ since, NEW d \in Companies \ since, c # d,
               newest'[c] = newest'[d], newest'[c] # 0
        PROVE  c \in vouched /\ d \in vouched
    <3>1. newest'[c] = newest[c] /\ newest'[d] = newest[d] /\ c \notin refresh.clear /\ d \notin refresh.clear
      BY <2>1, <2>6
    <3>2. QED
      BY <2>1, <2>6, <3>1 DEF SharedIsMarked
  <2>7. SharedCapIsVouchedFor'
    BY <2>1, <2>6 DEF SharedCapIsVouchedFor, standing
  <2>8. QED
    BY <2>2, <2>5, <2>7
<1>9. CASE FinishRefresh
  <2>1. refresh' = [pc |-> "idle", scanner |-> Nothing, gaps |-> {}, gapFill |-> Nothing, clear |-> {}]
        /\ refresh.pc = "done" /\ UNCHANGED <<newest, earlier, priceRows, refreshes, standing>>
    BY <1>9 DEF FinishRefresh, Unasked
  <2>2. refresh' \in Refresh /\ refresh'.pc = "idle" /\ refresh'.gaps = {}
    BY <2>1, ReadingFacts DEF Refresh
  <2>3. CapsTypeOK'
    BY <2>1, <2>2, TypeFrame DEF CapsTypeOK, standing
  <2>4. QED
    BY <2>1, <2>2, <2>3 DEF SharedCapIsVouchedFor, standing
<1>10. CASE carryForward
  <2>1. /\ refresh.pc = "idle" /\ refresh' = refresh /\ newest' \in Reading
        /\ UNCHANGED <<earlier, priceRows, refreshes, vouched>>
        /\ since' = since \cup {c \in Companies : newest'[c] # newest[c]}
    BY <1>5, <1>10 DEF carryForward
  <2>2. CapsTypeOK'
    BY <2>1, TypeFrame DEF CapsTypeOK, Covered
  <2>3. \A c \in Companies \ since' : c \in Companies \ since /\ newest'[c] = newest[c]
    BY <2>1
  <2>4. SharedCapIsVouchedFor'
    BY <2>1, <2>3 DEF SharedCapIsVouchedFor
  <2>5. QED
    BY <2>1, <2>2, <2>4
<1>11. ASSUME NEW c \in Companies, AddPriceRow(c) \/ UpdatePriceRow(c) PROVE CapsInv'
  <2>1. UNCHANGED <<refresh, refreshes, vouched>> /\ priceRows' \in 0..MaxRows
    BY <1>11, CapAssumption DEF AddPriceRow, UpdatePriceRow, CapsTypeOK
  <2>2. /\ newest' \in Reading /\ earlier' \in Reading
        /\ since' \subseteq Companies /\ since \subseteq since'
        /\ \A e \in Companies \ since' : newest'[e] = newest[e]
    <3>1. CASE AddPriceRow(c)
      <4>1. PICK cap \in Caps \cup {0} : newest' = [newest EXCEPT ![c] = cap]
        BY <3>1 DEF AddPriceRow
      <4>2. /\ earlier' = [earlier EXCEPT ![c] = IF newest[c] # 0 THEN newest[c] ELSE earlier[c]]
            /\ since' = since \cup {c}
        BY <3>1 DEF AddPriceRow
      <4>3. QED
        BY <4>1, <4>2 DEF CapsTypeOK, Reading
    <3>2. CASE UpdatePriceRow(c)
      <4>1. PICK cap \in Caps :
               \/ newest' = [newest EXCEPT ![c] = cap] /\ since' = since \cup {c} /\ UNCHANGED earlier
               \/ earlier' = [earlier EXCEPT ![c] = cap] /\ UNCHANGED <<newest, since>>
        BY <3>2 DEF UpdatePriceRow
      <4>2. QED
        BY <4>1 DEF CapsTypeOK, Reading
    <3>3. QED
      BY <1>11, <3>1, <3>2
  <2>3. Covered' = Covered
    BY <2>1 DEF Covered
  <2>4. CapsTypeOK'
    BY <2>1, <2>2, <2>3 DEF CapsTypeOK
  <2>5. SharedIsMarked => SharedIsMarked'
    BY <2>1, <2>2, <2>3 DEF SharedIsMarked
  <2>6. SharedCapIsVouchedFor'
    BY <2>1, <2>2 DEF SharedCapIsVouchedFor
  <2>7. QED
    BY <2>1, <2>3, <2>4, <2>5, <2>6
<1>12. CASE UNCHANGED capVars
  BY <1>12 DEF capVars, standing, CapsTypeOK, SharedIsMarked, SharedCapIsVouchedFor, Covered
<1>13. QED
  BY <1>1, <1>2, <1>3, <1>4, <1>6, <1>7, <1>8, <1>9, <1>10, <1>11, <1>12 DEF NextCaps

LEMMA CapsAlways == CapsSpec => []CapsInv
<1>1. CapsInv /\ [NextCaps]_capVars => CapsInv'
  BY StepCapsInv
<1>2. QED
  BY InitCapsInv, <1>1, PTL DEF CapsSpec

\* The caps on the rows and in the refresh are of their types.
THEOREM CapTypes == CapsSpec => []CapsTypeOK
<1>1. CapsInv => CapsTypeOK
  BY DEF CapsInv
<1>2. QED
  BY CapsAlways, <1>1, PTL

\* Outside the stretch of a refresh that writes and checks, a cap two companies share was
\* the scanner's for both in the last refresh, or came to one of them after it looked.
THEOREM SharedCapsVouched == CapsSpec => []SharedCapIsVouchedFor
<1>1. CapsInv => SharedCapIsVouchedFor
  BY DEF CapsInv
<1>2. QED
  BY CapsAlways, <1>1, PTL

---------------------------------------------------------------------------
(***************************************************************************)
(* The income statement.                                                   *)
(***************************************************************************)
\* Figures by column, as a statement holds them.
Figures == UNION {[S -> Int] : S \in SUBSET Columns}
Statement == {<<>>} \cup [DOMAIN StatementLines -> [line : LineNames, values : Figures]]
Readings == [pe : Int, book : Int, dividends : SUBSET (1..MaxPublished),
             ttm : Statement, statement : Statement]
Run == [pc : {"idle", "details", "legs", "persist"},
        leg : [Legs -> {"due", "annual", "ok"} \cup Refusals], isin : BOOLEAN, read : Readings]

\* The place of a line in the source's order.
Rank(l) == CHOOSE i \in DOMAIN StatementLines : StatementLines[i] = l

\* A figure that was published as what it is shown as.
Published(c, line, v) ==
    IF c = TTM THEN v \in 1..published.quarter ELSE v = c /\ line \notin TtmOnly

\* A statement in the source's order, all of whose figures were.
OfTheCompany(s) ==
    /\ DOMAIN s = DOMAIN StatementLines
    /\ \A i \in DOMAIN s :
          /\ s[i].line = StatementLines[i]
          /\ \A c \in DOMAIN s[i].values : Published(c, s[i].line, s[i].values[c])
          /\ \A j \in DOMAIN s : s[j].line = s[i].line => s[j].values = s[i].values

\* What a run holds, and what is stored, is the company's; a fund has no statement.
FundamentalsInv ==
    /\ FundamentalsTypeOK
    /\ fetch \in Run /\ published.quarter > 0
    /\ profile = "fund" => fetch.read.ttm = <<>>
    /\ fetch.read.ttm # <<>> => OfTheCompany(fetch.read.ttm)
    /\ fetch.read.statement # <<>> => OfTheCompany(fetch.read.statement)
    /\ \A k \in DOMAIN cells :
          Published(k[1], k[2], cells[k].value) /\ cells[k].position = Rank(k[2])

---------------------------------------------------------------------------
\* A line of the statement has a place, and the place is the line's.
LEMMA RankIsOfTheLine ==
    ASSUME NEW l \in LineNames
    PROVE  Rank(l) \in DOMAIN StatementLines /\ StatementLines[Rank(l)] = l /\ Rank(l) \in Nat
<1>1. Rank(l) \in DOMAIN StatementLines /\ StatementLines[Rank(l)] = l
  BY DEF Rank, LineNames
<1>2. DOMAIN StatementLines \subseteq Nat
  BY FundamentalsAssumption
<1> QED
  BY <1>1, <1>2

\* Either answer of the income request is a statement of the company.
LEMMA AnswerIsOfTheCompany ==
    ASSUME FundamentalsInv, NEW periodicity \in {"LTM", "ANN"}
    PROVE  LET s == parseSarmaayaIncomeStatement(periodicity) IN
           /\ s \in Statement /\ (s # <<>> => OfTheCompany(s))
           /\ profile = "fund" => s = <<>>
           /\ profile # "fund" => OfTheCompany(s)
<1> DEFINE s == parseSarmaayaIncomeStatement(periodicity)
<1>1. published.quarter \in 1..MaxPublished /\ published.year \in 0..MaxPublished
  BY DEF FundamentalsInv, FundamentalsTypeOK
<1>2. CASE profile = "fund"
  BY <1>2 DEF parseSarmaayaIncomeStatement, Statement
<1>3. CASE profile # "fund"
  <2> DEFINE values(line) == IF periodicity = "LTM" THEN [c \in {TTM} |-> published.quarter] ELSE annualValues(line)
  <2>1. s = [i \in DOMAIN StatementLines |-> [line |-> StatementLines[i], values |-> values(StatementLines[i])]]
    BY <1>3 DEF parseSarmaayaIncomeStatement
  <2>2. ASSUME NEW line \in LineNames
        PROVE /\ values(line) \in Figures
              /\ \A c \in DOMAIN values(line) : Published(c, line, values(line)[c])
    <3>1. CASE periodicity = "LTM"
      <4>1. values(line) = [c \in {0} |-> published.quarter]
        BY <3>1 DEF TTM
      <4>2. {0} \in SUBSET Columns
        BY FundamentalsAssumption DEF Columns
      <4>3. [c \in {0} |-> published.quarter] \in [{0} -> Int]
        BY <1>1
      <4> QED
        BY <1>1, <4>1, <4>2, <4>3 DEF Figures, Published, TTM
    <3>2. CASE periodicity = "ANN"
      <4> DEFINE years == {r.year : r \in {a \in annualRows(line) : ~a.quoted}}
      <4>1. values(line) = [y \in years |-> asNumber(y)]
        BY <3>2 DEF annualValues
      <4>2. ASSUME NEW y \in years PROVE y = published.year /\ y \in 1..MaxPublished /\ line \notin TtmOnly
        <5>1. PICK a \in annualRows(line) : ~a.quoted /\ a.year = y
          OBVIOUS
        <5>2. PICK z \in 1..published.year :
                 a = [year |-> z, quoted |-> z < published.year \/ line \in TtmOnly,
                      value |-> IF z < published.year \/ line \in TtmOnly THEN Placeholder ELSE z]
          BY <5>1 DEF annualRows
        <5>3. a.year = z /\ a.quoted = (z < published.year \/ line \in TtmOnly)
          BY <5>2
        <5>4. ~(z < published.year) /\ line \notin TtmOnly
          BY <5>1, <5>3
        <5> QED
          BY <1>1, <5>1, <5>3, <5>4
      <4>3. years \in SUBSET Columns
        BY <4>2 DEF Columns
      <4>4. ASSUME NEW y \in years PROVE asNumber(y) = y /\ y \in Int /\ y # TTM
        BY <1>1, <4>2 DEF asNumber, Placeholder, TTM
      <4> HIDE DEF years
      <4>5. values(line) \in [years -> Int]
        BY <4>1, <4>4
      <4> QED
        BY <4>1, <4>2, <4>3, <4>4, <4>5 DEF Figures, Published
    <3> QED
      BY <3>1, <3>2
  <2> HIDE DEF values
  <2>3. \A i \in DOMAIN StatementLines : StatementLines[i] \in LineNames
    BY DEF LineNames
  <2>4. s \in [DOMAIN StatementLines -> [line : LineNames, values : Figures]]
    BY <2>1, <2>2, <2>3
  <2>5. OfTheCompany(s)
    BY <2>1, <2>2, <2>3 DEF OfTheCompany
  <2> QED
    BY <1>3, <2>4, <2>5 DEF Statement
<1> QED
  BY <1>2, <1>3

\* So is what becomes of the two: no line is only in one of them.
LEMMA MergeIsOfTheCompany ==
    ASSUME FundamentalsInv
    PROVE  LET s == mergeIncomeStatements(fetch.read.ttm, parseSarmaayaIncomeStatement("ANN"))
           IN  s \in Statement /\ (s # <<>> => OfTheCompany(s))
<1> DEFINE ann == parseSarmaayaIncomeStatement("ANN")
           ltm == fetch.read.ttm
           has(s, line) == \E i \in DOMAIN s : s[i].line = line
           of(s, line) == IF has(s, line) THEN (CHOOSE i \in DOMAIN s : s[i].line = line) ELSE 0
           values(s, line) == IF has(s, line) THEN s[of(s, line)].values ELSE <<>>
           only == {i \in DOMAIN ltm : ~has(ann, ltm[i].line)}
           nth(n) == CHOOSE i \in only : Cardinality({j \in only : j <= i}) = n
           order == ann \o [n \in 1..Cardinality(only) |-> ltm[nth(n)]]
           both(line) == laidOver(values(ltm, line), values(ann, line))
           s == mergeIncomeStatements(ltm, ann)
<1>0. s = [i \in DOMAIN order |-> [line |-> order[i].line, values |-> both(order[i].line)]]
  BY DEF mergeIncomeStatements
<1>1. /\ ann \in Statement /\ (ann # <<>> => OfTheCompany(ann))
      /\ profile = "fund" => ann = <<>>
      /\ profile # "fund" => OfTheCompany(ann)
  BY AnswerIsOfTheCompany
<1>2. /\ ltm \in Statement /\ (ltm # <<>> => OfTheCompany(ltm))
      /\ profile = "fund" => ltm = <<>>
  BY DEF FundamentalsInv, Run, Readings
<1> HIDE DEF ann, ltm
<1>3. only = {}
  <2>1. CASE ltm = <<>>
    BY <2>1
  <2>2. CASE ltm # <<>>
    <3>1. OfTheCompany(ann) /\ OfTheCompany(ltm)
      BY <1>1, <1>2, <2>2
    <3>2. \A i \in DOMAIN ltm : i \in DOMAIN ann /\ ann[i].line = ltm[i].line
      BY <3>1 DEF OfTheCompany
    <3> QED
      BY <3>2
  <2> QED
    BY <2>1, <2>2
<1>4. order = ann
  <2>1. Cardinality(only) = 0
    BY <1>3, FS_EmptySet
  <2> HIDE DEF only
  <2>2. [n \in 1..Cardinality(only) |-> ltm[nth(n)]] = <<>>
    BY <2>1
  <2>3. ann \in Seq([line : LineNames, values : Figures])
    <3>1. DOMAIN StatementLines = 1..Len(StatementLines) /\ Len(StatementLines) \in Nat
      BY FundamentalsAssumption
    <3>2. CASE ann = <<>>
      BY <3>2
    <3>3. CASE ann # <<>>
      <4> DEFINE Rows == [line : LineNames, values : Figures]
      <4>1. ann \in [1..Len(StatementLines) -> Rows]
        BY <1>1, <3>1, <3>3 DEF Statement
      <4> HIDE DEF Rows
      <4>2. ann \in Seq(Rows)
        BY <3>1, <4>1
      <4> QED
        BY <4>2 DEF Rows
    <3> QED
      BY <3>2, <3>3
  <2> HIDE DEF nth
  <2> QED
    BY <2>2, <2>3, ConcatEmptySeq
<1> HIDE DEF only, nth, order
<1>5. s = [i \in DOMAIN ann |-> [line |-> ann[i].line, values |-> both(ann[i].line)]]
  BY <1>0, <1>4
<1>6. ASSUME ann = <<>> PROVE s \in Statement /\ (s # <<>> => OfTheCompany(s))
  <2>1. s = <<>>
    BY <1>5, <1>6
  <2> QED
    BY <2>1 DEF Statement
<1>7. ASSUME ann # <<>> PROVE s \in Statement /\ (s # <<>> => OfTheCompany(s))
  <2>1. OfTheCompany(ann) /\ ann \in [DOMAIN StatementLines -> [line : LineNames, values : Figures]]
    BY <1>1, <1>7 DEF Statement
  <2>2. ASSUME NEW t \in {ltm, ann}, NEW line \in LineNames
        PROVE /\ values(t, line) \in Figures
              /\ \A c \in DOMAIN values(t, line) : Published(c, line, values(t, line)[c])
    <3>1. CASE has(t, line)
      <4>1. t # <<>> /\ OfTheCompany(t) /\ t \in [DOMAIN StatementLines -> [line : LineNames, values : Figures]]
        BY <1>1, <1>2, <3>1 DEF Statement
      <4>2. of(t, line) \in DOMAIN t /\ t[of(t, line)].line = line
        BY <3>1
      <4>3. values(t, line) = t[of(t, line)].values
        BY <3>1
      <4> HIDE DEF of, values, has
      <4> QED
        BY <4>1, <4>2, <4>3 DEF OfTheCompany
    <3>2. CASE ~has(t, line)
      <4>1. values(t, line) = <<>>
        BY <3>2
      <4> HIDE DEF values
      <4>2. <<>> \in [{} -> Int] /\ {} \in SUBSET Columns /\ DOMAIN <<>> = {}
        OBVIOUS
      <4> QED
        BY <4>1, <4>2 DEF Figures
    <3> QED
      BY <3>1, <3>2
  <2> HIDE DEF values, of, has
  <2>3. ASSUME NEW line \in LineNames
        PROVE /\ both(line) \in Figures
              /\ \A c \in DOMAIN both(line) : Published(c, line, both(line)[c])
    <3> DEFINE f == values(ltm, line)
               g == values(ann, line)
    <3>1. /\ f \in Figures /\ g \in Figures
          /\ \A c \in DOMAIN f : Published(c, line, f[c])
          /\ \A c \in DOMAIN g : Published(c, line, g[c])
      BY <2>2
    <3>2. both(line) = [x \in DOMAIN f \cup DOMAIN g |-> IF x \in DOMAIN f THEN f[x] ELSE g[x]]
      BY DEF laidOver
    <3> HIDE DEF f, g, both
    <3>3. PICK S \in SUBSET Columns, T \in SUBSET Columns : f \in [S -> Int] /\ g \in [T -> Int]
      BY <3>1 DEF Figures
    <3>4. both(line) \in [S \cup T -> Int] /\ S \cup T \in SUBSET Columns
      BY <3>2, <3>3
    <3> QED
      BY <3>1, <3>2, <3>3, <3>4 DEF Figures
  <2> HIDE DEF both
  <2>4. s \in [DOMAIN StatementLines -> [line : LineNames, values : Figures]]
    BY <1>5, <2>1, <2>3
  <2>5. OfTheCompany(s)
    BY <1>5, <2>1, <2>3 DEF OfTheCompany
  <2> QED
    BY <2>4, <2>5 DEF Statement
<1> QED
  BY <1>6, <1>7 DEF ltm, ann

\* The stored statement after a run: the rows of the run over those there were.
LEMMA StoredIsOfTheCompany ==
    ASSUME FundamentalsInv
    PROVE  /\ DOMAIN upsertStatement \subseteq Columns \X LineNames
           /\ \A k \in DOMAIN upsertStatement :
                /\ Published(k[1], k[2], upsertStatement[k].value)
                /\ upsertStatement[k].position = Rank(k[2])
<1> DEFINE s == fetch.read.statement
           stated == UNION {{<<c, i>> : c \in DOMAIN s[i].values} : i \in DOMAIN s}
           cell(k) == LET i == CHOOSE j \in DOMAIN s : s[j].line = k[2]
                      IN [value |-> s[i].values[k[1]], position |-> i]
           keys == {<<p[1], s[p[2]].line>> : p \in stated}
<1>1. upsertStatement = [k \in keys \cup DOMAIN cells |-> IF k \in keys THEN cell(k) ELSE cells[k]]
  BY DEF upsertStatement, laidOver
<1>2. s \in Statement /\ (s # <<>> => OfTheCompany(s))
  BY DEF FundamentalsInv, Run, Readings
<1> HIDE DEF s
<1>3. ASSUME NEW k \in keys
      PROVE  /\ k \in Columns \X LineNames
             /\ Published(k[1], k[2], cell(k).value) /\ cell(k).position = Rank(k[2])
  <2>1. PICK p \in stated : k = <<p[1], s[p[2]].line>>
    OBVIOUS
  <2>2. PICK i \in DOMAIN s : p \in {<<c, i>> : c \in DOMAIN s[i].values}
    BY <2>1
  <2>3. PICK c \in DOMAIN s[i].values : p = <<c, i>>
    BY <2>2
  <2>4. k = <<c, s[i].line>> /\ k[1] = c /\ k[2] = s[i].line
    BY <2>1, <2>3
  <2>5. s # <<>>
    BY <2>2
  <2>6. OfTheCompany(s) /\ s \in [DOMAIN StatementLines -> [line : LineNames, values : Figures]]
    BY <1>2, <2>5 DEF Statement
  <2>7. s[i].line \in LineNames /\ s[i].values \in Figures
    BY <2>6
  <2>8. c \in Columns
    BY <2>7 DEF Figures
  <2> DEFINE h == CHOOSE j \in DOMAIN s : s[j].line = k[2]
  <2>9. h \in DOMAIN s /\ s[h].line = k[2]
    BY <2>4
  <2>10. h = Rank(k[2])
    <3>1. \A j : (j \in DOMAIN s /\ s[j].line = k[2])
                  <=> (j \in DOMAIN StatementLines /\ StatementLines[j] = k[2])
      BY <2>6 DEF OfTheCompany
    <3> QED
      BY <3>1, Zenon DEF Rank
  <2>11. cell(k).value = s[h].values[c] /\ cell(k).position = h
    BY <2>4
  <2> HIDE DEF h
  <2>12. s[h].values = s[i].values /\ Published(c, s[i].line, s[i].values[c])
    BY <2>2, <2>3, <2>4, <2>6, <2>9 DEF OfTheCompany
  <2> QED
    BY <2>4, <2>7, <2>8, <2>10, <2>11, <2>12
<1>4. DOMAIN cells \subseteq Columns \X LineNames
      /\ \A k \in DOMAIN cells :
            Published(k[1], k[2], cells[k].value) /\ cells[k].position = Rank(k[2])
  BY DEF FundamentalsInv, FundamentalsTypeOK
<1> HIDE DEF keys, cell
<1> QED
  BY <1>1, <1>3, <1>4

\* A symbol nobody has read yet has nothing stored.
LEMMA FundamentalsStart == InitFundamentals => FundamentalsInv
<1> SUFFICES ASSUME InitFundamentals PROVE FundamentalsInv
  OBVIOUS
<1>1. NothingRead \in Readings
  BY DEF NothingRead, Readings, Statement, Unpublished
<1>2. [l \in Legs |-> "due"] \in [Legs -> {"due", "annual", "ok"} \cup Refusals]
  OBVIOUS
<1>3. fetch \in Run /\ fetch.read = NothingRead
  BY <1>1, <1>2 DEF InitFundamentals, NoFetch, Run
<1>4. FundamentalsTypeOK
  BY <1>3, FundamentalsAssumption DEF InitFundamentals, FundamentalsTypeOK, Run
<1> QED
  BY <1>3, <1>4 DEF InitFundamentals, FundamentalsInv, NothingRead

\* A run that goes on keeps the invariant, when what it has read by then is of the company.
LEMMA RunGoesOn ==
    ASSUME FundamentalsInv, UNCHANGED <<profile, published, cells, payouts>>,
           verdict' \in {"none", "success", "failure"}, fetches' \in 0..MaxFetches,
           fetch' \in Run,
           /\ profile = "fund" => fetch'.read.ttm = <<>>
           /\ fetch'.read.ttm # <<>> => OfTheCompany(fetch'.read.ttm)
           /\ fetch'.read.statement # <<>> => OfTheCompany(fetch'.read.statement)
    PROVE  FundamentalsInv'
<1>1. published' = published /\ profile' = profile /\ cells' = cells
  OBVIOUS
<1>2. FundamentalsTypeOK'
  BY DEF FundamentalsInv, FundamentalsTypeOK, Run
<1> QED
  BY <1>1, <1>2 DEF FundamentalsInv, OfTheCompany, Published

\* Every step keeps the invariant.
LEMMA FundamentalsStep ==
    ASSUME FundamentalsInv, [NextFundamentals]_fundamentalsVars PROVE FundamentalsInv'
<1>0. /\ fetch \in Run /\ published.quarter \in 1..MaxPublished /\ published.year \in 0..MaxPublished
      /\ published.payout \in 0..MaxPublished /\ MaxPublished \in Nat /\ MaxFetches \in Nat
      /\ verdict \in {"none", "success", "failure"} /\ fetches \in 0..MaxFetches
      /\ profile = "fund" => fetch.read.ttm = <<>>
      /\ fetch.read.ttm # <<>> => OfTheCompany(fetch.read.ttm)
      /\ fetch.read.statement # <<>> => OfTheCompany(fetch.read.statement)
      /\ \A l \in {"details", "series", "dividends", "income"} : l \in Legs
      /\ Refusals \subseteq {"due", "annual", "ok"} \cup Refusals
  BY FundamentalsAssumption DEF FundamentalsInv, FundamentalsTypeOK, Legs
<1>r. /\ fetch = [pc |-> fetch.pc, leg |-> fetch.leg, isin |-> fetch.isin, read |-> fetch.read]
      /\ fetch.pc \in {"idle", "details", "legs", "persist"} /\ fetch.isin \in BOOLEAN
      /\ fetch.leg \in [Legs -> {"due", "annual", "ok"} \cup Refusals] /\ fetch.read \in Readings
      /\ fetch.read.dividends \subseteq 1..MaxPublished
  BY <1>0 DEF Run, Readings
<1>1. CASE beginFetch
  <2>1. fetch' \in Run /\ fetch'.read = NothingRead
    <3>1. NothingRead \in Readings
      BY DEF NothingRead, Readings, Statement, Unpublished
    <3>2. [l \in Legs |-> "due"] \in [Legs -> {"due", "annual", "ok"} \cup Refusals]
      OBVIOUS
    <3>3. fetch' = [pc |-> "details", leg |-> [l \in Legs |-> "due"], isin |-> FALSE, read |-> NothingRead]
      BY <1>1 DEF beginFetch, NoFetch
    <3> QED
      BY <3>1, <3>2, <3>3 DEF Run
  <2>2. fetches' \in 0..MaxFetches
    BY <1>0, <1>1 DEF beginFetch
  <2> QED
    BY <1>0, <1>1, <2>1, <2>2, RunGoesOn DEF beginFetch, NothingRead
<1>2. ASSUME NEW answer \in {"ok"} \cup Refusals, fetchDetails(answer) PROVE FundamentalsInv'
  <2>1. fetch' \in Run /\ fetch'.read.ttm = fetch.read.ttm /\ fetch'.read.statement = fetch.read.statement
    <3>2. CASE answer = "ok"
      <4> DEFINE read == [fetch.read EXCEPT !.pe = parseSarmaayaDetails]
                 leg == [fetch.leg EXCEPT !["details"] = "ok"]
      <4>1. fetch' = [pc |-> "legs", leg |-> leg, isin |-> TRUE, read |-> read]
        BY <1>2, <1>r, <3>2 DEF fetchDetails
      <4>2. parseSarmaayaDetails \in Int
        BY <1>0 DEF parseSarmaayaDetails, asNumber, Placeholder, Unpublished
      <4>3. read \in Readings /\ read.ttm = fetch.read.ttm /\ read.statement = fetch.read.statement
        BY <1>r, <4>2 DEF Readings
      <4>4. leg \in [Legs -> {"due", "annual", "ok"} \cup Refusals]
        BY <1>r
      <4> HIDE DEF leg, read
      <4> QED
        BY <4>1, <4>3, <4>4 DEF Run
    <3>3. CASE answer # "ok"
      <4> DEFINE leg == [fetch.leg EXCEPT !["details"] = answer, !["series"] = "lost", !["income"] = "lost"]
      <4>1. fetch' = [pc |-> "legs", leg |-> leg, isin |-> fetch.isin, read |-> fetch.read]
        BY <1>2, <1>r, <3>3 DEF fetchDetails
      <4>2. leg \in [Legs -> {"due", "annual", "ok"} \cup Refusals]
        BY <1>r DEF Refusals
      <4> HIDE DEF leg
      <4> QED
        BY <1>r, <4>1, <4>2 DEF Run
    <3> QED
      BY <3>2, <3>3
  <2> QED
    BY <1>0, <1>2, <2>1, RunGoesOn DEF fetchDetails
<1>3. ASSUME NEW answer \in {"ok"} \cup Refusals, fetchSeries(answer) PROVE FundamentalsInv'
  <2>1. fetch' \in Run /\ fetch'.read.ttm = fetch.read.ttm /\ fetch'.read.statement = fetch.read.statement
    <3>1. CASE answer # "ok"
      <4> DEFINE leg == [fetch.leg EXCEPT !["series"] = answer]
      <4>1. fetch' = [pc |-> fetch.pc, leg |-> leg, isin |-> fetch.isin, read |-> fetch.read]
        BY <1>r, <1>3, <3>1 DEF fetchSeries
      <4>2. leg \in [Legs -> {"due", "annual", "ok"} \cup Refusals]
        BY <1>r, <1>3
      <4> HIDE DEF leg
      <4> QED
        BY <1>r, <4>1, <4>2 DEF Run
    <3>2. CASE answer = "ok"
      <4> DEFINE book == seriesLatest(IF fetch.leg["series"] = "due" THEN "LTM" ELSE "ANN")
                 now == IF fetch.leg["series"] = "due" /\ book = Unpublished THEN "annual" ELSE "ok"
                 leg == [fetch.leg EXCEPT !["series"] = now]
                 read == [fetch.read EXCEPT !.book = book]
      <4>1. book \in Int /\ now \in {"due", "annual", "ok"} \cup Refusals
        BY <1>0 DEF seriesLatest, Unpublished
      <4>2. fetch' = [fetch EXCEPT !.read.book = book, !.leg["series"] = now]
        BY <1>3, <3>2 DEF fetchSeries
      <4> HIDE DEF book, now
      <4>3. fetch' = [pc |-> fetch.pc, leg |-> leg, isin |-> fetch.isin, read |-> read]
        BY <1>r, <4>2
      <4>4. leg \in [Legs -> {"due", "annual", "ok"} \cup Refusals]
        BY <1>r, <4>1
      <4>5. read \in Readings /\ read.ttm = fetch.read.ttm /\ read.statement = fetch.read.statement
        BY <1>r, <4>1 DEF Readings
      <4> HIDE DEF leg, read
      <4> QED
        BY <1>r, <4>3, <4>4, <4>5 DEF Run
    <3> QED
      BY <3>1, <3>2
  <2> QED
    BY <1>0, <1>3, <2>1, RunGoesOn DEF fetchSeries, inLegs
<1>4. ASSUME NEW answer \in {"ok"} \cup Refusals, fetchDividends(answer) PROVE FundamentalsInv'
  <2>1. fetch' \in Run /\ fetch'.read.ttm = fetch.read.ttm /\ fetch'.read.statement = fetch.read.statement
    <3> DEFINE D == IF answer = "ok" THEN parseSarmaayaDividends ELSE fetch.read.dividends
               read == [fetch.read EXCEPT !.dividends = D]
    <3>1. fetch' = [fetch EXCEPT !.leg["dividends"] = answer, !.read.dividends = D]
      BY <1>r, <1>4 DEF fetchDividends, Readings
    <3>2. D \in SUBSET (1..MaxPublished)
      <4>1. parseSarmaayaDividends \subseteq 1..MaxPublished
        BY <1>0 DEF parseSarmaayaDividends
      <4> QED
        BY <1>r, <4>1
    <3> HIDE DEF D
    <3>3. read \in Readings /\ read.ttm = fetch.read.ttm /\ read.statement = fetch.read.statement
      BY <1>r, <3>2 DEF Readings
    <3> DEFINE leg == [fetch.leg EXCEPT !["dividends"] = answer]
    <3>4. fetch' = [pc |-> fetch.pc, leg |-> leg, isin |-> fetch.isin, read |-> read]
      BY <1>r, <3>1
    <3>5. leg \in [Legs -> {"due", "annual", "ok"} \cup Refusals]
      BY <1>r, <1>4
    <3> HIDE DEF read, leg
    <3> QED
      BY <1>r, <3>3, <3>4, <3>5 DEF Run
  <2> QED
    BY <1>0, <1>4, <2>1, RunGoesOn DEF fetchDividends, inLegs
<1>5. ASSUME NEW answer \in {"ok"} \cup Refusals, fetchIncome(answer) PROVE FundamentalsInv'
  <2>1. CASE answer # "ok"
    <3>1. fetch' = [fetch EXCEPT !.leg["income"] = answer]
      BY <1>5, <2>1 DEF fetchIncome
    <3> DEFINE leg == [fetch.leg EXCEPT !["income"] = answer]
    <3>2. fetch' = [pc |-> fetch.pc, leg |-> leg, isin |-> fetch.isin, read |-> fetch.read]
      BY <1>r, <3>1
    <3>3. fetch' \in Run /\ fetch'.read = fetch.read
      <4>1. leg \in [Legs -> {"due", "annual", "ok"} \cup Refusals]
        BY <1>r, <1>5
      <4> HIDE DEF leg
      <4> QED
        BY <1>r, <3>2, <4>1 DEF Run
    <3> QED
      BY <1>0, <1>5, <3>3, RunGoesOn DEF fetchIncome, inLegs
  <2>2. CASE answer = "ok" /\ fetch.leg["income"] = "due"
    <3> DEFINE s == parseSarmaayaIncomeStatement("LTM")
               read == [fetch.read EXCEPT !.ttm = s]
    <3>1. fetch' = [fetch EXCEPT !.leg["income"] = "annual", !.read.ttm = s]
      BY <1>5, <2>2 DEF fetchIncome
    <3>2. s \in Statement /\ (s # <<>> => OfTheCompany(s)) /\ (profile = "fund" => s = <<>>)
      BY AnswerIsOfTheCompany
    <3> HIDE DEF s
    <3>3. read \in Readings /\ read.ttm = s /\ read.statement = fetch.read.statement
      BY <1>r, <3>2 DEF Readings
    <3> DEFINE leg == [fetch.leg EXCEPT !["income"] = "annual"]
    <3>4. fetch' = [pc |-> fetch.pc, leg |-> leg, isin |-> fetch.isin, read |-> read]
      BY <1>r, <3>1
    <3> HIDE DEF read
    <3>5. fetch' \in Run /\ fetch'.read = read
      <4>1. leg \in [Legs -> {"due", "annual", "ok"} \cup Refusals]
        BY <1>r
      <4> HIDE DEF leg
      <4> QED
        BY <1>r, <3>3, <3>4, <4>1 DEF Run
    <3> QED
      BY <1>0, <1>5, <3>2, <3>3, <3>5, RunGoesOn DEF fetchIncome, inLegs
  <2>3. CASE answer = "ok" /\ fetch.leg["income"] # "due"
    <3> DEFINE s == mergeIncomeStatements(fetch.read.ttm, parseSarmaayaIncomeStatement("ANN"))
               read == [fetch.read EXCEPT !.statement = s]
    <3>1. fetch' = [fetch EXCEPT !.leg["income"] = "ok", !.read.statement = s]
      BY <1>5, <2>3 DEF fetchIncome
    <3>2. s \in Statement /\ (s # <<>> => OfTheCompany(s))
      BY MergeIsOfTheCompany
    <3> HIDE DEF s
    <3>3. read \in Readings /\ read.ttm = fetch.read.ttm /\ read.statement = s
      BY <1>r, <3>2 DEF Readings
    <3> DEFINE leg == [fetch.leg EXCEPT !["income"] = "ok"]
    <3>4. fetch' = [pc |-> fetch.pc, leg |-> leg, isin |-> fetch.isin, read |-> read]
      BY <1>r, <3>1
    <3> HIDE DEF read
    <3>5. fetch' \in Run /\ fetch'.read = read
      <4>1. leg \in [Legs -> {"due", "annual", "ok"} \cup Refusals]
        BY <1>r
      <4> HIDE DEF leg
      <4> QED
        BY <1>r, <3>3, <3>4, <4>1 DEF Run
    <3> QED
      BY <1>0, <1>5, <3>2, <3>3, <3>5, RunGoesOn DEF fetchIncome, inLegs
  <2> QED
    BY <2>1, <2>2, <2>3
<1>6. CASE concludeFetch
  <2>1. fetch' = [pc |-> "persist", leg |-> fetch.leg, isin |-> fetch.isin, read |-> fetch.read]
        /\ verdict' \in {"none", "success", "failure"}
    BY <1>r, <1>6 DEF concludeFetch
  <2>2. fetch' \in Run /\ fetch'.read = fetch.read
    BY <1>r, <2>1 DEF Run
  <2> QED
    BY <1>0, <1>6, <2>1, <2>2, RunGoesOn DEF concludeFetch
<1>7. ASSUME NEW pagePe, storeFundamentals(pagePe) PROVE FundamentalsInv'
  <2>1. fetch' \in Run /\ fetch'.read = NothingRead
    <3>1. NothingRead \in Readings
      BY DEF NothingRead, Readings, Statement, Unpublished
    <3>2. [l \in Legs |-> "due"] \in [Legs -> {"due", "annual", "ok"} \cup Refusals]
      OBVIOUS
    <3> QED
      BY <1>7, <3>1, <3>2 DEF storeFundamentals, NoFetch, Run
  <2>2. cells' = upsertStatement /\ published' = published /\ profile' = profile
    BY <1>7 DEF storeFundamentals
  <2>3. /\ DOMAIN cells' \subseteq Columns \X LineNames
        /\ \A k \in DOMAIN cells' :
              Published(k[1], k[2], cells'[k].value) /\ cells'[k].position = Rank(k[2])
    BY <2>2, StoredIsOfTheCompany
  <2>4. payouts' \subseteq 1..MaxPublished
    <3>1. fetch.read.dividends \subseteq 1..MaxPublished
      BY <1>0 DEF Run, Readings
    <3> QED
      BY <1>7, <3>1 DEF storeFundamentals, FundamentalsInv, FundamentalsTypeOK
  <2>5. FundamentalsTypeOK'
    BY <1>7, <2>1, <2>2, <2>3, <2>4 DEF storeFundamentals, FundamentalsInv, FundamentalsTypeOK, Run
  <2> QED
    BY <1>0, <2>1, <2>2, <2>3, <2>5 DEF FundamentalsInv, NothingRead, Published, Rank
<1>8. CASE Publish
  <2>1. PICK f \in DOMAIN published :
           published[f] < MaxPublished /\ published' = [published EXCEPT ![f] = @ + 1]
    BY <1>8 DEF Publish
  <2>2. published \in [{"quarter", "year", "payout"} -> 0..MaxPublished]
    BY DEF FundamentalsInv, FundamentalsTypeOK
  <2>3. published' \in [{"quarter", "year", "payout"} -> 0..MaxPublished]
        /\ published'.quarter >= published.quarter
    BY <1>0, <2>1, <2>2
  <2>4. UNCHANGED <<profile, fetch, verdict, fetches, cells, ratioRow, payouts>>
    BY <1>8 DEF Publish
  <2>5. ASSUME NEW c, NEW l, NEW v, Published(c, l, v) PROVE Published(c, l, v)'
    BY <1>0, <2>3, <2>5 DEF Published
  <2>6. ASSUME NEW s, OfTheCompany(s) PROVE OfTheCompany(s)'
    BY <2>5, <2>6 DEF OfTheCompany
  <2>7. FundamentalsTypeOK'
    BY <2>3, <2>4 DEF FundamentalsInv, FundamentalsTypeOK
  <2> QED
    BY <1>0, <2>3, <2>4, <2>5, <2>6, <2>7 DEF FundamentalsInv
<1>9. CASE UNCHANGED fundamentalsVars
  BY <1>9 DEF fundamentalsVars, FundamentalsInv, FundamentalsTypeOK, OfTheCompany, Published, Run, Readings
<1> QED
  BY <1>1, <1>2, <1>3, <1>4, <1>5, <1>6, <1>7, <1>8, <1>9 DEF NextFundamentals

\* What is stored of a company's statement is served in its order.
LEMMA ServedInOrder == FundamentalsInv => StatementIsTheCompanys
<1> SUFFICES ASSUME FundamentalsInv PROVE StatementIsTheCompanys
  OBVIOUS
<1>1. ASSUME NEW k \in DOMAIN cells
      PROVE IF k[1] = TTM THEN cells[k].value \in 1..published.quarter
            ELSE cells[k].value = k[1] /\ k[2] \notin TtmOnly
  BY DEF FundamentalsInv, Published
<1>2. ASSUME NEW l \in {k[2] : k \in DOMAIN cells}
      PROVE  placeOf(l) = Rank(l)
  <2> DEFINE P == {cells[k].position : k \in {c \in DOMAIN cells : c[2] = l}}
  <2>1. P = {Rank(l)}
    <3>1. \A k \in DOMAIN cells : k[2] = l => cells[k].position = Rank(l)
      BY DEF FundamentalsInv
    <3> QED
      BY <3>1
  <2>2. Rank(l) \in Nat
    <3>1. l \in LineNames
      BY DEF FundamentalsInv, FundamentalsTypeOK
    <3> QED
      BY <3>1, RankIsOfTheLine
  <2>3. placeOf(l) = Min(P)
    BY DEF placeOf
  <2> HIDE DEF P
  <2> QED
    BY <2>1, <2>2, <2>3 DEF Min
<1>3. buildIncomeStatement.places = [l \in {k[2] : k \in DOMAIN cells} |-> placeOf(l)]
  BY DEF buildIncomeStatement
<1>4. ASSUME NEW l \in DOMAIN buildIncomeStatement.places, NEW m \in DOMAIN buildIncomeStatement.places,
             Rank(l) < Rank(m)
      PROVE buildIncomeStatement.places[l] < buildIncomeStatement.places[m]
  BY <1>2, <1>3, <1>4
<1> QED
  BY <1>1, <1>4 DEF StatementIsTheCompanys, Rank

\* What the source publishes, the run, the stored statement and the payouts keep
\* their types.
THEOREM FundamentalsTypes == FundamentalsSpec => []FundamentalsTypeOK
<1>1. FundamentalsInv => FundamentalsTypeOK
  BY DEF FundamentalsInv
<1> QED
  BY <1>1, FundamentalsStart, FundamentalsStep, PTL DEF FundamentalsSpec

\* The statement served is the company's, in the source's order, whatever requests
\* failed and whatever was published between them.
THEOREM StatementsAreTheCompanys == FundamentalsSpec => []StatementIsTheCompanys
BY ServedInOrder, FundamentalsStart, FundamentalsStep, PTL DEF FundamentalsSpec

(***************************************************************************)
(* What the dashboard says of its syncs.                                   *)
(***************************************************************************)
Statuses == [busy : BOOLEAN, failed : SUBSET Stocks, known : BOOLEAN]
StatusAnswers == [busy : BOOLEAN, failed : SUBSET Stocks, known : BOOLEAN, of : 0..MaxStored]
Boards == [open : BOOLEAN, justTriggered : BOOLEAN, wasSyncing : BOOLEAN,
           confirm : {"none", "all", "clear"},
           said : {"none", "started", "complete", "cleared", "failed"}]

\* A request at rest, refused or under way, or an answer of these.
Asks(answers) == {Idle, Sent, Failed} \cup {Read(a) : a \in answers}

DeskFits ==
    /\ queue \subseteq Stocks /\ dead \subseteq Stocks /\ rid \subseteq Stocks
    /\ toEnqueue \subseteq Stocks /\ fanouts \in 0..MaxRuns /\ fanouts <= runs
    /\ stores \in 0..MaxStored /\ runs \in 0..MaxRuns /\ due \in 0..MaxStored
    /\ board \in Boards /\ statusData \in Statuses
    /\ statusAsk \in Asks(StatusAnswers) /\ stocksAsk \in Asks(0..MaxStored)
    /\ stocksData \in 0..MaxStored \cup {-1}
    /\ clearing \in {"idle", "sent", "cleared"}

\* A page that is away has said nothing.
AwaySaysNothing == ~board.open => ~board.justTriggered /\ board.said = "none"

\* The table's last refresh is asked for after the write it is due to show.
RefreshIsLater ==
    /\ due <= stores
    /\ statusAsk.at = "read" => statusAsk.answer.of <= stores
    /\ stocksAsk.at = "read" => stocksAsk.answer >= due
    /\ stocksAsk = Idle /\ stocksData # -1 => stocksData >= due

\* What was cleared has left the failed set, and every answer since the page was told; only
\* a page that knows some failures can clear them.
ClearedAreGone ==
    /\ dead \cap rid = {}
    /\ statusData.failed # {} \/ statusData.busy \/ board.confirm = "clear" \/ clearing # "idle"
          => statusData.known
    /\ board.said = "cleared" /\ clearing = "idle" =>
          /\ statusAsk.at = "read" => statusAsk.answer.failed \cap rid = {}
          /\ statusAsk = Idle => statusData.failed \cap rid = {}

\* The inductive invariant of the desk.
SyncInv == DeskFits /\ AwaySaysNothing /\ RefreshIsLater /\ ClearedAreGone

\* A request that was sent, and one that is at rest, are no answers.
LEMMA AsksDiffer ==
    /\ Idle.at = "none" /\ Sent.at = "sent" /\ Failed.at = "failed"
    /\ Idle # Sent /\ Idle # Failed /\ Sent # Failed
    /\ \A a : Read(a).at = "read" /\ Read(a).answer = a /\ Read(a) # Idle /\ Read(a) # Sent /\ Read(a) # Failed
<1>1. Idle.at = "none" /\ Sent.at = "sent" /\ Failed.at = "failed"
  BY DEF Idle, Sent, Failed
<1>2. \A a : Read(a).at = "read" /\ Read(a).answer = a
  BY DEF Read
<1>. QED  BY <1>1, <1>2

\* A poll, or an invalidation, sends a request or leaves the one there is.
LEMMA AsksMove ==
    ASSUME NEW ask, NEW shown
    PROVE  /\ poll(ask) = Sent \/ (poll(ask) = ask /\ ask # Idle)
           /\ invalidate(ask, shown) = Sent \/ (invalidate(ask, shown) = ask /\ ask # Idle)
           /\ shown => invalidate(ask, shown) = Sent
  BY DEF poll, invalidate

LEMMA SyncStarts == InitSyncDesk => SyncInv
<1>. SUFFICES ASSUME InitSyncDesk PROVE SyncInv
  OBVIOUS
<1>1. board \in Boards /\ statusData \in Statuses /\ stocksData \in 0..MaxStored \cup {-1}
  BY SyncDeskAssumption DEF InitSyncDesk, Boards, Fresh, Away, Statuses, NoData
<1>2. board.open /\ board.said = "none" /\ board.confirm = "none" /\ ~statusData.busy /\ statusData.failed = {}
  BY DEF InitSyncDesk, Fresh, Away, NoData
<1>3. /\ stores \in 0..MaxStored /\ runs \in 0..MaxRuns /\ due \in 0..MaxStored /\ due <= stores
      /\ queue \subseteq Stocks /\ dead = {} /\ rid = {} /\ fanouts = 0 /\ toEnqueue = {}
  BY SyncDeskAssumption DEF InitSyncDesk
<1>4. /\ statusAsk \in Asks(StatusAnswers) /\ stocksAsk \in Asks(0..MaxStored) /\ clearing = "idle"
      /\ statusAsk = Sent /\ stocksAsk = Sent
  BY DEF InitSyncDesk, Asks
<1>5. fanouts \in 0..MaxRuns /\ fanouts <= runs /\ toEnqueue \subseteq Stocks
  BY <1>3, SyncDeskAssumption
<1>7. DeskFits
  BY <1>1, <1>3, <1>4, <1>5 DEF DeskFits
<1>6. AwaySaysNothing /\ RefreshIsLater /\ ClearedAreGone
  BY <1>2, <1>3, <1>4, AsksDiffer DEF AwaySaysNothing, RefreshIsLater, ClearedAreGone
<1>. QED  BY <1>6, <1>7 DEF SyncInv

\* The effects of a page, over data that are no word of failures.
LEMMA EffectsKeep ==
    ASSUME SyncInv, NEW b \in Boards, NEW data \in Statuses, NEW asOf \in 0..MaxStored,
           asOf <= stores, effects(b, data, asOf)
    PROVE  /\ board' \in Boards /\ board'.open = b.open /\ board'.confirm = b.confirm
           /\ board'.justTriggered = (b.justTriggered /\ ~data.busy)
           /\ board'.said = b.said \/ (board'.said = "complete" /\ ~b.justTriggered /\ ~data.busy)
           /\ due' \in 0..MaxStored /\ due' <= stores
           /\ stocksAsk' = Sent \/ (stocksAsk' = stocksAsk /\ due' = due)
<1>1. board' \in Boards
  BY DEF effects, Boards, stillTriggered, syncingAll, Statuses
<1>2. board'.open = b.open /\ board'.confirm = b.confirm
  BY DEF effects, Boards
<1>3. board'.justTriggered = (b.justTriggered /\ ~data.busy)
  BY DEF effects, Boards, stillTriggered
<1>4. board'.said = b.said \/ (board'.said = "complete" /\ ~b.justTriggered /\ ~data.busy)
  BY DEF effects, Boards, syncingAll
<1>5. due' \in 0..MaxStored /\ due' <= stores
  BY DEF effects, SyncInv, DeskFits, RefreshIsLater
<1>6. stocksAsk' = Sent \/ (stocksAsk' = stocksAsk /\ due' = due)
  BY AsksMove DEF effects
<1>. QED  BY <1>1, <1>2, <1>3, <1>4, <1>5, <1>6

LEMMA SyncStep == SyncInv /\ [NextSyncDesk]_syncDeskVars => SyncInv'
<1>. SUFFICES ASSUME SyncInv, [NextSyncDesk]_syncDeskVars PROVE SyncInv'
  OBVIOUS
<1>. USE AsksDiffer
<1>0. /\ DeskFits /\ AwaySaysNothing /\ RefreshIsLater /\ ClearedAreGone
      /\ MaxStored \in Nat /\ MaxRuns \in Nat
  BY SyncDeskAssumption DEF SyncInv
<1>1. ASSUME NEW s \in Stocks, NEW ok \in BOOLEAN, SyncEnds(s, ok) PROVE SyncInv'
  <2>1. DeskFits'
    BY <1>0, <1>1 DEF SyncEnds, spread, requests, DeskFits
  <2>2. AwaySaysNothing'
    BY <1>0, <1>1 DEF SyncEnds, requests, AwaySaysNothing
  <2>3. stores' >= stores /\ stores' \in Nat /\ stores \in Nat
    BY <1>0, <1>1 DEF SyncEnds, DeskFits
  <2>4. statusAsk.at = "read" => statusAsk.answer.of \in Nat
    BY <1>0 DEF DeskFits, Asks, StatusAnswers
  <2>5. RefreshIsLater'
    BY <1>0, <1>1, <2>3, <2>4 DEF SyncEnds, requests, RefreshIsLater, DeskFits
  <2>6. ClearedAreGone'
    BY <1>0, <1>1 DEF SyncEnds, requests, ClearedAreGone
  <2>. QED  BY <2>1, <2>2, <2>5, <2>6 DEF SyncInv
<1>2. ASSUME NEW s \in Stocks, OthersSync(s) \/ FanOut(s) PROVE SyncInv'
  BY <1>0, <1>2 DEF OthersSync, FanOut, enqueueSync, spread, requests, ghosts, SyncInv, DeskFits, AwaySaysNothing, RefreshIsLater, ClearedAreGone
<1>27. CASE CronSyncAll \/ processSyncAllJob \/ FanOutFails
  BY <1>0, <1>27 DEF CronSyncAll, processSyncAllJob, FanOutFails, enqueueSyncAll, requests, ghosts,
                     SyncInv, DeskFits, AwaySaysNothing, RefreshIsLater, ClearedAreGone
<1>3. CASE getSyncStatus
  <2>. DEFINE answer == [busy |-> queue # {}, failed |-> dead, known |-> TRUE, of |-> stores]
  <2>1. statusAsk' = Read(answer) /\ UNCHANGED <<server, board, statusData, stocksData, stocksAsk, syncAll, clearing, ghosts>>
    BY <1>3 DEF getSyncStatus
  <2>2. answer \in StatusAnswers
    BY <1>0 DEF DeskFits, StatusAnswers
  <2>3. answer.busy = (queue # {}) /\ answer.failed = dead /\ answer.of = stores
    OBVIOUS
  <2>. HIDE DEF answer
  <2>4. statusAsk' \in Asks(StatusAnswers)
    BY <2>1, <2>2 DEF Asks
  <2>5. statusAsk'.at = "read" /\ statusAsk'.answer = answer /\ statusAsk' # Idle
    BY <2>1
  <2>6. DeskFits' /\ AwaySaysNothing'
    BY <1>0, <2>1, <2>4 DEF server, spread, ghosts, DeskFits, AwaySaysNothing
  <2>8. RefreshIsLater'
    BY <1>0, <2>1, <2>3, <2>5 DEF server, spread, ghosts, DeskFits, RefreshIsLater
  <2>9. ClearedAreGone'
    BY <1>0, <2>1, <2>3, <2>5 DEF server, spread, ghosts, ClearedAreGone
  <2>. QED  BY <2>6, <2>8, <2>9 DEF SyncInv
<1>4. CASE listStocks
  <2>1. stocksAsk' \in Asks(0..MaxStored)
    BY <1>0, <1>4 DEF listStocks, Asks, DeskFits
  <2>. QED  BY <1>0, <1>4, <2>1 DEF listStocks, server, spread, ghosts, SyncInv, DeskFits, AwaySaysNothing, RefreshIsLater, ClearedAreGone
<1>5. CASE syncAllAccepted
  BY <1>0, <1>5 DEF syncAllAccepted, enqueueSyncAll, ghosts, SyncInv, DeskFits, AwaySaysNothing, RefreshIsLater, ClearedAreGone
<1>6. CASE clearFailed
  BY <1>0, <1>6 DEF clearFailed, spread, SyncInv, DeskFits, AwaySaysNothing, RefreshIsLater, ClearedAreGone
<1>7. CASE pollStatus
  <2>1. statusAsk' = Sent /\ UNCHANGED <<server, board, statusData, stocksData, stocksAsk, syncAll, clearing, ghosts>>
    BY <1>7, AsksMove DEF pollStatus
  <2>. QED  BY <1>0, <2>1 DEF Asks, server, spread, ghosts, SyncInv, DeskFits, AwaySaysNothing, RefreshIsLater, ClearedAreGone
<1>8. CASE pollStocks
  <2>1. stocksAsk' = Sent /\ UNCHANGED <<server, board, statusData, stocksData, statusAsk, syncAll, clearing, ghosts>>
    BY <1>8, AsksMove DEF pollStocks
  <2>. QED  BY <1>0, <2>1 DEF Asks, server, spread, ghosts, SyncInv, DeskFits, AwaySaysNothing, RefreshIsLater, ClearedAreGone
<1>9. CASE statusArrives
  <2>. DEFINE seen == statusAsk.answer
              data == [busy |-> seen.busy, failed |-> seen.failed, known |-> TRUE]
  <2>1. /\ statusAsk.at = "read" /\ statusAsk' = Idle /\ statusData' = data
        /\ UNCHANGED <<server, stocksData, syncAll, clearing, rid>>
        /\ IF board.open THEN effects(board, data, seen.of) ELSE UNCHANGED <<board, stocksAsk, due>>
    BY <1>9 DEF statusArrives
  <2>2. seen \in StatusAnswers
    BY <1>0, <2>1 DEF DeskFits, Asks
  <2>3. data \in Statuses /\ seen.of \in 0..MaxStored /\ seen.of <= stores
    BY <1>0, <2>1, <2>2 DEF StatusAnswers, Statuses, RefreshIsLater
  <2>4. data.busy = seen.busy /\ data.failed = seen.failed /\ data.known
    OBVIOUS
  <2>. HIDE DEF data
  <2>5. /\ board' \in Boards /\ board'.open = board.open /\ board'.confirm = board.confirm
        /\ board'.justTriggered => board.justTriggered
        /\ board'.said = board.said \/ (board'.said = "complete" /\ ~board.justTriggered /\ ~data.busy)
        /\ due' \in 0..MaxStored /\ due' <= stores
        /\ stocksAsk' = Sent \/ (stocksAsk' = stocksAsk /\ due' = due)
    <3>1. CASE board.open
      BY <1>0, <2>1, <2>3, <3>1, EffectsKeep DEF DeskFits
    <3>2. CASE ~board.open
      BY <1>0, <2>1, <3>2 DEF DeskFits, RefreshIsLater
    <3>. QED  BY <3>1, <3>2
  <2>6. DeskFits'
    BY <1>0, <2>1, <2>3, <2>5 DEF DeskFits, Asks, server, spread
  <2>7. AwaySaysNothing'
    BY <1>0, <2>1, <2>4, <2>5 DEF AwaySaysNothing, DeskFits, Boards
  <2>8. RefreshIsLater'
    BY <1>0, <2>1, <2>5 DEF RefreshIsLater, server, spread
  <2>9. ClearedAreGone'
    BY <1>0, <2>1, <2>4, <2>5 DEF ClearedAreGone, server, spread
  <2>. QED  BY <2>6, <2>7, <2>8, <2>9 DEF SyncInv
<1>10. CASE statusFails
  BY <1>0, <1>10 DEF statusFails, Asks, server, spread, ghosts, SyncInv, DeskFits, AwaySaysNothing, RefreshIsLater, ClearedAreGone
<1>11. CASE stocksFail
  BY <1>0, <1>11 DEF stocksFail, Asks, server, spread, ghosts, SyncInv, DeskFits, AwaySaysNothing, RefreshIsLater, ClearedAreGone
<1>12. CASE stocksArrive
  <2>1. stocksAsk.answer \in 0..MaxStored
    BY <1>0, <1>12 DEF stocksArrive, DeskFits, Asks
  <2>. QED  BY <1>0, <1>12, <2>1 DEF stocksArrive, Asks, server, spread, ghosts, SyncInv, DeskFits, AwaySaysNothing, RefreshIsLater, ClearedAreGone
<1>13. ASSUME NEW how \in {"none", "all"}, board' = [board EXCEPT !.confirm = how],
              UNCHANGED <<server, statusData, stocksData, statusAsk, stocksAsk, ghosts>>,
              clearing' = clearing \/ (board.confirm = "clear" /\ clearing' = "sent" /\ clearing = "idle")
       PROVE  SyncInv'
  <2>1. board' \in Boards /\ board'.open = board.open /\ board'.said = board.said
        /\ board'.confirm = how /\ board'.justTriggered = board.justTriggered
    BY <1>0, <1>13 DEF DeskFits, Boards
  <2>. QED  BY <1>0, <1>13, <2>1 DEF server, spread, ghosts, SyncInv, DeskFits, AwaySaysNothing, RefreshIsLater, ClearedAreGone
<1>14. CASE openConfirm
  BY <1>13, <1>14 DEF openConfirm, requests
<1>15. CASE openClear
  <2>1. /\ statusData.failed # {} /\ board' = [board EXCEPT !.confirm = "clear"]
        /\ UNCHANGED <<server, statusData, stocksData, requests, ghosts>>
    BY <1>15 DEF openClear, failuresShown
  <2>2. board' \in Boards /\ board'.open = board.open /\ board'.said = board.said
        /\ board'.confirm = "clear" /\ board'.justTriggered = board.justTriggered
    BY <1>0, <2>1 DEF DeskFits, Boards
  <2>. QED  BY <1>0, <2>1, <2>2 DEF server, spread, requests, ghosts, SyncInv, DeskFits, AwaySaysNothing, RefreshIsLater, ClearedAreGone
<1>16. CASE closeConfirm
  BY <1>13, <1>16 DEF closeConfirm, requests
<1>17. CASE runSyncAll
  BY <1>13, <1>17 DEF runSyncAll
<1>18. CASE runClear
  BY <1>13, <1>18 DEF runClear
<1>19. CASE syncAllStarted
  <2>1. CASE ~board.open
    BY <1>0, <1>19, <2>1 DEF syncAllStarted, server, spread, SyncInv, DeskFits, AwaySaysNothing, RefreshIsLater, ClearedAreGone
  <2>2. CASE board.open
    <3>. DEFINE b == [board EXCEPT !.justTriggered = TRUE, !.said = "started"]
    <3>1. /\ statusAsk' = invalidate(statusAsk, statusData.known)
          /\ effects(b, statusData, due) /\ UNCHANGED <<server, statusData, stocksData, clearing, rid>>
      BY <1>19, <2>2 DEF syncAllStarted
    <3>2. b \in Boards
      BY <1>0 DEF DeskFits, Boards
    <3>3. b.open /\ b.justTriggered /\ b.said = "started" /\ b.confirm = board.confirm
      BY <1>0, <2>2 DEF DeskFits, Boards
    <3>. HIDE DEF b
    <3>4. /\ board' \in Boards /\ board'.open /\ board'.confirm = board.confirm
          /\ board'.justTriggered = ~statusData.busy /\ board'.said = "started"
          /\ due' \in 0..MaxStored /\ due' <= stores
          /\ stocksAsk' = Sent \/ (stocksAsk' = stocksAsk /\ due' = due)
      BY <1>0, <3>1, <3>2, <3>3, EffectsKeep DEF DeskFits, RefreshIsLater
    <3>5. statusAsk' = Sent \/ (statusAsk' = statusAsk /\ statusAsk # Idle /\ ~statusData.busy)
      BY <1>0, <3>1, AsksMove DEF ClearedAreGone
    <3>6. DeskFits'
      BY <1>0, <3>1, <3>4, <3>5 DEF DeskFits, Asks, server, spread
    <3>7. AwaySaysNothing'
      BY <1>0, <3>1, <3>4, <3>5 DEF AwaySaysNothing
    <3>8. RefreshIsLater'
      BY <1>0, <3>1, <3>4, <3>5 DEF RefreshIsLater, server, spread
    <3>9. ClearedAreGone'
      BY <1>0, <3>1, <3>4 DEF ClearedAreGone, server, spread
    <3>. QED  BY <3>6, <3>7, <3>8, <3>9 DEF SyncInv
  <2>. QED  BY <2>1, <2>2
<1>20. ASSUME board' = IF board.open THEN [board EXCEPT !.said = "failed"] ELSE board,
              UNCHANGED <<server, statusData, stocksData, statusAsk, stocksAsk, ghosts>>,
              clearing' \in {clearing, "idle"}
       PROVE  SyncInv'
  <2>1. /\ board' \in Boards /\ board'.open = board.open /\ board'.confirm = board.confirm
        /\ board'.justTriggered = board.justTriggered
        /\ board'.said = IF board.open THEN "failed" ELSE board.said
    BY <1>0, <1>20 DEF DeskFits, Boards
  <2>. QED  BY <1>0, <1>20, <2>1 DEF server, spread, ghosts, SyncInv, DeskFits, AwaySaysNothing, RefreshIsLater, ClearedAreGone
<1>21. CASE syncAllFailed
  BY <1>20, <1>21 DEF syncAllFailed
<1>22. CASE clearFails
  BY <1>20, <1>22 DEF clearFails
<1>23. CASE clearAnswered
  <2>1. /\ clearing = "cleared" /\ clearing' = "idle"
        /\ UNCHANGED <<server, statusData, stocksData, stocksAsk, ghosts>>
        /\ statusAsk' = IF board.open THEN invalidate(statusAsk, statusData.known) ELSE statusAsk
        /\ board' = IF board.open THEN [board EXCEPT !.said = "cleared"] ELSE board
    BY <1>23 DEF clearAnswered
  <2>2. statusAsk' = IF board.open THEN Sent ELSE statusAsk
    BY <1>0, <2>1, AsksMove DEF ClearedAreGone
  <2>3. /\ board' \in Boards /\ board'.open = board.open /\ board'.confirm = board.confirm
        /\ board'.justTriggered = board.justTriggered
        /\ board'.said = IF board.open THEN "cleared" ELSE board.said
    BY <1>0, <2>1 DEF DeskFits, Boards
  <2>. QED  BY <1>0, <2>1, <2>2, <2>3 DEF Asks, server, spread, ghosts, SyncInv, DeskFits, AwaySaysNothing, RefreshIsLater, ClearedAreGone
<1>24. CASE Leave
  <2>1. Away \in Boards /\ ~Away.open /\ ~Away.justTriggered /\ Away.said = "none" /\ Away.confirm = "none"
    BY DEF Away, Boards
  <2>2. /\ board' = Away /\ due' = 0
        /\ UNCHANGED <<server, statusData, stocksData, requests, rid>>
    BY <1>24 DEF Leave
  <2>3. stocksAsk.at = "read" => stocksAsk.answer \in 0..MaxStored
    BY <1>0 DEF DeskFits, Asks
  <2>4. DeskFits' /\ AwaySaysNothing'
    BY <1>0, <2>1, <2>2 DEF server, spread, requests, DeskFits, AwaySaysNothing
  <2>5. RefreshIsLater'
    BY <1>0, <2>2, <2>3 DEF server, spread, requests, DeskFits, RefreshIsLater
  <2>6. ClearedAreGone'
    BY <1>0, <2>1, <2>2 DEF server, spread, requests, ClearedAreGone
  <2>. QED  BY <2>4, <2>5, <2>6 DEF SyncInv
<1>25. ASSUME NEW stale \in BOOLEAN, Return(stale) PROVE SyncInv'
  <2>1. syncingAll(Fresh, statusData) \in BOOLEAN
    BY <1>0 DEF syncingAll, Fresh, Away, DeskFits, Statuses
  <2>2. /\ board' \in Boards /\ board'.open /\ ~board'.justTriggered
        /\ board'.said = "none" /\ board'.confirm = "none"
    BY <1>25, <2>1 DEF Return, Fresh, Away, Boards
  <2>3. /\ statusAsk' = Sent \/ statusAsk' = statusAsk
        /\ stocksAsk' = Sent \/ stocksAsk' = stocksAsk
        /\ ~board.open /\ UNCHANGED <<server, statusData, stocksData, clearing, ghosts>>
    BY <1>25, AsksMove DEF Return
  <2>. QED  BY <1>0, <2>2, <2>3 DEF Asks, server, spread, ghosts, SyncInv, DeskFits, AwaySaysNothing, RefreshIsLater, ClearedAreGone
<1>26. CASE UNCHANGED syncDeskVars
  BY <1>0, <1>26 DEF syncDeskVars, SyncInv, DeskFits, AwaySaysNothing, RefreshIsLater, ClearedAreGone
<1>. QED
  BY <1>1, <1>2, <1>3, <1>4, <1>5, <1>6, <1>7, <1>8, <1>9, <1>10, <1>11, <1>12, <1>14, <1>15, <1>16,
     <1>17, <1>18, <1>19, <1>21, <1>22, <1>23, <1>24, <1>25, <1>26, <1>27 DEF NextSyncDesk

LEMMA SyncHolds == SyncInv => SyncDeskTypeOK /\ RefreshShowsIt
<1>. SUFFICES ASSUME SyncInv PROVE SyncDeskTypeOK /\ RefreshShowsIt
  OBVIOUS
<1>1. SyncDeskTypeOK
  BY DEF SyncInv, DeskFits, Boards, SyncDeskTypeOK
<1>2. tableShows = "rows" => stocksData # -1
  BY DEF tableShows
<1>3. RefreshShowsIt
  BY <1>2 DEF SyncInv, RefreshIsLater, ClearedAreGone, RefreshShowsIt, failuresShown
<1>. QED  BY <1>1, <1>3

\* The desk's variables keep their types: no more fan-outs wait than were asked for.
THEOREM SyncDeskTypes == SyncDeskSpec => []SyncDeskTypeOK
  BY SyncStarts, SyncStep, SyncHolds, PTL DEF SyncDeskSpec

\* What the dashboard says of the figures and of the failures is so, whatever answers cross:
\* its last refresh shows every figure stored before the queue was read dry, and cleared
\* failures are gone from it.
THEOREM SaidIsSo == SyncDeskSpec => []RefreshShowsIt
  BY SyncStarts, SyncStep, SyncHolds, PTL DEF SyncDeskSpec

---------------------------------------------------------------------------
(***************************************************************************)
(* The failures of a queue.                                                *)
(***************************************************************************)
\* The places of a list that hold what is kept have a rank each, and no two the same.
LEMMA PlacesRank ==
    ASSUME NEW n \in Nat, NEW S \in SUBSET (1..n)
    PROVE  /\ Cardinality(S) \in Nat
           /\ \A i \in S : Cardinality({j \in S : j <= i}) \in 1..Cardinality(S)
           /\ \A i, k \in S : Cardinality({j \in S : j <= i}) = Cardinality({j \in S : j <= k}) => i = k
<1> DEFINE upto(i) == {j \in S : j <= i}
<1>1. IsFiniteSet(S)
  <2>1. IsFiniteSet(1..n)
    BY FS_Interval
  <2> QED
    BY <2>1, FS_Subset
<1>2. ASSUME NEW i \in S
      PROVE  /\ IsFiniteSet(upto(i)) /\ Cardinality(upto(i)) \in Nat
             /\ Cardinality(upto(i)) <= Cardinality(S) /\ Cardinality(upto(i)) # 0
  <2>1. upto(i) \subseteq S /\ i \in upto(i)
    OBVIOUS
  <2> HIDE DEF upto
  <2>2. IsFiniteSet(upto(i)) /\ Cardinality(upto(i)) <= Cardinality(S)
    BY <1>1, <2>1, FS_Subset
  <2> QED
    BY <2>1, <2>2, FS_CardinalityType, FS_EmptySet
<1>3. ASSUME NEW i \in S, NEW k \in S, i < k PROVE Cardinality(upto(i)) # Cardinality(upto(k))
  <2>1. upto(i) \subseteq upto(k) /\ k \in upto(k) /\ k \notin upto(i)
    <3>1. \A j \in S : j \in Nat
      OBVIOUS
    <3>2. \A j \in S : j <= i => j <= k
      BY <1>3, <3>1
    <3>3. k <= k /\ ~(k <= i)
      BY <1>3, <3>1
    <3> QED
      BY <3>2, <3>3
  <2>2. IsFiniteSet(upto(k))
    BY <1>2
  <2> HIDE DEF upto
  <2>3. Cardinality(upto(i)) = Cardinality(upto(k)) => upto(k) = upto(i)
    BY <2>1, <2>2, FS_Subset
  <2> QED
    BY <2>1, <2>3
<1>4. Cardinality(S) \in Nat
  BY <1>1, FS_CardinalityType
<1>5. \A i \in S : Cardinality(upto(i)) \in 1..Cardinality(S)
  <2> HIDE DEF upto
  <2> QED
    BY <1>2, <1>4
<1>6. \A i, k \in S : Cardinality(upto(i)) = Cardinality(upto(k)) => i = k
  <2> HIDE DEF upto
  <2>1. \A i, k \in S : i < k \/ k < i \/ i = k
    OBVIOUS
  <2> QED
    BY <1>3, <2>1
<1> QED
  BY <1>4, <1>5, <1>6

\* A list with no more than what is kept is a list of what it held and is kept, and of
\* nothing twice if it held nothing twice.
LEMMA KeepingKeeps ==
    ASSUME NEW S, NEW list \in Seq(S), NEW kept
    PROVE  /\ Keeping(list, kept) \in Seq(S)
           /\ ToSet(Keeping(list, kept)) = ToSet(list) \cap kept
           /\ IsInjective(list) => IsInjective(Keeping(list, kept))
<1> DEFINE places == {k \in DOMAIN list : list[k] \in kept}
           rank(k) == Cardinality({j \in places : j <= k})
           nth(n) == CHOOSE k \in places : rank(k) = n
           m == Cardinality(places)
<1>1. PICK len \in Nat : len = Len(list)
  OBVIOUS
<1>2. DOMAIN list = 1..len /\ \A k \in 1..len : list[k] \in S
  BY <1>1
<1>3. places \in SUBSET (1..len)
  BY <1>2
<1>4. /\ m \in Nat /\ \A k \in places : rank(k) \in 1..m
      /\ \A i, k \in places : rank(i) = rank(k) => i = k
  <2> HIDE DEF places
  <2> QED
    BY <1>3, PlacesRank
<1>5. \A n \in 1..m : nth(n) \in places /\ rank(nth(n)) = n
  <2> SUFFICES ASSUME NEW n \in 1..m PROVE nth(n) \in places /\ rank(nth(n)) = n
    OBVIOUS
  <2>1. \E k \in places : rank(k) = n
    <3> HIDE DEF places
    <3> QED
      BY <1>3, NthPlace
  <2> HIDE DEF rank, places
  <2> QED
    BY <2>1
<1>6. \A k \in places : nth(rank(k)) = k
  <2> HIDE DEF rank, nth, m, places
  <2> QED
    BY <1>4, <1>5
<1>7. Keeping(list, kept) = [n \in 1..m |-> list[nth(n)]]
  BY DEF Keeping
<1>8. \A k \in places : list[k] \in S /\ list[k] \in kept /\ k \in DOMAIN list
  BY <1>2
<1>9. \A k \in DOMAIN list : list[k] \in kept => k \in places
  OBVIOUS
<1> DEFINE result == Keeping(list, kept)
<1> HIDE DEF rank, nth, m, places, result
<1>10. DOMAIN result = 1..m /\ \A n \in 1..m : result[n] = list[nth(n)]
  BY <1>7 DEF result
<1>11. result \in [1..m -> S]
  BY <1>5, <1>7, <1>8 DEF result
<1>12. result \in Seq(S)
  BY <1>4, <1>11
<1>13. ToSet(result) \subseteq ToSet(list) \cap kept
  BY <1>5, <1>8, <1>10 DEF ToSet
<1>14. ToSet(list) \cap kept \subseteq ToSet(result)
  <2> SUFFICES ASSUME NEW k \in DOMAIN list, list[k] \in kept PROVE list[k] \in ToSet(result)
    BY DEF ToSet
  <2>1. k \in places
    BY <1>9
  <2>2. rank(k) \in 1..m /\ nth(rank(k)) = k
    BY <1>4, <1>6, <2>1
  <2> QED
    BY <1>10, <2>2 DEF ToSet
<1>15. ASSUME IsInjective(list) PROVE IsInjective(result)
  <2> SUFFICES ASSUME NEW a \in 1..m, NEW b \in 1..m, result[a] = result[b] PROVE a = b
    BY <1>10 DEF IsInjective
  <2>1. list[nth(a)] = list[nth(b)] /\ nth(a) \in DOMAIN list /\ nth(b) \in DOMAIN list
    BY <1>5, <1>8, <1>10
  <2>2. nth(a) = nth(b)
    BY <1>15, <2>1 DEF IsInjective
  <2> QED
    BY <1>5, <2>2
<1> QED
  BY <1>12, <1>13, <1>14, <1>15 DEF result

\* A list with one more at its end that it did not hold.
LEMMA AppendHolds ==
    ASSUME NEW S, NEW list \in Seq(S), NEW i \in S
    PROVE  /\ Append(list, i) \in Seq(S)
           /\ ToSet(Append(list, i)) = ToSet(list) \cup {i}
           /\ IsInjective(list) /\ i \notin ToSet(list) => IsInjective(Append(list, i))
<1> DEFINE more == Append(list, i)
<1>1. PICK n \in Nat : n = Len(list)
  OBVIOUS
<1>2. more \in Seq(S) /\ DOMAIN more = 1..(n + 1) /\ DOMAIN list = 1..n
  BY <1>1
<1>3. more[n + 1] = i /\ \A k \in 1..n : more[k] = list[k]
  BY <1>1
<1>4. \A k \in 1..(n + 1) : k = n + 1 \/ k \in 1..n
  OBVIOUS
<1>5. 1..n \subseteq 1..(n + 1) /\ n + 1 \in 1..(n + 1)
  OBVIOUS
<1> HIDE DEF more
<1>6. ToSet(more) = ToSet(list) \cup {i}
  BY <1>2, <1>3, <1>4, <1>5 DEF ToSet
<1>7. ASSUME IsInjective(list), i \notin ToSet(list) PROVE IsInjective(more)
  BY <1>2, <1>3, <1>4, <1>7 DEF IsInjective, ToSet
<1> QED
  BY <1>2, <1>6, <1>7 DEF more

JobRows == [state : {"none"} \cup Pending \cup Finished, range : Ranges \cup {"-"}, tries : Nat]
AskRows == [at : {"idle", "remove", "add"}, id : Syncable \cup {"-"}, range : Ranges \cup {"-"}]
DeskSteps == {"idle", "members", "clean", "again", "drop", "cleared"}

JobsTyped ==
    /\ jobs \in [Syncable -> JobRows] /\ failedIds \in Seq(Syncable)
    /\ accepted \subseteq Syncable /\ ghosted \subseteq Syncable

AsksTyped ==
    /\ asks \in [Askers -> AskRows]
    /\ \A t \in Askers : asks[t].at # "idle" => asks[t].id \in Syncable

ClearTyped ==
    /\ DOMAIN desk = {"at", "members", "existing", "survivors", "since", "told"}
    /\ desk.at \in DeskSteps /\ desk.members \in Seq(Syncable)

\* The list holds each failed job once; an id that is on it and is not that of a failed job
\* lost its payload there.
ListIsOfFailures ==
    /\ \A i \in Syncable : jobs[i].state = "failed" => i \in ToSet(failedIds)
    /\ IsInjective(failedIds)
    /\ \A i \in ToSet(failedIds) : jobs[i].state = "failed" \/ i \in ghosted

\* What the clear found and has not taken from the list: an id without a payload, which
\* it will drop, or one that was queued or failed since.
ClearLeaves ==
    LET left == ToSet(failedIds) \cap ToSet(desk.members)
    IN /\ desk.at \in {"again", "drop"} => \A i \in left : jobs[i].state = "none" \/ i \in desk.since
       /\ desk.at = "cleared" => left \subseteq desk.since

Adds(i) == \E t \in Askers : asks[t].at = "add" /\ asks[t].id = i

\* A job that was queued waits, or has just been removed to be queued again.
QueuedStay ==
    \A i \in accepted \ ghosted : jobs[i].state = "waiting" \/ (jobs[i].state = "none" /\ Adds(i))

DeskInv == JobsTyped /\ AsksTyped /\ ClearTyped /\ ListIsOfFailures /\ ClearLeaves /\ QueuedStay

LEMMA DeskStarts == InitDesk => DeskInv
<1> SUFFICES ASSUME InitDesk PROVE DeskInv
  OBVIOUS
<1>1. NoJob \in JobRows /\ NoJob.state = "none" /\ NoAsk \in AskRows /\ NoAsk.at = "idle"
  BY DEF NoJob, JobRows, NoAsk, AskRows
<1>2. failedIds = <<>> /\ failedIds \in Seq(Syncable) /\ ToSet(failedIds) = {} /\ IsInjective(failedIds)
  BY DEF InitDesk, ToSet, IsInjective
<1>3. JobsTyped /\ AsksTyped
  BY <1>1, <1>2 DEF InitDesk, JobsTyped, AsksTyped
<1>4. ClearTyped /\ desk.at = "idle"
  BY DEF InitDesk, ClearTyped, IdleDesk, DeskSteps
<1>5. ListIsOfFailures /\ ClearLeaves /\ QueuedStay
  BY <1>1, <1>2, <1>4 DEF InitDesk, ListIsOfFailures, ClearLeaves, QueuedStay
<1> QED
  BY <1>3, <1>4, <1>5 DEF DeskInv

\* What a step of the clear writes of its own record.
LEMMA SinceGrows ==
    ASSUME ClearTyped, NEW i, Since(i)
    PROVE  /\ ClearTyped' /\ desk'.at = desk.at /\ desk'.members = desk.members
           /\ desk'.since = desk.since \cup {i}
BY DEF ClearTyped, Since, DeskSteps

LEMMA AsksStep ==
    ASSUME AsksTyped, JobsTyped, NEW t \in Askers
    PROVE  /\ \A i \in Syncable, range \in Ranges :
                 findExistingHistoryJob(t, i, range) => AsksTyped' /\ \A k : Adds(k) => Adds(k)'
           /\ removeFinished(t) =>
                 AsksTyped' /\ asks[t].id \in Syncable /\ \A k : k = asks[t].id \/ Adds(k) => Adds(k)'
           /\ enqueueHistorySync(t) =>
                 /\ AsksTyped' /\ asks[t].id \in Syncable
                 /\ \A k : Adds(k) /\ k # asks[t].id => Adds(k)'
<1>1. ASSUME NEW entry \in AskRows, entry.at # "idle" => entry.id \in Syncable,
             asks' = [asks EXCEPT ![t] = entry]
      PROVE  AsksTyped'
  BY <1>1 DEF AsksTyped
<1>2. ASSUME NEW i \in Syncable, NEW range \in Ranges, findExistingHistoryJob(t, i, range)
      PROVE  AsksTyped' /\ \A k : Adds(k) => Adds(k)'
  <2>1. asks[t].at = "idle"
    BY <1>2 DEF findExistingHistoryJob
  <2>2. CASE UNCHANGED asks
    BY <2>2 DEF AsksTyped, Adds
  <2>3. CASE ~UNCHANGED asks
    <3> DEFINE entry == [at |-> IF jobs[i].state = "none" THEN "add" ELSE "remove", id |-> i, range |-> range]
    <3>1. asks' = [asks EXCEPT ![t] = entry]
      BY <1>2, <2>3 DEF findExistingHistoryJob
    <3>2. entry \in AskRows /\ entry.id \in Syncable
      BY DEF AskRows
    <3> HIDE DEF entry
    <3>3. AsksTyped'
      BY <1>1, <3>1, <3>2
    <3>4. \A u \in Askers : u # t => asks'[u] = asks[u]
      BY <3>1 DEF AsksTyped
    <3>5. \A k : Adds(k) => Adds(k)'
      BY <2>1, <3>4 DEF Adds
    <3> QED
      BY <3>3, <3>5
  <2> QED
    BY <2>2, <2>3
<1>3. ASSUME removeFinished(t)
      PROVE  AsksTyped' /\ asks[t].id \in Syncable /\ \A k : k = asks[t].id \/ Adds(k) => Adds(k)'
  <2>1. asks[t].at = "remove" /\ asks[t].id \in Syncable /\ asks[t] \in AskRows
    BY <1>3 DEF removeFinished, AsksTyped
  <2>2. asks' = [asks EXCEPT ![t] = [asks[t] EXCEPT !.at = "add"]]
    BY <1>3 DEF removeFinished, AsksTyped
  <2> DEFINE entry == [asks[t] EXCEPT !.at = "add"]
  <2>3. entry \in AskRows /\ entry.id = asks[t].id /\ entry.at = "add"
    BY <2>1 DEF AskRows
  <2> HIDE DEF entry
  <2>4. AsksTyped'
    BY <1>1, <2>1, <2>2, <2>3 DEF entry
  <2>5. asks'[t] = entry /\ \A u \in Askers : u # t => asks'[u] = asks[u]
    BY <2>2 DEF AsksTyped, entry
  <2>6. \A k : k = asks[t].id => Adds(k)'
    BY <2>3, <2>5 DEF Adds
  <2>7. \A k : Adds(k) => Adds(k)'
    BY <2>1, <2>5 DEF Adds
  <2> QED
    BY <2>1, <2>4, <2>6, <2>7
<1>4. ASSUME enqueueHistorySync(t)
      PROVE  /\ AsksTyped' /\ asks[t].id \in Syncable
             /\ \A k : Adds(k) /\ k # asks[t].id => Adds(k)'
  <2>1. asks[t].at = "add" /\ asks[t].id \in Syncable /\ asks' = [asks EXCEPT ![t] = NoAsk]
    BY <1>4 DEF enqueueHistorySync, AsksTyped
  <2>2. NoAsk \in AskRows /\ NoAsk.at = "idle"
    BY DEF NoAsk, AskRows
  <2>3. AsksTyped'
    BY <1>1, <2>1, <2>2
  <2>4. \A u \in Askers : u # t => asks'[u] = asks[u]
    BY <2>1 DEF AsksTyped
  <2> QED
    BY <2>1, <2>3, <2>4 DEF Adds
<1> QED
  BY <1>2, <1>3, <1>4

LEMMA JobChanges ==
    ASSUME JobsTyped, NEW i \in Syncable, NEW entry \in JobRows, jobs' = [jobs EXCEPT ![i] = entry]
    PROVE  /\ jobs' \in [Syncable -> JobRows] /\ jobs'[i] = entry
           /\ \A k \in Syncable : k # i => jobs'[k] = jobs[k]
BY DEF JobsTyped

LEMMA NoJobRow == NoJob \in JobRows /\ NoJob.state = "none"
BY DEF NoJob, JobRows

\* The list without an id.
LEMMA Unlisted ==
    ASSUME JobsTyped, NEW i \in Syncable
    PROVE  /\ Without(failedIds, {i}) \in Seq(Syncable)
           /\ ToSet(Without(failedIds, {i})) = ToSet(failedIds) \ {i}
           /\ IsInjective(failedIds) => IsInjective(Without(failedIds, {i}))
<1>1. ToSet(failedIds) \subseteq Syncable
  BY DEF JobsTyped, ToSet
<1>2. failedIds \in Seq(Syncable)
  BY DEF JobsTyped
<1> DEFINE kept == Syncable \ {i}
<1>3. Without(failedIds, {i}) = Keeping(failedIds, kept)
  BY DEF Without
<1>4. ToSet(failedIds) \cap kept = ToSet(failedIds) \ {i}
  BY <1>1
<1> HIDE DEF kept
<1>5. /\ Keeping(failedIds, kept) \in Seq(Syncable)
      /\ ToSet(Keeping(failedIds, kept)) = ToSet(failedIds) \cap kept
      /\ IsInjective(failedIds) => IsInjective(Keeping(failedIds, kept))
  BY <1>2, KeepingKeeps
<1> QED
  BY <1>3, <1>4, <1>5

\* An id that has become neither a failure nor a job its clear has to spare leaves what
\* the other ids are held to.
LEMMA OneJob ==
    ASSUME DeskInv, NEW i \in Syncable, NEW entry \in JobRows, jobs' = [jobs EXCEPT ![i] = entry],
           JobsTyped', ClearTyped',
           ToSet(failedIds)' = ToSet(failedIds) \/ ToSet(failedIds)' = ToSet(failedIds) \ {i},
           IsInjective(failedIds)',
           entry.state # "failed", i \in ToSet(failedIds)' => i \in ghosted',
           ghosted \subseteq ghosted',
           desk'.at = desk.at, desk'.members = desk.members, desk.since \subseteq desk'.since,
           entry.state = "none" \/ jobs[i].state # "none" \/ i \in desk'.since
    PROVE  ListIsOfFailures' /\ ClearLeaves'
<1>1. jobs'[i] = entry /\ \A k \in Syncable : k # i => jobs'[k] = jobs[k]
  BY JobChanges DEF DeskInv
<1>2. ToSet(failedIds)' \subseteq ToSet(failedIds) /\ ToSet(failedIds) \subseteq Syncable
  <2>1. ToSet(failedIds) \subseteq Syncable
    BY DEF DeskInv, JobsTyped, ToSet
  <2> QED
    BY <2>1
<1>3. ListIsOfFailures'
  <2>1. \A k \in Syncable : jobs'[k].state = "failed" => k \in ToSet(failedIds)'
    BY <1>1 DEF DeskInv, ListIsOfFailures
  <2>2. \A k \in ToSet(failedIds)' : jobs'[k].state = "failed" \/ k \in ghosted'
    BY <1>1, <1>2 DEF DeskInv, ListIsOfFailures
  <2> QED
    BY <2>1, <2>2 DEF ListIsOfFailures
<1>4. ToSet(desk.members)' = ToSet(desk.members)
  BY DEF ToSet
<1>5. ClearLeaves'
  <2>1. ASSUME desk.at \in {"again", "drop"}, NEW k \in ToSet(failedIds)', k \in ToSet(desk.members)
        PROVE  jobs'[k].state = "none" \/ k \in desk'.since
    BY <1>1, <1>2, <2>1 DEF DeskInv, ClearLeaves
  <2>2. ASSUME desk.at = "cleared"
        PROVE  ToSet(failedIds)' \cap ToSet(desk.members) \subseteq desk'.since
    BY <1>2, <2>2 DEF DeskInv, ClearLeaves
  <2> QED
    BY <1>4, <2>1, <2>2 DEF ClearLeaves
<1> QED
  BY <1>3, <1>5

\* The requests.
LEMMA FindKeeps ==
    ASSUME DeskInv, NEW t \in Askers, NEW i \in Syncable, NEW range \in Ranges,
           findExistingHistoryJob(t, i, range)
    PROVE  DeskInv'
<1>1. AsksTyped' /\ \A k : Adds(k) => Adds(k)'
  BY AsksStep DEF DeskInv
<1>2. UNCHANGED <<jobs, failedIds, accepted, desk, ghosted>>
  BY DEF findExistingHistoryJob
<1>3. JobsTyped' /\ ClearTyped' /\ ListIsOfFailures' /\ ClearLeaves'
  BY <1>2 DEF DeskInv, JobsTyped, ClearTyped, ListIsOfFailures, ClearLeaves, ToSet, IsInjective
<1>4. QueuedStay'
  BY <1>1, <1>2 DEF DeskInv, QueuedStay
<1> QED
  BY <1>1, <1>3, <1>4 DEF DeskInv

LEMMA RemoveKeeps ==
    ASSUME DeskInv, NEW t \in Askers, removeFinished(t)
    PROVE  DeskInv'
<1>1. AsksTyped' /\ asks[t].id \in Syncable /\ \A k : k = asks[t].id \/ Adds(k) => Adds(k)'
  BY AsksStep DEF DeskInv
<1>2. UNCHANGED <<accepted, desk, ghosted>>
  BY DEF removeFinished
<1>3. PICK i \in Syncable : i = asks[t].id
  BY <1>1
<1>4. ClearTyped'
  BY <1>2 DEF DeskInv, ClearTyped
<1>5. CASE jobs[i].state \in {"none", "active"}
  <2>1. UNCHANGED <<jobs, failedIds>>
    BY <1>3, <1>5 DEF removeFinished
  <2>2. JobsTyped' /\ ListIsOfFailures' /\ ClearLeaves'
    BY <1>2, <2>1 DEF DeskInv, JobsTyped, ListIsOfFailures, ClearLeaves, ToSet, IsInjective
  <2>3. QueuedStay'
    BY <1>1, <1>2, <2>1 DEF DeskInv, QueuedStay
  <2> QED
    BY <1>1, <1>4, <2>2, <2>3 DEF DeskInv
<1>6. CASE jobs[i].state \notin {"none", "active"}
  <2>1. jobs' = [jobs EXCEPT ![i] = NoJob]
    BY <1>3, <1>6 DEF removeFinished
  <2>2. failedIds' = IF jobs[i].state = "failed" THEN Without(failedIds, {i}) ELSE failedIds
    BY <1>3, <1>6 DEF removeFinished
  <2>3. /\ failedIds' \in Seq(Syncable) /\ IsInjective(failedIds)'
        /\ ToSet(failedIds)' = IF jobs[i].state = "failed" THEN ToSet(failedIds) \ {i} ELSE ToSet(failedIds)
    <3>1. CASE jobs[i].state = "failed"
      <4>1. failedIds' = Without(failedIds, {i})
        BY <2>2, <3>1
      <4>2. ToSet(failedIds)' = ToSet(Without(failedIds, {i}))
        BY <4>1 DEF ToSet
      <4>3. IsInjective(Without(failedIds, {i})) => IsInjective(failedIds)'
        BY <4>1 DEF IsInjective
      <4>4. IsInjective(failedIds) /\ JobsTyped
        BY DEF DeskInv, ListIsOfFailures
      <4> QED
        BY <3>1, <4>1, <4>2, <4>3, <4>4, Unlisted
    <3>2. CASE jobs[i].state # "failed"
      BY <2>2, <3>2 DEF DeskInv, ListIsOfFailures, JobsTyped, ToSet, IsInjective
    <3> QED
      BY <3>1, <3>2
  <2>4. JobsTyped'
    BY <1>2, <2>1, <2>3, JobChanges, NoJobRow DEF DeskInv, JobsTyped
  <2>5. i \in ToSet(failedIds)' => i \in ghosted'
    BY <1>2, <2>3 DEF DeskInv, ListIsOfFailures
  <2>6. ListIsOfFailures' /\ ClearLeaves'
    BY <1>2, <1>4, <2>1, <2>3, <2>4, <2>5, NoJobRow, OneJob
  <2>7. QueuedStay'
    BY <1>1, <1>2, <1>3, <2>1, JobChanges, NoJobRow DEF DeskInv, JobsTyped, QueuedStay
  <2> QED
    BY <1>1, <1>4, <2>4, <2>6, <2>7 DEF DeskInv
<1> QED
  BY <1>5, <1>6

LEMMA EnqueueKeeps ==
    ASSUME DeskInv, NEW t \in Askers, enqueueHistorySync(t)
    PROVE  DeskInv'
<1>1. AsksTyped' /\ asks[t].id \in Syncable /\ \A k : Adds(k) /\ k # asks[t].id => Adds(k)'
  BY AsksStep DEF DeskInv
<1>2. UNCHANGED <<failedIds, ghosted>>
  BY DEF enqueueHistorySync
<1>3. PICK i \in Syncable : i = asks[t].id
  BY <1>1
<1>4. failedIds' = failedIds /\ ToSet(failedIds)' = ToSet(failedIds) /\ IsInjective(failedIds)'
  BY <1>2 DEF DeskInv, ListIsOfFailures, ToSet, IsInjective
<1>5. CASE Payload(i)
  <2>1. UNCHANGED <<jobs, accepted, desk>>
    BY <1>3, <1>5 DEF enqueueHistorySync
  <2>2. JobsTyped' /\ ClearTyped' /\ ListIsOfFailures' /\ ClearLeaves'
    BY <1>2, <2>1 DEF DeskInv, JobsTyped, ClearTyped, ListIsOfFailures, ClearLeaves, ToSet, IsInjective
  <2>3. QueuedStay'
    <3> SUFFICES ASSUME NEW k \in accepted \ ghosted
                 PROVE  jobs[k].state = "waiting" \/ (jobs[k].state = "none" /\ Adds(k)')
      BY <1>2, <2>1 DEF QueuedStay
    <3>1. jobs[k].state = "waiting" \/ (jobs[k].state = "none" /\ Adds(k))
      BY DEF DeskInv, QueuedStay
    <3>2. jobs[k].state = "none" => k # i
      BY <1>5 DEF Payload
    <3> QED
      BY <1>1, <1>3, <3>1, <3>2
  <2> QED
    BY <1>1, <2>2, <2>3 DEF DeskInv
<1>6. CASE ~Payload(i)
  <2> DEFINE entry == [state |-> "waiting", range |-> asks[t].range, tries |-> 0]
  <2>1. jobs' = [jobs EXCEPT ![i] = entry] /\ accepted' = accepted \cup {i} /\ Since(i)
    BY <1>3, <1>6 DEF enqueueHistorySync
  <2>2. entry \in JobRows /\ entry.state = "waiting"
    BY DEF DeskInv, AsksTyped, AskRows, JobRows, Pending
  <2> HIDE DEF entry
  <2>3. /\ ClearTyped' /\ desk'.at = desk.at /\ desk'.members = desk.members
        /\ desk'.since = desk.since \cup {i}
    BY <2>1, SinceGrows DEF DeskInv
  <2>4. JobsTyped'
    BY <1>2, <2>1, <2>2, JobChanges DEF DeskInv, JobsTyped
  <2>5. i \in ToSet(failedIds)' => i \in ghosted'
    BY <1>2, <1>4, <1>6 DEF DeskInv, ListIsOfFailures, Payload
  <2>6. ListIsOfFailures' /\ ClearLeaves'
    BY <1>2, <1>4, <2>1, <2>2, <2>3, <2>4, <2>5, OneJob
  <2>7. QueuedStay'
    <3> SUFFICES ASSUME NEW k \in accepted' \ ghosted'
                 PROVE  jobs'[k].state = "waiting" \/ (jobs'[k].state = "none" /\ Adds(k)')
      BY DEF QueuedStay
    <3>1. JobsTyped /\ k \in Syncable
      BY <2>4 DEF DeskInv, JobsTyped
    <3>2. jobs'[i] = entry /\ (k # i => jobs'[k] = jobs[k])
      BY <2>1, <2>2, <3>1, JobChanges
    <3>3. CASE k = i
      BY <2>2, <3>2, <3>3
    <3>4. CASE k # i
      <4>1. jobs[k].state = "waiting" \/ (jobs[k].state = "none" /\ Adds(k))
        BY <1>2, <2>1, <3>4 DEF DeskInv, QueuedStay
      <4> QED
        BY <1>1, <1>3, <3>2, <3>4, <4>1
    <3> QED
      BY <3>3, <3>4
  <2> QED
    BY <1>1, <2>3, <2>4, <2>6, <2>7 DEF DeskInv
<1> QED
  BY <1>5, <1>6

\* Where the others' jobs and requests stay, what was queued stays queued.
LEMMA OthersQueued ==
    ASSUME DeskInv, NEW i \in Syncable, NEW entry \in JobRows, jobs' = [jobs EXCEPT ![i] = entry],
           UNCHANGED <<asks, ghosted>>, accepted' \subseteq accepted,
           i \in accepted' => (i \in ghosted \/ entry.state = "waiting")
    PROVE  QueuedStay'
<1> SUFFICES ASSUME NEW k \in accepted' \ ghosted'
             PROVE  jobs'[k].state = "waiting" \/ (jobs'[k].state = "none" /\ Adds(k)')
  BY DEF QueuedStay
<1>1. JobsTyped /\ k \in Syncable /\ k \in accepted \ ghosted
  BY DEF DeskInv, JobsTyped
<1>2. jobs'[i] = entry /\ (k # i => jobs'[k] = jobs[k])
  BY <1>1, JobChanges
<1>3. jobs[k].state = "waiting" \/ (jobs[k].state = "none" /\ Adds(k))
  BY <1>1 DEF DeskInv, QueuedStay
<1>4. Adds(k)' <=> Adds(k)
  BY DEF Adds
<1> QED
  BY <1>1, <1>2, <1>3, <1>4

LEMMA AsksStay ==
    ASSUME DeskInv, UNCHANGED asks PROVE AsksTyped'
BY DEF DeskInv, AsksTyped

LEMMA TakeKeeps ==
    ASSUME DeskInv, NEW i \in Syncable, TakeJob(i) PROVE DeskInv'
<1> DEFINE entry == [jobs[i] EXCEPT !.state = "active"]
<1>1. jobs' = [jobs EXCEPT ![i] = entry] /\ accepted' = accepted \ {i} /\ jobs[i].state = "waiting"
  BY DEF TakeJob, DeskInv, JobsTyped
<1>2. UNCHANGED <<failedIds, asks, desk, ghosted>>
  BY DEF TakeJob
<1>3. entry \in JobRows /\ entry.state = "active"
  BY DEF DeskInv, JobsTyped, JobRows, Pending
<1> HIDE DEF entry
<1>4. JobsTyped' /\ ClearTyped'
  BY <1>1, <1>2, <1>3, JobChanges DEF DeskInv, JobsTyped, ClearTyped
<1>5. ToSet(failedIds)' = ToSet(failedIds) /\ IsInjective(failedIds)'
  BY <1>2 DEF DeskInv, ListIsOfFailures, ToSet, IsInjective
<1>6. i \in ToSet(failedIds)' => i \in ghosted'
  BY <1>1, <1>2, <1>5 DEF DeskInv, ListIsOfFailures
<1>7. ListIsOfFailures' /\ ClearLeaves'
  BY <1>1, <1>2, <1>3, <1>4, <1>5, <1>6, OneJob
<1>8. QueuedStay'
  BY <1>1, <1>2, <1>3, OthersQueued
<1> QED
  BY <1>2, <1>4, <1>7, <1>8, AsksStay DEF DeskInv

LEMMA RetentionKeeps ==
    ASSUME DeskInv, NEW i \in Syncable, RetentionEnds(i) PROVE DeskInv'
<1>1. /\ jobs' = [jobs EXCEPT ![i] = NoJob] /\ jobs[i].state \in Finished
      /\ UNCHANGED <<asks, accepted, desk, ghosted>>
      /\ failedIds' = IF jobs[i].state = "failed" THEN Without(failedIds, {i}) ELSE failedIds
  BY DEF RetentionEnds
<1>2. /\ failedIds' \in Seq(Syncable) /\ IsInjective(failedIds)'
      /\ ToSet(failedIds)' = IF jobs[i].state = "failed" THEN ToSet(failedIds) \ {i} ELSE ToSet(failedIds)
  <2>1. CASE jobs[i].state = "failed"
    <3>1. failedIds' = Without(failedIds, {i})
      BY <1>1, <2>1
    <3>2. ToSet(failedIds)' = ToSet(Without(failedIds, {i}))
      BY <3>1 DEF ToSet
    <3>3. IsInjective(Without(failedIds, {i})) => IsInjective(failedIds)'
      BY <3>1 DEF IsInjective
    <3>4. IsInjective(failedIds) /\ JobsTyped
      BY DEF DeskInv, ListIsOfFailures
    <3> QED
      BY <2>1, <3>1, <3>2, <3>3, <3>4, Unlisted
  <2>2. CASE jobs[i].state # "failed"
    BY <1>1, <2>2 DEF DeskInv, ListIsOfFailures, JobsTyped, ToSet, IsInjective
  <2> QED
    BY <2>1, <2>2
<1>3. JobsTyped' /\ ClearTyped'
  BY <1>1, <1>2, JobChanges, NoJobRow DEF DeskInv, JobsTyped, ClearTyped
<1>4. i \in ToSet(failedIds)' => i \in ghosted'
  BY <1>1, <1>2 DEF DeskInv, ListIsOfFailures
<1>5. ListIsOfFailures' /\ ClearLeaves'
  BY <1>1, <1>2, <1>3, <1>4, NoJobRow, OneJob
<1>6. i \in accepted' => i \in ghosted
  BY <1>1 DEF DeskInv, QueuedStay, Finished
<1>7. QueuedStay'
  BY <1>1, <1>6, NoJobRow, OthersQueued
<1> QED
  BY <1>1, <1>3, <1>5, <1>7, AsksStay DEF DeskInv

LEMMA LoseKeeps ==
    ASSUME DeskInv, NEW i \in Syncable, LosePayload(i) PROVE DeskInv'
<1>1. /\ jobs' = [jobs EXCEPT ![i] = NoJob] /\ jobs[i].state = "failed"
      /\ UNCHANGED <<failedIds, asks, accepted, desk>> /\ ghosted' = ghosted \cup {i}
  BY DEF LosePayload
<1>2. JobsTyped' /\ ClearTyped'
  BY <1>1, JobChanges, NoJobRow DEF DeskInv, JobsTyped, ClearTyped
<1>3. ToSet(failedIds)' = ToSet(failedIds) /\ IsInjective(failedIds)'
  BY <1>1 DEF DeskInv, ListIsOfFailures, ToSet, IsInjective
<1>4. ListIsOfFailures' /\ ClearLeaves'
  BY <1>1, <1>2, <1>3, NoJobRow, OneJob
<1>5. QueuedStay'
  <2> SUFFICES ASSUME NEW k \in accepted' \ ghosted'
               PROVE  jobs'[k].state = "waiting" \/ (jobs'[k].state = "none" /\ Adds(k)')
    BY DEF QueuedStay
  <2>1. k \in accepted \ ghosted /\ k # i /\ k \in Syncable
    BY <1>1 DEF DeskInv, JobsTyped
  <2>2. jobs'[k] = jobs[k]
    BY <1>1, <2>1 DEF DeskInv, JobsTyped
  <2>3. Adds(k)' <=> Adds(k)
    BY <1>1 DEF Adds
  <2> QED
    BY <2>1, <2>2, <2>3 DEF DeskInv, QueuedStay
<1> QED
  BY <1>1, <1>2, <1>4, <1>5, AsksStay DEF DeskInv

\* A job that ends, or is to be tried again.
LEMMA RunKeeps ==
    ASSUME DeskInv, NEW i \in Syncable, NEW end \in {"done", "again", "exhausted", "unrecoverable"},
           runHistorySync(i, end)
    PROVE  DeskInv'
<1> DEFINE ends == CASE end = "done" -> "completed" [] end = "again" -> "waiting" [] OTHER -> "failed"
           tries == IF end = "done" THEN jobs[i].tries ELSE jobs[i].tries + 1
           entry == [jobs[i] EXCEPT !.state = ends, !.tries = tries]
<1>1. jobs' = [jobs EXCEPT ![i] = entry] /\ jobs[i].state = "active" /\ UNCHANGED <<asks, accepted, ghosted>>
  BY DEF runHistorySync, DeskInv, JobsTyped
<1>2. ends \in Pending \cup Finished /\ (end \in {"done", "again"} <=> ends # "failed")
  BY DEF Pending, Finished
<1>3. entry \in JobRows /\ entry.state = ends
  <2>1. jobs[i] \in JobRows
    BY DEF DeskInv, JobsTyped
  <2>2. tries \in Nat
    BY <2>1 DEF JobRows
  <2>3. ends \in {"none"} \cup Pending \cup Finished
    BY <1>2
  <2> HIDE DEF ends, tries
  <2> QED
    BY <2>1, <2>2, <2>3 DEF JobRows
<1>4. i \in accepted' => i \in ghosted
  BY <1>1 DEF DeskInv, QueuedStay
<1> HIDE DEF entry, ends
<1>5. QueuedStay'
  BY <1>1, <1>3, <1>4, OthersQueued
<1>6. CASE end \in {"done", "again"}
  <2>1. UNCHANGED <<failedIds, desk>>
    BY <1>6 DEF runHistorySync
  <2>2. JobsTyped' /\ ClearTyped'
    BY <1>1, <1>3, <2>1, JobChanges DEF DeskInv, JobsTyped, ClearTyped
  <2>3. ToSet(failedIds)' = ToSet(failedIds) /\ IsInjective(failedIds)'
    BY <2>1 DEF DeskInv, ListIsOfFailures, ToSet, IsInjective
  <2>4. i \in ToSet(failedIds)' => i \in ghosted'
    BY <1>1, <2>3 DEF DeskInv, ListIsOfFailures
  <2>5. ListIsOfFailures' /\ ClearLeaves'
    BY <1>1, <1>2, <1>3, <1>6, <2>1, <2>2, <2>3, <2>4, OneJob
  <2> QED
    BY <1>1, <1>5, <2>2, <2>5, AsksStay DEF DeskInv
<1>7. CASE end \notin {"done", "again"}
  <2> DEFINE rest == Without(failedIds, {i})
  <2>1. failedIds' = Append(rest, i) /\ Since(i)
    BY <1>7 DEF runHistorySync
  <2>2. JobsTyped /\ IsInjective(failedIds) /\ ClearTyped
    BY DEF DeskInv, ListIsOfFailures
  <2>3. rest \in Seq(Syncable) /\ ToSet(rest) = ToSet(failedIds) \ {i} /\ IsInjective(rest)
    BY <2>2, Unlisted
  <2> HIDE DEF rest
  <2>4. /\ failedIds' \in Seq(Syncable) /\ IsInjective(Append(rest, i))
        /\ ToSet(Append(rest, i)) = ToSet(rest) \cup {i}
    BY <2>1, <2>3, AppendHolds
  <2>5. ToSet(failedIds)' = ToSet(failedIds) \cup {i}
    <3>1. ToSet(failedIds)' = ToSet(Append(rest, i))
      BY <2>1 DEF ToSet
    <3> QED
      BY <2>3, <2>4, <3>1
  <2>6. IsInjective(failedIds)'
    BY <2>1, <2>4 DEF IsInjective
  <2>7. /\ ClearTyped' /\ desk'.at = desk.at /\ desk'.members = desk.members
        /\ desk'.since = desk.since \cup {i}
    BY <2>1, <2>2, SinceGrows
  <2>8. JobsTyped'
    BY <1>1, <1>3, <2>2, <2>4, JobChanges DEF JobsTyped
  <2>9. jobs'[i].state = "failed" /\ \A k \in Syncable : k # i => jobs'[k] = jobs[k]
    BY <1>1, <1>2, <1>3, <1>7, <2>2, JobChanges
  <2>10. ToSet(failedIds) \subseteq Syncable
    BY <2>2 DEF JobsTyped, ToSet
  <2>11. ListIsOfFailures'
    <3>1. \A k \in Syncable : jobs'[k].state = "failed" => k \in ToSet(failedIds)'
      BY <2>5, <2>9 DEF DeskInv, ListIsOfFailures
    <3>2. \A k \in ToSet(failedIds)' : jobs'[k].state = "failed" \/ k \in ghosted'
      BY <1>1, <2>5, <2>9, <2>10 DEF DeskInv, ListIsOfFailures
    <3> QED
      BY <2>6, <3>1, <3>2 DEF ListIsOfFailures
  <2>12. ToSet(desk.members)' = ToSet(desk.members)
    BY <2>7 DEF ToSet
  <2>13. ClearLeaves'
    <3>1. ASSUME desk.at \in {"again", "drop"}, NEW k \in ToSet(failedIds)', k \in ToSet(desk.members)
          PROVE  jobs'[k].state = "none" \/ k \in desk'.since
      BY <2>5, <2>7, <2>9, <2>10, <3>1 DEF DeskInv, ClearLeaves
    <3>2. ASSUME desk.at = "cleared"
          PROVE  ToSet(failedIds)' \cap ToSet(desk.members) \subseteq desk'.since
      BY <2>5, <2>7, <3>2 DEF DeskInv, ClearLeaves
    <3> QED
      BY <2>7, <2>12, <3>1, <3>2 DEF ClearLeaves
  <2> QED
    BY <1>1, <1>5, <2>7, <2>8, <2>11, <2>13, AsksStay DEF DeskInv
<1> QED
  BY <1>6, <1>7

\* While the clear only reads, the queue is as it was.
LEMMA QueueStays ==
    ASSUME DeskInv, UNCHANGED <<jobs, failedIds, asks, accepted, ghosted>>
    PROVE  JobsTyped' /\ AsksTyped' /\ ListIsOfFailures' /\ QueuedStay' /\ ToSet(failedIds)' = ToSet(failedIds)
<1>1. JobsTyped' /\ AsksTyped' /\ ToSet(failedIds)' = ToSet(failedIds)
  BY DEF DeskInv, JobsTyped, AsksTyped, ToSet
<1>2. ListIsOfFailures'
  BY <1>1 DEF DeskInv, ListIsOfFailures, IsInjective
<1>3. QueuedStay'
  BY DEF DeskInv, QueuedStay, Adds
<1> QED
  BY <1>1, <1>2, <1>3

\* What the list holds with a payload, and without.
LEMMA SplitIsByPayload ==
    ASSUME NEW list \in Seq(Syncable)
    PROVE  LET split == splitFailedMembers(list)
           IN /\ ToSet(split.existing) = {i \in ToSet(list) : Payload(i)}
              /\ ToSet(split.orphans) = {i \in ToSet(list) : ~Payload(i)}
<1> DEFINE bare == Syncable \ Owning
<1>1. ToSet(list) \subseteq Syncable
  BY DEF ToSet
<1>2. /\ splitFailedMembers(list).existing = Keeping(list, Owning)
      /\ splitFailedMembers(list).orphans = Keeping(list, bare)
  BY DEF splitFailedMembers, Without
<1>3. /\ ToSet(list) \cap Owning = {i \in ToSet(list) : Payload(i)}
      /\ ToSet(list) \cap bare = {i \in ToSet(list) : ~Payload(i)}
  BY <1>1 DEF Owning
<1> HIDE DEF bare
<1>4. /\ ToSet(Keeping(list, Owning)) = ToSet(list) \cap Owning
      /\ ToSet(Keeping(list, bare)) = ToSet(list) \cap bare
  BY KeepingKeeps
<1> QED
  BY <1>2, <1>3, <1>4

LEMMA MembersKeeps ==
    ASSUME DeskInv, ReadMembers PROVE DeskInv'
<1>1. UNCHANGED <<jobs, failedIds, asks, accepted, ghosted>>
  BY DEF ReadMembers
<1>2. ClearTyped' /\ desk'.at = "members"
  BY DEF DeskInv, JobsTyped, ReadMembers, ClearTyped, IdleDesk, DeskSteps
<1>3. ClearLeaves'
  BY <1>2 DEF ClearLeaves
<1> QED
  BY <1>1, <1>2, <1>3, QueueStays DEF DeskInv

LEMMA PayloadsKeeps ==
    ASSUME DeskInv, ReadPayloads PROVE DeskInv'
<1>1. UNCHANGED <<jobs, failedIds, asks, accepted, ghosted>>
  BY DEF ReadPayloads
<1> DEFINE split == splitFailedMembers(desk.members)
           lines == <<Len(split.existing), Len(split.orphans), inspectQueueFailures(desk.members)>>
           step == IF split.existing = <<>> THEN "again" ELSE "clean"
<1>2. desk' = [desk EXCEPT !.existing = split.existing, !.told = lines, !.at = step]
  BY DEF ReadPayloads
<1>3. step \in DeskSteps
  BY DEF DeskSteps
<1>4. split.existing = <<>> => \A i \in ToSet(desk.members) : ~Payload(i)
  <2>1. ToSet(split.existing) = {i \in ToSet(desk.members) : Payload(i)}
    BY SplitIsByPayload DEF DeskInv, ClearTyped
  <2>2. split.existing = <<>> => ToSet(split.existing) = {}
    BY DEF ToSet
  <2> QED
    BY <2>1, <2>2
<1>5. step \in {"again", "clean"} /\ (step = "again" => split.existing = <<>>)
  OBVIOUS
<1> HIDE DEF split, lines, step
<1>6. ClearTyped' /\ desk'.at = step /\ desk'.members = desk.members
  BY <1>2, <1>3 DEF DeskInv, ClearTyped
<1>7. ToSet(desk.members)' = ToSet(desk.members)
  BY <1>6 DEF ToSet
<1>8. ClearLeaves'
  <2>1. ASSUME desk'.at \in {"again", "drop"}, NEW i \in ToSet(desk.members) PROVE jobs'[i].state = "none"
    <3>1. split.existing = <<>>
      BY <1>5, <1>6, <2>1
    <3> QED
      BY <1>1, <1>4, <3>1 DEF Payload
  <2>2. desk'.at # "cleared"
    BY <1>5, <1>6
  <2> QED
    BY <1>7, <2>1, <2>2 DEF ClearLeaves
<1> QED
  BY <1>1, <1>6, <1>8, QueueStays DEF DeskInv

LEMMA AgainKeeps ==
    ASSUME DeskInv, ReadAgain PROVE DeskInv'
<1>1. UNCHANGED <<jobs, failedIds, asks, accepted, ghosted>> /\ desk.at = "again"
  BY DEF ReadAgain
<1> DEFINE survivors == ToSet(splitFailedMembers(failedIds).orphans)
           step == IF survivors = {} THEN "cleared" ELSE "drop"
<1>2. desk' = [desk EXCEPT !.survivors = survivors, !.at = step]
  BY DEF ReadAgain
<1>3. survivors = {i \in ToSet(failedIds) : ~Payload(i)}
  BY SplitIsByPayload DEF DeskInv, JobsTyped
<1>4. step \in {"cleared", "drop"} /\ (step = "cleared" => survivors = {}) /\ step \in DeskSteps
  BY DEF DeskSteps
<1> HIDE DEF survivors, step
<1>5. ClearTyped' /\ desk'.at = step /\ desk'.members = desk.members /\ desk'.since = desk.since
  BY <1>2, <1>4 DEF DeskInv, ClearTyped
<1>6. ToSet(desk.members)' = ToSet(desk.members) /\ ToSet(failedIds)' = ToSet(failedIds)
  BY <1>1, <1>5 DEF ToSet
<1>7. \A i \in ToSet(failedIds) \cap ToSet(desk.members) : jobs[i].state = "none" \/ i \in desk.since
  BY <1>1 DEF DeskInv, ClearLeaves
<1>8. step = "cleared" => \A i \in ToSet(failedIds) : jobs[i].state # "none"
  BY <1>3, <1>4 DEF Payload
<1>9. ClearLeaves'
  BY <1>1, <1>4, <1>5, <1>6, <1>7, <1>8 DEF ClearLeaves
<1> QED
  BY <1>1, <1>5, <1>9, QueueStays DEF DeskInv

LEMMA CleanKeeps ==
    ASSUME DeskInv, CleanFailed PROVE DeskInv'
<1>1. UNCHANGED <<asks, accepted, ghosted>> /\ desk' = [desk EXCEPT !.at = "again"]
  BY DEF CleanFailed
<1>2. PICK left \in SUBSET (ToSet(failedIds) \ Owning) : failedIds' = Keeping(failedIds, left)
  BY DEF CleanFailed
<1>3. jobs' = [i \in Syncable |->
                 IF i \in ToSet(failedIds) /\ jobs[i].state # "active" THEN NoJob ELSE jobs[i]]
  BY DEF CleanFailed
<1>4. failedIds \in Seq(Syncable) /\ IsInjective(failedIds) /\ ToSet(failedIds) \subseteq Syncable
  BY DEF DeskInv, JobsTyped, ListIsOfFailures, ToSet
<1>5. /\ failedIds' \in Seq(Syncable) /\ ToSet(Keeping(failedIds, left)) = ToSet(failedIds) \cap left
      /\ IsInjective(Keeping(failedIds, left))
  BY <1>2, <1>4, KeepingKeeps
<1>6. ToSet(failedIds)' = left /\ IsInjective(failedIds)'
  <2>1. ToSet(failedIds)' = ToSet(Keeping(failedIds, left))
    BY <1>2 DEF ToSet
  <2>2. IsInjective(failedIds)'
    BY <1>2, <1>5 DEF IsInjective
  <2> QED
    BY <1>5, <2>1, <2>2
<1>7. JobsTyped'
  BY <1>1, <1>3, <1>5, NoJobRow DEF DeskInv, JobsTyped
<1>8. ClearTyped' /\ desk'.at = "again" /\ desk'.members = desk.members /\ desk'.since = desk.since
  BY <1>1 DEF DeskInv, ClearTyped, DeskSteps
<1>9. \A i \in left : i \in ToSet(failedIds) /\ jobs[i].state = "none" /\ i \in Syncable
  BY <1>4 DEF Owning, Payload
<1>10. \A i \in left : jobs'[i].state = "none"
  BY <1>3, <1>9, NoJobRow
<1>11. ListIsOfFailures'
  <2>1. \A i \in Syncable : jobs'[i].state # "failed"
    <3> SUFFICES ASSUME NEW i \in Syncable PROVE jobs'[i].state # "failed"
      OBVIOUS
    <3>1. jobs[i].state = "failed" => i \in ToSet(failedIds)
      BY DEF DeskInv, ListIsOfFailures
    <3> QED
      BY <1>3, <3>1, NoJobRow
  <2>2. \A i \in left : i \in ghosted'
    BY <1>1, <1>9 DEF DeskInv, ListIsOfFailures
  <2> QED
    BY <1>6, <2>1, <2>2 DEF ListIsOfFailures
<1>12. ClearLeaves'
  BY <1>6, <1>8, <1>10 DEF ClearLeaves
<1>13. QueuedStay'
  <2> SUFFICES ASSUME NEW k \in accepted \ ghosted
               PROVE  jobs'[k].state = "waiting" \/ (jobs'[k].state = "none" /\ Adds(k)')
    BY <1>1 DEF QueuedStay
  <2>1. k \in Syncable /\ (jobs[k].state = "waiting" \/ (jobs[k].state = "none" /\ Adds(k)))
    BY DEF DeskInv, QueuedStay, JobsTyped
  <2>2. Adds(k)' <=> Adds(k)
    BY <1>1 DEF Adds
  <2>3. k \notin ToSet(failedIds)
    BY <2>1 DEF DeskInv, ListIsOfFailures
  <2> QED
    BY <1>3, <2>1, <2>2, <2>3
<1> QED
  BY <1>1, <1>7, <1>8, <1>11, <1>12, <1>13, AsksStay DEF DeskInv

LEMMA DropKeeps ==
    ASSUME DeskInv, DropOrphans PROVE DeskInv'
<1>1. /\ UNCHANGED <<jobs, asks, accepted, ghosted>> /\ desk.at = "drop"
      /\ desk' = [desk EXCEPT !.at = "cleared"] /\ failedIds' = Keeping(failedIds, Owning)
  BY DEF DropOrphans, DROP_ORPHANS_SCRIPT
<1>2. failedIds \in Seq(Syncable) /\ IsInjective(failedIds) /\ ToSet(failedIds) \subseteq Syncable
  BY DEF DeskInv, JobsTyped, ListIsOfFailures, ToSet
<1>3. /\ failedIds' \in Seq(Syncable) /\ ToSet(Keeping(failedIds, Owning)) = ToSet(failedIds) \cap Owning
      /\ IsInjective(Keeping(failedIds, Owning))
  BY <1>1, <1>2, KeepingKeeps
<1>4. ToSet(failedIds)' = ToSet(failedIds) \cap Owning /\ IsInjective(failedIds)'
  <2>1. ToSet(failedIds)' = ToSet(Keeping(failedIds, Owning))
    BY <1>1 DEF ToSet
  <2>2. IsInjective(failedIds)'
    BY <1>1, <1>3 DEF IsInjective
  <2> QED
    BY <1>3, <2>1, <2>2
<1>5. JobsTyped'
  BY <1>1, <1>3 DEF DeskInv, JobsTyped
<1>6. ClearTyped' /\ desk'.at = "cleared" /\ desk'.members = desk.members /\ desk'.since = desk.since
  BY <1>1 DEF DeskInv, ClearTyped, DeskSteps
<1>7. ToSet(desk.members)' = ToSet(desk.members)
  BY <1>6 DEF ToSet
<1>8. ListIsOfFailures'
  <2>1. \A i \in Syncable : jobs[i].state = "failed" => i \in ToSet(failedIds) \cap Owning
    BY DEF DeskInv, ListIsOfFailures, Owning, Payload
  <2>2. \A i \in ToSet(failedIds) \cap Owning : jobs[i].state = "failed" \/ i \in ghosted
    BY DEF DeskInv, ListIsOfFailures
  <2> QED
    BY <1>1, <1>4, <2>1, <2>2 DEF ListIsOfFailures
<1>9. ClearLeaves'
  <2>1. \A i \in ToSet(failedIds) \cap ToSet(desk.members) : jobs[i].state = "none" \/ i \in desk.since
    BY <1>1 DEF DeskInv, ClearLeaves
  <2>2. \A i \in Owning : jobs[i].state # "none"
    BY DEF Owning, Payload
  <2> QED
    BY <1>4, <1>6, <1>7, <2>1, <2>2 DEF ClearLeaves
<1>10. QueuedStay'
  BY <1>1 DEF DeskInv, QueuedStay, Adds
<1> QED
  BY <1>1, <1>5, <1>6, <1>8, <1>9, <1>10, AsksStay DEF DeskInv

LEMMA DeskInvHolds ==
    DeskInv => /\ [NextDesk]_deskVars => DeskInv'
               /\ FailuresAreCounted
<1>1. ASSUME DeskInv PROVE FailuresAreCounted
  <2>1. \A i \in Syncable : jobs[i].state = "failed" => i \in ToSet(failedIds)
    BY <1>1 DEF DeskInv, ListIsOfFailures
  <2>2. IsInjective(failedIds)
    BY <1>1 DEF DeskInv, ListIsOfFailures
  <2>3. desk.at = "cleared" => ToSet(failedIds) \cap ToSet(desk.members) \subseteq desk.since
    BY <1>1 DEF DeskInv, ClearLeaves
  <2>4. \A i \in accepted \ ghosted :
           jobs[i].state \in Pending \/ \E t \in Askers : asks[t].at = "add" /\ asks[t].id = i
    BY <1>1 DEF DeskInv, QueuedStay, Adds, Pending
  <2> QED
    BY <2>1, <2>2, <2>3, <2>4 DEF FailuresAreCounted
<1>2. ASSUME DeskInv, UNCHANGED deskVars PROVE DeskInv'
  <2>1. ClearTyped' /\ ClearLeaves'
    BY <1>2 DEF deskVars, DeskInv, ClearTyped, ClearLeaves, ToSet
  <2> QED
    BY <1>2, <2>1, QueueStays DEF deskVars, DeskInv
<1>3. ASSUME DeskInv, NextDesk PROVE DeskInv'
  <2>1. CASE \E t \in Askers, i \in Syncable, range \in Ranges : findExistingHistoryJob(t, i, range)
    BY <1>3, <2>1, FindKeeps
  <2>2. CASE \E t \in Askers : removeFinished(t)
    BY <1>3, <2>2, RemoveKeeps
  <2>3. CASE \E t \in Askers : enqueueHistorySync(t)
    BY <1>3, <2>3, EnqueueKeeps
  <2>4. CASE \E i \in Syncable : TakeJob(i)
    BY <1>3, <2>4, TakeKeeps
  <2>5. CASE \E i \in Syncable : RetentionEnds(i)
    BY <1>3, <2>5, RetentionKeeps
  <2>6. CASE \E i \in Syncable : LosePayload(i)
    BY <1>3, <2>6, LoseKeeps
  <2>7. CASE \E i \in Syncable, end \in {"done", "again", "exhausted", "unrecoverable"} :
                runHistorySync(i, end)
    BY <1>3, <2>7, RunKeeps
  <2>8. CASE ReadMembers
    BY <1>3, <2>8, MembersKeeps
  <2>9. CASE ReadPayloads
    BY <1>3, <2>9, PayloadsKeeps
  <2>10. CASE CleanFailed
    BY <1>3, <2>10, CleanKeeps
  <2>11. CASE ReadAgain
    BY <1>3, <2>11, AgainKeeps
  <2>12. CASE DropOrphans
    BY <1>3, <2>12, DropKeeps
  <2> QED
    BY <1>3, <2>1, <2>2, <2>3, <2>4, <2>5, <2>6, <2>7, <2>8, <2>9, <2>10, <2>11, <2>12 DEF NextDesk
<1> QED
  BY <1>1, <1>2, <1>3

\* The queue, its list, its requests and its clears keep their types.
THEOREM QueueTypes == DeskSpec => []DeskTypeOK
<1>1. InitDesk => DeskInv
  BY DeskStarts
<1>2. DeskInv /\ [NextDesk]_deskVars => DeskInv'
  BY DeskInvHolds
<1>3. ASSUME DeskInv PROVE DeskTypeOK
  <2>1. \A i \in Syncable : jobs[i].state \in {"none"} \cup Pending \cup Finished
    BY <1>3 DEF DeskInv, JobsTyped, JobRows
  <2>2. ToSet(failedIds) \subseteq Syncable /\ accepted \in SUBSET Syncable
    BY <1>3 DEF DeskInv, JobsTyped, ToSet
  <2>3. desk.at \in {"idle", "members", "clean", "again", "drop", "cleared"}
    BY <1>3 DEF DeskInv, ClearTyped, DeskSteps
  <2>4. \A t \in Askers : asks[t].at \in {"idle", "remove", "add"}
    BY <1>3 DEF DeskInv, AsksTyped, AskRows
  <2> QED
    BY <2>1, <2>2, <2>3, <2>4 DEF DeskTypeOK
<1> QED
  BY <1>1, <1>2, <1>3, PTL DEF DeskSpec

\* Whatever was asked, retried or cleared, and however often a sync was tried: a failed
\* job is on the queue's list once, a clear leaves what failed since it began and no more, and
\* a request that was accepted stays queued until a worker takes it.
THEOREM FailuresStayCounted == DeskSpec => []FailuresAreCounted
<1>1. InitDesk => DeskInv
  BY DeskStarts
<1>2. DeskInv /\ [NextDesk]_deskVars => DeskInv'
  BY DeskInvHolds
<1>3. DeskInv => FailuresAreCounted
  BY DeskInvHolds
<1> QED
  BY <1>1, <1>2, <1>3, PTL DEF DeskSpec

---------------------------------------------------------------------------
(***************************************************************************)
(* The sources that are read again, among the work beside the scrapers: a  *)
(* behaviour is about one of them, and that one's, while the others stand  *)
(* still.                                                                  *)
(***************************************************************************)
LEMMA BackfillRuns ==
    /\ Spec /\ part = "backfill" => BackfillSpec
    /\ Spec /\ part # "backfill" => [](part # "backfill")
<1>1. Init => InitBackfill
  BY DEF Init
<1>2. part = "backfill" /\ [Next]_allVars => (part = "backfill")' /\ [NextBackfill]_backfillVars
  BY DEF Next, Only, allVars
<1>3. part # "backfill" /\ [Next]_allVars => (part # "backfill")'
  BY DEF Next, Only, allVars
<1> QED
  BY <1>1, <1>2, <1>3, PTL DEF Spec, BackfillSpec

LEMMA NoticesRun ==
    /\ Spec /\ part = "notices" => AnnouncementsSpec
    /\ Spec /\ part # "notices" => [](part # "notices")
<1>1. Init => InitAnnouncements
  BY DEF Init
<1>2. part = "notices" /\ [Next]_allVars => (part = "notices")' /\ [NextAnnouncements]_announcementVars
  BY DEF Next, Only, allVars
<1>3. part # "notices" /\ [Next]_allVars => (part # "notices")'
  BY DEF Next, Only, allVars
<1> QED
  BY <1>1, <1>2, <1>3, PTL DEF Spec, AnnouncementsSpec

LEMMA ProfilesRun ==
    /\ Spec /\ part = "profiles" => ProfilesSpec
    /\ Spec /\ part # "profiles" => [](part # "profiles")
<1>1. Init => InitProfiles
  BY DEF Init
<1>2. part = "profiles" /\ [Next]_allVars => (part = "profiles")' /\ [NextProfiles]_profileVars
  BY DEF Next, Only, allVars
<1>3. part # "profiles" /\ [Next]_allVars => (part # "profiles")'
  BY DEF Next, Only, allVars
<1> QED
  BY <1>1, <1>2, <1>3, PTL DEF Spec, ProfilesSpec

\* Whatever dies, is answered otherwise and is read again: a backfill has filled what was
\* missing and nothing else, the archive holds each notice once, and a write-up is one
\* file, whole.
THEOREM RereadsStayHarmless == Spec => []RereadsAreHarmless
<1>1. part = "backfill" \/ part # "backfill"
  OBVIOUS
<1>2. part = "notices" \/ part # "notices"
  OBVIOUS
<1>3. part = "profiles" \/ part # "profiles"
  OBVIOUS
<1>4. /\ part # "backfill" \/ GapsAreFilledOnce
      /\ part # "notices" \/ ArchiveIsTheSources
      /\ part # "profiles" \/ WriteUpsAreWhole
      => RereadsAreHarmless
  BY DEF RereadsAreHarmless
<1>5. Spec => [](part # "backfill" \/ GapsAreFilledOnce)
  BY <1>1, BackfillRuns, GapsAreOnlyFilled, PTL
<1>6. Spec => [](part # "notices" \/ ArchiveIsTheSources)
  BY <1>2, NoticesRun, ArchiveStaysTheSources, PTL
<1>7. Spec => [](part # "profiles" \/ WriteUpsAreWhole)
  BY <1>3, ProfilesRun, WriteUpsStayWhole, PTL
<1> QED
  BY <1>4, <1>5, <1>6, <1>7, PTL

\* A queue, and the page it is run from, among the work beside the scrapers.
LEMMA QueueRuns ==
    /\ Spec /\ part = "queue" => DeskSpec
    /\ Spec /\ part # "queue" => [](part # "queue")
<1>1. Init => InitDesk
  BY DEF Init
<1>2. part = "queue" /\ [Next]_allVars => (part = "queue")' /\ [NextDesk]_deskVars
  BY DEF Next, Only, allVars
<1>3. part # "queue" /\ [Next]_allVars => (part # "queue")'
  BY DEF Next, Only, allVars
<1> QED
  BY <1>1, <1>2, <1>3, PTL DEF Spec, DeskSpec

LEMMA PageRuns ==
    /\ Spec /\ part = "desk" => SyncDeskSpec
    /\ Spec /\ part # "desk" => [](part # "desk")
<1>1. Init /\ part = "desk" => InitSyncDesk
  BY DEF Init
<1>2. part = "desk" /\ [Next]_allVars => (part = "desk")' /\ [NextSyncDesk]_syncDeskVars
  BY DEF Next, Only, allVars
<1>3. part # "desk" /\ [Next]_allVars => (part # "desk")'
  BY DEF Next, Only, allVars
<1> QED
  BY <1>1, <1>2, <1>3, PTL DEF Spec, SyncDeskSpec

\* QueuePageHolds, of all that runs beside the scrapers: the list of failures is of the
\* failed jobs, and what the page says of figures and failures is so.
THEOREM QueuePageStaysSo == Spec => []QueuePageHolds
<1>1. part = "queue" \/ part # "queue"
  OBVIOUS
<1>2. part = "desk" \/ part # "desk"
  OBVIOUS
<1>3. /\ part # "queue" \/ FailuresAreCounted
      /\ part # "desk" \/ RefreshShowsIt
      => QueuePageHolds
  BY DEF QueuePageHolds
<1>4. Spec => [](part # "queue" \/ FailuresAreCounted)
  BY <1>1, QueueRuns, FailuresStayCounted, PTL
<1>5. Spec => [](part # "desk" \/ RefreshShowsIt)
  BY <1>2, PageRuns, SaidIsSo, PTL
<1> QED
  BY <1>3, <1>4, <1>5, PTL

============================================================================
