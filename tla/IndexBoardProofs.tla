--------------------------- MODULE IndexBoardProofs ---------------------------
(**************************************************************************)
(* Proofs about the indices. IndexBoard, for any market clock, calendar,  *)
(* sessions, lags of the source and number of faults: the types, that a   *)
(* session is read as closing at most once, that no writer makes a row of *)
(* a closed day, that an open is one of the session's opening and no      *)
(* writer blanks it, that the level of a day gone by is settled once with *)
(* the close the scan states for it, and that a session none of whose     *)
(* passes failed ends its window with its settled close stored.           *)
(* IndexRoster, for any companies, sources and number of passes: the      *)
(* types, and that the membership kept implements one capture at a time.  *)
(* MarketCalendar, for any days, lists and readers: the types, and that a *)
(* wrong answer is always that the market trades.                         *)
(**************************************************************************)
EXTENDS IndexBoard, IndexRoster, MarketCalendar, WellFoundedInduction, TLAPS

---------------------------------------------------------------------------
(***************************************************************************)
(* The clock.                                                              *)
(***************************************************************************)

\* A set of numbers has a least one.
LEMMA SmallestNat ==
    ASSUME NEW S \in SUBSET Nat, S # {} PROVE \E s \in S : \A r \in S : s <= r
<1>1. PICK s \in S : \A r \in S : ~(<<r, s>> \in OpToRel(<, Nat))
  BY NatLessThanWellFounded, WFMin
<1>2. \A r \in S : r < s => <<r, s>> \in OpToRel(<, Nat)
  BY DEF OpToRel
<1>3. ASSUME NEW r \in S PROVE s <= r
  <2>1. r \in Nat /\ s \in Nat /\ ~(r < s)
    BY <1>1, <1>2
  <2>2. QED
    BY <2>1
<1>4. QED
  BY <1>3

\* The latest of a bounded set of numbers is one of them, and no other is later.
LEMMA LatestOf ==
    ASSUME NEW S \in SUBSET Nat, S # {}, NEW b \in Nat, \A s \in S : s <= b
    PROVE  Latest(S) \in S /\ \A r \in S : r <= Latest(S)
<1> DEFINE T == {b - s : s \in S}
<1>1. T \in SUBSET Nat /\ T # {}
  <2>1. \A s \in S : s \in Nat /\ s <= b /\ b - s \in Nat
    OBVIOUS
  <2>2. QED
    BY <2>1
<1>2. PICK t \in T : \A r \in T : t <= r
  BY <1>1, SmallestNat
<1>3. PICK s \in S : t = b - s
  BY <1>2
<1>4. \A r \in S : r <= s
  BY <1>2, <1>3
<1>5. QED
  BY <1>4 DEF Latest

\* A moment is a tick of a day.
LEMMA DayAndTick ==
    ASSUME NEW t \in Nat
    PROVE  /\ dayOf(t) \in Nat /\ tickOf(t) \in 0..DayLength - 1
           /\ t = dayOf(t) * DayLength + tickOf(t)
<1>1. DayLength \in Nat \ {0}
  BY MarketAssumption
<1>2. QED
  BY <1>1, SMT DEF dayOf, tickOf

\* Days follow each other.
LEMMA DayLengths ==
    ASSUME NEW a \in Nat, NEW b \in Nat
    PROVE  /\ a * DayLength \in Nat /\ DayLength > 0
           /\ a <= b => a * DayLength <= b * DayLength
           /\ a < b => a * DayLength + DayLength <= b * DayLength
<1>1. DayLength \in Nat /\ DayLength > 0
  BY MarketAssumption
<1>2. a * DayLength \in Nat
  BY <1>1, SMT
<1>3. ASSUME a < b PROVE a * DayLength + DayLength <= b * DayLength
  <2>1. PICK c \in Nat : b = a + 1 + c
    <3>1. b - a - 1 \in Nat /\ b = a + 1 + (b - a - 1)
      BY <1>3
    <3>2. QED
      BY <3>1
  <2>2. c * DayLength \in Nat
    BY <1>1, SMT
  <2>3. (a + 1 + c) * DayLength = a * DayLength + DayLength + c * DayLength
    BY <1>1, SMT
  <2>4. QED
    BY <1>1, <1>2, <2>1, <2>2, <2>3
<1>4. ASSUME a <= b PROVE a * DayLength <= b * DayLength
  <2>1. CASE a = b
    BY <1>2, <2>1
  <2>2. CASE a < b
    BY <1>1, <1>2, <1>3, <2>2, SMT
  <2>3. QED
    BY <1>4, <2>1, <2>2
<1>5. QED
  BY <1>1, <1>2, <1>3, <1>4


\* A moment of the behaviours, which start a day in, and a moment a source's
\* figures can be of.
Present == {t \in Nat : DayLength <= t /\ t <= TheEnd}
\* The moments whose figures a page may carry.
Readable == {t \in Nat : PageTurnsAt <= t /\ t <= TheEnd}

\* The present is a moment, and a trading day is one of the days.
LEMMA PresentFacts ==
    ASSUME NEW t \in Present
    PROVE  /\ t \in Moments /\ dayOf(t) \in Days \ {0}
           /\ DayLength <= dayOf(t) * DayLength
           /\ dayOf(t) * DayLength + tickOf(t) = t /\ tickOf(t) \in Nat
<1>1. t \in Nat /\ DayLength <= t /\ t <= TheEnd /\ Horizon \in Nat /\ DayLength \in Nat
  BY MarketAssumption DEF Present
<1>2. dayOf(t) \in Nat /\ tickOf(t) \in 0..DayLength - 1 /\ t = dayOf(t) * DayLength + tickOf(t)
  BY <1>1, DayAndTick
<1>3. (Horizon + 1) * DayLength \in Nat
  BY <1>1, DayLengths
<1>4. dayOf(t) <= Horizon
  <2>1. SUFFICES ASSUME Horizon + 1 <= dayOf(t) PROVE FALSE
    BY <1>1, <1>2
  <2>2. (Horizon + 1) * DayLength <= dayOf(t) * DayLength /\ dayOf(t) * DayLength \in Nat
    BY <1>1, <1>2, <2>1, DayLengths
  <2>3. QED
    BY <1>1, <1>2, <1>3, <2>2 DEF TheEnd
<1>5. dayOf(t) # 0
  <2>1. SUFFICES ASSUME dayOf(t) = 0 PROVE FALSE
    OBVIOUS
  <2>2. 0 * DayLength = 0
    BY <1>1
  <2>3. QED
    BY <1>1, <1>2, <2>1, <2>2
<1>6. DayLength <= dayOf(t) * DayLength
  <2>1. 1 * DayLength <= dayOf(t) * DayLength
    BY <1>2, <1>5, DayLengths
  <2>2. 1 * DayLength = DayLength
    BY <1>1
  <2>3. QED
    BY <2>1, <2>2
<1>7. t \in Moments
  BY <1>1, <1>3 DEF TheEnd, Moments
<1>8. QED
  BY <1>1, <1>2, <1>4, <1>5, <1>6, <1>7 DEF Days

\* A tick of a day, up to the day's length, is a moment.
LEMMA MomentOfDay ==
    ASSUME NEW d \in Days, NEW k \in Nat, k <= DayLength
    PROVE  d * DayLength + k \in Moments /\ d * DayLength \in Nat
<1>1. d \in Nat /\ d <= Horizon /\ Horizon \in Nat /\ DayLength \in Nat
  BY MarketAssumption DEF Days
<1>2. d * DayLength \in Nat /\ d * DayLength + DayLength <= (Horizon + 1) * DayLength
      /\ (Horizon + 1) * DayLength \in Nat
  BY <1>1, DayLengths
<1>3. QED
  BY <1>1, <1>2 DEF Moments

\* What a source shows is no later than the moment, or it is day 0's close.
LEMMA LevelBound ==
    ASSUME NEW t \in Nat, t <= TheEnd
    PROVE  Level(t) \in Moments /\ (Level(t) <= t \/ Level(t) = SettledAt)
<1> DEFINE S == {m \in 0..t : dayOf(m) \in Sessions /\ tickOf(m) \in TradeFrom..SettledAt} \cup {Close(0)}
<1>1. Close(0) = SettledAt /\ SettledAt \in Nat /\ SettledAt < DayLength /\ DayLength \in Nat
  <2>1. 0 * DayLength = 0
    BY MarketAssumption
  <2>2. QED
    BY <2>1, MarketAssumption DEF Close
<1>2. Level(t) = Latest(S)
  BY DEF Level
<1>3. S \in SUBSET Nat /\ S # {} /\ t + SettledAt \in Nat /\ \A s \in S : s <= t + SettledAt
  BY <1>1
<1> DEFINE b == t + SettledAt
<1>4. Latest(S) \in S
  <2> HIDE DEF S, b
  <2>1. b \in Nat /\ \A s \in S : s <= b
    BY <1>3 DEF b
  <2>2. QED
    BY <1>3, <2>1, LatestOf
<1>5. Level(t) \in 0..t \/ Level(t) = SettledAt
  BY <1>1, <1>2, <1>4
<1>6. t \in Moments /\ SettledAt \in Moments
  <2>1. 0 \in Days /\ 0 * DayLength + SettledAt = SettledAt
    BY MarketAssumption DEF Days
  <2>2. SettledAt \in Moments
    BY <1>1, <2>1, MomentOfDay
  <2>3. (Horizon + 1) * DayLength \in Nat
    BY MarketAssumption, DayLengths
  <2>4. QED
    BY <2>2, <2>3 DEF TheEnd, Moments
<1>7. CASE Level(t) = SettledAt
  BY <1>6, <1>7
<1>8. CASE Level(t) \in 0..t
  <2>1. Level(t) \in Nat /\ Level(t) <= t
    BY <1>8
  <2>2. Level(t) \in Moments
    <3>1. (Horizon + 1) * DayLength \in Nat
      BY MarketAssumption, DayLengths
    <3>2. QED
      BY <1>6, <2>1, <3>1 DEF Moments
  <2>3. QED
    BY <2>1, <2>2
<1>9. QED
  BY <1>5, <1>7, <1>8

\* The close a page's change is against is a moment.
LEMMA ChangeBound ==
    ASSUME NEW t \in Readable PROVE ChangeIsFrom(t) \in Moments
<1> DEFINE D == {d \in Sessions : d * DayLength + PageTurnsAt <= t}
<1>1. 0 \in Sessions /\ Sessions \subseteq 0..Horizon /\ Horizon \in Nat
      /\ SettledAt \in Nat /\ SettledAt < DayLength /\ DayLength \in Nat /\ PageTurnsAt \in Nat
  BY MarketAssumption DEF Days
<1>2. 0 \in D
  <2>1. 0 * DayLength + PageTurnsAt = PageTurnsAt
    BY <1>1
  <2>2. QED
    BY <1>1, <2>1 DEF Readable
<1>3. D \in SUBSET Nat /\ D # {} /\ \A d \in D : d <= Horizon
  <2>1. \A d \in Sessions : d \in Nat /\ d <= Horizon
    BY <1>1
  <2>2. QED
    BY <1>2, <2>1
<1>4. described(t) \in Sessions
  <2>1. Latest(D) \in D
    <3> HIDE DEF D
    <3>1. QED
      BY <1>1, <1>3, LatestOf
  <2>2. QED
    BY <2>1 DEF described
<1>5. 0 \in Moments
  BY MarketAssumption, DayLengths DEF Moments
<1>6. CASE described(t) = 0
  BY <1>5, <1>6 DEF ChangeIsFrom
<1>7. CASE described(t) # 0
  <2> DEFINE E == {e \in Sessions : e < described(t)}
  <2>1. described(t) \in Nat /\ 0 \in E /\ E \in SUBSET Nat /\ \A e \in E : e <= Horizon
    <3>1. \A d \in Sessions : d \in Nat /\ d <= Horizon
      BY <1>1
    <3>2. described(t) \in Nat /\ 0 < described(t)
      BY <1>4, <1>7, <3>1
    <3>3. QED
      BY <1>1, <3>1, <3>2
  <2>2. Latest(E) \in E
    <3> HIDE DEF E
    <3>1. E # {}
      BY <2>1
    <3>2. QED
      BY <1>1, <2>1, <3>1, LatestOf
  <2>3. SessionBefore(described(t)) \in Days
    BY <1>1, <2>2 DEF SessionBefore, Days
  <2>4. Close(SessionBefore(described(t))) \in Moments
    BY <1>1, <2>3, MomentOfDay DEF Close
  <2>5. QED
    BY <1>7, <2>4 DEF ChangeIsFrom
<1>8. QED
  BY <1>6, <1>7

---------------------------------------------------------------------------
(***************************************************************************)
(* The invariant.                                                          *)
(***************************************************************************)
Levels == [value : Moments, at : Moments, open : Moments]

\* A pass, at each of its steps.
BoardPasses == {Asleep}
    \cup [pc : {"fetch"}, asOf : Present]
    \cup [pc : {"row"}, asOf : Present, of : Readable, stamped : BOOLEAN, state : States]
    \cup [pc : {"write"}, asOf : Present, of : Readable, stamped : BOOLEAN, state : States,
          open : Moments]
    \cup [pc : {"repair"}, asOf : Present, of : Readable]

\* A candle of an index, on its way.
Candles == {Asleep}
    \cup [pc : {"fetch"}, asOf : Present, value : Moments]
    \cup [pc : {"write"}, asOf : Present]

\* An opening level is of the capture window of its day, or of the tick after it.
OpeningOf(d, level) == level = 0 \/ level <= d * DayLength + CaptureTo + 1

\* A pass is at most a tick old and reads nothing newer than the present.
PassIsYoung ==
    pass # Asleep =>
        /\ pass.asOf <= now /\ now <= pass.asOf + 1
        /\ pass.pc # "fetch" => pass.of <= pass.asOf + 1

\* A pass writes rows only of days the calendar calls trading days, and opens only
\* from the window.
PassIsSound ==
    /\ pass.pc \in {"row", "write"} /\ pass.state = "trading"
          => dayOf(pass.asOf) \in Weekdays \ Listed
    /\ pass.pc = "write" => OpeningOf(dayOf(pass.asOf), pass.open)

\* The claim on a session's closing pass outlives the pass.
ClaimsAreKept == \A d \in Days : closings[d] \in {0, 1} /\ (closings[d] = 1 => d \in claims)

\* The inductive invariant: a claim is kept, a pass is young, what it will write is sound.
BoardInv ==
    /\ now \in Present
    /\ rows \in [Days -> Levels]
    /\ claims \subseteq Days /\ fired \subseteq {"board", "candle"} /\ faults \in 0..MaxFaults
    /\ closings \in [Days -> Nat]
    /\ pass \in BoardPasses /\ candle \in Candles
    /\ PassIsYoung /\ PassIsSound /\ ClaimsAreKept
    /\ NoPhantomSession
    /\ \A d \in Days : OpeningOf(d, rows[d].open)


\* The board starts in the invariant.
LEMMA InitBoardInv == InitBoard => BoardInv
<1> SUFFICES ASSUME InitBoard PROVE BoardInv
  OBVIOUS
<1>1. /\ 0 \in Days /\ 0 \in Sessions /\ 0 \in Weekdays /\ 0 \notin Listed
      /\ DayLength \in Nat /\ Horizon \in Nat \ {0} /\ MaxFaults \in Nat
      /\ TradeFrom \in Nat /\ CloseAt \in Nat /\ SettledAt \in Nat /\ CaptureTo \in Nat
      /\ TradeFrom <= CaptureTo /\ TradeFrom <= CloseAt /\ CloseAt < SettledAt
      /\ SettledAt < DayLength
  BY MarketAssumption, BoardAssumption DEF Days
<1>2. now \in Present
  <2>1. 1 * DayLength = DayLength /\ 1 * DayLength + DayLength <= (Horizon + 1) * DayLength
        /\ (Horizon + 1) * DayLength \in Nat
    BY <1>1, DayLengths
  <2>2. QED
    BY <1>1, <2>1 DEF InitBoard, Present, TheEnd
<1>3. TradeFrom \in Moments /\ CloseAt \in Moments /\ SettledAt \in Moments /\ 0 \in Moments
  <2>1. \A k \in Nat : 0 * DayLength + k = k
    BY <1>1
  <2>2. \A k \in Nat : k <= DayLength => k \in Moments
    BY <1>1, <2>1, MomentOfDay
  <2>3. QED
    BY <1>1, <2>2
<1>4. PICK before \in {NoRow, Captured(CloseAt), Captured(SettledAt)} :
         rows = [d \in Days |-> IF d = 0 THEN before ELSE NoRow]
  BY DEF InitBoard
<1>5. NoRow \in Levels /\ before \in Levels /\ (before.open = 0 \/ before.open = TradeFrom)
  BY <1>3 DEF NoRow, Captured, Levels
<1>6. rows \in [Days -> Levels]
  BY <1>4, <1>5
<1>7. NoPhantomSession
  BY <1>1, <1>4 DEF NoPhantomSession, HasRow
<1>8. \A d \in Days : OpeningOf(d, rows[d].open)
  <2>1. 0 * DayLength = 0
    BY <1>1
  <2>2. OpeningOf(0, before.open)
    BY <1>1, <1>5, <2>1 DEF OpeningOf
  <2>3. \A d \in Days : OpeningOf(d, NoRow.open)
    BY DEF OpeningOf, NoRow
  <2>4. QED
    BY <1>4, <2>2, <2>3
<1>9. QED
  BY <1>1, <1>2, <1>6, <1>7, <1>8
  DEF InitBoard, BoardInv, BoardPasses, Candles, Asleep, PassIsYoung, PassIsSound, ClaimsAreKept

---------------------------------------------------------------------------
(***************************************************************************)
(* What the writers put in a row.                                          *)
(***************************************************************************)

\* A write over a row keeps it a row, and its open an opening, when what is
\* written is.
LEMMA UpsertKeeps ==
    ASSUME NEW row \in Levels, NEW d, NEW level \in Moments, NEW at \in Moments, NEW open \in Moments,
           OpeningOf(d, row.open), OpeningOf(d, open)
    PROVE  /\ upsertValues(row, level, at, open) \in Levels
           /\ OpeningOf(d, upsertValues(row, level, at, open).open)
           /\ row.open # 0 => upsertValues(row, level, at, open).open # 0
<1> DEFINE new == upsertValues(row, level, at, open)
<1>1. /\ new.value = level /\ new.at \in {row.at, at} /\ new.open \in {row.open, open}
      /\ new = [value |-> level, at |-> new.at, open |-> new.open]
      /\ new.open = IF open = 0 THEN row.open ELSE open
  BY DEF upsertValues
<1>2. row.at \in Moments /\ row.open \in Moments
  BY DEF Levels
<1> HIDE DEF new
<1>3. new \in Levels
  BY <1>1, <1>2 DEF Levels
<1>4. OpeningOf(d, new.open) /\ (row.open # 0 => new.open # 0)
  BY <1>1
<1>5. QED
  BY <1>3, <1>4 DEF new

\* The published open of a session is one of its opening, and a moment.
LEMMA FirstIsOpening ==
    ASSUME NEW d \in Days
    PROVE  First(d) \in Moments /\ OpeningOf(d, First(d)) /\ Close(d) \in Moments /\ 0 \in Moments
<1>1. /\ TradeFrom \in Nat /\ TradeFrom <= CaptureTo /\ CaptureTo \in Nat /\ TradeFrom <= DayLength
      /\ SettledAt \in Nat /\ SettledAt <= DayLength /\ DayLength \in Nat
  BY MarketAssumption, BoardAssumption
<1>2. d * DayLength + TradeFrom \in Moments /\ d * DayLength + SettledAt \in Moments
      /\ d * DayLength \in Nat
  BY <1>1, MomentOfDay
<1>3. 0 \in Moments
  BY MarketAssumption, DayLengths DEF Moments
<1>4. QED
  BY <1>1, <1>2, <1>3 DEF First, Close, OpeningOf

\* The level taken as a session's opening is one of the capture window.
LEMMA OpeningTaken ==
    ASSUME NEW asOf \in Present, NEW of \in Readable, of <= asOf + 1, NEW existing \in Moments
    PROVE  LET level == openingLevelFor(asOf, Level(of), existing)
           IN level \in Moments /\ OpeningOf(dayOf(asOf), level)
<1> DEFINE level == openingLevelFor(asOf, Level(of), existing)
           day == dayOf(asOf) * DayLength
<1>1. Level(of) \in Moments /\ (Level(of) <= of \/ Level(of) = SettledAt)
  BY LevelBound DEF Readable
<1>2. 0 \in Moments
  BY MarketAssumption, DayLengths DEF Moments
<1>3. CASE level = 0
  BY <1>2, <1>3 DEF OpeningOf
<1>4. CASE level # 0
  <2>1. level = Level(of) /\ tickOf(asOf) \in TradeFrom..CaptureTo
    BY <1>4 DEF openingLevelFor, isMarketOpen
  <2>2. day + tickOf(asOf) = asOf /\ DayLength <= day /\ day \in Nat /\ tickOf(asOf) \in Nat
    <3>1. dayOf(asOf) \in Nat
      BY PresentFacts DEF Days
    <3>2. QED
      BY <3>1, PresentFacts, DayLengths
  <2> HIDE DEF day, level
  <2>3. of \in Nat /\ asOf \in Nat /\ Level(of) \in Int
    BY <1>1, MarketAssumption DEF Readable, Present, Moments
  <2>4. CaptureTo \in Nat /\ TradeFrom \in Nat /\ SettledAt \in Nat /\ SettledAt < DayLength /\ DayLength \in Nat
    BY MarketAssumption, BoardAssumption
  <2>5. Level(of) <= day + CaptureTo + 1
    <3>1. tickOf(asOf) <= CaptureTo
      BY <2>1, <2>2, <2>4
    <3>2. CASE Level(of) <= of
      BY <2>2, <2>3, <2>4, <3>1, <3>2
    <3>3. CASE Level(of) = SettledAt
      BY <2>2, <2>4, <3>3
    <3>4. QED
      BY <1>1, <3>2, <3>3
  <2>6. OpeningOf(dayOf(asOf), level)
    BY <2>1, <2>5 DEF OpeningOf, day
  <2>7. QED
    BY <1>1, <2>1, <2>6 DEF level
<1>5. QED
  BY <1>3, <1>4

\* A source's figures are of a moment its page describes.
LEMMA FreshIsReadable == ASSUME now \in Present PROVE Fresh \subseteq Readable
<1> SUFFICES ASSUME NEW lag \in Lags, now - lag \in Nat PROVE now - lag \in Readable
  BY DEF Fresh
<1>1. lag \in Nat /\ lag + PageTurnsAt <= DayLength /\ PageTurnsAt \in Nat /\ DayLength \in Nat
  BY MarketAssumption, BoardAssumption
<1>2. (Horizon + 1) * DayLength \in Nat
  BY MarketAssumption, DayLengths
<1>3. QED
  BY <1>1, <1>2 DEF Readable, Present, TheEnd

---------------------------------------------------------------------------
(***************************************************************************)
(* The steps.  Each keeps the invariant, and blanks no open.               *)
(***************************************************************************)
OpensKept == \A d \in Days : rows[d].open # 0 => rows'[d].open # 0

\* What the invariant says of the rows, and of the pass.
RowsSound ==
    /\ rows \in [Days -> Levels]
    /\ NoPhantomSession
    /\ \A d \in Days : OpeningOf(d, rows[d].open)

PassSound == pass \in BoardPasses /\ PassIsYoung /\ PassIsSound

\* What a step leaves of the rows keeps what is said of them.
LEMMA RowsFrame ==
    ASSUME RowsSound, rows' = rows PROVE RowsSound' /\ OpensKept
BY DEF RowsSound, NoPhantomSession, HasRow, OpensKept

\* What a step leaves of the pass keeps what is said of it.
LEMMA PassFrame ==
    ASSUME PassSound, pass' = pass, now' = now PROVE PassSound'
BY DEF PassSound, PassIsYoung, PassIsSound

\* A pass at rest has nothing to be wrong about.
LEMMA AsleepIsSound == ASSUME pass' = Asleep PROVE PassSound'
BY DEF PassSound, PassIsYoung, PassIsSound, BoardPasses, Asleep

\* The parts of the invariant.
LEMMA BoardParts ==
    BoardInv <=> /\ now \in Present
                 /\ claims \subseteq Days /\ fired \subseteq {"board", "candle"}
                 /\ faults \in 0..MaxFaults /\ closings \in [Days -> Nat]
                 /\ candle \in Candles /\ ClaimsAreKept
                 /\ PassSound /\ RowsSound
BY DEF BoardInv, PassSound, RowsSound

\* The parts of the invariant after a step.
LEMMA BoardPartsNext ==
    ASSUME /\ now' \in Present
           /\ claims' \subseteq Days /\ fired' \subseteq {"board", "candle"}
           /\ faults' \in 0..MaxFaults /\ closings' \in [Days -> Nat]
           /\ candle' \in Candles /\ ClaimsAreKept'
           /\ PassSound' /\ RowsSound'
    PROVE  BoardInv'
BY DEF BoardInv, PassSound, RowsSound

\* A pass starts: it takes the claim of the session it reads for.
LEMMA RunPassStep ==
    ASSUME BoardInv, runIndexBoardPass PROVE BoardInv' /\ OpensKept
<1> DEFINE d == dayOf(now)
<1>1. d \in Days
  BY PresentFacts DEF BoardInv
<1>2. PassSound'
  <2>1. pass' = Asleep \/ pass' = [pc |-> "fetch", asOf |-> now]
    BY DEF runIndexBoardPass, StartScrape
  <2>2. now \in Present /\ now \in Nat /\ now' = now
    BY DEF BoardInv, runIndexBoardPass, Present
  <2>3. CASE pass' = [pc |-> "fetch", asOf |-> now]
    BY <2>2, <2>3 DEF PassSound, BoardPasses, PassIsYoung, PassIsSound, Asleep
  <2>4. QED
    BY <2>1, <2>3, AsleepIsSound
<1>3. RowsSound' /\ OpensKept
  BY RowsFrame, BoardParts DEF runIndexBoardPass
<1>4. claims' \subseteq Days /\ closings' \in [Days -> Nat] /\ ClaimsAreKept'
  <2>1. CASE UNCHANGED <<claims, closings>>
    BY <2>1 DEF BoardInv, ClaimsAreKept
  <2>2. CASE claimIndexClosingPass(d) /\ closings' = [closings EXCEPT ![d] = @ + 1]
    <3>1. closings[d] = 0 /\ claims' = claims \cup {d}
      BY <1>1, <2>2 DEF claimIndexClosingPass, BoardInv, ClaimsAreKept
    <3>2. closings' \in [Days -> Nat] /\ \A e \in Days : closings'[e] = IF e = d THEN 1 ELSE closings[e]
      BY <1>1, <2>2, <3>1 DEF BoardInv
    <3>3. QED
      BY <1>1, <3>1, <3>2 DEF BoardInv, ClaimsAreKept
  <2>3. QED
    BY <2>1, <2>2 DEF runIndexBoardPass
<1>5. QED
  BY <1>2, <1>3, <1>4, BoardParts, BoardPartsNext DEF runIndexBoardPass

\* The reading of the page is a figure a source may show.
LEMMA FetchBoardStep ==
    ASSUME BoardInv, FetchBoard PROVE BoardInv' /\ OpensKept
<1>1. PICK r \in Readings, state \in States :
         /\ CalendarSays(dayOf(pass.asOf), state)
         /\ pass' = [pc |-> "row", asOf |-> pass.asOf, of |-> r.of,
                     stamped |-> r.stamped, state |-> state]
  BY DEF FetchBoard
<1>2. pass.asOf \in Present /\ pass # Asleep /\ now \in Present /\ now' = now
  BY DEF FetchBoard, BoardInv, BoardPasses, Asleep
<1>3. r.of \in Readable /\ r.of <= now /\ r.stamped \in BOOLEAN
  <2>1. r.of \in Fresh /\ r.stamped \in BOOLEAN
    BY DEF Readings
  <2>2. \A t \in Fresh : t <= now
    BY <1>2, MarketAssumption DEF Fresh, Present
  <2>3. QED
    BY <1>2, <2>1, <2>2, FreshIsReadable
<1>4. PassIsYoung'
  BY <1>1, <1>2, <1>3 DEF PassIsYoung, BoardInv, Present, Readable
<1>5. pass' \in BoardPasses
  BY <1>1, <1>2, <1>3 DEF BoardPasses
<1>6. PassIsSound'
  BY <1>1 DEF PassIsSound, CalendarSays
<1>7. faults' \in 0..MaxFaults
  BY <1>1, MarketAssumption DEF CalendarSays, Fault, BoardInv
<1>8. RowsSound' /\ OpensKept
  BY RowsFrame, BoardParts DEF FetchBoard
<1>9. QED
  BY <1>4, <1>5, <1>6, <1>7, <1>8, BoardParts, BoardPartsNext DEF FetchBoard, PassSound, ClaimsAreKept, BoardInv

\* The open a pass is about to write is one the row holds or one it captured.
LEMMA ReadDayRowStep ==
    ASSUME BoardInv, ReadDayRow PROVE BoardInv' /\ OpensKept
<1> DEFINE d == dayOf(pass.asOf)
           open == openingLevelFor(pass.asOf, Level(pass.of), rows[d].open)
<1>1. pass \in [pc : {"row"}, asOf : Present, of : Readable, stamped : BOOLEAN, state : States]
  BY DEF ReadDayRow, BoardInv, BoardPasses, Asleep
<1>2. d \in Days
  BY <1>1, PresentFacts
<1>3. rows[d].open \in Moments
  BY <1>2 DEF BoardInv, Levels
<1>4. pass.asOf <= now /\ now <= pass.asOf + 1 /\ pass.of <= pass.asOf + 1
  BY <1>1 DEF BoardInv, PassIsYoung, Asleep
<1>5. open \in Moments /\ OpeningOf(d, open)
  BY <1>1, <1>3, <1>4, OpeningTaken
<1> HIDE DEF d, open
<1>6. PassSound'
  <2>1. CASE pass' = Asleep
    BY <2>1, AsleepIsSound
  <2>2. CASE pass' = [pc |-> "write", asOf |-> pass.asOf, of |-> pass.of,
                      stamped |-> pass.stamped, state |-> pass.state, open |-> open]
    <3>1. pass' \in BoardPasses
      BY <1>1, <1>5, <2>2 DEF BoardPasses
    <3>2. PassIsYoung'
      BY <1>4, <2>2 DEF PassIsYoung, ReadDayRow
    <3>3. PassIsSound'
      BY <1>1, <1>5, <2>2 DEF PassIsSound, BoardInv, d
    <3>4. QED
      BY <3>1, <3>2, <3>3 DEF PassSound
  <2>3. QED
    BY <2>1, <2>2 DEF ReadDayRow, open, d
<1>7. RowsSound' /\ OpensKept
  BY RowsFrame, BoardParts DEF ReadDayRow
<1>8. QED
  BY <1>6, <1>7, BoardParts, BoardPartsNext DEF ReadDayRow, ClaimsAreKept, BoardInv

\* The write of the day's row.
LEMMA WriteDayRowStep ==
    ASSUME BoardInv, WriteDayRow PROVE BoardInv' /\ OpensKept
<1> DEFINE d == dayOf(pass.asOf)
           at == IF pass.stamped THEN pass.of ELSE pass.asOf
           new == upsertValues(rows[d], Level(pass.of), at, pass.open)
<1>1. pass \in [pc : {"write"}, asOf : Present, of : Readable, stamped : BOOLEAN,
                state : States, open : Moments]
  BY DEF WriteDayRow, BoardInv, BoardPasses, Asleep
<1>2. d \in Days /\ rows[d] \in Levels /\ OpeningOf(d, rows[d].open)
  <2>1. d \in Days
    BY <1>1, PresentFacts
  <2>2. QED
    BY <2>1 DEF BoardInv
<1>3. at \in Moments /\ Level(pass.of) \in Moments
  <2>1. pass.of \in Nat /\ pass.of <= TheEnd /\ pass.asOf \in Moments
    BY <1>1, PresentFacts DEF Readable
  <2>2. pass.of \in Moments
    BY <2>1, MarketAssumption, DayLengths DEF Moments, TheEnd
  <2>3. QED
    BY <2>1, <2>2, LevelBound
<1>4. pass.open \in Moments /\ OpeningOf(d, pass.open)
  BY <1>1 DEF BoardInv, PassIsSound
<1>5. new \in Levels /\ OpeningOf(d, new.open) /\ (rows[d].open # 0 => new.open # 0)
  BY <1>2, <1>3, <1>4, UpsertKeeps
<1>6. pass.state = "trading" => d \in Weekdays \ Listed
  BY <1>1 DEF BoardInv, PassIsSound
<1>7. rows' = IF pass.state = "trading" THEN [rows EXCEPT ![d] = new] ELSE rows
  BY DEF WriteDayRow, writeSessionRow
<1> HIDE DEF d, new, at
<1>8. RowsSound' /\ OpensKept
  <2>1. CASE pass.state = "trading"
    <3>1. rows' = [rows EXCEPT ![d] = new]
      BY <1>7, <2>1
    <3>2. rows' \in [Days -> Levels] /\ \A e \in Days : rows'[e] = IF e = d THEN new ELSE rows[e]
      BY <1>2, <1>5, <3>1 DEF BoardInv
    <3>3. NoPhantomSession'
      BY <1>6, <2>1, <3>2 DEF BoardInv, NoPhantomSession, HasRow
    <3>4. QED
      BY <1>5, <3>2, <3>3 DEF BoardInv, RowsSound, OpensKept
  <2>2. CASE pass.state # "trading"
    BY <1>7, <2>2, RowsFrame, BoardParts
  <2>3. QED
    BY <2>1, <2>2
<1>9. PassSound'
  <2>1. CASE pass' = Asleep
    BY <2>1, AsleepIsSound
  <2>2. CASE pass' = [pc |-> "repair", asOf |-> pass.asOf, of |-> pass.of]
    <3>1. pass' \in BoardPasses
      BY <1>1, <2>2 DEF BoardPasses
    <3>2. PassIsYoung'
      BY <1>1, <2>2 DEF PassIsYoung, WriteDayRow, BoardInv, Asleep
    <3>3. PassIsSound'
      BY <2>2 DEF PassIsSound
    <3>4. QED
      BY <3>1, <3>2, <3>3 DEF PassSound
  <2>3. QED
    BY <2>1, <2>2 DEF WriteDayRow
<1>10. QED
  BY <1>8, <1>9, BoardParts, BoardPartsNext DEF WriteDayRow, ClaimsAreKept, BoardInv

\* The row a repair is of is one of those before the day.
LEMMA LatestBefore ==
    ASSUME NEW d \in Days, rowsBefore(d) # {}
    PROVE  Latest(rowsBefore(d)) \in Days /\ HasRow(Latest(rowsBefore(d)))
<1>1. rowsBefore(d) \in SUBSET Nat /\ \A e \in rowsBefore(d) : e <= Horizon
  <2>1. \A e \in Days : e \in Nat /\ e <= Horizon
    BY MarketAssumption DEF Days
  <2>2. QED
    BY <2>1 DEF rowsBefore
<1>2. Horizon \in Nat
  BY MarketAssumption
<1>3. Latest(rowsBefore(d)) \in rowsBefore(d)
  BY <1>1, <1>2, LatestOf
<1>4. QED
  BY <1>3 DEF rowsBefore

\* The repair of the previous close.
LEMMA RepairStep ==
    ASSUME BoardInv, RepairPrevious PROVE BoardInv' /\ OpensKept
<1>1. pass \in [pc : {"repair"}, asOf : Present, of : Readable]
  BY DEF RepairPrevious, BoardInv, BoardPasses, Asleep
<1> DEFINE before == rowsBefore(dayOf(pass.asOf))
           d == Latest(before)
<1>2. PICK implied \in {0, ChangeIsFrom(pass.of)} :
         IF before # {} /\ repairedValueFor(rows[d], d, implied)
         THEN rows' = [rows EXCEPT ![d].value = implied]
         ELSE UNCHANGED rows
  BY DEF RepairPrevious
<1>3. implied \in Moments
  <2>1. 0 \in Moments
    BY MarketAssumption, DayLengths DEF Moments
  <2>2. QED
    BY <1>1, <2>1, ChangeBound
<1>4. before # {} => d \in Days /\ HasRow(d)
  <2>1. dayOf(pass.asOf) \in Days
    BY <1>1, PresentFacts
  <2>2. QED
    BY <2>1, LatestBefore
<1> HIDE DEF before, d
<1>5. RowsSound' /\ OpensKept
  <2>1. CASE UNCHANGED rows
    BY <2>1, RowsFrame, BoardParts
  <2>2. CASE before # {} /\ rows' = [rows EXCEPT ![d].value = implied]
    <3>1. d \in Days /\ HasRow(d) /\ rows \in [Days -> Levels]
      BY <1>4, <2>2 DEF BoardInv
    <3>2. /\ rows' \in [Days -> Levels]
          /\ \A e \in Days : rows'[e].open = rows[e].open /\ (e # d => rows'[e] = rows[e])
      BY <1>3, <2>2, <3>1 DEF Levels
    <3>3. NoPhantomSession'
      BY <3>1, <3>2 DEF BoardInv, NoPhantomSession, HasRow
    <3>4. QED
      BY <1>3, <2>2, <3>1, <3>2, <3>3 DEF BoardInv, RowsSound, OpensKept
  <2>3. QED
    BY <1>2, <2>1, <2>2
<1>6. PassSound'
  BY AsleepIsSound DEF RepairPrevious
<1>7. QED
  BY <1>5, <1>6, BoardParts, BoardPartsNext DEF RepairPrevious, ClaimsAreKept, BoardInv

\* A pass fails.
LEMMA PassFailsStep ==
    ASSUME BoardInv, PassFails PROVE BoardInv' /\ OpensKept
<1>1. PassSound' /\ RowsSound' /\ OpensKept
  BY AsleepIsSound, RowsFrame, BoardParts DEF PassFails
<1>2. faults' \in 0..MaxFaults
  BY MarketAssumption DEF PassFails, Fault, BoardInv
<1>3. QED
  BY <1>1, <1>2, BoardParts, BoardPartsNext DEF PassFails, ClaimsAreKept, BoardInv

\* The candles of an index are asked for.
LEMMA StartCandlesStep ==
    ASSUME BoardInv, StartCandles PROVE BoardInv' /\ OpensKept
<1>1. PICK state \in States :
         /\ CalendarSays(dayOf(now), state)
         /\ candle' = IF state \in {"weekend", "holiday"} THEN Asleep
                      ELSE [pc |-> "fetch", asOf |-> now, value |-> rows[dayOf(now)].value]
  BY DEF StartCandles
<1>2. now \in Present /\ rows[dayOf(now)].value \in Moments
  <2>1. dayOf(now) \in Days
    BY PresentFacts DEF BoardInv
  <2>2. QED
    BY <2>1 DEF BoardInv, Levels
<1>3. candle' \in Candles
  BY <1>1, <1>2 DEF Candles
<1>4. faults' \in 0..MaxFaults
  BY <1>1, MarketAssumption DEF CalendarSays, Fault, BoardInv
<1>5. PassSound' /\ RowsSound' /\ OpensKept
  BY PassFrame, RowsFrame, BoardParts DEF StartCandles
<1>6. QED
  BY <1>3, <1>4, <1>5, BoardParts, BoardPartsNext DEF StartCandles, ClaimsAreKept, BoardInv

\* The candles of an index arrive.
LEMMA FetchCandleStep ==
    ASSUME BoardInv, FetchCandle PROVE BoardInv' /\ OpensKept
<1>1. candle.asOf \in Present
  BY DEF FetchCandle, BoardInv, Candles, Asleep
<1>2. candle' \in Candles
  BY <1>1 DEF FetchCandle, Candles
<1>3. PassSound' /\ RowsSound' /\ OpensKept
  BY PassFrame, RowsFrame, BoardParts DEF FetchCandle
<1>4. QED
  BY <1>2, <1>3, BoardParts, BoardPartsNext DEF FetchCandle, ClaimsAreKept, BoardInv

\* A session of the behaviours has its open after the epoch.
LEMMA FirstIsLate == ASSUME NEW d \in Days \ {0} PROVE First(d) # 0
<1>1. d \in Nat /\ 1 <= d
  BY MarketAssumption DEF Days
<1>2. 1 * DayLength <= d * DayLength /\ d * DayLength \in Nat /\ DayLength > 0
  BY <1>1, DayLengths
<1>3. DayLength \in Nat /\ TradeFrom \in Nat
  BY MarketAssumption
<1>4. QED
  BY <1>2, <1>3 DEF First

\* The open of the day's candle is set on the row.
LEMMA SetOpenStep ==
    ASSUME BoardInv, setSessionOpen PROVE BoardInv' /\ OpensKept
<1> DEFINE d == dayOf(candle.asOf)
<1>1. d \in Days \ {0}
  <2>1. candle.asOf \in Present
    BY DEF setSessionOpen, BoardInv, Candles, Asleep
  <2>2. QED
    BY <2>1, PresentFacts
<1>2. First(d) \in Moments /\ OpeningOf(d, First(d)) /\ First(d) # 0
  BY <1>1, FirstIsOpening, FirstIsLate
<1>3. rows' = IF HasRow(d) THEN [rows EXCEPT ![d].open = First(d)] ELSE rows
  BY DEF setSessionOpen
<1> HIDE DEF d
<1>4. RowsSound' /\ OpensKept
  <2>1. CASE HasRow(d)
    <3>1. /\ rows' \in [Days -> Levels]
          /\ \A e \in Days : rows'[e].open = IF e = d THEN First(d) ELSE rows[e].open
          /\ \A e \in Days : e # d => rows'[e] = rows[e]
      BY <1>1, <1>2, <1>3, <2>1 DEF BoardInv, Levels
    <3>2. NoPhantomSession'
      BY <2>1, <3>1 DEF BoardInv, NoPhantomSession, HasRow
    <3>3. QED
      BY <1>2, <3>1, <3>2 DEF BoardInv, RowsSound, OpensKept
  <2>2. CASE ~HasRow(d)
    BY <1>3, <2>2, RowsFrame, BoardParts
  <2>3. QED
    BY <2>1, <2>2
<1>5. PassSound' /\ candle' \in Candles
  BY PassFrame, BoardParts DEF setSessionOpen, Candles
<1>6. QED
  BY <1>4, <1>5, BoardParts, BoardPartsNext DEF setSessionOpen, ClaimsAreKept, BoardInv

\* The history of an index is synced.
LEMMA SyncStep ==
    ASSUME BoardInv, runIndexSync PROVE BoardInv' /\ OpensKept
<1>1. PICK from \in Sessions :
         rows' = [d \in Days |->
                    IF d \in Sessions /\ d >= from /\ d < dayOf(now)
                    THEN upsertValues(rows[d], Close(d), 0, First(d)) ELSE rows[d]]
  BY DEF runIndexSync
<1> DEFINE new(d) == upsertValues(rows[d], Close(d), 0, First(d))
<1>2. ASSUME NEW d \in Days
      PROVE  new(d) \in Levels /\ OpeningOf(d, new(d).open) /\ (rows[d].open # 0 => new(d).open # 0)
  BY UpsertKeeps, FirstIsOpening DEF BoardInv
<1>3. \A d \in Days : (rows'[d] = new(d) /\ d \in Sessions) \/ rows'[d] = rows[d]
  BY <1>1
<1>4. rows' \in [Days -> Levels]
  BY <1>1, <1>2 DEF BoardInv
<1> HIDE DEF new
<1>5. NoPhantomSession'
  <2>1. \A d \in Sessions : d \in Weekdays \ Listed
    BY MarketAssumption, BoardAssumption
  <2>2. QED
    BY <1>3, <2>1 DEF BoardInv, NoPhantomSession, HasRow
<1>6. RowsSound' /\ OpensKept
  BY <1>2, <1>3, <1>4, <1>5 DEF BoardInv, RowsSound, OpensKept
<1>7. PassSound'
  BY PassFrame, BoardParts DEF runIndexSync
<1>8. QED
  BY <1>6, <1>7, BoardParts, BoardPartsNext DEF runIndexSync, ClaimsAreKept, BoardInv

\* The history of an index is backfilled.
LEMMA BackfillStep ==
    ASSUME BoardInv, backfillIndex PROVE BoardInv' /\ OpensKept
<1> DEFINE new(d) == [NoRow EXCEPT !.value = Close(d)]
<1>1. rows' = [d \in Days |-> IF d \in Sessions /\ d < dayOf(now) /\ ~HasRow(d)
                              THEN new(d) ELSE rows[d]]
  BY DEF backfillIndex
<1>2. ASSUME NEW d \in Days PROVE new(d) \in Levels /\ OpeningOf(d, new(d).open)
  BY FirstIsOpening DEF NoRow, Levels, OpeningOf
<1>3. \A d \in Days : \/ rows'[d] = new(d) /\ d \in Sessions /\ rows[d].open = 0
                      \/ rows'[d] = rows[d]
  BY <1>1 DEF HasRow, NoRow
<1>4. rows' \in [Days -> Levels]
  BY <1>1, <1>2 DEF BoardInv
<1> HIDE DEF new
<1>5. NoPhantomSession'
  <2>1. \A d \in Sessions : d \in Weekdays \ Listed
    BY MarketAssumption, BoardAssumption
  <2>2. QED
    BY <1>3, <2>1 DEF BoardInv, NoPhantomSession, HasRow
<1>6. RowsSound' /\ OpensKept
  BY <1>2, <1>3, <1>4, <1>5 DEF BoardInv, RowsSound, OpensKept
<1>7. PassSound'
  BY PassFrame, BoardParts DEF backfillIndex
<1>8. QED
  BY <1>6, <1>7, BoardParts, BoardPartsNext DEF backfillIndex, ClaimsAreKept, BoardInv

\* The clock moves.
LEMMA ClockStep ==
    ASSUME BoardInv, BoardClock PROVE BoardInv' /\ OpensKept
<1>1. now' \in Present
  BY MarketAssumption, DayLengths DEF BoardClock, BoardInv, Present, TheEnd
<1>2. PassSound'
  <2>1. pass' = pass /\ (pass # Asleep => pass.asOf = now) /\ now' = now + 1 /\ now \in Nat
    BY DEF BoardClock, BoardInv, Present
  <2>2. QED
    BY <2>1 DEF BoardInv, PassSound, PassIsYoung, PassIsSound
<1>3. RowsSound' /\ OpensKept
  BY RowsFrame, BoardParts DEF BoardClock
<1>4. QED
  BY <1>1, <1>2, <1>3, BoardParts, BoardPartsNext DEF BoardClock, ClaimsAreKept, BoardInv

\* Every step keeps the invariant.
LEMMA StepBoardInv ==
    ASSUME BoardInv, [NextBoard]_boardVars PROVE BoardInv' /\ OpensKept
<1>1. CASE UNCHANGED boardVars
  <2>1. PassSound' /\ RowsSound' /\ OpensKept
    BY <1>1, PassFrame, RowsFrame, BoardParts DEF boardVars
  <2>2. QED
    BY <1>1, <2>1, BoardParts, BoardPartsNext DEF boardVars, ClaimsAreKept, BoardInv
<1>2. QED
  BY <1>1, RunPassStep, FetchBoardStep, ReadDayRowStep, WriteDayRowStep, RepairStep,
     PassFailsStep, StartCandlesStep, FetchCandleStep, SetOpenStep, SyncStep, BackfillStep,
     ClockStep DEF NextBoard

---------------------------------------------------------------------------
(***************************************************************************)
(* The theorems.                                                           *)
(***************************************************************************)

\* The invariant holds throughout.
LEMMA BoardInvHolds == BoardSpec => []BoardInv
<1>1. BoardInv /\ [NextBoard]_boardVars => BoardInv'
  BY StepBoardInv
<1>2. QED
  BY InitBoardInv, <1>1, PTL DEF BoardSpec

\* The board's variables keep their types: levels and reading times are moments
\* of the behaviour, rows and claims are of its days.
THEOREM BoardTypes == BoardSpec => []BoardTypeOK
<1>1. BoardInv => BoardTypeOK
  <2> SUFFICES ASSUME BoardInv PROVE BoardTypeOK
    OBVIOUS
  <2>1. now \in Moments
    BY PresentFacts DEF BoardInv
  <2>2. pass.pc \in {"idle", "fetch", "row", "write", "repair"}
    BY DEF BoardInv, BoardPasses, Asleep
  <2>3. candle.pc \in {"idle", "fetch", "write"}
    BY DEF BoardInv, Candles, Asleep
  <2>4. QED
    BY <2>1, <2>2, <2>3 DEF BoardInv, BoardTypeOK, Levels
<1>2. QED
  BY <1>1, BoardInvHolds, PTL

\* However the ticks, the failures and the restarts of a session come, at most one
\* scrape of it runs as its closing pass, and its claim outlives the scrape.
THEOREM ClosingOnce == BoardSpec => []ClosingPassOnce
<1>1. BoardInv => ClosingPassOnce
  BY DEF BoardInv, ClaimsAreKept, ClosingPassOnce
<1>2. QED
  BY <1>1, BoardInvHolds, PTL

\* None of the four writers makes a row of a day the calendar lists as closed, even
\* when the calendar was unreadable in between.
THEOREM NoPhantoms == BoardSpec => []NoPhantomSession
<1>1. BoardInv => NoPhantomSession
  BY DEF BoardInv
<1>2. QED
  BY <1>1, BoardInvHolds, PTL

\* A stored open is of the capture window of its own day, whichever of the pass,
\* the candle sync and the published series wrote it.
THEOREM OpensAreOpenings == BoardSpec => []OpenIsAnOpening
<1>1. BoardInv => OpenIsAnOpening
  BY DEF BoardInv, OpeningOf, OpenIsAnOpening
<1>2. QED
  BY <1>1, BoardInvHolds, PTL

\* No writer blanks an open another has stored.
THEOREM OpensStay == BoardSpec => OpenIsNeverBlanked
<1>1. BoardInv /\ [NextBoard]_boardVars => OpensKept
  BY StepBoardInv
<1>2. OpensKept => [\A d \in Days : rows[d].open # 0 => rows'[d].open # 0]_boardVars
  BY DEF OpensKept
<1>3. QED
  BY <1>1, <1>2, BoardInvHolds, PTL DEF BoardSpec, OpenIsNeverBlanked

---------------------------------------------------------------------------
(***************************************************************************)
(* Sessions on the clock.                                                  *)
(***************************************************************************)

\* A day and a tick make a moment, and no other day does.
LEMMA MomentIsOfItsDay ==
    ASSUME NEW d \in Nat, NEW k \in 0..(DayLength - 1)
    PROVE  dayOf(d * DayLength + k) = d /\ tickOf(d * DayLength + k) = k
<1> DEFINE t == d * DayLength + k
<1>1. DayLength \in Nat /\ DayLength > 0 /\ d * DayLength \in Nat /\ t \in Nat
  BY DayLengths, MarketAssumption
<1>2. dayOf(t) \in Nat /\ tickOf(t) \in 0..(DayLength - 1) /\ t = dayOf(t) * DayLength + tickOf(t)
  BY <1>1, DayAndTick
<1> DEFINE e == dayOf(t)
           r == tickOf(t)
<1>3. /\ e \in Nat /\ r \in 0..(DayLength - 1)
      /\ d * DayLength + k = e * DayLength + r
      /\ e * DayLength \in Nat
  BY <1>2, DayLengths
<1> HIDE DEF e, r, t
<1>4. ~(d < e)
  <2>1. d < e => d * DayLength + DayLength <= e * DayLength
    BY <1>3, DayLengths
  <2> QED
    BY <1>1, <1>3, <2>1
<1>5. ~(e < d)
  <2>1. e < d => e * DayLength + DayLength <= d * DayLength
    BY <1>3, DayLengths
  <2> QED
    BY <1>1, <1>3, <2>1
<1>6. d = e /\ k = r
  BY <1>1, <1>3, <1>4, <1>5
<1> QED
  BY <1>6 DEF e, r, t

\* A later moment is of the same day or of a later one.
LEMMA DaysAreOrdered ==
    ASSUME NEW m \in Nat, NEW t \in Nat, m <= t PROVE dayOf(m) <= dayOf(t)
<1>1. /\ dayOf(m) \in Nat /\ tickOf(m) \in 0..(DayLength - 1) /\ m = dayOf(m) * DayLength + tickOf(m)
      /\ dayOf(t) \in Nat /\ tickOf(t) \in 0..(DayLength - 1) /\ t = dayOf(t) * DayLength + tickOf(t)
  BY DayAndTick
<1>2. dayOf(t) < dayOf(m) => dayOf(t) * DayLength + DayLength <= dayOf(m) * DayLength
  BY <1>1, DayLengths
<1>3. DayLength \in Nat /\ dayOf(m) * DayLength \in Nat /\ dayOf(t) * DayLength \in Nat
  BY <1>1, DayLengths, MarketAssumption
<1> QED
  BY <1>1, <1>2, <1>3

\* A session is a day of the clock, and its first trade and close are moments of it.
LEMMA SessionDays ==
    /\ 0 \in Sessions /\ Sessions \subseteq Days /\ Days \subseteq Nat
    /\ TradeFrom \in 0..(DayLength - 1) /\ SettledAt \in 0..(DayLength - 1)
    /\ TradeFrom <= SettledAt /\ Horizon \in Nat /\ DayLength \in Nat
    /\ \A d \in Days : d <= Horizon
    /\ \A d \in Days : /\ First(d) \in Nat /\ dayOf(First(d)) = d /\ tickOf(First(d)) = TradeFrom
                       /\ Close(d) \in Nat /\ dayOf(Close(d)) = d /\ tickOf(Close(d)) = SettledAt
<1>1. /\ 0 \in Sessions /\ Sessions \subseteq Days /\ Days \subseteq Nat
      /\ TradeFrom \in 0..(DayLength - 1) /\ SettledAt \in 0..(DayLength - 1)
      /\ TradeFrom <= SettledAt /\ Horizon \in Nat /\ DayLength \in Nat
      /\ \A d \in Days : d <= Horizon
  BY MarketAssumption DEF Days
<1>2. \A d \in Days : d * DayLength \in Nat
  BY <1>1, DayLengths
<1>3. \A d \in Days : /\ First(d) \in Nat /\ dayOf(First(d)) = d /\ tickOf(First(d)) = TradeFrom
                      /\ Close(d) \in Nat /\ dayOf(Close(d)) = d /\ tickOf(Close(d)) = SettledAt
  BY <1>1, <1>2, MomentIsOfItsDay DEF First, Close
<1> QED
  BY <1>1, <1>3

\* What a source shows is a trade of a session.
LEMMA LevelIsTraded ==
    ASSUME NEW t \in Nat, t <= TheEnd
    PROVE  /\ Level(t) \in Moments /\ dayOf(Level(t)) \in Sessions
           /\ tickOf(Level(t)) \in TradeFrom..SettledAt
           /\ \A s \in Sessions : /\ First(s) <= t => First(s) <= Level(t)
                                  /\ Close(s) <= t => Close(s) <= Level(t)
           /\ Level(t) <= t \/ Level(t) = Close(0)
<1> DEFINE S == {m \in 0..t : dayOf(m) \in Sessions /\ tickOf(m) \in TradeFrom..SettledAt} \cup {Close(0)}
<1>1. Level(t) = Latest(S)
  BY DEF Level
<1>2. Close(0) \in Nat /\ dayOf(Close(0)) = 0 /\ 0 \in Sessions
      /\ tickOf(Close(0)) \in TradeFrom..SettledAt
  BY SessionDays
<1>3. S \in SUBSET Nat /\ S # {} /\ t + Close(0) \in Nat /\ \A s \in S : s <= t + Close(0)
  BY <1>2
<1>4. Latest(S) \in S /\ \A r \in S : r <= Latest(S)
  <2> DEFINE b == t + Close(0)
  <2> HIDE DEF S, b
  <2>1. b \in Nat /\ \A s \in S : s <= b
    BY <1>3 DEF b
  <2> QED
    BY <1>3, <2>1, LatestOf
<1>5. /\ dayOf(Level(t)) \in Sessions /\ tickOf(Level(t)) \in TradeFrom..SettledAt
      /\ Level(t) <= t \/ Level(t) = Close(0)
  BY <1>1, <1>2, <1>4
<1>6. \A s \in Sessions : /\ First(s) <= t => First(s) <= Level(t)
                          /\ Close(s) <= t => Close(s) <= Level(t)
  <2> TAKE s \in Sessions
  <2>1. s \in Days /\ TradeFrom \in TradeFrom..SettledAt /\ SettledAt \in TradeFrom..SettledAt
    BY SessionDays
  <2>2. /\ First(s) <= t => First(s) \in S
        /\ Close(s) <= t => Close(s) \in S
    BY <2>1, SessionDays
  <2> QED
    BY <1>1, <1>4, <2>2
<1> QED
  BY <1>5, <1>6, LevelBound

\* From a session's first trade to the next session, what is shown is the session's.
LEMMA LevelIsOfTheSession ==
    ASSUME NEW t \in Nat, t <= TheEnd, NEW s \in Sessions, First(s) <= t,
           \A e \in Sessions : e <= dayOf(t) => e <= s
    PROVE  dayOf(Level(t)) = s
<1>1. /\ Level(t) \in Nat /\ dayOf(Level(t)) \in Sessions /\ First(s) <= Level(t)
      /\ Level(t) <= t \/ Level(t) = Close(0)
  BY LevelIsTraded DEF Moments
<1>2. s \in Days /\ s \in Nat /\ 0 \in Days /\ dayOf(Level(t)) \in Nat
  BY <1>1, SessionDays
<1>3. s <= dayOf(Level(t))
  <2>1. First(s) \in Nat /\ dayOf(First(s)) = s
    BY <1>2, SessionDays
  <2> QED
    BY <1>1, <2>1, DaysAreOrdered
<1>4. CASE Level(t) <= t
  <2>1. dayOf(Level(t)) <= dayOf(t)
    BY <1>1, <1>4, DaysAreOrdered
  <2> QED
    BY <1>1, <1>2, <1>3, <2>1
<1>5. CASE Level(t) = Close(0)
  BY <1>2, <1>3, <1>5, SessionDays
<1> QED
  BY <1>1, <1>4, <1>5

\* The page describes the last session whose page has turned.
LEMMA DescribedSession ==
    ASSUME NEW t \in Nat, NEW s \in Sessions, s * DayLength + PageTurnsAt <= t,
           \A e \in Sessions : e * DayLength + PageTurnsAt <= t => e <= s
    PROVE  described(t) = s
<1> DEFINE D == {d \in Sessions : d * DayLength + PageTurnsAt <= t}
<1>1. s \in Nat /\ s \in D /\ D # {} /\ Sessions \subseteq Nat
  BY SessionDays
<1>2. D \in SUBSET Nat /\ \A d \in D : d <= s
  BY <1>1
<1>3. Latest(D) \in D /\ \A r \in D : r <= Latest(D)
  <2> HIDE DEF D
  <2> QED
    BY <1>1, <1>2, LatestOf
<1>4. Latest(D) \in Nat /\ Latest(D) <= s /\ s <= Latest(D)
  BY <1>1, <1>2, <1>3
<1>5. Latest(D) = s
  BY <1>1, <1>4
<1> QED
  BY <1>5 DEF described

---------------------------------------------------------------------------
(***************************************************************************)
(* The repair of the previous close, and the settled close.                *)
(***************************************************************************)

\* A pass reads figures no older than a source may be; what is to be written is fresh or
\* of after the close; what is to repair with is of the day's page.
PassReads ==
    /\ pass.pc \in {"row", "write"} => \E lag \in Lags : pass.asOf - lag <= pass.of
    /\ pass.pc = "write" => readingIsWritable(pass, pass.asOf)
    /\ pass.pc = "repair" => dayOf(pass.asOf) * DayLength + PageTurnsAt <= pass.of

\* A pass that started at this tick is of this tick.
PassIsTimely == pass # Asleep /\ "board" \in fired => pass.asOf = now

\* The marks of the clock are numbers, in the order of the day.
LEMMA PageNumbers ==
    /\ Sessions = Weekdays \ Listed /\ PageTurnsAt \in Nat /\ 0 < PageTurnsAt
    /\ MaxAge \in Nat /\ PageTurnsAt + MaxAge <= OpenAt /\ PageTurnsAt < TradeFrom + 1
    /\ OpenAt \in Nat /\ TradeFrom \in Nat /\ CloseAt \in Nat /\ SettledAt \in Nat /\ SettleBy \in Nat
    /\ OpenAt <= TradeFrom /\ TradeFrom <= CloseAt /\ CloseAt < SettledAt /\ SettledAt <= SettleBy
    /\ SettleBy < DayLength /\ DayLength \in Nat
    /\ \A lag \in Lags : lag \in Nat /\ PageTurnsAt + lag <= CloseAt /\ SettledAt + lag <= SettleBy
BY MarketAssumption, BoardAssumption, PageAssumption

\* A writable reading of a pass in market hours or after the close is of the day's page.
LEMMA WritableIsOfThePage ==
    ASSUME NEW p \in [pc : {"write"}, asOf : Present, of : Readable, stamped : BOOLEAN,
                      state : States, open : Moments],
           readingIsWritable(p, p.asOf), \E lag \in Lags : p.asOf - lag <= p.of,
           isMarketOpen(p.asOf, OpenAt, CloseAt) \/ isClosingPassDue(p.asOf)
    PROVE  dayOf(p.asOf) * DayLength + PageTurnsAt <= p.of
<1>1. /\ p.asOf \in Nat /\ p.of \in Nat
      /\ p.asOf = dayOf(p.asOf) * DayLength + tickOf(p.asOf)
      /\ tickOf(p.asOf) \in Nat /\ dayOf(p.asOf) * DayLength \in Nat
  <2>1. p.asOf \in Nat /\ p.of \in Nat
    BY DEF Present, Readable
  <2> QED
    BY <2>1, DayAndTick, DayLengths
<1>2. CASE isMarketOpen(p.asOf, OpenAt, CloseAt)
  <2>1. p.asOf - p.of <= MaxAge /\ OpenAt <= tickOf(p.asOf)
    BY <1>1, <1>2, PageNumbers DEF readingIsWritable, isMarketOpen
  <2> QED
    BY <1>1, <2>1, PageNumbers
<1>3. CASE ~isMarketOpen(p.asOf, OpenAt, CloseAt)
  <2>1. CloseAt < tickOf(p.asOf)
    BY <1>1, <1>3, PageNumbers DEF isClosingPassDue
  <2>2. PICK lag \in Lags : p.asOf - lag <= p.of
    OBVIOUS
  <2> QED
    BY <1>1, <2>1, <2>2, PageNumbers
<1> QED
  BY <1>2, <1>3

\* What the page of a session implies is the close of the session before.
LEMMA ImpliedIsTheClose ==
    ASSUME NEW asOf \in Present, NEW of \in Nat, of <= asOf + 1, dayOf(asOf) \in Sessions,
           dayOf(asOf) * DayLength + PageTurnsAt <= of
    PROVE  ChangeIsFrom(of) = Close(SessionBefore(dayOf(asOf)))
<1> DEFINE d == dayOf(asOf)
<1>1. /\ asOf \in Nat /\ d \in Nat /\ d # 0 /\ tickOf(asOf) \in 0..(DayLength - 1)
      /\ asOf = d * DayLength + tickOf(asOf) /\ d * DayLength \in Nat
  <2>1. asOf \in Nat /\ d \in Days \ {0}
    BY PresentFacts DEF Present
  <2> QED
    BY <2>1, DayAndTick, DayLengths
<1> HIDE DEF d
<1>2. ASSUME NEW e \in Sessions, e * DayLength + PageTurnsAt <= of PROVE e <= d
  <2>1. e \in Nat /\ e * DayLength \in Nat
    BY SessionDays, DayLengths
  <2>2. d < e => d * DayLength + DayLength <= e * DayLength
    BY <1>1, <2>1, DayLengths
  <2> QED
    BY <1>1, <1>2, <2>1, <2>2, PageNumbers
<1>3. described(of) = d
  BY <1>2, DescribedSession DEF d
<1> QED
  BY <1>1, <1>3 DEF ChangeIsFrom, d

\* The strengthening behind the repair.
RepairInv == BoardInv /\ PassReads

\* The board starts with no pass.
LEMMA RepairStarts == InitBoard => RepairInv
<1> SUFFICES ASSUME InitBoard PROVE RepairInv
  OBVIOUS
<1> QED
  BY InitBoardInv DEF InitBoard, RepairInv, PassReads, Asleep

\* Every step keeps what a repair needs.
LEMMA RepairInvStep == RepairInv /\ [NextBoard]_boardVars => RepairInv'
<1> SUFFICES ASSUME RepairInv, [NextBoard]_boardVars PROVE RepairInv'
  OBVIOUS
<1> USE DEF RepairInv
<1>0. BoardInv'
  BY StepBoardInv
<1>1. CASE runIndexBoardPass
  BY <1>0, <1>1 DEF runIndexBoardPass, StartScrape, PassReads, Asleep
<1>2. CASE FetchBoard
  <2>1. PICK r \in Readings, state \in States :
         pass' = [pc |-> "row", asOf |-> pass.asOf, of |-> r.of, stamped |-> r.stamped,
                  state |-> state]
    BY <1>2 DEF FetchBoard
  <2>2. PICK lag \in Lags : r.of = now - lag
    BY DEF Readings, Fresh
  <2>3. pass.asOf \in Nat /\ pass.asOf <= now /\ now \in Nat /\ lag \in Nat
    BY <1>2, PageNumbers DEF FetchBoard, BoardInv, BoardPasses, Asleep, PassIsYoung, Present
  <2>4. pass.asOf - lag <= r.of
    BY <2>2, <2>3
  <2>5. PassReads'
    BY <2>1, <2>4 DEF PassReads
  <2> QED
    BY <1>0, <1>2, <2>5 DEF FetchBoard
<1>3. CASE ReadDayRow
  <2>1. pass.pc = "row" /\ \E lag \in Lags : pass.asOf - lag <= pass.of
    BY <1>3 DEF ReadDayRow, PassReads
  <2>2. \/ pass' = Asleep
        \/ /\ readingIsWritable(pass, pass.asOf)
           /\ \E open : pass' = [pc |-> "write", asOf |-> pass.asOf, of |-> pass.of,
                                 stamped |-> pass.stamped, state |-> pass.state, open |-> open]
    BY <1>3 DEF ReadDayRow
  <2>3. PassReads'
    BY <2>1, <2>2 DEF PassReads, Asleep, readingIsWritable
  <2> QED
    BY <1>0, <1>3, <2>3 DEF ReadDayRow
<1>4. CASE WriteDayRow
  <2>1. pass \in [pc : {"write"}, asOf : Present, of : Readable, stamped : BOOLEAN,
                  state : States, open : Moments]
    BY <1>4 DEF WriteDayRow, BoardInv, BoardPasses, Asleep
  <2>2. PassReads'
    <3>1. CASE isMarketOpen(pass.asOf, OpenAt, CloseAt) \/ isClosingPassDue(pass.asOf)
      <4>1. pass' = [pc |-> "repair", asOf |-> pass.asOf, of |-> pass.of]
        BY <1>4, <3>1 DEF WriteDayRow
      <4>2. dayOf(pass.asOf) * DayLength + PageTurnsAt <= pass.of
        BY <2>1, <3>1, WritableIsOfThePage DEF PassReads
      <4> QED
        BY <4>1, <4>2 DEF PassReads
    <3>2. CASE ~(isMarketOpen(pass.asOf, OpenAt, CloseAt) \/ isClosingPassDue(pass.asOf))
      BY <1>4, <3>2 DEF WriteDayRow, PassReads, Asleep
    <3> QED
      BY <3>1, <3>2
  <2> QED
    BY <1>0, <1>4, <2>2 DEF WriteDayRow
<1>5. CASE RepairPrevious
  BY <1>0, <1>5 DEF RepairPrevious, PassReads, Asleep
<1>6. CASE PassFails
  BY <1>0, <1>6 DEF PassFails, PassReads, Asleep
<1>7. CASE \/ StartCandles \/ FetchCandle \/ setSessionOpen \/ runIndexSync \/ backfillIndex
           \/ BoardClock \/ UNCHANGED boardVars
  <2>1. UNCHANGED pass
    BY <1>7 DEF StartCandles, FetchCandle, setSessionOpen, runIndexSync, backfillIndex,
                BoardClock, boardVars
  <2>2. PassReads'
    BY <2>1 DEF PassReads
  <2> QED
    BY <1>0, <2>1, <2>2
<1> QED
  BY <1>1, <1>2, <1>3, <1>4, <1>5, <1>6, <1>7 DEF NextBoard

\* What a repair needs holds throughout.
LEMMA RepairInvHolds == BoardSpec => []RepairInv
BY RepairStarts, RepairInvStep, PTL DEF BoardSpec

---------------------------------------------------------------------------
\* The row of a session holds its settled close, read after the close.
Settled(d) == rows[d].value = Close(d) /\ isPostCloseReading(rows[d].at, d)

\* The last pass of the settle window is on its way to write it.
Settling(d) ==
    /\ pass.pc \in {"fetch", "row", "write"} /\ pass.asOf = d * DayLength + SettleBy
    /\ pass.pc # "fetch" => pass.state = "trading"

\* Once that pass has started the row is settled, or the pass is not done yet.
WindowSettles(d) ==
    LET end == d * DayLength + SettleBy
    IN now > end \/ (now = end /\ "board" \in fired)
          => Settled(d) \/ (now <= end + 1 /\ Settling(d))

\* The strengthening behind the settled close.
SettleInv == RepairInv /\ PassIsTimely /\ (faults = 0 => \A d \in Sessions \ {0} : WindowSettles(d))

\* A reading of a pass at the end of the window or later is the session's close.
LEMMA LateReadIsTheClose ==
    ASSUME NEW d \in Sessions \ {0}, NEW asOf \in Nat, dayOf(asOf) = d,
           d * DayLength + SettleBy <= asOf, NEW of \in Nat, of <= TheEnd, of <= asOf + 1,
           \E lag \in Lags : asOf - lag <= of
    PROVE  /\ Level(of) = Close(d) /\ of # 0 /\ asOf # 0
           /\ isPostCloseReading(of, d) /\ isPostCloseReading(asOf, d)
<1>1. /\ d \in Nat /\ d \in Days /\ 0 < d /\ d * DayLength \in Nat
      /\ asOf = d * DayLength + tickOf(asOf) /\ tickOf(asOf) \in 0..(DayLength - 1)
  <2>1. d \in Nat /\ d \in Days /\ 0 < d
    BY SessionDays
  <2> QED
    BY <2>1, DayAndTick, DayLengths
<1>2. PICK lag \in Lags : asOf - lag <= of
  OBVIOUS
<1>3. d * DayLength + SettledAt <= of
  BY <1>1, <1>2, PageNumbers
<1>4. isPostCloseReading(of, d) /\ isPostCloseReading(asOf, d) /\ of # 0 /\ asOf # 0
  BY <1>1, <1>3, PageNumbers DEF isPostCloseReading
<1> DEFINE level == Level(of)
           e == dayOf(level)
<1>5. /\ level \in Nat /\ e \in Sessions /\ tickOf(level) \in TradeFrom..SettledAt
      /\ Close(d) <= level /\ (level <= of \/ level = Close(0))
  BY <1>3, LevelIsTraded DEF Moments, Close
<1>6. e \in Nat /\ level = e * DayLength + tickOf(level) /\ e * DayLength \in Nat
      /\ tickOf(level) \in Nat
  BY <1>5, DayAndTick, DayLengths
<1> HIDE DEF level, e
<1>7. level <= of
  <2>1. Close(0) = SettledAt
    BY PageNumbers DEF Close
  <2>2. 1 * DayLength <= d * DayLength /\ 1 * DayLength = DayLength
    BY <1>1, DayLengths, PageNumbers
  <2>3. level # Close(0)
    BY <1>1, <1>5, <2>1, <2>2, PageNumbers DEF Close
  <2> QED
    BY <1>5, <2>3
<1>8. e = d
  <2>1. d < e => d * DayLength + DayLength <= e * DayLength
    BY <1>1, <1>6, DayLengths
  <2>2. e < d => e * DayLength + DayLength <= d * DayLength
    BY <1>1, <1>6, DayLengths
  <2>3. ~(d < e)
    BY <1>1, <1>5, <1>6, <1>7, <2>1, PageNumbers
  <2>4. ~(e < d)
    BY <1>1, <1>5, <1>6, <2>2, PageNumbers DEF Close
  <2> QED
    BY <1>1, <1>6, <2>3, <2>4
<1>9. level = Close(d)
  BY <1>1, <1>5, <1>6, <1>8, PageNumbers DEF Close
<1> QED
  BY <1>4, <1>9 DEF level

\* A write of a past session's level is of its close.
LEMMA PastLevelStep ==
    ASSUME RepairInv, [NextBoard]_boardVars, NEW d \in Days, d < dayOf(now),
           rows'[d].value # rows[d].value, ~MayMistake(d)
    PROVE  rows'[d].value = Close(d)
<1> USE DEF RepairInv
<1>0. /\ rows \in [Days -> Levels] /\ d \in Nat /\ now \in Nat /\ dayOf(now) \in Nat
      /\ now = dayOf(now) * DayLength + tickOf(now) /\ tickOf(now) \in Nat
      /\ d * DayLength \in Nat /\ dayOf(now) * DayLength \in Nat
      /\ d * DayLength + DayLength <= dayOf(now) * DayLength
  <2>1. now \in Nat /\ now \in Present /\ d \in Nat
    BY SessionDays DEF BoardInv, Present
  <2>2. dayOf(now) \in Nat /\ tickOf(now) \in Nat /\ now = dayOf(now) * DayLength + tickOf(now)
    BY <2>1, DayAndTick
  <2> QED
    BY <2>1, <2>2, DayLengths DEF BoardInv
<1>1. CASE WriteDayRow
  <2> DEFINE e == dayOf(pass.asOf)
             at == IF pass.stamped THEN pass.of ELSE pass.asOf
             new == upsertValues(rows[e], Level(pass.of), at, pass.open)
  <2>1. rows' = rows \/ (pass.state = "trading" /\ rows' = [rows EXCEPT ![e] = new])
    BY <1>1 DEF WriteDayRow, writeSessionRow
  <2>2. pass.state = "trading" /\ rows' = [rows EXCEPT ![e] = new] /\ e = d
    BY <1>0, <2>1
  <2>3. /\ pass.asOf \in Nat /\ pass.of \in Nat /\ pass.of <= TheEnd /\ pass.asOf \in Present
        /\ now <= pass.asOf + 1 /\ pass.of <= pass.asOf + 1
        /\ \E lag \in Lags : pass.asOf - lag <= pass.of
        /\ e \in Weekdays \ Listed
    BY <1>1, <2>2
       DEF WriteDayRow, BoardInv, BoardPasses, Asleep, Present, Readable, PassIsYoung, PassIsSound,
           PassReads
  <2>4. d \in Sessions \ {0}
    BY <2>2, <2>3, PresentFacts, PageNumbers
  <2>5. d * DayLength + SettleBy <= pass.asOf
    BY <1>0, <2>3, PageNumbers
  <2>6. Level(pass.of) = Close(d)
    BY <2>2, <2>3, <2>4, <2>5, LateReadIsTheClose
  <2> HIDE DEF at, e
  <2>7. rows'[d].value = Level(pass.of)
    BY <1>0, <2>2 DEF upsertValues
  <2> QED
    BY <2>6, <2>7
<1>2. CASE RepairPrevious
  <2> DEFINE on == dayOf(pass.asOf)
             e == Latest(rowsBefore(on))
  <2>1. pass \in [pc : {"repair"}, asOf : Present, of : Readable]
    BY <1>2 DEF RepairPrevious, BoardInv, BoardPasses, Asleep
  <2>2. PICK implied \in {0, ChangeIsFrom(pass.of)} :
          IF rowsBefore(on) # {} /\ repairedValueFor(rows[e], e, implied)
          THEN rows' = [rows EXCEPT ![e].value = implied] ELSE UNCHANGED rows
    BY <1>2 DEF RepairPrevious
  <2> HIDE DEF e, on
  <2>3. e = d /\ repairedValueFor(rows[d], d, implied) /\ rows'[d].value = implied
    BY <1>0, <2>2 DEF Levels
  <2>4. implied = ChangeIsFrom(pass.of) /\ ~isPostCloseReading(rows[d].at, d)
    BY <2>2, <2>3 DEF repairedValueFor
  <2>5. on \in Sessions /\ d = SessionBefore(on)
    BY <2>1, <2>4 DEF MayMistake, on
  <2>6. pass.of \in Nat /\ pass.of <= pass.asOf + 1 /\ on * DayLength + PageTurnsAt <= pass.of
    BY <2>1 DEF BoardInv, PassIsYoung, Readable, Asleep, PassReads, on
  <2>7. implied = Close(SessionBefore(on))
    BY <2>1, <2>4, <2>5, <2>6, ImpliedIsTheClose DEF on
  <2> QED
    BY <2>3, <2>5, <2>7
<1>3. CASE setSessionOpen
  <2>1. \E e, v : rows' = rows \/ rows' = [rows EXCEPT ![e].open = v]
    BY <1>3 DEF setSessionOpen
  <2> QED
    BY <1>0, <2>1 DEF Levels
<1>4. CASE runIndexSync
  <2>1. rows'[d] = rows[d] \/ rows'[d] = upsertValues(rows[d], Close(d), 0, First(d))
    BY <1>0, <1>4 DEF runIndexSync
  <2> QED
    BY <2>1 DEF upsertValues
<1>5. CASE backfillIndex
  <2>1. rows'[d] = rows[d] \/ rows'[d] = [NoRow EXCEPT !.value = Close(d)]
    BY <1>5 DEF backfillIndex
  <2> QED
    BY <2>1 DEF NoRow
<1>6. CASE UNCHANGED rows
  BY <1>6
<1> QED
  BY <1>1, <1>2, <1>3, <1>4, <1>5, <1>6
     DEF NextBoard, runIndexBoardPass, FetchBoard, ReadDayRow, PassFails, StartCandles,
         FetchCandle, BoardClock, boardVars

\* Whatever the calendar, the lags and the order of the writers: a past session's level
\* changes to its close and to nothing else, on a listed holiday too, but for the row
\* that no reading after its close has settled and a repair may mistake.
THEOREM PastLevels == BoardSpec => PastLevelsSettle
<1>1. RepairInv /\ [NextBoard]_boardVars
      => [\A d \in Days :
             d < dayOf(now) /\ rows'[d].value # rows[d].value /\ ~MayMistake(d)
             => rows'[d].value = Close(d)]_boardVars
  BY PastLevelStep
<1> QED
  BY <1>1, RepairInvHolds, PTL DEF BoardSpec, PastLevelsSettle

\* The board starts before every session but the first.
LEMMA SettleStarts == InitBoard => SettleInv
<1> SUFFICES ASSUME InitBoard PROVE SettleInv
  OBVIOUS
<1>1. PassIsTimely
  BY DEF InitBoard, PassIsTimely
<1>2. ASSUME NEW d \in Sessions \ {0} PROVE WindowSettles(d)
  <2>1. d \in Nat /\ 0 < d
    BY SessionDays
  <2>2. 1 * DayLength <= d * DayLength /\ 1 * DayLength = DayLength /\ d * DayLength \in Nat
    BY <2>1, DayLengths, PageNumbers
  <2> QED
    BY <2>2, PageNumbers DEF InitBoard, WindowSettles
<1> QED
  BY <1>1, <1>2, RepairStarts DEF SettleInv

\* A pass is of the tick it runs in, until the clock moves.
LEMMA TimelyStep ==
    ASSUME BoardInv, PassIsTimely, [NextBoard]_boardVars PROVE PassIsTimely'
<1>1. CASE runIndexBoardPass
  BY <1>1 DEF runIndexBoardPass, StartScrape, PassIsTimely, Asleep
<1>2. CASE FetchBoard \/ ReadDayRow \/ WriteDayRow
  <2>1. pass # Asleep /\ (pass' = Asleep \/ pass'.asOf = pass.asOf)
        /\ UNCHANGED <<now, fired>>
    BY <1>2 DEF FetchBoard, ReadDayRow, WriteDayRow, Asleep
  <2> QED
    BY <2>1 DEF PassIsTimely
<1>3. CASE RepairPrevious \/ PassFails
  BY <1>3 DEF RepairPrevious, PassFails, PassIsTimely
<1>4. CASE \/ StartCandles \/ FetchCandle \/ setSessionOpen \/ runIndexSync \/ backfillIndex
           \/ UNCHANGED boardVars
  <2>1. UNCHANGED <<pass, now>> /\ ("board" \in fired' => "board" \in fired)
    BY <1>4 DEF StartCandles, FetchCandle, setSessionOpen, runIndexSync, backfillIndex, boardVars
  <2> QED
    BY <2>1 DEF PassIsTimely
<1>5. CASE BoardClock
  BY <1>5 DEF BoardClock, PassIsTimely
<1> QED
  BY <1>1, <1>2, <1>3, <1>4, <1>5 DEF NextBoard

\* A window that is over is over for good.
LEMMA EndOfWindow ==
    ASSUME NEW d \in Sessions \ {0}
    PROVE  LET end == d * DayLength + SettleBy
           IN /\ d \in Nat /\ d \in Days /\ d \in Weekdays /\ d \notin Listed
              /\ end \in Nat /\ dayOf(end) = d /\ tickOf(end) = SettleBy
<1>1. d \in Nat /\ d \in Days /\ d \in Weekdays /\ d \notin Listed
  BY SessionDays, PageNumbers
<1> QED
  BY <1>1, MomentIsOfItsDay, DayLengths, PageNumbers

\* A settled row is no longer touched: later writers find the close or write it again.
LEMMA SettledStays ==
    ASSUME SettleInv, [NextBoard]_boardVars, NEW d \in Sessions \ {0}, Settled(d),
           LET end == d * DayLength + SettleBy IN now > end \/ (now = end /\ "board" \in fired)
    PROVE  Settled(d)'
<1> USE DEF SettleInv, RepairInv
<1>0. rows \in [Days -> Levels] /\ d \in Days /\ d \in Nat
  BY SessionDays DEF BoardInv
<1>1. CASE UNCHANGED rows
  BY <1>1 DEF Settled, isPostCloseReading
<1>2. CASE WriteDayRow
  <2> DEFINE e == dayOf(pass.asOf)
             at == IF pass.stamped THEN pass.of ELSE pass.asOf
             new == upsertValues(rows[e], Level(pass.of), at, pass.open)
  <2>1. rows' = rows \/ rows' = [rows EXCEPT ![e] = new]
    BY <1>2 DEF WriteDayRow
  <2>2. CASE e # d \/ rows' = rows
    <3>1. rows'[d] = rows[d]
      BY <1>0, <2>1, <2>2
    <3> QED
      BY <3>1 DEF Settled, isPostCloseReading
  <2>3. CASE e = d /\ rows' = [rows EXCEPT ![e] = new]
    <3>1. /\ pass.asOf \in Nat /\ pass.of \in Nat /\ pass.of <= TheEnd
          /\ pass.asOf <= now /\ now <= pass.asOf + 1 /\ pass.of <= pass.asOf + 1 /\ now \in Nat
          /\ pass # Asleep
      BY <1>2 DEF WriteDayRow, BoardInv, BoardPasses, Asleep, Present, Readable, PassIsYoung
    <3>2. \E lag \in Lags : pass.asOf - lag <= pass.of
      BY <1>2 DEF WriteDayRow, PassReads
    <3>3. d * DayLength + SettleBy <= pass.asOf
      BY <3>1, EndOfWindow DEF PassIsTimely
    <3>4. Level(pass.of) = Close(d) /\ at # 0 /\ isPostCloseReading(at, d)
      BY <2>3, <3>1, <3>2, <3>3, LateReadIsTheClose
    <3> HIDE DEF at
    <3>5. rows'[d].value = Close(d) /\ rows'[d].at = at
      BY <1>0, <2>3, <3>4 DEF upsertValues
    <3> QED
      BY <3>4, <3>5 DEF Settled, isPostCloseReading
  <2> QED
    BY <2>1, <2>2, <2>3
<1>3. CASE RepairPrevious
  <2> DEFINE e == Latest(rowsBefore(dayOf(pass.asOf)))
  <2>1. rows' = rows \/ (~isPostCloseReading(rows[e].at, e)
                         /\ \E v : rows' = [rows EXCEPT ![e].value = v])
    BY <1>3 DEF RepairPrevious, repairedValueFor
  <2>2. rows'[d] = rows[d]
    <3>1. CASE e = d
      BY <2>1, <3>1 DEF Settled
    <3>2. CASE e # d
      BY <1>0, <2>1, <3>2
    <3> QED
      BY <3>1, <3>2
  <2> QED
    BY <2>2 DEF Settled, isPostCloseReading
<1>4. CASE setSessionOpen
  <2>1. \E e, v : rows' = rows \/ rows' = [rows EXCEPT ![e].open = v]
    BY <1>4 DEF setSessionOpen
  <2>2. rows'[d].value = rows[d].value /\ rows'[d].at = rows[d].at
    BY <1>0, <2>1 DEF Levels
  <2> QED
    BY <2>2 DEF Settled, isPostCloseReading
<1>5. CASE runIndexSync
  <2>1. rows'[d] = rows[d] \/ rows'[d] = upsertValues(rows[d], Close(d), 0, First(d))
    BY <1>0, <1>5 DEF runIndexSync
  <2>2. rows'[d].value = Close(d) /\ rows'[d].at = rows[d].at
    BY <2>1 DEF upsertValues, Settled
  <2> QED
    BY <2>2 DEF Settled, isPostCloseReading
<1>6. CASE backfillIndex
  <2>1. HasRow(d)
    <3>1. rows[d].at > d * DayLength + CloseAt /\ d * DayLength \in Nat
      BY <1>0, DayLengths DEF Settled, isPostCloseReading
    <3>2. rows[d].at # 0
      BY <3>1, PageNumbers
    <3> QED
      BY <3>2 DEF HasRow, NoRow
  <2>2. rows'[d] = rows[d]
    BY <1>0, <1>6, <2>1 DEF backfillIndex
  <2> QED
    BY <2>2 DEF Settled, isPostCloseReading
<1> QED
  BY <1>1, <1>2, <1>3, <1>4, <1>5, <1>6
     DEF NextBoard, runIndexBoardPass, FetchBoard, ReadDayRow, PassFails, StartCandles,
         FetchCandle, BoardClock, boardVars

\* The pass of the end of the window gets its row written, or is still at it.
LEMMA SettlingGoesOn ==
    ASSUME SettleInv, [NextBoard]_boardVars, faults' = 0, NEW d \in Sessions \ {0}, Settling(d),
           ~BoardClock
    PROVE  Settled(d)' \/ Settling(d)'
<1> USE DEF SettleInv, RepairInv
<1> DEFINE end == d * DayLength + SettleBy
<1>0. /\ rows \in [Days -> Levels] /\ d \in Days /\ d \in Nat /\ d \in Weekdays /\ d \notin Listed
      /\ end \in Nat /\ dayOf(end) = d /\ tickOf(end) = SettleBy /\ pass.asOf = end
      /\ pass # Asleep
  BY EndOfWindow DEF BoardInv, Settling, Asleep
<1>1. CASE FetchBoard
  <2>1. PICK r \in Readings, state \in States :
         /\ CalendarSays(dayOf(pass.asOf), state)
         /\ pass' = [pc |-> "row", asOf |-> pass.asOf, of |-> r.of, stamped |-> r.stamped,
                     state |-> state]
    BY <1>1 DEF FetchBoard
  <2>2. state = "trading"
    <3>1. faults \in Nat
      BY DEF BoardInv
    <3> QED
      BY <1>0, <2>1, <3>1 DEF CalendarSays, Fault
  <2> QED
    BY <1>0, <2>1, <2>2 DEF Settling
<1>2. CASE ReadDayRow
  <2>1. pass.pc = "row" /\ pass.state = "trading"
    BY <1>2 DEF ReadDayRow, Settling
  <2>2. readingIsWritable(pass, pass.asOf)
    BY <1>0, PageNumbers DEF readingIsWritable, isMarketOpen
  <2>3. \E open : pass' = [pc |-> "write", asOf |-> pass.asOf, of |-> pass.of,
                           stamped |-> pass.stamped, state |-> pass.state, open |-> open]
    BY <1>2, <2>2 DEF ReadDayRow
  <2> QED
    BY <1>0, <2>1, <2>3 DEF Settling
<1>3. CASE WriteDayRow
  <2> DEFINE at == IF pass.stamped THEN pass.of ELSE pass.asOf
             new == upsertValues(rows[d], Level(pass.of), at, pass.open)
  <2>1. pass.state = "trading"
    BY <1>3 DEF WriteDayRow, Settling
  <2>2. rows' = [rows EXCEPT ![d] = new]
    BY <1>0, <1>3, <2>1 DEF WriteDayRow, writeSessionRow
  <2>3. /\ pass.of \in Nat /\ pass.of <= TheEnd /\ pass.of <= end + 1
        /\ \E lag \in Lags : end - lag <= pass.of
    BY <1>0, <1>3 DEF WriteDayRow, BoardInv, BoardPasses, Asleep, Readable, PassIsYoung, PassReads
  <2>4. Level(pass.of) = Close(d) /\ at # 0 /\ isPostCloseReading(at, d)
    BY <1>0, <2>3, LateReadIsTheClose
  <2> HIDE DEF at
  <2>5. rows'[d].value = Close(d) /\ rows'[d].at = at
    BY <1>0, <2>2, <2>4 DEF upsertValues
  <2> QED
    BY <2>4, <2>5 DEF Settled, isPostCloseReading
<1>4. CASE UNCHANGED pass
  BY <1>4 DEF Settling
<1>5. ~(runIndexBoardPass \/ RepairPrevious \/ PassFails)
  <2>1. faults \in Nat
    BY DEF BoardInv
  <2> QED
    BY <1>0, <2>1 DEF runIndexBoardPass, RepairPrevious, PassFails, Fault, Settling
<1> QED
  BY <1>1, <1>2, <1>3, <1>4, <1>5
     DEF NextBoard, StartCandles, FetchCandle, setSessionOpen, runIndexSync, backfillIndex, boardVars

\* Every step keeps the settling of each session.
LEMMA SettleStep == SettleInv /\ [NextBoard]_boardVars => SettleInv'
<1> SUFFICES ASSUME SettleInv, [NextBoard]_boardVars PROVE SettleInv'
  OBVIOUS
<1>1. RepairInv' /\ PassIsTimely'
  BY RepairInvStep, TimelyStep DEF SettleInv, RepairInv
<1> SUFFICES ASSUME faults' = 0, NEW d \in Sessions \ {0} PROVE WindowSettles(d)'
  BY <1>1 DEF SettleInv
<1> DEFINE end == d * DayLength + SettleBy
           Over == now > end \/ (now = end /\ "board" \in fired)
<1>2. faults = 0 /\ now \in Nat
  <2>1. faults \in Nat /\ now \in Nat
    BY DEF SettleInv, RepairInv, BoardInv, Present
  <2>2. faults' = faults \/ faults' = faults + 1
    BY DEF NextBoard, runIndexBoardPass, FetchBoard, ReadDayRow, WriteDayRow, RepairPrevious,
           PassFails, StartCandles, FetchCandle, setSessionOpen, runIndexSync, backfillIndex,
           BoardClock, boardVars, CalendarSays, Fault
  <2> QED
    BY <2>1, <2>2
<1>3. Over => Settled(d) \/ (now <= end + 1 /\ Settling(d))
  BY <1>2 DEF SettleInv, WindowSettles
<1>4. end \in Nat /\ dayOf(end) = d /\ tickOf(end) = SettleBy /\ d \in Weekdays
  BY EndOfWindow
<1>5. CASE Over /\ Settled(d)
  BY <1>5, SettledStays DEF WindowSettles
<1>6. CASE Over /\ ~Settled(d) /\ ~BoardClock
  <2>1. Settled(d)' \/ Settling(d)'
    BY <1>2, <1>3, <1>6, SettlingGoesOn
  <2>2. now' = now
    BY <1>6 DEF NextBoard, runIndexBoardPass, FetchBoard, ReadDayRow, WriteDayRow, RepairPrevious,
           PassFails, StartCandles, FetchCandle, setSessionOpen, runIndexSync, backfillIndex, boardVars
  <2> QED
    BY <1>3, <1>6, <2>1, <2>2 DEF WindowSettles
<1>7. CASE Over /\ ~Settled(d) /\ BoardClock
  <2>1. pass.asOf = now /\ pass.asOf = end /\ Settling(d)
    BY <1>3, <1>7 DEF BoardClock, Settling, Asleep
  <2>2. Settling(d)' /\ now' = now + 1
    BY <1>7, <2>1 DEF BoardClock, Settling
  <2>3. now = end
    BY <2>1
  <2>4. now' <= end + 1
    BY <1>2, <2>2, <2>3
  <2> QED
    BY <2>2, <2>4 DEF WindowSettles
<1>8. CASE ~Over
  <2> SUFFICES ASSUME now' > end \/ (now' = end /\ "board" \in fired')
               PROVE  Settled(d)' \/ (now' <= end + 1 /\ Settling(d)')
    BY DEF WindowSettles
  <2>1. ~BoardClock
    BY <1>2, <1>4, <1>8 DEF BoardClock
  <2>2. now' = now /\ ("board" \in fired' => runIndexBoardPass \/ "board" \in fired)
    BY <2>1 DEF NextBoard, runIndexBoardPass, FetchBoard, ReadDayRow, WriteDayRow, RepairPrevious,
           PassFails, StartCandles, FetchCandle, setSessionOpen, runIndexSync, backfillIndex, boardVars
  <2>3. runIndexBoardPass /\ now = end
    BY <1>2, <1>4, <1>8, <2>2
  <2>4. boardIsRead(now)
    BY <1>4, <2>3, PageNumbers DEF boardIsRead, isMarketOpen
  <2>5. pass' = [pc |-> "fetch", asOf |-> now]
    BY <2>3, <2>4 DEF runIndexBoardPass, StartScrape
  <2> QED
    BY <1>4, <2>2, <2>3, <2>5 DEF Settling
<1> QED
  BY <1>5, <1>6, <1>7, <1>8

\* When nothing fails, a session whose window has ended has its settled close stored,
\* whatever the candles, the syncs and the backfill wrote meanwhile.
THEOREM SettledClosesLand == BoardSpec => []SettledCloseLands
<1>1. SettleInv => SettledCloseLands
  <2> SUFFICES ASSUME SettleInv, NEW d \in Sessions \ (Listed \cup {0}), faults = 0,
                      now > d * DayLength + SettleBy + 1
               PROVE  rows[d].value = Close(d)
    BY DEF SettledCloseLands
  <2> DEFINE end == d * DayLength + SettleBy
  <2>1. end \in Nat /\ now \in Nat /\ d \in Sessions \ {0}
    BY EndOfWindow DEF SettleInv, RepairInv, BoardInv, Present
  <2>2. now > end /\ ~(now <= end + 1)
    <3>1. end + 1 = d * DayLength + SettleBy + 1
      OBVIOUS
    <3> HIDE DEF end
    <3> QED
      BY <2>1, <3>1
  <2> QED
    BY <2>1, <2>2 DEF SettleInv, WindowSettles, Settled
<1> QED
  BY <1>1, SettleStarts, SettleStep, PTL DEF BoardSpec

---------------------------------------------------------------------------
(***************************************************************************)
(* The lists of an index's members.                                        *)
(***************************************************************************)
\* The rows a pass is about to write are of one capture, one row a symbol.
Delivers(t) == Whole!Delivery(lane[t].incoming)

\* Until the transaction, every row of the table is of a stock the pass writes
\* or one it has read as a leaver: the API removes rows and adds none.
Accounted(t) ==
    \A r \in held[t] :
        <<r.symbol, r.id>> \in Stocks(lane[t].incoming) \cup Stocks(lane[t].removed)

\* What a lane may be at.
Lane == [pc : {"idle", "lookup", "read", "replace"}, list : SUBSET Securities,
         unread : SUBSET Securities, incoming : SUBSET Row, removed : SUBSET Row]

\* What the pass over a table holds is what it may write.
LaneHolds(t) ==
    /\ lane[t].pc \in {"read", "replace"} => Delivers(t)
    /\ lane[t].pc = "replace" => Accounted(t)

\* The invariant of the lanes.
RosterInv ==
    /\ RosterTypeOK
    /\ lane \in [Tables -> Lane]
    /\ \A t \in Tables : LaneHolds(t)

---------------------------------------------------------------------------

\* It holds of a table that no pass has written yet.
LEMMA InitInv == InitRoster => RosterInv
<1> SUFFICES ASSUME InitRoster PROVE RosterInv
  OBVIOUS
<1>1. [symbol : Securities, id : {1}, captured : {0}] \subseteq Row
  BY RosterAssumption DEF Row
<1>2. RosterTypeOK
  BY <1>1, RosterAssumption DEF InitRoster, RosterTypeOK, AtRest
<1>3. AtRest \in Lane
  BY DEF AtRest, Lane, Tables
<1>4. QED
  BY <1>2, <1>3 DEF InitRoster, RosterInv, LaneHolds, AtRest

\* What the lookup makes of a list is a delivery.
LEMMA LookupDelivers ==
    ASSUME RosterTypeOK, NEW L \in SUBSET Securities
    PROVE  LET entries == {[symbol |-> s, id |-> ids[s], captured |-> begun] : s \in {r \in L : ids[r] # 0}}
           IN entries \subseteq Row /\ Whole!Delivery(entries)
<1> DEFINE listed == {r \in L : ids[r] # 0}
           entries == {[symbol |-> s, id |-> ids[s], captured |-> begun] : s \in listed}
           id == [s \in Securities |-> IF ids[s] = 0 THEN 1 ELSE ids[s]]
<1>1. listed \in SUBSET Securities
  OBVIOUS
<1>2. id \in [Securities -> 1..MaxMoves + 1]
  BY RosterAssumption DEF RosterTypeOK
<1>3. begun \in 0..MaxPasses
  BY DEF RosterTypeOK
<1>4. entries = {[symbol |-> s, id |-> id[s], captured |-> begun] : s \in listed}
  OBVIOUS
<1>5. entries \subseteq Row
  BY <1>1, <1>2, <1>3, <1>4 DEF Row
<1> HIDE DEF listed, id
<1>6. Whole!Delivery(entries)
  BY <1>1, <1>2, <1>3, <1>4 DEF Whole!Delivery
<1>7. QED
  BY <1>5, <1>6 DEF listed

\* When everything there is accounted for, the transaction leaves the incoming
\* rows and nothing else.
LEMMA ReplacedIsIncoming ==
    ASSUME NEW t \in Tables, Accounted(t)
    PROVE  replaced(held[t], lane[t].incoming, lane[t].removed) = lane[t].incoming
<1> DEFINE H == held[t]
           I == lane[t].incoming
           R == lane[t].removed
<1>1. ASSUME NEW r \in H PROVE <<r.symbol, r.id>> \in Stocks(I \cup R)
  BY <1>1 DEF Accounted, Stocks
<1>2. StocksIn(H, I \cup R) = H
  BY <1>1 DEF StocksIn
<1>3. QED
  BY <1>2 DEF replaced

\* What is read as leaving and what is incoming account for all that is there.
LEMMA ReadAccounts ==
    ASSUME NEW H, NEW I, NEW r \in H
    PROVE  <<r.symbol, r.id>> \in Stocks(I) \cup Stocks(H \ StocksIn(H, I))
BY DEF Stocks, StocksIn

---------------------------------------------------------------------------

\* A step of the pass over one table leaves the other table's pass as it was.
LEMMA OtherLane ==
    ASSUME NEW t \in Tables, NEW u \in Tables \ {t}, LaneHolds(u),
           lane'[u] = lane[u], held'[u] = held[u]
    PROVE  LaneHolds(u)'
BY DEF LaneHolds, Delivers, Accounted

\* Every step keeps it.
LEMMA StepInv ==
    ASSUME RosterInv, [NextRoster]_rosterVars
    PROVE  RosterInv'
<1> USE DEF RosterInv
<1>1. ASSUME NEW t \in Tables, Fetch(t) PROVE RosterInv'
  <2>1. PICK published \in SUBSET Securities, L \in SUBSET Securities :
           lane' = [lane EXCEPT ![t] = [AtRest EXCEPT !.pc = "lookup", !.list = L,
                                               !.unread = published \ L]]
    BY <1>1 DEF Fetch, Delivered, fetchIndexMembers, fetchIndexConstituents
  <2>2. [AtRest EXCEPT !.pc = "lookup", !.list = L, !.unread = published \ L] \in Lane
    BY DEF AtRest, Lane
  <2>3. lane' \in [Tables -> Lane] /\ lane'[t].pc = "lookup"
        /\ \A u \in Tables \ {t} : lane'[u] = lane[u]
    BY <2>1, <2>2 DEF AtRest
  <2>4. RosterTypeOK'
    BY <1>1, <2>3, RosterAssumption DEF Fetch, RosterTypeOK, Lane
  <2>5. LaneHolds(t)'
    BY <2>3 DEF LaneHolds
  <2>6. QED
    BY <1>1, <2>3, <2>4, <2>5, OtherLane DEF Fetch
<1>2. ASSUME NEW t \in Tables, Lookup(t) PROVE RosterInv'
  <2> DEFINE entries == {[symbol |-> s, id |-> ids[s], captured |-> begun] :
                          s \in {r \in lane[t].list : ids[r] # 0}}
  <2>1. entries \subseteq Row /\ Whole!Delivery(entries)
    BY LookupDelivers DEF Lane
  <2> HIDE DEF entries
  <2>2. lane' = [lane EXCEPT ![t].pc = "read", ![t].incoming = entries]
    BY <1>2 DEF Lookup, entries
  <2>3. lane' \in [Tables -> Lane] /\ lane'[t].pc = "read" /\ lane'[t].incoming = entries
        /\ \A u \in Tables \ {t} : lane'[u] = lane[u]
    BY <2>1, <2>2 DEF Lane
  <2>4. RosterTypeOK'
    BY <1>2, <2>3 DEF Lookup, RosterTypeOK, Lane
  <2>5. LaneHolds(t)'
    BY <2>1, <2>3 DEF LaneHolds, Delivers
  <2>6. QED
    BY <1>2, <2>3, <2>4, <2>5, OtherLane DEF Lookup
<1>3. ASSUME NEW t \in Tables, ReadExisting(t) PROVE RosterInv'
  <2> DEFINE H == held[t]
             I == lane[t].incoming
             R == H \ StocksIn(H, I)
  <2>1. R \subseteq Row /\ Whole!Delivery(I)
    BY <1>3 DEF ReadExisting, RosterTypeOK, Lane, LaneHolds, Delivers
  <2>2. lane' = [lane EXCEPT ![t].pc = "replace", ![t].removed = R] /\ held' = held
    BY <1>3 DEF ReadExisting
  <2>3. lane' \in [Tables -> Lane] /\ lane'[t].incoming = I /\ lane'[t].removed = R
        /\ \A u \in Tables \ {t} : lane'[u] = lane[u]
    BY <2>1, <2>2 DEF Lane
  <2>4. RosterTypeOK'
    BY <1>3, <2>3 DEF ReadExisting, RosterTypeOK, Lane
  <2>5. LaneHolds(t)'
    BY <2>1, <2>2, <2>3, ReadAccounts DEF LaneHolds, Delivers, Accounted
  <2>6. QED
    BY <2>2, <2>3, <2>4, <2>5, OtherLane
<1>4. ASSUME NEW t \in Tables, replaceForIndex(t) PROVE RosterInv'
  <2>1. lane' = [lane EXCEPT ![t] = AtRest] /\ AtRest \in Lane
    BY <1>4 DEF replaceForIndex, AtRest, Lane
  <2>2. lane' \in [Tables -> Lane] /\ lane'[t].pc = "idle"
        /\ \A u \in Tables \ {t} : lane'[u] = lane[u]
    BY <2>1 DEF AtRest
  <2>3. held' \in [Tables -> SUBSET Row] /\ \A u \in Tables \ {t} : held'[u] = held[u]
    <3>1. replaced(held[t], lane[t].incoming, lane[t].removed) \subseteq Row
      BY <1>4, ReplacedIsIncoming DEF replaceForIndex, Lane, LaneHolds
    <3>2. QED
      BY <1>4, <3>1 DEF replaceForIndex, RosterTypeOK
  <2>4. RosterTypeOK'
    BY <1>4, <2>2, <2>3 DEF replaceForIndex, RosterTypeOK, Lane
  <2>5. LaneHolds(t)'
    BY <2>2 DEF LaneHolds
  <2>6. QED
    BY <2>2, <2>3, <2>4, <2>5, OtherLane
<1>5. ASSUME NEW s \in Securities, DropStock(s) PROVE RosterInv'
  <2>1. held' = [t \in Tables |-> {r \in held[t] : r.symbol # s}] /\ lane' = lane
    BY <1>5 DEF DropStock
  <2>2. RosterTypeOK'
    BY <1>5, RosterAssumption DEF DropStock, RosterTypeOK
  <2>3. ASSUME NEW t \in Tables PROVE LaneHolds(t)'
    BY <2>1 DEF LaneHolds, Delivers, Accounted
  <2>4. QED
    BY <2>1, <2>2, <2>3
<1>6. ASSUME NEW s \in Securities, TrackStock(s) PROVE RosterInv'
  <2>1. RosterTypeOK'
    BY <1>6, RosterAssumption DEF TrackStock, RosterTypeOK
  <2>2. QED
    BY <1>6, <2>1 DEF TrackStock, LaneHolds, Delivers, Accounted
<1>7. CASE UNCHANGED rosterVars
  BY <1>7 DEF rosterVars, RosterTypeOK, LaneHolds, Delivers, Accounted
<1>8. QED
  BY <1>1, <1>2, <1>3, <1>4, <1>5, <1>6, <1>7 DEF NextRoster

\* The roster's variables keep their types: the tables hold rows of symbols, each
\* with the id of a stock and the pass that wrote it.
THEOREM RosterTypes == RosterSpec => []RosterTypeOK
<1>1. RosterInv /\ [NextRoster]_rosterVars => RosterInv'
  BY StepInv
<1>2. RosterInv => RosterTypeOK
  BY DEF RosterInv
<1>3. QED
  BY InitInv, <1>1, <1>2, PTL DEF RosterSpec

---------------------------------------------------------------------------

\* The first state is one of the abstract roster.
LEMMA InitImplements == InitRoster => Whole!WholeInit
<1> SUFFICES ASSUME InitRoster, NEW t \in Tables PROVE Whole!Delivery(held[t])
  BY DEF Whole!WholeInit
<1> DEFINE id == [s \in Securities |-> 1]
<1>1. id \in [Securities -> 1..MaxMoves + 1] /\ 0 \in 0..MaxPasses
  BY RosterAssumption
<1>2. held[t] = {[symbol |-> s, id |-> id[s], captured |-> 0] : s \in Securities}
  <2>1. held[t] = [symbol : Securities, id : {1}, captured : {0}]
    BY DEF InitRoster
  <2>2. \A s \in Securities : [symbol |-> s, id |-> id[s], captured |-> 0] \in held[t]
    BY <2>1
  <2>3. \A r \in held[t] : r = [symbol |-> r.symbol, id |-> id[r.symbol], captured |-> 0]
    BY <2>1
  <2>4. \A r \in held[t] : r.symbol \in Securities
    BY <2>1
  <2>5. QED
    BY <2>2, <2>3, <2>4
<1>3. QED
  BY <1>1, <1>2 DEF Whole!Delivery

\* The transaction is the replacement, the stock's removal the cascade, and all
\* the rest of a pass is invisible.
LEMMA StepImplements ==
    ASSUME RosterInv, [NextRoster]_rosterVars
    PROVE  [Whole!WholeNext]_held
<1>1. ASSUME NEW t \in Tables, replaceForIndex(t) PROVE [Whole!WholeNext]_held
  <2> DEFINE I == lane[t].incoming
  <2>1. Whole!Delivery(I) /\ Accounted(t)
    BY <1>1 DEF RosterInv, replaceForIndex, LaneHolds, Delivers
  <2>2. held' = held \/ held' = [held EXCEPT ![t] = I]
    BY <1>1, <2>1, ReplacedIsIncoming DEF replaceForIndex
  <2>3. CASE held' = [held EXCEPT ![t] = I]
    <3>1. held'[t] = I
      BY <2>1, <2>3 DEF RosterInv, RosterTypeOK
    <3>2. Whole!Replace(t)
      BY <2>1, <2>3, <3>1 DEF Whole!Replace
    <3>3. QED
      BY <2>1, <3>2 DEF Whole!WholeNext
  <2>4. QED
    BY <2>2, <2>3
<1>2. ASSUME NEW s \in Securities, DropStock(s) PROVE [Whole!WholeNext]_held
  BY <1>2 DEF DropStock, Whole!WholeNext, Whole!Cascade
<1>3. CASE UNCHANGED held
  BY <1>3
<1>4. QED
  BY <1>1, <1>2, <1>3 DEF NextRoster, Fetch, Lookup, ReadExisting, TrackStock, rosterVars

\* The tables implement WholeRoster, for any securities and any number of passes and
\* moved stocks: what a reader sees in one of them is what one pass was handed, less
\* the stocks removed since.  What a pass is handed may lack symbols that are
\* published: their rows go as leavers' rows do.
THEOREM RosterRefines == RosterSpec => OneCaptureAtATime
<1>1. RosterInv /\ [NextRoster]_rosterVars => RosterInv'
  BY StepInv
<1>2. RosterInv /\ [NextRoster]_rosterVars => [Whole!WholeNext]_held
  BY StepImplements
<1>3. QED
  BY InitInv, InitImplements, <1>1, <1>2, PTL DEF RosterSpec, OneCaptureAtATime, Whole!WholeSpec


---------------------------------------------------------------------------
(***************************************************************************)
(* The market calendar.                                                    *)
(***************************************************************************)

\* What is stored of a day is one of its versions, and a version was stored once; a
\* refresh stores holidays.
TableIsAVersion ==
    /\ \A d \in Dates : table[d] \in versions[d] /\ versions[d] \subseteq ever[d]
    /\ refresher.pc = "storing" => \A d \in refresher.todo : refresher.list[d] # "absent"

\* What is cached, fetched and told was stored once.
HeldWasStored ==
    /\ \A d \in Dates : cache[d] # "absent" => cache[d] \in ever[d]
    /\ \A r \in Readers : reader[r].pc = "fetched" =>
          \A d \in Dates : reader[r].rows[d] \in ever[d]
    /\ ClosedIsListed

\* A day of a loaded year that every version names is in the cache, or is brought by a
\* reader who has its rows or still waits for them.
Brought(d) ==
    \E r \in Readers :
        /\ reader[r].pc \in {"rows", "fetched"} /\ YearOf[reader[r].day] = YearOf[d]
        /\ reader[r].pc = "fetched" => reader[r].rows[d] # "absent"
NamedDaysCome ==
    \A d \in Dates :
        YearOf[d] \in loaded /\ cache[d] = "absent" /\ "absent" \notin versions[d] => Brought(d)

\* The invariant of the calendar, for any number of callers.
CalendarInv == CalendarTypeOK /\ TableIsAVersion /\ HeldWasStored /\ NamedDaysCome

---------------------------------------------------------------------------
\* A reader between two steps.
LEMMA ReaderRows ==
    ASSUME NEW q \in ReaderState
    PROVE  /\ q.pc \in {"idle", "look", "rows", "fetched"}
           /\ q = Idle <=> q.pc = "idle"
           /\ q.pc \in {"look", "rows", "fetched"} => q.day \in Dates /\ q.left \in 1..MaxBack
           /\ q.pc = "fetched" => q.rows \in [Dates -> Listing]
           /\ q.pc = "look" => [q EXCEPT !.pc = "rows"] = [pc |-> "rows", day |-> q.day, left |-> q.left]
           /\ q.pc \in {"look", "rows"} => q = [pc |-> q.pc, day |-> q.day, left |-> q.left]
BY DEF ReaderState, Idle

\* The refresh between two rows it stores.
LEMMA RefreshRows ==
    ASSUME NEW q \in RefreshState
    PROVE  /\ q.pc \in {"idle", "storing"}
           /\ q = Idle <=> q.pc = "idle"
           /\ q.pc = "storing" => q.list \in [Dates -> Listing] /\ q.todo \subseteq Dates
           /\ q.pc = "storing" => \A d : [q EXCEPT !.todo = @ \ {d}]
                                         = [pc |-> "storing", list |-> q.list, todo |-> q.todo \ {d}]
BY DEF RefreshState, Idle

\* A year counts as one answer: what the walk does after it has it.
LEMMA AfterAnswer ==
    ASSUME CalendarInv, NEW r \in Readers, reader[r] # Idle, NEW state, WalkOn(r, state)
    PROVE  /\ reader' \in [Readers -> ReaderState] /\ reader'[r].pc \in {"idle", "look"}
           /\ \A q \in Readers : q # r => reader'[q] = reader[q]
           /\ closed' \subseteq Dates
           /\ \A d \in closed' : d \in closed \/ (state = "holiday" /\ d = reader[r].day)
<1>1. reader[r] \in ReaderState /\ reader \in [Readers -> ReaderState] /\ closed \subseteq Dates
  BY DEF CalendarInv, CalendarTypeOK
<1>2. reader[r].day \in Dates /\ reader[r].left \in 1..MaxBack
  BY <1>1, ReaderRows
<1> DEFINE d == reader[r].day
           n == reader[r].left
           next == IF state \in {"trading", "unknown"} \/ n = 1 \/ d - 1 \notin Dates
                   THEN Idle ELSE [pc |-> "look", day |-> d - 1, left |-> n - 1]
<1>3. reader' = [reader EXCEPT ![r] = next]
      /\ closed' = closed \cup (IF state = "holiday" THEN {d} ELSE {})
  BY DEF WalkOn
<1>4. next \in ReaderState /\ next.pc \in {"idle", "look"}
  <2>1. CASE state \in {"trading", "unknown"} \/ n = 1 \/ d - 1 \notin Dates
    BY <2>1 DEF ReaderState, Idle
  <2>2. CASE ~(state \in {"trading", "unknown"} \/ n = 1 \/ d - 1 \notin Dates)
    <3>1. n - 1 \in 1..MaxBack
      BY <1>2, <2>2, CalendarAssumption
    <3>2. [pc |-> "look", day |-> d - 1, left |-> n - 1] \in ReaderState
      BY <2>2, <3>1 DEF ReaderState
    <3> QED
      BY <2>2, <3>2
  <2> QED
    BY <2>1, <2>2
<1> HIDE DEF next
<1> QED
  BY <1>1, <1>2, <1>3, <1>4

\* A day is a holiday only to a list that names it.
LEMMA HolidayIsMarket ==
    ASSUME NEW d, NEW v
    PROVE  /\ classifyTradingDay(d, v) = "holiday" => v = "market"
           /\ unreadable(d) # "holiday"
BY DEF classifyTradingDay, unreadable

\* A reader that was not waiting for rows, or had none of the day, brought nothing: a
\* step that moves it alone leaves the day brought.
LEMMA StillBrought ==
    ASSUME NEW r \in Readers, NEW d \in Dates, Brought(d),
           \A q \in Readers : q # r => reader'[q] = reader[q],
           \/ reader[r].pc \notin {"rows", "fetched"}
           \/ YearOf[reader[r].day] # YearOf[d]
           \/ reader[r].pc = "fetched" /\ reader[r].rows[d] = "absent"
    PROVE  Brought(d)'
BY DEF Brought

\* The empty calendar satisfies the invariant.
LEMMA CalendarStarts == InitCalendar => CalendarInv
<1> SUFFICES ASSUME InitCalendar PROVE CalendarInv
  OBVIOUS
<1>1. CalendarTypeOK
  BY CalendarAssumption DEF InitCalendar, CalendarTypeOK, Listing, ReaderState, RefreshState, Idle
<1> QED
  BY <1>1 DEF InitCalendar, CalendarInv, TableIsAVersion, HeldWasStored, ClosedIsListed,
              NamedDaysCome, Idle

\* What a refresh stores next is an entry it has not stored yet.
LEMMA NextEntry ==
    ASSUME CalendarInv, StoreHoliday
    PROVE  \E d \in Dates : \E v \in Listing \ {"absent"} :
              /\ refresher.pc = "storing" /\ refresher.list[d] = v
              /\ table' = [table EXCEPT ![d] = v]
              /\ refresher' = [refresher EXCEPT !.todo = @ \ {d}]
              /\ versions' = [versions EXCEPT ![d] = @ \cup {v}]
              /\ ever' = [ever EXCEPT ![d] = @ \cup {v}]
              /\ UNCHANGED <<cache, loaded, waitUntil, reader, failures, closed>>
<1>1. /\ refresher \in RefreshState /\ refresher.pc = "storing" /\ refresher.todo # {}
  BY DEF CalendarInv, CalendarTypeOK, StoreHoliday
<1>2. refresher.list \in [Dates -> Listing] /\ refresher.todo \subseteq Dates
      /\ \A e \in refresher.todo : refresher.list[e] # "absent"
  BY <1>1, RefreshRows DEF CalendarInv, TableIsAVersion
<1> DEFINE d == CHOOSE e \in refresher.todo : \A f \in refresher.todo : e <= f
<1>3. d \in refresher.todo
  <2>1. refresher.todo \in SUBSET Nat
    BY <1>2, CalendarAssumption
  <2> QED
    BY <1>1, <2>1, SmallestNat
<1>4. d \in Dates /\ refresher.list[d] \in Listing \ {"absent"}
  BY <1>2, <1>3
<1>5. /\ table' = [table EXCEPT ![d] = refresher.list[d]]
      /\ refresher' = [refresher EXCEPT !.todo = @ \ {d}]
      /\ versions' = [versions EXCEPT ![d] = @ \cup {refresher.list[d]}]
      /\ ever' = [ever EXCEPT ![d] = @ \cup {refresher.list[d]}]
      /\ UNCHANGED <<cache, loaded, waitUntil, reader, failures, closed>>
  BY DEF StoreHoliday
<1> HIDE DEF d
<1> QED
  BY <1>1, <1>4, <1>5

\* Every step of the calendar keeps it.
LEMMA CalendarStep ==
    ASSUME CalendarInv, [NextCalendar]_calendarVars PROVE CalendarInv'
<1> USE DEF CalendarInv
<1>0. /\ table \in [Dates -> Listing] /\ cache \in [Dates -> Listing]
      /\ loaded \subseteq Years /\ waitUntil \in 0..Retry
      /\ reader \in [Readers -> ReaderState] /\ refresher \in RefreshState
      /\ failures \in 0..MaxFailures /\ MaxFailures \in Nat /\ Retry \in Nat \ {0}
      /\ versions \in [Dates -> SUBSET Listing] /\ ever \in [Dates -> SUBSET Listing]
      /\ closed \subseteq Dates
      /\ "absent" \in Listing /\ YearOf \in [Dates -> Years]
  BY CalendarAssumption DEF CalendarTypeOK, Listing
<1>1. ASSUME NEW r \in Readers, NEW d \in Dates, NEW n \in {1, MaxBack}, StartWalk(r, d, n)
      PROVE CalendarInv'
  <2>1. [pc |-> "look", day |-> d, left |-> n] \in ReaderState
    BY CalendarAssumption DEF ReaderState
  <2>2. reader' \in [Readers -> ReaderState] /\ reader'[r].pc = "look" /\ reader[r].pc = "idle"
        /\ \A q \in Readers : q # r => reader'[q] = reader[q]
    BY <1>0, <1>1, <2>1 DEF StartWalk, Idle
  <2>3. UNCHANGED <<table, cache, loaded, waitUntil, refresher, failures, versions, ever, closed>>
    BY <1>1 DEF StartWalk, history
  <2>4. CalendarTypeOK'
    BY <1>0, <2>2, <2>3 DEF CalendarTypeOK
  <2>5. HeldWasStored' /\ TableIsAVersion'
    BY <2>2, <2>3 DEF HeldWasStored, ClosedIsListed, TableIsAVersion
  <2>6. NamedDaysCome'
    BY <2>2, <2>3, StillBrought DEF NamedDaysCome
  <2> QED
    BY <2>4, <2>5, <2>6
<1>2. ASSUME NEW r \in Readers, ReaderStep(r) PROVE CalendarInv'
  <2>r. reader[r] \in ReaderState
    BY <1>0
  <2>1. ASSUME Hit(r) \/ CoolingDown(r) PROVE CalendarInv'
    <3>1. PICK state : /\ WalkOn(r, state)
                       /\ state = "holiday" => "market" \in ever[reader[r].day]
      <4>1. reader[r].pc = "look" /\ reader[r].day \in Dates
        BY <2>1, <2>r, ReaderRows DEF Hit, CoolingDown
      <4>2. CASE Hit(r)
        BY <4>1, <4>2, HolidayIsMarket DEF Hit, HeldWasStored
      <4>3. CASE CoolingDown(r)
        BY <4>3, HolidayIsMarket DEF CoolingDown
      <4> QED
        BY <2>1, <4>2, <4>3
    <3>2. reader[r] # Idle /\ reader[r].pc = "look"
      BY <2>1 DEF Hit, CoolingDown, Idle
    <3>3. /\ reader' \in [Readers -> ReaderState] /\ reader'[r].pc \in {"idle", "look"}
          /\ \A q \in Readers : q # r => reader'[q] = reader[q]
          /\ closed' \subseteq Dates
          /\ \A d \in closed' : d \in closed \/ (state = "holiday" /\ d = reader[r].day)
      BY <3>1, <3>2, AfterAnswer
    <3>4. UNCHANGED <<table, cache, loaded, waitUntil, refresher, failures, versions, ever>>
      BY <2>1 DEF Hit, CoolingDown
    <3>5. CalendarTypeOK'
      BY <1>0, <3>3, <3>4 DEF CalendarTypeOK
    <3>6. HeldWasStored' /\ TableIsAVersion'
      BY <3>1, <3>3, <3>4 DEF HeldWasStored, ClosedIsListed, TableIsAVersion
    <3>7. NamedDaysCome'
      BY <3>2, <3>3, <3>4, StillBrought DEF NamedDaysCome
    <3> QED
      BY <3>5, <3>6, <3>7
  <2>2. ASSUME StartLoad(r) PROVE CalendarInv'
    <3> DEFINE d == reader[r].day
    <3>1. reader[r].pc = "look" /\ d \in Dates /\ YearOf[d] \in Years
      BY <1>0, <2>2, <2>r, ReaderRows DEF StartLoad
    <3>2. /\ reader' = [reader EXCEPT ![r] = [pc |-> "rows", day |-> d, left |-> reader[r].left]]
          /\ [pc |-> "rows", day |-> d, left |-> reader[r].left] \in ReaderState
      <4>1. reader' = [reader EXCEPT ![r] = [reader[r] EXCEPT !.pc = "rows"]]
        BY <2>2 DEF StartLoad
      <4>2. [reader[r] EXCEPT !.pc = "rows"] = [pc |-> "rows", day |-> d, left |-> reader[r].left]
            /\ reader[r].left \in 1..MaxBack
        BY <2>r, <3>1, ReaderRows
      <4> QED
        BY <3>1, <4>1, <4>2 DEF ReaderState
    <3>3. reader' \in [Readers -> ReaderState] /\ reader'[r].pc = "rows" /\ reader'[r].day = d
          /\ \A q \in Readers : q # r => reader'[q] = reader[q]
      BY <1>0, <3>2
    <3>4. UNCHANGED <<table, cache, waitUntil, refresher, failures, versions, ever, closed>>
          /\ loaded' = loaded \cup {YearOf[d]}
      BY <2>2 DEF StartLoad, history
    <3>5. CalendarTypeOK'
      BY <1>0, <3>1, <3>3, <3>4 DEF CalendarTypeOK
    <3>6. HeldWasStored' /\ TableIsAVersion'
      BY <3>3, <3>4 DEF HeldWasStored, ClosedIsListed, TableIsAVersion
    <3>7. ASSUME NEW e \in Dates, YearOf[e] \in loaded', cache'[e] = "absent",
                 "absent" \notin versions'[e]
          PROVE  Brought(e)'
      <4>1. CASE YearOf[e] = YearOf[d]
        BY <3>3, <4>1 DEF Brought
      <4>2. CASE YearOf[e] # YearOf[d]
        BY <3>1, <3>3, <3>4, <3>7, <4>2, StillBrought DEF NamedDaysCome
      <4> QED
        BY <4>1, <4>2
    <3>8. NamedDaysCome'
      BY <3>7 DEF NamedDaysCome
    <3> QED
      BY <3>5, <3>6, <3>8
  <2>3. ASSUME FetchYear(r) PROVE CalendarInv'
    <3> DEFINE d == reader[r].day
               standing == [pc |-> "fetched", day |-> d, left |-> reader[r].left, rows |-> table]
    <3>1. reader[r].pc = "rows" /\ d \in Dates /\ reader[r].left \in 1..MaxBack
      BY <2>3, <2>r, ReaderRows DEF FetchYear
    <3>2. standing \in ReaderState /\ reader' = [reader EXCEPT ![r] = standing]
      BY <1>0, <2>3, <3>1 DEF FetchYear, ReaderState
    <3>3. reader' \in [Readers -> ReaderState] /\ reader'[r].pc = "fetched" /\ reader'[r].day = d
          /\ reader'[r].rows = table /\ \A q \in Readers : q # r => reader'[q] = reader[q]
      BY <1>0, <3>2
    <3>4. UNCHANGED <<table, cache, loaded, waitUntil, refresher, failures, versions, ever, closed>>
      BY <2>3 DEF FetchYear, history
    <3>5. CalendarTypeOK'
      BY <1>0, <3>3, <3>4 DEF CalendarTypeOK
    <3>6. HeldWasStored' /\ TableIsAVersion'
      BY <3>3, <3>4 DEF HeldWasStored, ClosedIsListed, TableIsAVersion
    <3>7. ASSUME NEW e \in Dates, "absent" \notin versions[e], Brought(e) PROVE Brought(e)'
      <4>1. PICK q \in Readers :
               /\ reader[q].pc \in {"rows", "fetched"} /\ YearOf[reader[q].day] = YearOf[e]
               /\ reader[q].pc = "fetched" => reader[q].rows[e] # "absent"
        BY <3>7 DEF Brought
      <4>2. table[e] # "absent"
        BY <3>7 DEF TableIsAVersion
      <4>3. CASE q = r
        BY <3>3, <4>1, <4>2, <4>3 DEF Brought
      <4>4. CASE q # r
        BY <3>3, <4>1, <4>4 DEF Brought
      <4> QED
        BY <4>3, <4>4
    <3>8. NamedDaysCome'
      BY <3>4, <3>7 DEF NamedDaysCome
    <3> QED
      BY <3>5, <3>6, <3>8
  <2>4. ASSUME LoadFails(r) PROVE CalendarInv'
    <3>1. WalkOn(r, unreadable(reader[r].day)) /\ reader[r].pc = "rows"
      BY <2>4 DEF LoadFails
    <3>2. reader[r] # Idle /\ YearOf[reader[r].day] \in Years
      BY <1>0, <2>r, <3>1, ReaderRows
    <3>3. /\ reader' \in [Readers -> ReaderState] /\ reader'[r].pc \in {"idle", "look"}
          /\ \A q \in Readers : q # r => reader'[q] = reader[q]
          /\ closed' \subseteq Dates /\ closed' \subseteq closed
      BY <3>1, <3>2, AfterAnswer, HolidayIsMarket
    <3>4. UNCHANGED <<table, cache, refresher, versions, ever>> /\ waitUntil' = Retry
          /\ loaded' = loaded \ {YearOf[reader[r].day]} /\ failures < MaxFailures /\ failures' = failures + 1
      BY <2>4 DEF LoadFails, MayFail
    <3>5. CalendarTypeOK'
      BY <1>0, <3>3, <3>4 DEF CalendarTypeOK
    <3>6. HeldWasStored' /\ TableIsAVersion'
      BY <3>3, <3>4 DEF HeldWasStored, ClosedIsListed, TableIsAVersion
    <3>7. NamedDaysCome'
      BY <3>3, <3>4, StillBrought DEF NamedDaysCome
    <3> QED
      BY <3>5, <3>6, <3>7
  <2>5. ASSUME FinishLoad(r) PROVE CalendarInv'
    <3> DEFINE d == reader[r].day
               entries == reader[r].rows
               ofYear == {e \in Dates : YearOf[e] = YearOf[d] /\ entries[e] # "absent"}
    <3>1. reader[r].pc = "fetched" /\ d \in Dates /\ entries \in [Dates -> Listing]
      BY <2>5, <2>r, ReaderRows DEF FinishLoad
    <3>2. reader[r] # Idle /\ WalkOn(r, classifyTradingDay(d, cache'[d]))
          /\ cache' = [e \in Dates |-> IF e \in ofYear THEN entries[e] ELSE cache[e]]
          /\ UNCHANGED <<table, loaded, waitUntil, refresher, failures, versions, ever>>
      BY <2>5, <3>1 DEF FinishLoad, Idle
    <3>3. /\ reader' \in [Readers -> ReaderState] /\ reader'[r].pc \in {"idle", "look"}
          /\ \A q \in Readers : q # r => reader'[q] = reader[q]
          /\ closed' \subseteq Dates
          /\ \A e \in closed' : e \in closed \/ (cache'[d] = "market" /\ e = d)
      BY <3>2, AfterAnswer, HolidayIsMarket
    <3>4. cache' \in [Dates -> Listing]
      BY <1>0, <3>1, <3>2
    <3>5. CalendarTypeOK'
      BY <1>0, <3>2, <3>3, <3>4 DEF CalendarTypeOK
    <3>6. ASSUME NEW e \in Dates
          PROVE /\ cache'[e] # "absent" => cache'[e] \in ever[e]
                /\ cache'[e] = "absent" => cache[e] = "absent"
                /\ cache'[e] = "absent" /\ YearOf[e] = YearOf[d] => entries[e] = "absent"
      <4>1. entries[e] \in ever[e] /\ (cache[e] # "absent" => cache[e] \in ever[e])
        BY <3>1 DEF HeldWasStored
      <4>2. cache'[e] = IF e \in ofYear THEN entries[e] ELSE cache[e]
        BY <3>2
      <4> QED
        BY <4>1, <4>2
    <3> HIDE DEF ofYear
    <3>7. HeldWasStored' /\ TableIsAVersion'
      BY <3>1, <3>2, <3>3, <3>6 DEF HeldWasStored, ClosedIsListed, TableIsAVersion
    <3>8. NamedDaysCome'
      BY <3>1, <3>2, <3>3, <3>6, StillBrought DEF NamedDaysCome
    <3> QED
      BY <3>5, <3>7, <3>8
  <2> QED
    BY <1>2, <2>1, <2>2, <2>3, <2>4, <2>5 DEF ReaderStep
<1>3. ASSUME NEW list \in Published, StartRefresh(list) PROVE CalendarInv'
  <2> DEFINE standing == [pc |-> "storing", list |-> list, todo |-> {d \in Dates : list[d] # "absent"}]
  <2>1. list \in [Dates -> Listing] /\ standing \in RefreshState /\ refresher' = standing
    BY <1>3, CalendarAssumption DEF StartRefresh, RefreshState
  <2>2. UNCHANGED <<table, cache, loaded, waitUntil, reader, failures, versions, ever, closed>>
    BY <1>3 DEF StartRefresh, history
  <2>3. CalendarTypeOK'
    BY <1>0, <2>1, <2>2 DEF CalendarTypeOK
  <2>4. TableIsAVersion'
    BY <2>1, <2>2 DEF TableIsAVersion
  <2> QED
    BY <2>2, <2>3, <2>4 DEF HeldWasStored, ClosedIsListed, NamedDaysCome, Brought
<1>4. ASSUME StoreHoliday PROVE CalendarInv'
  <2>1. PICK d \in Dates, v \in Listing \ {"absent"} :
              /\ refresher.pc = "storing" /\ refresher.list[d] = v
              /\ table' = [table EXCEPT ![d] = v]
              /\ refresher' = [refresher EXCEPT !.todo = @ \ {d}]
              /\ versions' = [versions EXCEPT ![d] = @ \cup {v}]
              /\ ever' = [ever EXCEPT ![d] = @ \cup {v}]
              /\ UNCHANGED <<cache, loaded, waitUntil, reader, failures, closed>>
    BY <1>4, NextEntry
  <2>2. /\ table' \in [Dates -> Listing] /\ versions' \in [Dates -> SUBSET Listing]
        /\ ever' \in [Dates -> SUBSET Listing]
    BY <1>0, <2>1
  <2>3. /\ refresher' = [pc |-> "storing", list |-> refresher.list, todo |-> refresher.todo \ {d}]
        /\ refresher.list \in [Dates -> Listing] /\ refresher.todo \subseteq Dates
    BY <1>0, <2>1, RefreshRows
  <2>4. refresher' \in RefreshState
    BY <2>3 DEF RefreshState
  <2>5. CalendarTypeOK'
    BY <1>0, <2>1, <2>2, <2>4 DEF CalendarTypeOK
  <2>6. \A e \in Dates : /\ versions[e] \subseteq versions'[e] /\ ever[e] \subseteq ever'[e]
                         /\ table'[e] \in versions'[e] /\ versions'[e] \subseteq ever'[e]
    BY <1>0, <2>1 DEF TableIsAVersion
  <2>7. TableIsAVersion'
    BY <2>1, <2>3, <2>6 DEF TableIsAVersion
  <2>8. HeldWasStored'
    BY <1>0, <2>1, <2>6 DEF HeldWasStored, ClosedIsListed
  <2>9. NamedDaysCome'
    BY <2>1, <2>6 DEF NamedDaysCome, Brought
  <2> QED
    BY <2>5, <2>7, <2>8, <2>9
<1>5. ASSUME RefreshFails PROVE CalendarInv'
  <2>1. refresher' = Idle /\ failures < MaxFailures /\ failures' = failures + 1
        /\ UNCHANGED <<table, cache, loaded, waitUntil, reader, versions, ever, closed>>
    BY <1>5 DEF RefreshFails, MayFail, history
  <2>2. CalendarTypeOK'
    BY <1>0, <2>1 DEF CalendarTypeOK, RefreshState
  <2> QED
    BY <2>1, <2>2 DEF TableIsAVersion, HeldWasStored, ClosedIsListed, NamedDaysCome, Brought, Idle
<1>6. ASSUME FinishRefresh PROVE CalendarInv'
  <2>1. /\ refresher' = Idle /\ cache' = [d \in Dates |-> "absent"] /\ loaded' = {} /\ waitUntil' = 0
        /\ versions' = [d \in Dates |-> {table[d]}]
        /\ UNCHANGED <<table, reader, failures, ever, closed>>
    BY <1>6 DEF FinishRefresh, clearHolidayCache
  <2>2. CalendarTypeOK'
    BY <1>0, <2>1 DEF CalendarTypeOK, RefreshState
  <2>3. TableIsAVersion'
    BY <2>1 DEF TableIsAVersion, Idle
  <2> QED
    BY <1>0, <2>1, <2>2, <2>3 DEF HeldWasStored, ClosedIsListed, NamedDaysCome
<1>7. ASSUME Tick PROVE CalendarInv'
  <2>1. /\ waitUntil > 0 /\ waitUntil' = waitUntil - 1
        /\ UNCHANGED <<table, cache, loaded, reader, refresher, failures, versions, ever, closed>>
    BY <1>7 DEF Tick, history
  <2>2. CalendarTypeOK'
    BY <1>0, <2>1 DEF CalendarTypeOK
  <2> QED
    BY <2>1, <2>2 DEF TableIsAVersion, HeldWasStored, ClosedIsListed, NamedDaysCome, Brought
<1>8. ASSUME Restart PROVE CalendarInv'
  <2>1. /\ refresher' = Idle /\ cache' = [d \in Dates |-> "absent"] /\ loaded' = {} /\ waitUntil' = 0
        /\ reader' = [r \in Readers |-> Idle]
        /\ failures < MaxFailures /\ failures' = failures + 1
        /\ UNCHANGED <<table, versions, ever, closed>>
    BY <1>8 DEF Restart, MayFail, history
  <2>2. CalendarTypeOK'
    BY <1>0, <2>1 DEF CalendarTypeOK, RefreshState, ReaderState
  <2> QED
    BY <1>0, <2>1, <2>2 DEF TableIsAVersion, HeldWasStored, ClosedIsListed, NamedDaysCome, Idle
<1>9. CASE UNCHANGED calendarVars
  BY <1>9 DEF calendarVars, CalendarTypeOK, TableIsAVersion, HeldWasStored, ClosedIsListed,
              NamedDaysCome, Brought
<1> QED
  BY <1>1, <1>2, <1>3, <1>4, <1>5, <1>6, <1>7, <1>8, <1>9 DEF NextCalendar

\* The table, the cache, the readers and the refresh keep their types.
THEOREM CalendarTypes == CalendarSpec => []CalendarTypeOK
<1>1. CalendarInv => CalendarTypeOK
  BY DEF CalendarInv
<1> QED
  BY <1>1, CalendarStarts, CalendarStep, PTL DEF CalendarSpec

\* For any number of callers, whatever is cached, fails, is refreshed or restarts: no
\* day is told closed that no stored list closed, and the cache of a loaded year lacks
\* a day that all lists since the last complete refresh name only while some reader of
\* that year is still to bring its rows.
THEOREM CalendarErrsOneWay == CalendarSpec => []ErrsTowardsTrading
<1>1. CalendarInv => ErrsTowardsTrading
  BY DEF CalendarInv, HeldWasStored, NamedDaysCome, Brought, ErrsTowardsTrading, AbsentOnPurpose,
         BeingRead
<1> QED
  BY <1>1, CalendarStarts, CalendarStep, PTL DEF CalendarSpec

=============================================================================
