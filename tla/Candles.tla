------------------------------- MODULE Candles --------------------------------
(***************************************************************************)
(* One share's stored readings as a reader sees them: the candles of the   *)
(* chart, the sessions of the history table, the closes of the screener's  *)
(* board, and the indicator lines drawn over the candles.                  *)
(*                                                                         *)
(* A stamp is a third of a day, in UTC: the last third already belongs to  *)
(* the next day in Karachi.  Nothing (0) is a null of a row, None a null   *)
(* of a line; prices are whole numbers, lines are truncated.               *)
(*                                                                         *)
(* The board of indicators kept for all shares is below it.                *)
(***************************************************************************)
EXTENDS Integers, SequencesExt

CONSTANTS
    Stamps,         \* the instants rows are stamped with
    SharePrices,    \* what the share trades at
    IndexLevel,     \* an index level written against the share by mistake
    CandleLimit,    \* CANDLE_LIMIT
    HistoryLimit,   \* sessions on a page of the table
    Cutoffs,        \* first days of the ranges a reader picks; 0 is MAX
    Lookback,       \* days read before the range
    Windows,        \* sessions of each indicator, by its name
    MaxReadings     \* bound on rows

ASSUME CandleAssumption ==
    /\ Stamps \subseteq Nat /\ SharePrices \subseteq Nat \ {0}
    /\ \A p \in SharePrices : IndexLevel > 10 * p
    /\ \A p, q \in SharePrices : p < 10 * q
    /\ CandleLimit \in Nat \ {0} /\ HistoryLimit \in Nat \ {0} /\ Lookback \in Nat
    /\ Cutoffs \subseteq Nat /\ MaxReadings \in Nat
    /\ Windows \in [{"sma", "ema", "rsi", "fast", "slow", "signal", "bb", "atr", "relvol"} ->
                    Nat \ {0}]

VARIABLE readings      \* stock_prices of the share: the row at each stamp that has one

candleVars == <<readings>>

Nothing == 0
None == -1000000
Scale == 60

\* Rows writers leave: the live quote has no close, the historical path no range,
\* and an index level lands in all of a row or only in its high.
QuoteRow(p) == [close |-> Nothing, price |-> p, high |-> p, low |-> p]
EodRow(p) == [close |-> p, price |-> Nothing, high |-> Nothing, low |-> Nothing]
LevelRow == [close |-> IndexLevel, price |-> IndexLevel, high |-> IndexLevel, low |-> IndexLevel]
SpikedRow(p) == [close |-> p, price |-> p, high |-> IndexLevel, low |-> p]
PriceRows == UNION {{QuoteRow(p), EodRow(p)} : p \in SharePrices}
             \cup {LevelRow, SpikedRow(CHOOSE p \in SharePrices : TRUE)}

CandlesTypeOK ==
    /\ DOMAIN readings \subseteq Stamps /\ Cardinality(DOMAIN readings) <= MaxReadings
    /\ \A s \in DOMAIN readings : readings[s] \in PriceRows

InitCandles == readings = <<>>

StoreReading(s, row) ==
    /\ Cardinality(DOMAIN readings \cup {s}) <= MaxReadings
    /\ readings' = [r \in DOMAIN readings \cup {s} |-> IF r = s THEN row ELSE readings[r]]

NextCandles == \E s \in Stamps, row \in PriceRows : StoreReading(s, row)

---------------------------------------------------------------------------
(***************************************************************************)
(* Days and closes.                                                        *)
(***************************************************************************)
candleDay(s) == (s + 1) \div 3
utcDay(s) == s \div 3
startOf(day) == day * 3

\* toCandle: a live price is the close of the day it was read.
closeAt(s) == IF readings[s].close # Nothing THEN readings[s].close ELSE readings[s].price

stampsFrom(from) == {s \in DOMAIN readings : from = 0 \/ s >= startOf(from)}
ofDay(S, d) == {s \in S : candleDay(s) = d}

\* Of the readings in S, the newest value of a field that has one.
newest(S, field(_)) ==
    LET has == {s \in S : field(s) # Nothing}
    IN IF has = {} THEN Nothing ELSE field(Max(has))

---------------------------------------------------------------------------
(***************************************************************************)
(* The table and the chart.                                                *)
(***************************************************************************)
\* One row a session, each field the freshest that is not null.
sessionise(S) ==
    [d \in {candleDay(s) : s \in S} |->
        [close |-> newest(ofDay(S, d), closeAt),
         high |-> newest(ofDay(S, d), LAMBDA s : readings[s].high)]]

\* A page of the table, newest session first, and how many sessions there are.
history(from, page) ==
    LET table == sessionise(stampsFrom(from))
        days == SetToSortSeq(DOMAIN table, >)
        first == (page - 1) * HistoryLimit + 1
    IN [items |-> [i \in 1..Len(SubSeq(days, first, Min({first + HistoryLimit - 1, Len(days)}))) |->
                      [day |-> days[first + i - 1], close |-> table[days[first + i - 1]].close]],
        total |-> Len(days)]

ByClose(S) == SetToSortSeq(S, LAMBDA r, s : closeAt(r) < closeAt(s) \/ (closeAt(r) = closeAt(s) /\ r < s))

\* Deviation: of two middle closes, the higher.
upperMiddle(S) == closeAt(ByClose(S)[Cardinality(S) \div 2 + 1])

\* Of two middle closes, the lower.
median(S) == closeAt(ByClose(S)[(Cardinality(S) + 1) \div 2])

plausible(v, S) == Cardinality(S) = 1 \/ (10 * v >= median(S) /\ v <= 10 * median(S))

\* A field that cannot belong is taken as absent.
sane(v, S) == IF v # Nothing /\ plausible(v, S) THEN v ELSE Nothing

\* The candle of a day: readings that cannot belong are dropped, then the freshest
\* value of each field.
buildCandles(S) ==
    [d \in {candleDay(s) : s \in S} |->
        LET group == ofDay(S, d)
            kept == {s \in group : plausible(closeAt(s), group)}
        IN [close |-> newest(kept, closeAt),
            high |-> newest(kept, LAMBDA s : sane(readings[s].high, group)),
            low |-> newest(kept, LAMBDA s : sane(readings[s].low, group))]]

\* The limit is of rows, and takes them oldest first.
getCandles(S) == {s \in S : Cardinality({r \in S : r < s}) < CandleLimit}

candles(from) == buildCandles(getCandles(stampsFrom(from)))

\* The screener's board: a close a day of UTC, of the rows that have one.
boardCloses == [d \in {utcDay(s) : s \in {r \in DOMAIN readings : readings[r].close # Nothing}} |->
                   newest({s \in DOMAIN readings : utcDay(s) = d}, LAMBDA s : readings[s].close)]

---------------------------------------------------------------------------
(***************************************************************************)
(* The indicator engine, over the candles of a window in order.            *)
(***************************************************************************)
windowMean(v, i, n) ==
    IF i < n \/ \E k \in (i - n + 1)..i : v[k] = None THEN None
    ELSE SumFunctionOnSet(v, (i - n + 1)..i) \div n

sma(v, n) == [i \in DOMAIN v |-> windowMean(v, i, n)]

\* Seeded with the mean of a full window; a gap starts it again.
ema(v, n) ==
    LET avg[i \in 0..Len(v)] ==
          IF i = 0 \/ v[i] = None THEN None
          ELSE IF avg[i - 1] = None THEN windowMean(v, i, n)
          ELSE (2 * v[i] + (n - 1) * avg[i - 1]) \div (n + 1)
    IN [i \in DOMAIN v |-> avg[i]]

rsiFromAverages(gain, loss) ==
    IF loss = 0 THEN (IF gain = 0 THEN 50 ELSE 100) ELSE 100 - (100 * loss) \div (gain + loss)

\* Wilder's averages of the moves one way: seeded after n changes.
wilder(v, n, move(_, _)) ==
    LET moves == [i \in 1..Len(v) |-> IF i = 1 THEN 0 ELSE move(v[i - 1], v[i])]
        avg[i \in 0..Len(v)] ==
          IF i <= n THEN None
          ELSE IF i = n + 1 THEN SumFunctionOnSet(moves, 2..i) \div n
          ELSE (avg[i - 1] * (n - 1) + moves[i]) \div n
    IN avg

rsi(v, n) ==
    LET gains == wilder(v, n, LAMBDA a, b : Max({b - a, 0}))
        losses == wilder(v, n, LAMBDA a, b : Max({a - b, 0}))
    IN [i \in DOMAIN v |-> IF gains[i] = None THEN None ELSE rsiFromAverages(gains[i], losses[i])]

less(a, b) == [i \in DOMAIN a |-> IF None \in {a[i], b[i]} THEN None ELSE a[i] - b[i]]
macd(v) == less(ema(v, Windows["fast"]), ema(v, Windows["slow"]))
signalLine(v) == ema(macd(v), Windows["signal"])
histogram(v) == less(macd(v), signalLine(v))

\* Half the width of the bands, squared and over k squared.
bollinger(v, n) ==
    LET mean == sma(v, n)
    IN [i \in DOMAIN v |-> IF mean[i] = None THEN None
                           ELSE LET off == [j \in DOMAIN v |-> (v[j] - mean[i]) * (v[j] - mean[i])]
                                IN SumFunctionOnSet(off, {j \in 1..i : j > i - n}) \div n]

trueRange(bars, i) ==
    LET c == bars[i]
        apart(a, b) == Max({a - b, b - a})
    IN IF Nothing \in {c.high, c.low} THEN None
       ELSE IF i = 1 THEN c.high - c.low
       ELSE Max({c.high - c.low, apart(c.high, bars[i - 1].close), apart(c.low, bars[i - 1].close)})

\* A session without a range has no value, and does not stop the average.
atr(bars, n) ==
    LET tr == [i \in DOMAIN bars |-> IF trueRange(bars, i) = None THEN None
                                     ELSE Scale * trueRange(bars, i)]
        avg[i \in 0..Len(bars)] ==
          IF i = 0 THEN None
          ELSE IF tr[i] = None THEN avg[i - 1]
          ELSE IF avg[i - 1] = None THEN windowMean(tr, i, n)
          ELSE (avg[i - 1] * (n - 1) + tr[i]) \div n
    IN [i \in DOMAIN bars |-> IF tr[i] = None THEN None ELSE avg[i]]

\* Against the sessions before it only.
relativeVolume(v, n) ==
    [i \in DOMAIN v |-> IF i <= n \/ windowMean(v, i - 1, n) \in {None, 0} THEN None
                        ELSE (Scale * v[i]) \div windowMean(v, i - 1, n)]

\* The sessions each line says it needs.
requiredSessions ==
    [sma |-> Windows["sma"], ema |-> Windows["ema"], rsi |-> Windows["rsi"] + 1,
     macd |-> Windows["slow"], signal |-> Windows["slow"] + Windows["signal"] - 1,
     histogram |-> Windows["slow"] + Windows["signal"] - 1, bb |-> Windows["bb"],
     atr |-> Windows["atr"] + 1, relvol |-> Windows["relvol"] + 1]

computeIndicators(bars) ==
    LET v == [i \in DOMAIN bars |-> Scale * bars[i].close]
    IN [sma |-> sma(v, Windows["sma"]), ema |-> ema(v, Windows["ema"]),
        rsi |-> rsi(v, Windows["rsi"]), macd |-> macd(v), signal |-> signalLine(v),
        histogram |-> histogram(v), bb |-> bollinger(v, Windows["bb"]),
        atr |-> atr(bars, Windows["atr"]), relvol |-> relativeVolume(v, Windows["relvol"])]

\* A range's lines: computed from the days before it too, then cut back to it.
indicators(cutoff) ==
    LET seen == candles(IF cutoff = 0 THEN 0 ELSE Max({1, cutoff - Lookback}))
        days == SetToSortSeq(DOMAIN seen, <)
        lines == computeIndicators([i \in DOMAIN days |-> seen[days[i]]])
    IN [days |-> days,
        points |-> [name \in DOMAIN lines |->
            [d \in {e \in DOMAIN seen : e >= cutoff} |->
                lines[name][CHOOSE i \in DOMAIN days : days[i] = d]]]]

---------------------------------------------------------------------------
(***************************************************************************)
(* What a reader may rely on.                                              *)
(***************************************************************************)
Foreign(s) == closeAt(s) = IndexLevel

\* A day at least half of whose readings are the share's has a candle of the
\* share's prices and no others, and where no reading is foreign and the limit is
\* not met the table and the chart show the same sessions and the same closes.
candlesAreOfTheShare ==
    LET all == DOMAIN readings
        kept == getCandles(all)
    IN /\ \A d \in DOMAIN candles(0) :
             LET group == ofDay(kept, d)
             IN Cardinality(group) > 1 /\ 2 * Cardinality({s \in group : Foreign(s)}) <= Cardinality(group)
                => {candles(0)[d].close, candles(0)[d].high} \subseteq SharePrices \cup {Nothing}
       /\ kept = all /\ ~(\E s \in all : Foreign(s))
          => \A d \in DOMAIN sessionise(all) : candles(0)[d].close = sessionise(all)[d].close

\* A line has a value at every day it has the sessions it says it needs for, and
\* at no other: in a range as over the whole record, whatever days are missing.
\* The average range may start a session early, and skips days without a range.
linesAreFull ==
    \A cutoff \in Cutoffs :
        LET shown == indicators(cutoff)
            number(d) == Cardinality({i \in DOMAIN shown.days : shown.days[i] <= d})
        IN \A name \in DOMAIN shown.points, d \in DOMAIN shown.points["sma"] :
              LET has == shown.points[name][d] # None
              IN IF name = "atr" THEN has => number(d) >= requiredSessions[name] - 1
                 ELSE has <=> number(d) >= requiredSessions[name]

\* The chart is of the share, however an index level was written among its rows,
\* and no line over it starts before it has its sessions.
ChartIsOfTheShare == candlesAreOfTheShare /\ linesAreFull

---------------------------------------------------------------------------
(***************************************************************************)
(* The board of indicators a server keeps in memory: built by the first    *)
(* request that needs it, served as it is from then on, and rebuilt behind *)
(* a request that finds it past its time.  A build reads the closes, ends  *)
(* an await later, and may fail.                                           *)
(***************************************************************************)
CONSTANTS
    MaxNews,        \* bound on sessions stored
    MaxBroken       \* bound on builds that fail

ASSUME UniverseAssumption == MaxNews \in Nat /\ MaxBroken \in Nat

Unbuilt == -1

VARIABLES
    latest,     \* the newest session with a close
    board,      \* the session the cached board is of, Unbuilt before the first
    stale,      \* the board is past its time
    building,   \* the build in flight, and the session it read
    broken      \* builds failed so far

technicalVars == <<latest, board, stale, building, broken>>

NoBuild == [pc |-> "none", read |-> Unbuilt]

TechnicalTypeOK ==
    /\ latest \in 0..MaxNews /\ board \in 0..MaxNews \cup {Unbuilt}
    /\ stale \in BOOLEAN /\ broken \in 0..MaxBroken
    /\ building \in [pc : {"none", "running", "read", "rejected"},
                     read : 0..MaxNews \cup {Unbuilt}]

InitTechnical ==
    /\ latest = 0 /\ board = Unbuilt /\ stale = FALSE
    /\ building = NoBuild /\ broken = 0

---------------------------------------------------------------------------
\* A request: it starts the first build or awaits the one in flight, one that has
\* failed too; or it is served, and starts a build if the board is past its time.
readUniverse ==
    /\ building' = IF building = NoBuild /\ (board = Unbuilt \/ stale)
                   THEN [NoBuild EXCEPT !.pc = "running"] ELSE building
    /\ UNCHANGED <<latest, board, stale, broken>>

buildUniverse ==
    /\ building.pc = "running"
    /\ building' = [pc |-> "read", read |-> latest]
    /\ UNCHANGED <<latest, board, stale, broken>>

FinishBuild ==
    /\ building.pc = "read"
    /\ board' = building.read /\ stale' = FALSE
    /\ building' = NoBuild
    /\ UNCHANGED <<latest, broken>>

\* Deviation: the build that failed is kept, as it is when it was the first.
keepFailed == [building EXCEPT !.pc = "rejected"]

\* A failed rebuild is forgotten; a failed first build is not.
afterFailure == IF board = Unbuilt THEN [building EXCEPT !.pc = "rejected"] ELSE NoBuild

FailBuild ==
    /\ building.pc \in {"running", "read"} /\ broken < MaxBroken
    /\ broken' = broken + 1
    /\ building' = afterFailure
    /\ UNCHANGED <<latest, board, stale>>

\* Five minutes pass.
Age ==
    /\ board # Unbuilt /\ ~stale /\ stale' = TRUE
    /\ UNCHANGED <<latest, board, building, broken>>

StoreSession ==
    /\ latest < MaxNews /\ latest' = latest + 1
    /\ UNCHANGED <<board, stale, building, broken>>

\* The process starts again.
RestartServer ==
    /\ board' = Unbuilt /\ stale' = FALSE /\ building' = NoBuild
    /\ UNCHANGED <<latest, broken>>

NextTechnical ==
    readUniverse \/ buildUniverse \/ FinishBuild \/ FailBuild \/ Age \/ StoreSession
    \/ RestartServer

---------------------------------------------------------------------------
\* Once a board stands, readers see the newest session in the end, whichever
\* rebuilds fail meanwhile, as long as they keep reading and the server stays up.
BoardCatchesUp == <>[](board # Unbuilt) => []<>(board = latest)

=============================================================================
