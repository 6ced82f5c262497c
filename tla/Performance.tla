----------------------------- MODULE Performance ------------------------------
(***************************************************************************)
(* The performance card: the return of a share over a number of sessions,  *)
(* and its curve beside an index's.  The card divides adjusted closes and  *)
(* adds the dividends of the window; the model walks the same days with a  *)
(* holder who owns one share at the window's start.  A split doubles the   *)
(* shares: factors are kept as powers of two.                              *)
(*                                                                         *)
(* The comparison of several symbols' lines is below it.                   *)
(***************************************************************************)
EXTENDS Integers, Sequences, FiniteSets, SequencesExt, FiniteSetsExt

CONSTANTS
    FinalDay,       \* days run 0..FinalDay
    ClosesSeen,     \* closes a session may have
    Cash            \* a dividend

ASSUME PerformanceAssumption == FinalDay \in Nat /\ ClosesSeen \subseteq Nat \ {0} /\ Cash \in Nat

Calendar == 0..FinalDay
Missing == 0

VARIABLES
    stored,     \* closes, splits, the dividend's ex-date and the index's values
    day,        \* the day the walk is at
    holder,     \* shares and cash of the holder, none before the window
    curve       \* the bases of the two legs, and the first point of the chart

performanceVars == <<stored, day, holder, curve>>

---------------------------------------------------------------------------
recentSessions == {d \in Calendar : stored.close[d] # Missing}
windowStart == CHOOSE d \in recentSessions :
                  Cardinality({e \in recentSessions : e > d}) = stored.back
windowEnd == Max(recentSessions)

\* The splits after a day halve its price once each.
Halvings(d) == Cardinality({e \in stored.splits : e > d})
factor(d) == 2 ^ (Cardinality(stored.splits) - Halvings(d))

\* Deviation: a dividend that goes ex on the first session of the window counts.
cashFromStart ==
    IF stored.exDate \in windowStart..windowEnd THEN Cash * factor(stored.exDate) ELSE 0

cashOfWindow ==
    IF stored.exDate > windowStart /\ stored.exDate <= windowEnd
    THEN Cash * factor(stored.exDate) ELSE 0

\* totalReturn plus one, as a fraction.
totalReturn ==
    [over |-> stored.close[windowEnd] * factor(windowEnd) + cashOfWindow,
     under |-> stored.close[windowStart] * factor(windowStart)]

---------------------------------------------------------------------------
NoHolder == [shares |-> 0, cash |-> 0]
NoCurve == [stockBase |-> Missing, indexBase |-> Missing, lastIndex |-> Missing,
            first |-> <<>>]

Stored ==
    [close : [Calendar -> ClosesSeen \cup {Missing}], index : [Calendar -> {Missing, 1}],
     splits : SUBSET (Calendar \ {0}), exDate : Calendar, back : 1..FinalDay]

InitPerformance ==
    /\ stored \in Stored
    /\ Cardinality(recentSessions) > stored.back
    /\ stored.splits = {} \/ \A d \in Calendar : stored.index[d] = 1
    /\ day = -1 /\ holder = NoHolder /\ curve = NoCurve

\* The holder's day: a split, then a dividend on the shares held, both from the
\* day after the window's start.
Hold(d) ==
    IF d = windowStart THEN [shares |-> 1, cash |-> 0]
    ELSE LET shares == IF d \in stored.splits THEN 2 * holder.shares ELSE holder.shares
         IN [shares |-> shares,
             cash |-> holder.cash + (IF d = stored.exDate THEN Cash * shares ELSE 0)]

\* One session of the comparison: the stock's base is the first session of the
\* range, the index's the first one from there with a value; sessions before it are
\* left out.  A point is 100 when it is its leg's base; an index value is named by
\* its day, counted from 1.
align(d) ==
    LET index == IF stored.index[d] # Missing THEN d + 1 ELSE curve.lastIndex
        stockBase == IF curve.stockBase = Missing THEN stored.close[d] ELSE curve.stockBase
        indexBase == IF curve.indexBase = Missing THEN index ELSE curve.indexBase
    IN [stockBase |-> stockBase, indexBase |-> indexBase, lastIndex |-> index,
        first |-> IF index = Missing \/ curve.first # <<>> THEN curve.first
                  ELSE <<stored.close[d], stockBase>>]

Walk ==
    /\ day < windowEnd /\ day' = day + 1
    /\ holder' = Hold(day + 1)
    /\ curve' = IF day + 1 \in recentSessions THEN align(day + 1) ELSE curve
    /\ UNCHANGED stored

NextPerformance == Walk
PerformanceSpec == InitPerformance /\ [][NextPerformance]_performanceVars

PerformanceTypeOK ==
    /\ day \in Calendar \cup {-1}
    /\ holder.shares \in Nat /\ holder.cash \in Nat

---------------------------------------------------------------------------
\* The total return is what a holder made: over splits, bonuses and dividends of any
\* day of the window, days without a session included, the adjusted closes and the
\* cash in today's shares are worth what the one share bought at its start became.
ReturnIsTheHolders ==
    day = windowEnd =>
        totalReturn.over = factor(windowStart) *
            (holder.shares * stored.close[windowEnd] + holder.cash)

---------------------------------------------------------------------------
(***************************************************************************)
(* The comparison of a few symbols' prices: the sessions all of them share *)
(* out of the latest of each, every line starting at 100 on the first of   *)
(* them, and who was left out or shortened the window.  Pure: what is      *)
(* stored is chosen and one comparison is asked of it.                     *)
(*                                                                         *)
(* A symbol's rows are a sequence, oldest first, of a day and a close that *)
(* may be missing; a day may have several, the last one being the newest.  *)
(***************************************************************************)
CONSTANTS
    Compared,           \* the symbols asked for
    Histories,          \* the rows a symbol may have
    PeriodSessions      \* sessions of the period, the one before it included

NoPrice == 0

ASSUME ComparisonAssumption ==
    /\ PeriodSessions \in Nat \ {0, 1} /\ IsFiniteSet(Compared) /\ Cardinality(Compared) >= 2
    /\ \A h \in Histories : \A i, j \in DOMAIN h : i < j => h[i].day <= h[j].day

VARIABLES
    rowsStored,     \* the rows of each symbol; none for one that is not tracked
    comparison      \* what was answered, or nothing yet

comparisonVars == <<rowsStored, comparison>>

NoComparison == [series |-> <<>>, excluded |-> <<>>, shortenedBy |-> {}, window |-> <<>>]
ComparisonTypeOK == DOMAIN rowsStored = Compared /\ DOMAIN comparison = DOMAIN NoComparison
InitComparison == rowsStored \in [Compared -> Histories] /\ comparison = NoComparison

---------------------------------------------------------------------------
\* The newest close of each day that has one, as a function from days.
closesByDay(s) ==
    LET rows == SelectSeq(rowsStored[s], LAMBDA r : r.close # NoPrice)
    IN [d \in {rows[i].day : i \in DOMAIN rows} |->
            rows[Max({i \in DOMAIN rows : rows[i].day = d})].close]

\* The latest of them.
latestOf(closes) ==
    [d \in {e \in DOMAIN closes : Cardinality({f \in DOMAIN closes : f >= e}) <= PeriodSessions} |-> closes[d]]

seriesOf(s) == latestOf(closesByDay(s))
known == {s \in Compared : DOMAIN seriesOf(s) # {}}
usable == {s \in known : Cardinality(DOMAIN seriesOf(s)) > 1}

\* The days every usable symbol has.
common == {d \in UNION {DOMAIN seriesOf(s) : s \in usable} : \A s \in usable : d \in DOMAIN seriesOf(s)}

\* The deepest fall below the highest value so far, in percent.
drawdown(values) ==
    FoldLeft(LAMBDA acc, v :
                 LET peak == Max({acc.peak, v})
                 IN [peak |-> peak, worst |-> IF peak > 0 THEN Max({acc.worst, ((peak - v) * 100) \div peak})
                                              ELSE acc.worst],
             [peak |-> values[1], worst |-> 0], values).worst

lineOf(s) ==
    LET days == SetToSortSeq(common, <)
        values == [i \in DOMAIN days |-> seriesOf(s)[days[i]]]
    IN [symbol |-> s, points |-> [i \in DOMAIN days |-> <<days[i], (values[i] * 100) \div values[1]>>],
        returnPct |-> (values[Len(values)] * 100) \div values[1] - 100, maxDrawdownPct |-> drawdown(values)]

excludedFor(S, reason) == {[symbol |-> s, reason |-> reason] : s \in S}

compare ==
    LET left == excludedFor(Compared \ known, "not tracked") \cup excludedFor(known \ usable, "too few sessions")
        longest == Max({Cardinality(DOMAIN seriesOf(s)) : s \in usable})
    IN IF Cardinality(usable) < 2 \/ Cardinality(common) < 2
       THEN [NoComparison EXCEPT !.excluded = SetToSeq(left \cup excludedFor(usable, "no overlap"))]
       ELSE [series |-> SetToSortSeq({lineOf(s) : s \in usable}, LAMBDA a, b : a.returnPct > b.returnPct),
             excluded |-> SetToSeq(left), window |-> <<Min(common), Max(common)>>,
             shortenedBy |-> {s \in usable : Cardinality(DOMAIN seriesOf(s)) < longest}]

Compare == comparison = NoComparison /\ comparison' = compare /\ UNCHANGED rowsStored
NextComparison == Compare

---------------------------------------------------------------------------
\* Every symbol asked for is answered once, on a line or with a reason.  The lines start at
\* 100 on one day and have one another's days, each with the last close of that day; a day
\* that all of them have and that lies between two days of the window is in it; the deepest
\* fall is that of some pair of days in order; and a window that is the shorter for somebody
\* names whom.
LinesAreAligned ==
    LET lines == comparison.series
        named == [i \in DOMAIN lines |-> lines[i].symbol] \o
                 [i \in DOMAIN comparison.excluded |-> comparison.excluded[i].symbol]
        lastClose(s, d) ==
            LET rows == SelectSeq(rowsStored[s], LAMBDA r : r.day = d /\ r.close # NoPrice)
            IN IF rows = <<>> THEN NoPrice ELSE rows[Len(rows)].close
        daysOf(line) == {line.points[i][1] : i \in DOMAIN line.points}
    IN comparison # NoComparison =>
        /\ ToSet(named) = Compared /\ Len(named) = Cardinality(Compared)
        /\ lines # <<>> =>
            LET days == daysOf(lines[1])
                onAll == {d \in comparison.window[1]..comparison.window[2] :
                            \A i \in DOMAIN lines : lastClose(lines[i].symbol, d) # NoPrice}
            IN /\ \A i \in DOMAIN lines :
                     LET s == lines[i].symbol
                         first == lastClose(s, Min(days))
                     IN /\ daysOf(lines[i]) = days /\ lines[i].points[1] = <<Min(days), 100>>
                        /\ \A p \in ToSet(lines[i].points) : p[2] = (lastClose(s, p[1]) * 100) \div first
                        /\ lines[i].maxDrawdownPct =
                             Max({0} \cup {((lastClose(s, p[1]) - lastClose(s, p[2])) * 100) \div lastClose(s, p[1]) :
                                           p \in {q \in days \X days : q[1] < q[2]}})
               /\ days = onAll
               /\ \A i \in DOMAIN lines :   \* the latest sessions of somebody, or of the shortest
                     LET later == {r.day : r \in {q \in ToSet(rowsStored[lines[i].symbol]) :
                                                  q.close # NoPrice /\ q.day >= Min(days)}}
                     IN Cardinality(later) <= PeriodSessions

=============================================================================
