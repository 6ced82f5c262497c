------------------------------- MODULE Insights -------------------------------
(***************************************************************************)
(* The fundamentals score of a share: each ratio on its published curve,   *)
(* half of it its standing among the sector's, the mean of each pillar,    *)
(* the weighted means of the current and the forward view, and the cap a   *)
(* loss or negative equity puts on both.  The sector's rows are cached,    *)
(* the share's own ratios are read as they are.                            *)
(*                                                                         *)
(* Four metrics stand for the twelve, three pillars for the five.  Scores  *)
(* are in hundredths of a point until they are rounded.                    *)
(*                                                                         *)
(* Beta, which is stored with the same ratio rows, is below it.            *)
(***************************************************************************)
EXTENDS Integers, Sequences, FiniteSets, FiniteSetsExt, TLC

CONSTANTS
    RatioFigures,   \* values a ratio may have, of 1..3
    SectorRows,     \* what the rest of the sector may publish, by company
    RatioRowsBefore,\* ratios the share may start with
    MinPeers,       \* MIN_PEERS
    MinMetrics,     \* MIN_METRICS
    MinPillars,     \* MIN_PILLARS
    MaxRatioRows    \* bound on ratio rows written for the share

ASSUME InsightAssumption ==
    /\ RatioFigures \subseteq 1..3 /\ MaxRatioRows \in Nat
    /\ MinPeers \in Nat \ {0, 1} /\ MinMetrics \in Nat \ {0} /\ MinPillars \in Nat \ {0, 1}

Unstated == -1

pillarOf == [roe |-> "profitability", roic |-> "profitability",
             peRatio |-> "valuation", epsGrowth |-> "growth"]
Metrics == DOMAIN pillarOf
Pillars == {pillarOf[m] : m \in Metrics}
RatioMaps == [Metrics -> RatioFigures \cup {Unstated}]

ASSUME SectorAssumption ==
    /\ RatioRowsBefore \subseteq RatioMaps
    /\ \A rows \in SectorRows : IsFiniteSet(DOMAIN rows) /\ "own" \notin DOMAIN rows

VARIABLES
    financial,  \* a sector whose balance sheets make leverage ratios meaningless
    own,        \* the share's newest ratios
    sign,       \* "profit", "loss" (EPS below zero) or "deficit" (book value below zero)
    sector,     \* the others' newest ratios
    peerStats,  \* the cached rows of the whole sector, <<>> when there are none
    written     \* ratio rows of the share written so far

insightVars == <<financial, own, sign, sector, peerStats, written>>

sectorNow == [s \in DOMAIN sector \cup {"own"} |-> IF s = "own" THEN own ELSE sector[s]]

InsightsTypeOK ==
    /\ financial \in BOOLEAN /\ own \in RatioMaps /\ sign \in {"profit", "loss", "deficit"}
    /\ sector \in SectorRows /\ written \in 0..MaxRatioRows
    /\ peerStats # <<>> => "own" \in DOMAIN peerStats /\ IsFiniteSet(DOMAIN peerStats)

InitInsights ==
    /\ financial \in BOOLEAN /\ own \in RatioRowsBefore /\ sign = "profit"
    /\ sector \in SectorRows /\ peerStats = <<>> /\ written = 0

---------------------------------------------------------------------------
(***************************************************************************)
(* The score.                                                              *)
(***************************************************************************)
\* A price multiple is better low, the others high.
metricCurve(m, v) == IF m = "peRatio" THEN (3 - v) * 5000 ELSE (v - 1) * 5000

applies(m) == ~(financial /\ m = "roic")
scored(row) == {m \in Metrics : applies(m) /\ row[m] # Unstated}

percentileOf(m, v, rows) ==
    LET stated == {s \in DOMAIN rows : rows[s][m] # Unstated}
    IN IF Cardinality(stated) < MinPeers THEN Unstated
       ELSE (10000 * Cardinality({s \in stated : rows[s][m] < v})) \div (Cardinality(stated) - 1)

metricScore(m, row, rows) ==
    LET standing == percentileOf(m, row[m], rows)
    IN IF standing = Unstated THEN metricCurve(m, row[m]) ELSE (metricCurve(m, row[m]) + standing) \div 2

\* The mean of each pillar that has a metric.
pillarScores(row, rows) ==
    [p \in {pillarOf[m] : m \in scored(row)} |->
        LET of == {m \in scored(row) : pillarOf[m] = p}
            points(m) == IF m \in of THEN metricScore(m, row, rows) ELSE 0
        IN (points("roe") + points("roic") + points("peRatio") + points("epsGrowth")) \div Cardinality(of)]

CURRENT_WEIGHTS == [profitability |-> 45, valuation |-> 30, growth |-> 0]
FUTURE_WEIGHTS == [profitability |-> 40, valuation |-> 0, growth |-> 60]

\* The mean over the pillars there are, each by its weight.
weighted(scores, weights) ==
    LET weight(p) == IF p \in DOMAIN scores THEN weights[p] ELSE 0
        points(p) == IF p \in DOMAIN scores THEN scores[p] * weights[p] ELSE 0
        all == weight("profitability") + weight("valuation") + weight("growth")
    IN IF all = 0 THEN Unstated
       ELSE (points("profitability") + points("valuation") + points("growth")) \div all

round(score) == (score + 50) \div 100

\* Deviation: a deficit is capped as a loss is.
lossCap(score) == IF sign # "profit" THEN Min({score, 4900}) ELSE score

applyCap(score) ==
    CASE sign = "deficit" -> Min({score, 3400})
      [] sign = "loss" -> Min({score, 4900})
      [] OTHER -> score

enough(row) ==
    /\ Cardinality(scored(row)) >= MinMetrics
    /\ Cardinality({pillarOf[m] : m \in scored(row)}) >= MinPillars

\* The forward view falls back to the current one where no growth is published.
scoreFundamentals(row, rows) ==
    LET pillars == pillarScores(row, rows)
        currentRaw == weighted(pillars, CURRENT_WEIGHTS)
        futureRaw == IF "growth" \notin DOMAIN pillars THEN currentRaw
                     ELSE weighted(pillars, FUTURE_WEIGHTS)
        current == round(applyCap(currentRaw))
        future == round(applyCap(futureRaw))
    IN IF ~enough(row) THEN [overall |-> Unstated, future |-> Unstated]
       ELSE [overall |-> (current + future + 1) \div 2, future |-> future]

verdictOf(score) == IF score >= 67 THEN "strong" ELSE IF score >= 34 THEN "fair" ELSE "weak"

\* The score of the detail page: the share's ratios now among the rows cached.
peerRows == IF peerStats = <<>> THEN sectorNow ELSE peerStats
insights == scoreFundamentals(own, peerRows)

---------------------------------------------------------------------------
(***************************************************************************)
(* What changes under the reader.                                          *)
(***************************************************************************)
SyncRatios ==
    /\ written < MaxRatioRows /\ written' = written + 1
    /\ own' \in RatioMaps /\ sign' \in {"profit", "loss", "deficit"}
    /\ UNCHANGED <<financial, sector, peerStats>>

SyncSector == sector' \in SectorRows /\ UNCHANGED <<financial, own, sign, peerStats, written>>

getCachedSectorPeerStats ==
    /\ peerStats = <<>> /\ peerStats' = sectorNow
    /\ UNCHANGED <<financial, own, sign, sector, written>>

PeerStatsExpire ==
    /\ peerStats # <<>> /\ peerStats' = <<>>
    /\ UNCHANGED <<financial, own, sign, sector, written>>

NextInsights == SyncRatios \/ SyncSector \/ getCachedSectorPeerStats \/ PeerStatsExpire
InsightSpec == InitInsights /\ [][NextInsights]_insightVars

---------------------------------------------------------------------------
\* A company with a loss or a deficit is not rated strong, now or ahead, however
\* cheap it looks or old the sector's rows are.  A profitable one is scored, by
\* rows that know its present ratios, between its worst pillar and its best:
\* neither a missing pillar nor a missing metric is a penalty.
ScoreIsEarned ==
    LET s == insights
        pillars == pillarScores(own, peerRows)
        means == {pillars[p] : p \in DOMAIN pillars}
    IN s.overall # Unstated =>
         /\ sign = "loss" => s.overall <= 49 /\ s.future <= 49
         /\ sign = "deficit" => s.overall <= 34 /\ s.future <= 34
         /\ sign # "profit" => "strong" \notin {verdictOf(s.overall), verdictOf(s.future)}
         /\ sign = "profit" /\ peerRows["own"] = own =>
              /\ s.overall \in (Min(means) \div 100)..(Max(means) \div 100 + 1)
              /\ s.overall <= 100

---------------------------------------------------------------------------
(***************************************************************************)
(* Beta, measured from the share's own closes against the index's, and     *)
(* stored with the share's newest ratio row.  The window is of index       *)
(* sessions; a session the share has no close for has no return, nor has   *)
(* the next.  A close is named by its logarithm, so that a return is a     *)
(* difference; beta is in hundredths, and <<>> where there is none.         *)
(***************************************************************************)
CONSTANTS
    Levels,         \* logarithms of closes
    BetaWindow,     \* BETA_WINDOW_SESSIONS
    MinObservations,
    MaxTraded       \* bound on sessions

ASSUME BetaAssumption ==
    /\ Levels \subseteq Nat /\ BetaWindow \in Nat \ {0}
    /\ MinObservations \in Nat \ {0, 1} /\ MaxTraded \in Nat

NoClose == -1
NoBeta == <<>>

VARIABLES
    indexClose,     \* the index's closes, by session
    shareClose,     \* the share's, NoClose where it has none
    betaStored,     \* ratios.beta of the newest ratio row, NoBeta for a null
    pendingBeta     \* what refreshSymbol is at: a measured value about to be stored

betaVars == <<indexClose, shareClose, betaStored, pendingBeta>>

BetaTypeOK ==
    /\ indexClose \in Seq(Levels) /\ shareClose \in Seq(Levels \cup {NoClose})
    /\ Len(indexClose) = Len(shareClose)
    /\ betaStored \in Seq(Int) /\ Len(betaStored) <= 1 /\ pendingBeta.pc \in {"idle", "record"}

InitBeta ==
    /\ indexClose = <<>> /\ shareClose = <<>>
    /\ betaStored = NoBeta /\ pendingBeta = [pc |-> "idle"]

---------------------------------------------------------------------------
\* fetchBetaSeries: the newest sessions of the index, one more than the window.
windowDays == {d \in DOMAIN indexClose : d > Len(indexClose) - (BetaWindow + 1)}

\* Deviation: the share's last known close stands in for a missing one.
lastKnown(share, d) ==
    LET had == {e \in windowDays : e <= d /\ share[e] # NoClose}
    IN IF had = {} THEN NoClose ELSE share[Max(had)]

closeOn(share, d) == share[d]

\* The sessions a return is taken on: both legs close on it and on the one before.
returnDays(share) ==
    {d \in windowDays : /\ d - 1 \in windowDays
                        /\ NoClose \notin {closeOn(share, d), closeOn(share, d - 1)}}

\* What a figure of these days comes to.
sumOver(days, figure) ==
    LET upTo[d \in 0..Len(indexClose)] ==
            IF d = 0 THEN 0 ELSE upTo[d - 1] + (IF d \in days THEN figure[d] ELSE 0)
    IN upTo[Len(indexClose)]

\* Sample covariance, times the square of the sample and its freedom.
covariance(days, a, b) ==
    Cardinality(days) * sumOver(days, [d \in days |-> a[d] * b[d]]) - sumOver(days, a) * sumOver(days, b)

computeBeta(share) ==
    LET days == returnDays(share)
        ofShare == [d \in days |-> closeOn(share, d) - closeOn(share, d - 1)]
        ofIndex == [d \in days |-> indexClose[d] - indexClose[d - 1]]
        variance == covariance(days, ofIndex, ofIndex)
    IN IF Cardinality(days) < MinObservations \/ variance <= 0 THEN NoBeta
       ELSE <<(100 * covariance(days, ofShare, ofIndex)) \div variance>>

---------------------------------------------------------------------------
\* A session ends: the index has a close, the share may have none.
EndSession ==
    /\ Len(indexClose) < MaxTraded
    /\ \E i \in Levels, s \in Levels \cup {NoClose} :
          /\ indexClose' = Append(indexClose, i) /\ shareClose' = Append(shareClose, s)
    /\ UNCHANGED <<betaStored, pendingBeta>>

\* refreshSymbol measures, and stores an await later, a null too.
forSymbol ==
    /\ pendingBeta.pc = "idle"
    /\ pendingBeta' = [pc |-> "record", value |-> computeBeta(shareClose)]
    /\ UNCHANGED <<indexClose, shareClose, betaStored>>

recordBeta ==
    /\ pendingBeta.pc = "record"
    /\ betaStored' = pendingBeta.value /\ pendingBeta' = [pc |-> "idle"]
    /\ UNCHANGED <<indexClose, shareClose>>

NextBeta == EndSession \/ forSymbol \/ recordBeta
BetaSpec == InitBeta /\ [][NextBeta]_betaVars

---------------------------------------------------------------------------
\* A share that closes with the index wherever it closes at all has a beta of one
\* or none, whichever sessions it misses; and whatever its closes, doubling every
\* move of it doubles its beta.
BetaIgnoresGaps ==
    LET follower == [d \in DOMAIN shareClose |->
                        IF shareClose[d] = NoClose THEN NoClose ELSE indexClose[d]]
        doubled == [d \in DOMAIN shareClose |->
                        IF shareClose[d] = NoClose THEN NoClose ELSE 2 * indexClose[d]]
    IN /\ computeBeta(follower) \in {<<100>>, NoBeta}
       /\ computeBeta(doubled) \in {<<200>>, NoBeta}
       /\ computeBeta(follower) = NoBeta <=> computeBeta(shareClose) = NoBeta

=============================================================================
