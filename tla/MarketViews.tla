----------------------------- MODULE MarketViews ------------------------------
(***************************************************************************)
(* The read models over the whole market: breadth and the short lists of   *)
(* movers beside it, one tile per sector and the page behind a tile, the   *)
(* ranked movers, the dividend ledger and the highest yields.  All of them *)
(* are queries over what the syncs wrote; a page that needs two queries    *)
(* asks them one after the other, and the syncs write in between.          *)
(*                                                                         *)
(* A stock's rows are a sequence, the newest session first.  Figures are   *)
(* whole numbers; a figure nobody published is NoFigure.                   *)
(*                                                                         *)
(* What the status endpoint says of the session is below it.               *)
(***************************************************************************)
EXTENDS Integers, Sequences, FiniteSets, SequencesExt, FiniteSetsExt

CONSTANTS
    Listed,         \* the stocks, as numbers in the order of their symbols
    Boards,         \* what is stored at first, any of these
    NewRows,        \* the rows a sync may write
    SectorNames,    \* the names sources give
    LedgerRows,     \* the dividends stored: stock, day, amount
    Yields,         \* the newest published yield of each stock
    Today,
    TrailingDays,   \* days a trailing yield looks back
    ListLength,     \* rows of a short list
    LiquidityFloor, \* shares below which a stock is not ranked
    MinSessions,    \* sessions a relative volume needs
    WeekBack,       \* sessions of a week
    MaxSyncs        \* bound on the writes

NoFigure == -99
Unclassified == "Unclassified"

ASSUME MarketViewsAssumption ==
    /\ Listed \subseteq Nat /\ ListLength \in Nat \ {0} /\ WeekBack \in Nat \ {0} /\ MaxSyncs \in Nat
    /\ \A b \in Boards : DOMAIN b = Listed /\ \A s \in Listed : Len(b[s]) > 0
    /\ \A d, e \in LedgerRows : d.stock = e.stock /\ d.day = e.day => d = e

VARIABLES
    rowsOfStock,    \* the stored sessions of each stock
    sectorOf,       \* its sector, or Unclassified
    synced,         \* writes so far
    served          \* what each query of a page gave, and after how many writes

marketViewsVars == <<rowsOfStock, sectorOf, synced, served>>

MarketQuestions == {"breadth", "short", "tiles", "rest", "summary", "members"}

MarketViewsTypeOK ==
    /\ DOMAIN rowsOfStock = Listed /\ sectorOf \in [Listed -> SectorNames \cup {Unclassified}]
    /\ synced \in 0..MaxSyncs /\ DOMAIN served \subseteq MarketQuestions

InitMarketViews ==
    /\ rowsOfStock \in Boards /\ sectorOf = [s \in Listed |-> CHOOSE n \in SectorNames : TRUE]
    /\ synced = 0 /\ served = <<>>

---------------------------------------------------------------------------
(***************************************************************************)
(* The queries.                                                            *)
(***************************************************************************)
Priced(s) == SelectSeq(rowsOfStock[s], LAMBDA r : r.price # NoFigure)

\* Every aggregate is over the newest row with a price of each stock that has one.
OnTheBoard == {s \in Listed : Priced(s) # <<>>}
quoteOf(s) == Priced(s)[1]

Rose(s) == quoteOf(s).move # NoFigure /\ quoteOf(s).move > 0
Fell(s) == quoteOf(s).move # NoFigure /\ quoteOf(s).move < 0
Flat(s) == quoteOf(s).move = 0
CountOf(S, Is(_)) == Cardinality({s \in S : Is(s)})

\* The figure descending, unpublished last, ties by symbol.
RankedBy(S, f) ==
    SetToSortSeq(S, LAMBDA s, t :
        IF (f[s] = NoFigure) # (f[t] = NoFigure) THEN f[t] = NoFigure
        ELSE IF f[s] # f[t] THEN f[s] > f[t] ELSE s < t)

First(list, n) == SubSeq(list, 1, Min({n, Len(list)}))
Moves(S) == [s \in S |-> quoteOf(s).move]
Falls(S) == [s \in S |-> IF quoteOf(s).move = NoFigure THEN NoFigure ELSE -quoteOf(s).move]

breadth == [advancers |-> CountOf(OnTheBoard, Rose), decliners |-> CountOf(OnTheBoard, Fell),
            unchanged |-> CountOf(OnTheBoard, Flat)]

\* The short lists: only rises among the gainers, only falls among the losers.
movers ==
    LET traded == {s \in OnTheBoard : quoteOf(s).volume # NoFigure}
    IN [gainers |-> First(RankedBy({s \in OnTheBoard : Rose(s)}, Moves(OnTheBoard)), ListLength),
        losers |-> First(RankedBy({s \in OnTheBoard : Fell(s)}, Falls(OnTheBoard)), ListLength),
        active |-> First(RankedBy(traded, [s \in traded |-> quoteOf(s).volume]), ListLength)]

MembersOf(name) == {s \in OnTheBoard : sectorOf[s] = name}

tally(S) == [count |-> Cardinality(S), advancers |-> CountOf(S, Rose), decliners |-> CountOf(S, Fell)]

\* One tile per sector with a member on the board.
sectors == [n \in {m \in SectorNames : MembersOf(m) # {}} |-> tally(MembersOf(n))]

\* Every stock without a sector, priced or not.
unclassified == Cardinality({s \in Listed : sectorOf[s] = Unclassified})

\* Deviation: the last of the whole list, of which only the falls are kept.
lastThenFalls(list) == Reverse(SelectSeq(SubSeq(list, Max({1, Len(list) - ListLength + 1}), Len(list)), Fell))

\* The biggest falls first.
losersOf(list) ==
    LET falls == SelectSeq(list, Fell)
    IN Reverse(SubSeq(falls, Max({1, Len(falls) - ListLength + 1}), Len(falls)))

\* The members of a sector, biggest rise first, and its two short lists.
sectorDetail(name) ==
    LET constituents == RankedBy(MembersOf(name), Moves(OnTheBoard))
    IN [sector |-> name, constituents |-> constituents,
        gainers |-> First(SelectSeq(constituents, Rose), ListLength), losers |-> losersOf(constituents)]

---------------------------------------------------------------------------
(***************************************************************************)
(* The ranked movers.                                                      *)
(***************************************************************************)
\* Ranked is who has a price in the newest row; the figures are of that row.
Stats == {s \in Listed : rowsOfStock[s][1].price # NoFigure}

periodReturn(s, period) ==
    LET newest == rowsOfStock[s][1]
        from(back) == IF Len(rowsOfStock[s]) > back THEN rowsOfStock[s][back + 1].price ELSE NoFigure
        since(back) == IF from(back) \in {NoFigure, 0} THEN NoFigure
                       ELSE ((newest.price - from(back)) * 100) \div from(back)
    IN IF period = "1d" THEN (IF newest.move # NoFigure THEN newest.move ELSE since(1)) ELSE since(WeekBack)

\* Against the average of the sessions with a volume, from so many sessions stored.
volumeMultiple(s) ==
    LET volumes == SelectSeq(rowsOfStock[s], LAMBDA r : r.volume # NoFigure)
        total == FoldLeft(LAMBDA sum, r : sum + r.volume, 0, volumes)
    IN IF Len(rowsOfStock[s]) < MinSessions \/ total = 0 THEN NoFigure
       ELSE (rowsOfStock[s][1].volume * Len(volumes) * 100) \div total

Liquid == {s \in Stats : rowsOfStock[s][1].volume # NoFigure /\ rowsOfStock[s][1].volume >= LiquidityFloor}

\* What a list is ranked by, best first; a missing figure comes last in every list.
rankedFigure(type, period) ==
    [s \in Liquid |-> LET r == periodReturn(s, period)
        IN CASE type = "gainers" -> r [] type = "losers" -> IF r = NoFigure THEN r ELSE -r
             [] type = "unusual" -> volumeMultiple(s) [] OTHER -> rowsOfStock[s][1].volume]

rankMovers(type, period) ==
    [rows |-> First(RankedBy(Liquid, rankedFigure(type, period)), ListLength),
     excludedIlliquid |-> Cardinality(Stats \ Liquid)]

---------------------------------------------------------------------------
(***************************************************************************)
(* Dividends.                                                              *)
(***************************************************************************)
upcomingDividends ==
    LET ahead == {d \in LedgerRows : d.day >= Today}
    IN First(SetToSortSeq(ahead, LAMBDA d, e : d.day < e.day \/ (d.day = e.day /\ d.stock < e.stock)), ListLength)

highestYield ==
    LET stated == {s \in OnTheBoard : Yields[s] # NoFigure} IN First(RankedBy(stated, Yields), ListLength)

\* Everything announced in the trailing days and ahead, over the latest price.
trailingYield(s) ==
    LET recent == {d \in LedgerRows : d.stock = s /\ d.day >= Today - TrailingDays}
        price == IF s \in OnTheBoard THEN quoteOf(s).price ELSE NoFigure
    IN IF recent = {} \/ price <= 0 THEN NoFigure
       ELSE (MapThenSumSet(LAMBDA d : d.amount, recent) * 100) \div price

dividendLedger(least, page) ==
    LET kept == {d \in LedgerRows : least # NoFigure =>
                    trailingYield(d.stock) # NoFigure /\ trailingYield(d.stock) >= least}
        all == SetToSortSeq(kept, LAMBDA d, e : d.day > e.day \/ (d.day = e.day /\ d.stock < e.stock))
    IN [total |-> Len(all),
        items |-> SubSeq(all, (page - 1) * ListLength + 1, Min({page * ListLength, Len(all)}))]

---------------------------------------------------------------------------
(***************************************************************************)
(* Pages, and what is written behind them.                                 *)
(***************************************************************************)
\* A page is what was asked of it last; asking something of another page leaves it.
Ask(q, value, page) ==
    /\ served' = (q :> [at |-> synced, value |-> value]) @@ [p \in DOMAIN served \cap page |-> served[p]]
    /\ UNCHANGED <<rowsOfStock, sectorOf, synced>>

\* The overview asks both at once; they are answered in either order.
overview ==
    \/ Ask("breadth", breadth, {"short"})
    \/ Ask("short", movers, {"breadth"})

\* The tiles, then the stocks without a sector.
sectorsPage ==
    \/ Ask("tiles", sectors, {})
    \/ "tiles" \in DOMAIN served /\ Ask("rest", unclassified, {"tiles"})

\* A sector's page: the sums, then the members of the same name.
sectorPage(name) ==
    \/ MembersOf(name) # {} /\ Ask("summary", [sector |-> name] @@ tally(MembersOf(name)), {})
    \/ /\ "summary" \in DOMAIN served /\ served["summary"].value.sector = name
       /\ Ask("members", sectorDetail(name), {"summary"})

\* A sync writes the row of a new session, or writes the newest again.
SyncStock(s) ==
    /\ synced < MaxSyncs /\ synced' = synced + 1
    /\ \E r \in NewRows : \E kept \in {rowsOfStock[s], Tail(rowsOfStock[s])} :
          rowsOfStock' = [rowsOfStock EXCEPT ![s] = <<r>> \o kept]
    /\ UNCHANGED <<sectorOf, served>>

\* A profile names the sector, or a source that had one has none: it is kept then.
SyncProfile(s) ==
    /\ synced < MaxSyncs /\ synced' = synced + 1
    /\ \E n \in SectorNames \cup {Unclassified} : n # sectorOf[s] /\ sectorOf' = [sectorOf EXCEPT ![s] = n]
    /\ UNCHANGED <<rowsOfStock, served>>

NextMarketViews ==
    \/ overview \/ sectorsPage
    \/ \E n \in SectorNames \cup {Unclassified} : sectorPage(n)
    \/ \E s \in Listed : SyncStock(s) \/ SyncProfile(s)

---------------------------------------------------------------------------
\* Both answered, and of one board.
Together(p, q) == p \in DOMAIN served /\ q \in DOMAIN served /\ served[p].at = served[q].at

\* Lists and counts that were read of the same board agree: as many gainers as there are
\* advancers and as many losers as decliners, up to the length of a list, beside the
\* breadth and on a sector's page alike, and the losers are the deepest falls; a sector's
\* sums are of the members listed under them and of the tile that led there; and every
\* priced stock is on one tile or counted among those without a sector.
ListsAgreeWithCounts ==
    LET full(list, count) == Len(list) = Min({count, ListLength})
        value(q) == served[q].value
    IN /\ Together("breadth", "short") =>
            full(value("short").gainers, value("breadth").advancers)
            /\ full(value("short").losers, value("breadth").decliners)
       /\ Together("summary", "members") =>
            LET sums == value("summary")
                page == value("members")
            IN /\ Len(page.constituents) = sums.count
               /\ full(page.gainers, sums.advancers) /\ full(page.losers, sums.decliners)
               /\ served["members"].at = synced =>
                     /\ sums.sector \in SectorNames => sectors[sums.sector].count = sums.count
                     /\ \A i \in DOMAIN page.losers, s \in MembersOf(sums.sector) :
                           Fell(s) /\ quoteOf(s).move < quoteOf(page.losers[i]).move =>
                               \E j \in 1..(i - 1) : page.losers[j] = s
       /\ Together("tiles", "rest") /\ served["rest"].at = synced =>
            LET onTiles == MapThenSumSet(LAMBDA n : value("tiles")[n].count, DOMAIN value("tiles"))
            IN onTiles + value("rest") \in Cardinality(OnTheBoard)..Cardinality(Listed)

\* A ranking is of those who earned it: every row is liquid, no liquid stock left out beats
\* a row of the list, and a stock without the figure is listed only when nobody with one is
\* left out; the ledger's pages hold each of its dividends once, and the next dividend and
\* the highest yield head their lists.
MoversAreEarned ==
    /\ \A type \in {"gainers", "losers", "active", "unusual"}, period \in {"1d", "1w"} :
          LET list == rankMovers(type, period).rows
              better(s, t) ==   \* by the figures themselves
                  LET r == periodReturn(s, period)
                      q == periodReturn(t, period)
                  IN CASE type = "gainers" -> r # NoFigure /\ (q = NoFigure \/ r > q)
                       [] type = "losers" -> r # NoFigure /\ (q = NoFigure \/ r < q)
                       [] type = "active" -> rowsOfStock[s][1].volume > rowsOfStock[t][1].volume
                       [] OTHER -> volumeMultiple(s) > volumeMultiple(t)
          IN /\ \A i \in DOMAIN list : rowsOfStock[list[i]][1].volume >= LiquidityFloor
             /\ \A i \in DOMAIN list, s \in Liquid :
                   better(s, list[i]) => \E j \in 1..(i - 1) : list[j] = s
    /\ \A least \in {NoFigure, 10} :
          LET pages == [p \in 1..Cardinality(LedgerRows) |-> dividendLedger(least, p).items]
              all == FlattenSeq(pages)
          IN Len(all) = dividendLedger(least, 1).total /\ Cardinality(ToSet(all)) = Len(all)
    /\ upcomingDividends # <<>> =>
          \A d \in LedgerRows : d.day >= Today => d.day >= upcomingDividends[1].day
    /\ highestYield # <<>> => \A s \in OnTheBoard : Yields[s] <= Yields[highestYield[1]]

---------------------------------------------------------------------------
(***************************************************************************)
(* What the status endpoint says of the exchange and of four datasets: is  *)
(* there a session, which was the last one, and is what is stored of it or *)
(* older.  It is asked while the clock runs, readings are written and the  *)
(* holiday list is re-read or cannot be read.                              *)
(*                                                                         *)
(* The clock counts slots; a day has DaySlots of them, and the window runs *)
(* from OpenSlot to CloseSlot.                                             *)
(***************************************************************************)
CONSTANTS
    FirstDay, LastDay,  \* the days the clock runs through
    DaySlots, OpenSlot, CloseSlot,
    Weekends,           \* the days that are a Saturday or a Sunday
    HolidayLists,       \* what the exchange may list
    DaysBack,           \* days the walk to the last session looks at
    LiveWithin,         \* slots a reading of an open session is live
    StaleAfter,         \* and after which it is stale
    EventCurrent        \* slots a dividend list is current

NoStamp == -99

ASSUME StatusAssumption ==
    /\ FirstDay \in Nat /\ LastDay \in Nat /\ FirstDay <= LastDay /\ DaysBack \in Nat \ {0}
    /\ 0 < OpenSlot /\ OpenSlot <= CloseSlot /\ CloseSlot < DaySlots
    /\ LiveWithin <= StaleAfter /\ \A list \in HolidayLists : list \subseteq Int

VARIABLES
    clock,      \* the slot it is
    holidays,   \* the days listed as holidays
    readable,   \* the list can be read
    stamps      \* when each dataset was last written; for candles, the session of the newest row

statusVars == <<clock, holidays, readable, stamps>>

Datasets == {"quotes", "candles", "dividends"}
StatusTypeOK ==
    /\ clock \in (FirstDay * DaySlots)..(LastDay * DaySlots + DaySlots - 1)
    /\ holidays \in HolidayLists /\ readable \in BOOLEAN /\ DOMAIN stamps = Datasets

\* Nothing was read yet, or everything on the first morning.
InitStatus ==
    /\ clock = FirstDay * DaySlots /\ holidays \in HolidayLists /\ readable \in BOOLEAN
    /\ stamps \in [Datasets -> {NoStamp, FirstDay * DaySlots}]

---------------------------------------------------------------------------
pktDay(slot) == slot \div DaySlots
slotOf(slot) == slot % DaySlots

tradingDayState(day) ==
    IF day \in Weekends THEN "weekend"
    ELSE IF ~readable THEN "unknown" ELSE IF day \in holidays THEN "holiday" ELSE "trading"

sessionPhase == IF slotOf(clock) < OpenSlot THEN "pre" ELSE IF slotOf(clock) <= CloseSlot THEN "open" ELSE "post"

\* An unreadable calendar leaves the weekday rule.
open == tradingDayState(pktDay(clock)) \notin {"holiday", "weekend"} /\ sessionPhase = "open"

sessionLabel ==
    LET state == tradingDayState(pktDay(clock))
    IN IF state \in {"holiday", "weekend"} THEN state
       ELSE CASE sessionPhase = "pre" -> "pre-open" [] sessionPhase = "open" -> "open" [] OTHER -> "post-close"

\* Today counts from the opening of the window on, if it may be a session.
walkFrom ==
    IF sessionPhase # "pre" /\ tradingDayState(pktDay(clock)) \notin {"holiday", "weekend"}
    THEN pktDay(clock) ELSE pktDay(clock) - 1

\* The first day of the walk back that is a session, as far as is known.
lastSessionDay ==
    LET found == {d \in (walkFrom - DaysBack + 1)..walkFrom : tradingDayState(d) \in {"trading", "unknown"}}
    IN IF found = {} THEN NoStamp ELSE Max(found)

beforeLastSession(day) == lastSessionDay # NoStamp /\ day < lastSessionDay

\* By age in an open session, by the session it covers otherwise.
classifyIntraday(asOf) ==
    LET age == clock - asOf
    IN CASE asOf = NoStamp -> "unavailable"
         [] asOf # NoStamp /\ age < 0 -> "live"
         [] asOf # NoStamp /\ age >= 0 /\ open ->
                IF age <= LiveWithin THEN "live" ELSE IF age <= StaleAfter THEN "delayed" ELSE "stale"
         [] OTHER -> IF beforeLastSession(pktDay(asOf)) THEN "stale" ELSE "end-of-day"

classifyDaily(day) ==
    IF day = NoStamp THEN "unavailable" ELSE IF beforeLastSession(day) THEN "stale" ELSE "end-of-day"

classifyEvent(asOf) ==
    IF asOf = NoStamp THEN "unavailable" ELSE IF clock - asOf <= EventCurrent THEN "end-of-day" ELSE "stale"

status ==
    [session |-> IF open THEN "open" ELSE "closed", label |-> sessionLabel, lastSessionDate |-> lastSessionDay,
     quotes |-> classifyIntraday(stamps["quotes"]),
     candles |-> classifyDaily(stamps["candles"]), dividends |-> classifyEvent(stamps["dividends"])]

---------------------------------------------------------------------------
SlotPasses == clock < LastDay * DaySlots + DaySlots - 1 /\ clock' = clock + 1 /\ UNCHANGED <<holidays, readable, stamps>>

\* The exchange lists a holiday or takes one back, and the list is read again; or it cannot be.
CalendarChanges ==
    /\ \E list \in HolidayLists, can \in BOOLEAN :
          <<list, can>> # <<holidays, readable>> /\ holidays' = list /\ readable' = can
    /\ UNCHANGED <<clock, stamps>>

\* A reading of quotes or of dividends, by a database whose clock may be ahead; a price row,
\* which a day without a session may also leave.
WriteStamp ==
    /\ \/ \E ahead \in {0, 1} : stamps' = [stamps EXCEPT !["quotes"] = clock + ahead]
       \/ \E day \in {pktDay(clock), walkFrom} :
             day > stamps["candles"] /\ stamps' = [stamps EXCEPT !["candles"] = day]
       \/ stamps' = [stamps EXCEPT !["dividends"] = clock]
    /\ UNCHANGED <<clock, holidays, readable>>

NextStatus == SlotPasses \/ CalendarChanges \/ WriteStamp

---------------------------------------------------------------------------
\* What is said agrees with the calendar as long as it can be read and the walk is long
\* enough: the last session is one that has begun, with none begun since; the market is open
\* exactly on a session's day inside the window; a closed day's quotes and any day's candles
\* are stale exactly when a session has begun after them; and in a session, quotes are live
\* or delayed only if they are of that session's day.
StatusIsOfTheSession ==
    LET begun == {d \in (pktDay(clock) - DaysBack)..pktDay(clock) :
                    d \notin Weekends \cup holidays
                    /\ (d < pktDay(clock) \/ slotOf(clock) >= OpenSlot)}
        behind(day) == \E d \in begun : d > day
        quotesDay == pktDay(stamps["quotes"])
    IN readable /\ begun # {} =>
        /\ status.lastSessionDate \in begun /\ ~behind(status.lastSessionDate)
        /\ status.session = "open" <=>
              pktDay(clock) \in begun /\ slotOf(clock) \in OpenSlot..CloseSlot
        /\ (stamps["quotes"] # NoStamp /\ stamps["quotes"] <= clock /\ status.session = "closed") =>
              (status.quotes = "stale" <=> behind(quotesDay))
        /\ stamps["candles"] # NoStamp => (status.candles = "stale" <=> behind(stamps["candles"]))
        /\ (status.session = "open" /\ status.quotes \in {"live", "delayed"}) => quotesDay = pktDay(clock)

=============================================================================
