------------------------------- MODULE MCReads -------------------------------
(***************************************************************************)
(* One small instance of each module about what readers are served: the    *)
(* return calculator and its comparison, the performance card, the board   *)
(* of indicators, the stock list, the candles and their indicator lines,   *)
(* beta, the fundamentals score, and the pages they are read on.  A        *)
(* behaviour is one of them; the other modules' variables keep one initial *)
(* value.                                                                  *)
(***************************************************************************)
EXTENDS Roi, Performance, Listing, Candles, Insights, Search, MarketViews, IndexPages,
        DeviceLists, AlertDesk

VARIABLE part

Parts == {"roi", "compare", "card", "board", "list", "candles", "beta", "insights",
          "search", "screens", "market", "status", "index", "lines", "device", "alerts"}

allVars == <<part, roiVars, compareVars, performanceVars, technicalVars, listingVars,
             candleVars, betaVars, insightVars, searchVars, screenVars,
             marketViewsVars, statusVars, indexPageVars, comparisonVars,
             deviceVars, alertDeskVars>>

---------------------------------------------------------------------------
(***************************************************************************)
(* The modules a behaviour is not about.                                   *)
(***************************************************************************)
NoRoi == /\ asked = [mode |-> "single"] /\ date = NoDay /\ money = Purse

NoCard ==
    /\ stored = [close |-> [d \in Calendar |-> 1], index |-> [d \in Calendar |-> 1],
                 splits |-> {}, exDate |-> 0, back |-> 1]
    /\ day = -1 /\ holder = NoHolder /\ curve = NoCurve

NoList ==
    /\ figure = [t \in Tickers |-> Dash] /\ members = [list \in Lists |-> Tickers]
    /\ question = [list |-> "kse100", order |-> "asc", page |-> 1]
    /\ answers = <<>> /\ asking = <<>> /\ requests = 0 /\ changed = 0

\* A tie that two pages share, of missing values.
AFigure == figure = <<1, 0, 0>>

Ratios(roe, roic, pe, growth) ==
    [roe |-> roe, roic |-> roic, peRatio |-> pe, epsGrowth |-> growth]

\* The rest of the sector: two companies with and without some of the ratios.
Sectors == {[x |-> Ratios(2, -1, 2, 2), y |-> Ratios(3, -1, -1, 1)],
            [x |-> Ratios(1, 1, 1, -1), y |-> Ratios(1, 2, 3, 3)]}
OwnRatios == {Ratios(-1, -1, -1, -1), Ratios(1, 1, 3, 1), Ratios(3, 3, 1, 3)}

NoScore ==
    /\ financial = FALSE /\ own = Ratios(1, 1, 3, 1) /\ sign = "profit"
    /\ sector = (CHOOSE s \in Sectors : TRUE) /\ peerStats = <<>> /\ written = 0

\* A form being typed in.
NoScreener == url = Blank /\ draft = <<>> /\ edited = TRUE

SessionsOf == [sma |-> 2, ema |-> 2, rsi |-> 1, fast |-> 1, slow |-> 2, signal |-> 2,
               bb |-> 2, atr |-> 2, relvol |-> 1]

\* What can be typed: a letter, a symbol and the beginning of a name that holds none.
Typed == {"", "h", "hb", "hbl"}
LengthOf == ("" :> 0) @@ ("h" :> 1) @@ ("hb" :> 2) @@ ("hbl" :> 2)
SpellsOf == ("" :> "-") @@ ("h" :> "-") @@ ("hb" :> "-") @@ ("hbl" :> "HBL")
LikeOf == ("" :> {}) @@ ("h" :> {"HBL"}) @@ ("hb" :> {"HBL", "HBX"}) @@ ("hbl" :> {"HBL", "HBX"})

\* Companies with and without each figure.
Company(pe, change, week, month, above, shariah) ==
    [pe |-> pe, change |-> change, ret |-> [p \in {"1w", "1m"} |-> IF p = "1w" THEN week ELSE month],
     above |-> above, shariah |-> shariah]
Companies == <<Company(-2, 2, 3, -1, "yes", TRUE), Company(5, 0, -1, 3, "no", TRUE),
               Company(Unpublished, 3, 3, Unpublished, "unknown", FALSE),
               Company(20, Unpublished, 3, 3, "yes", FALSE), Company(4, 1, 3, 3, "yes", FALSE)>>
BoundsGiven == {-3, 2}

\* Stocks that rise and fall, one whose move nobody published, rows without a price.
Session(price, move, volume) == [price |-> price, move |-> move, volume |-> volume]
BoardsStored ==
    {<< <<Session(10, -2, 5), Session(12, 1, 5), Session(8, 0, 5)>>,
        <<Session(10, -1, 5), Session(9, 1, 5)>>,
        <<Session(10, 3, 1), Session(12, 1, 5), Session(8, 0, 5)>>,
        <<Session(10, NoFigure, 9), Session(20, 1, 5), Session(0, 0, 0)>> >>}
RowsWritten == {Session(NoFigure, NoFigure, NoFigure), Session(10, -3, 5),
                Session(10, NoFigure, 5), Session(9, 0, 7), Session(11, 4, NoFigure)}
Declared(stock, on, amount) == [stock |-> stock, day |-> on, amount |-> amount]
Dividends == {Declared(1, 1, 1), Declared(1, 5, 1), Declared(2, 5, 3), Declared(3, 9, 1)}
YieldsStated == <<3, NoFigure, 5, 0>>

NoMarket == rowsOfStock = <<>> /\ sectorOf = <<>> /\ synced = 0 /\ served = <<>>

NoStatus == clock = 0 /\ holidays = {} /\ readable = FALSE /\ stamps = <<>>

MovesStated == {NotStated, 1}
NoIndex ==
    /\ instant = 0 /\ dayRows = <<>> /\ live = NoReading /\ volumeOf = <<>>
    /\ volumeCache = <<>> /\ indexWrites = 0

\* One row, none, a day without a close, a day twice, and windows that meet in part.
RowOn(on, price) == [day |-> on, close |-> price]
HistoriesStored ==
    {<<>>, <<RowOn(1, 4)>>, <<RowOn(1, 2), RowOn(2, 4), RowOn(3, 1), RowOn(4, 3)>>,
     <<RowOn(1, 3), RowOn(2, NoPrice), RowOn(3, 2), RowOn(3, 4)>>,
     <<RowOn(2, 4), RowOn(3, 2), RowOn(4, 4), RowOn(5, 1)>>,
     <<RowOn(3, 1), RowOn(4, 2), RowOn(5, 4), RowOn(6, 3)>>, <<RowOn(6, 1), RowOn(7, 2)>>}
NoDevice ==
    /\ storage = <<>> /\ watched = <<>> /\ refusing = FALSE /\ tab = <<>>
    /\ unheard = {} /\ told = {} /\ lastStar = "none" /\ writes = 0
NoAlertDesk ==
    /\ alerts = <<>> /\ deviceToken = 1 /\ shown = NotLoaded /\ listAsk = Unasked /\ calls = {}
    /\ deleting = 0 /\ count = 0 /\ unsure = FALSE

\* Names that differ in case only.
LowerCase(name) == IF name = "Mine" THEN "mine" ELSE name

NoLines == rowsStored = [s \in Compared |-> <<>>] /\ comparison = NoComparison

Init ==
    /\ part \in Parts
    /\ InitCompare /\ InitTechnical /\ InitCandles /\ InitBeta /\ InitSearch
    /\ part # "compare" => lag = 0
    /\ IF part = "roi" THEN InitRoi ELSE NoRoi
    /\ IF part = "card" THEN InitPerformance ELSE NoCard
    /\ IF part = "list" THEN InitListing /\ AFigure ELSE NoList
    /\ IF part = "insights" THEN InitInsights ELSE NoScore
    /\ IF part = "screens" THEN InitScreens ELSE NoScreener
    /\ IF part = "market" THEN InitMarketViews ELSE NoMarket
    /\ IF part = "status" THEN InitStatus ELSE NoStatus
    /\ IF part = "index" THEN InitIndexPages ELSE NoIndex
    /\ IF part = "lines" THEN InitComparison ELSE NoLines
    /\ IF part = "device" THEN InitDevice ELSE NoDevice
    /\ IF part = "alerts" THEN InitAlertDesk ELSE NoAlertDesk

\* The behaviour is about p: the other modules stand still.
Only(p) ==
    /\ part = p /\ UNCHANGED part
    /\ IF p = "roi" THEN TRUE ELSE UNCHANGED roiVars
    /\ IF p = "compare" THEN TRUE ELSE UNCHANGED compareVars
    /\ IF p = "card" THEN TRUE ELSE UNCHANGED performanceVars
    /\ IF p = "board" THEN TRUE ELSE UNCHANGED technicalVars
    /\ IF p = "list" THEN TRUE ELSE UNCHANGED listingVars
    /\ IF p = "candles" THEN TRUE ELSE UNCHANGED candleVars
    /\ IF p = "beta" THEN TRUE ELSE UNCHANGED betaVars
    /\ IF p = "insights" THEN TRUE ELSE UNCHANGED insightVars
    /\ IF p = "search" THEN TRUE ELSE UNCHANGED searchVars
    /\ IF p = "screens" THEN TRUE ELSE UNCHANGED screenVars
    /\ IF p = "market" THEN TRUE ELSE UNCHANGED marketViewsVars
    /\ IF p = "status" THEN TRUE ELSE UNCHANGED statusVars
    /\ IF p = "index" THEN TRUE ELSE UNCHANGED indexPageVars
    /\ IF p = "lines" THEN TRUE ELSE UNCHANGED comparisonVars
    /\ IF p = "device" THEN TRUE ELSE UNCHANGED deviceVars
    /\ IF p = "alerts" THEN TRUE ELSE UNCHANGED alertDeskVars

Next ==
    \/ Only("roi") /\ NextRoi
    \/ Only("compare") /\ NextCompare
    \/ Only("card") /\ NextPerformance
    \/ Only("board") /\ NextTechnical
    \/ Only("list") /\ NextListing
    \/ Only("candles") /\ NextCandles
    \/ Only("beta") /\ NextBeta
    \/ Only("insights") /\ NextInsights
    \/ Only("search") /\ NextSearch
    \/ Only("screens") /\ NextScreens
    \/ Only("market") /\ NextMarketViews
    \/ Only("status") /\ NextStatus
    \/ Only("index") /\ NextIndexPages
    \/ Only("lines") /\ NextComparison
    \/ Only("device") /\ NextDevice
    \/ Only("alerts") /\ NextAlertDesk

---------------------------------------------------------------------------
InBoard(A) == Only("board") /\ A

\* Readers keep asking for the indicators, a build that does not fail comes to its
\* end, and five minutes pass.
Spec ==
    /\ Init /\ [][Next]_allVars
    /\ WF_allVars(InBoard(readUniverse))
    /\ WF_allVars(InBoard(buildUniverse \/ FinishBuild))
    /\ WF_allVars(InBoard(Age))

\* The type invariants of all of them.
TypeOK ==
    /\ RoiTypeOK /\ CompareTypeOK /\ PerformanceTypeOK /\ TechnicalTypeOK /\ ListingTypeOK
    /\ CandlesTypeOK /\ BetaTypeOK /\ InsightsTypeOK /\ SearchTypeOK /\ ScreensTypeOK
    /\ part = "market" => MarketViewsTypeOK
    /\ part = "status" => StatusTypeOK
    /\ part = "index" => IndexPagesTypeOK
    /\ ComparisonTypeOK /\ DeviceListsTypeOK /\ AlertDeskTypeOK

\* Of the performance card: the total return is what a holder made.
CardHolds == part = "card" => ReturnIsTheHolders

\* Of compared purchases: each is of the same two sessions.
PurchasesAreAlike == part = "compare" => ComparedAlike

\* Of a chart: it is of the share, and no line over it starts early.
ChartHolds == part = "candles" => ChartIsOfTheShare

\* Of the measured beta: a session without a close changes nothing.
BetaHolds == part = "beta" => BetaIgnoresGaps

\* Of the fundamentals score: it is between its pillars and no loss is rated strong.
ScoreHolds == part = "insights" => ScoreIsEarned

\* Of the market's and an index's pages: the lists beside the counts and the tiles that
\* lead to them, read of one board, agree with them; a ranking's row earned its place; what
\* the status endpoint says agrees with the exchange's calendar; the figures of a summary
\* belong together; and compared lines are of the same sessions.
MarketPagesHold ==
    /\ part = "market" => ListsAgreeWithCounts /\ MoversAreEarned
    /\ part = "status" => StatusIsOfTheSession
    /\ part = "index" => SummaryIsOfItsDay
    /\ part = "lines" => LinesAreAligned

\* Of the lists a browser keeps or has fetched: the tabs of a device agree on them once
\* they have heard of each other's writes, and the list of alerts is the server's.
BrowserListsHold ==
    /\ part = "device" => TabsAgree
    /\ part = "alerts" => ListIsHeld

=============================================================================
