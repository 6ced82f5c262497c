---------------------------- MODULE MCSessions ----------------------------
(***************************************************************************)
(* One small instance of each module about where a session's rows come     *)
(* from and what they leave: the holiday calendar, the index board and its *)
(* sources, the price rows, the quote poll, the index rosters, and the     *)
(* lists and the pages that are read elsewhere, and an alert over the      *)
(* prices.  A behaviour is one of them; the other modules' variables keep  *)
(* one initial value.                                                      *)
(***************************************************************************)
EXTENDS MarketCalendar, IndexBoard, QuoteRows, QuotePoll, IndexRoster, IndexFeeds, SourcePages,
        Alerts, TLC

VARIABLE part

Parts == {"calendar", "board", "quotes", "poll", "roster", "feeds", "lists", "pages", "alert"}

boardOnly == <<rows, claims, fired, pass, candle, closings>>
quotesOnly == <<quotes, poll, sync, bar, pages>>
sessionVars == <<calendarVars, boardVars, quoteVars, pollVars, rosterVars>>
elsewhere == <<feedVars, listVars, stockPageVars, alertVars>>
allVars == <<part, sessionVars, elsewhere>>

\* A weekend day and three weekdays across the turn of a year, and two lists
\* that disagree about one of them.
MCDates == 1..3
MCYearOf == [d \in MCDates |-> IF d = 1 THEN "old" ELSE "new"]
MCPublished == {<<"absent", "absent", "market">>, <<"absent", "absent", "partial">>}
Callers == Permutations(Readers)

---------------------------------------------------------------------------
(***************************************************************************)
(* What the sources of the board may answer with.                          *)
(***************************************************************************)
IndexSpelled(raw) ==
    CASE raw \in {"kse 100", "KSE100"} -> "KSE100" [] raw = "KMI30" -> "KMI30" [] OTHER -> "-"

Answer(shape, answered) == [shape |-> shape, rows |-> answered]
LevelOf(index, cell) == [symbol |-> index, level |-> cell]
HighOf(index, cell) == [symbol |-> index, high52 |-> cell]
NameOf(index, name) == [symbol |-> index, name |-> name]

\* An envelope of another shape, no level and no index, an index twice and a level of
\* words, a level of 0.
ViewsGiven ==
    {Answer("other", <<LevelOf("KSE100", Number(5))>>),
     Answer("array", <<LevelOf("KSE100", Blank), LevelOf("-", Number(4))>>),
     Answer("array", <<LevelOf("kse 100", Blank), LevelOf("KSE100", Number(1)),
                       LevelOf("KSE100", Number(2)), LevelOf("KMI30", Words)>>),
     Answer("nested", <<LevelOf("KMI30", Number(0)), LevelOf("KSE100", Number(2))>>)}
FeedsGiven ==
    {Answer("array", <<LevelOf("KSE100", Number(5))>>),
     Answer("nested", <<LevelOf("KMI30", Number(3)), LevelOf("kse 100", Blank)>>)}

\* An empty page, an index twice, blocks without a level or a heading.
CarouselsGiven ==
    {Answer("page", <<>>),
     Answer("page", <<LevelOf(Heading("kse 100"), Number(6)), LevelOf(Heading("KSE100"), Number(7)),
                      LevelOf(Heading("KMI30"), Words)>>),
     Answer("page", <<LevelOf(Heading("KSE100"), Gone), LevelOf(Heading("KMI30"), Number(8))>>),
     Answer("page", <<LevelOf(NoHeading, Gone), LevelOf(NoHeading, Number(3))>>)}
NamesGiven == {{NameOf("KSE100", 1)}, {NameOf("KSE100", 2), NameOf("KMI30", 3)}}
StatsGiven ==
    {<<>>, <<HighOf("KSE100", Number(9)), HighOf("KMI30", Blank)>>,
     <<HighOf("KMI30", Number(8)), HighOf("KMI30", Number(7))>>, <<HighOf("KSE100", Words)>>}

---------------------------------------------------------------------------
(***************************************************************************)
(* The lists.                                                              *)
(***************************************************************************)
StockSpelled(raw) ==
    CASE raw \in {"ogdc", "OGDC"} -> "OGDC" [] raw \in {"HBL", "MCB"} -> raw [] OTHER -> "-"
DaysOfMonth(year, month) == IF month = "february" THEN 28 ELSE 31

Cell(months, year, numbers, hijri, only) ==
    [months |-> months, year |-> year, numbers |-> numbers, hijri |-> hijri, only |-> only]
HolidayRow(serial, name, cell) == [serial |-> serial, name |-> name, cell |-> cell]

\* Days of two calendars in one cell between rows that are no holiday; a day the month
\* lacks, two months, no year; a day named for some of the market and for all of it.
HolidayTables ==
    {<<HolidayRow(FALSE, "No", Cell({}, 0, {}, {}, FALSE)),
       HolidayRow(TRUE, "Eid", Cell({"march"}, 2026, {21, 22, 23}, {1, 2, 3}, FALSE)),
       HolidayRow(FALSE, "total", Cell({}, 0, {3}, {}, FALSE))>>,
     <<HolidayRow(TRUE, "Kashmir", Cell({"february"}, 2026, {5, 30}, {}, FALSE)),
       HolidayRow(TRUE, "two", Cell({"march", "april"}, 2026, {31, 1}, {}, FALSE)),
       HolidayRow(TRUE, "no year", Cell({"march"}, 0, {9}, {}, FALSE))>>,
     <<HolidayRow(TRUE, "Christmas", Cell({"december"}, 2026, {25, 26}, {}, TRUE)),
       HolidayRow(TRUE, "Quaid", Cell({"december"}, 2026, {25}, {}, FALSE))>>}

MembersGiven ==
    {[shape |-> "refused", rows |-> <<>>], [shape |-> "garbled", rows |-> <<>>],
     [shape |-> "list", rows |-> <<>>],
     [shape |-> "list", rows |-> <<"ogdc", "-", "MCB", "OGDC", "HBL">>],
     [shape |-> "list", rows |-> <<"MCB">>]}

\* A figure of 0, one that is missing, a row of no symbol, a symbol twice.
Candle(symbol, open, close, volume) ==
    [symbol |-> symbol, open |-> open, close |-> close, volume |-> volume]
CandlesGiven ==
    {<<Candle("OGDC", 0, 3, 0), Candle("HBL", -1, -1, 5), Candle("-", 3, 3, 3)>>,
     <<Candle("ogdc", 0, 0, 0), Candle("OGDC", 2, 4, 1), Candle("OGDC", 3, 5, 1)>>,
     <<Candle("MCB", -1, 2, -1), Candle("HBL", 4, 0, 7)>>}
ThreeAsked == <<"OGDC", "HBL", "MCB">>

---------------------------------------------------------------------------
(***************************************************************************)
(* The pages of one symbol.                                                *)
(***************************************************************************)
Box(label, mentions, value) ==
    [label |-> label, mentions |-> mentions, value |-> value, low |-> Unstated, high |-> Unstated]
RangeBox(low, high) ==
    [label |-> {"range"}, mentions |-> {"low", "high"}, value |-> low, low |-> low, high |-> high]
PsxPage(name, badge, h1, sector, price, boxes) ==
    [name |-> name, badge |-> badge, h1 |-> h1, sector |-> sector, price |-> price, boxes |-> boxes]
SarmaayaPage(name, h1, sector, quote, pairs, boxes) ==
    [quoteName |-> name, h1 |-> h1, sector |-> sector, quote |-> quote, pairs |-> pairs,
     boxes |-> boxes]

\* A refusal's page; a range the wrong way round and a name in two places; a box that
\* mentions what it is not labelled for, and placeholders.
PsxGiven ==
    {PsxPage("", "", "Forbidden", "", Unstated, <<>>),
     PsxPage("Engro", "EngroDELISTED", "", "", 5,
             <<RangeBox(9, 4), Box({"volume"}, {}, 7), Box({"high"}, {}, 6), Box({"low"}, {}, 3),
               Box({"cap"}, {}, 2)>>),
     PsxPage("", "DELISTED", "", "Banks", 5,
             <<Box({}, {"high", "low", "cap"}, 8), Box({"high"}, {}, 6), RangeBox(0, 0),
               Box({"cap"}, {}, 0)>>)}

\* With the embedded quote and without.
SarmaayaGiven ==
    {SarmaayaPage("Engro", "", "Fertilizer",
                  [close |-> 5, high |-> 7, low |-> 4, volume |-> 9, cap |-> 4000, low52 |-> 0,
                   high52 |-> 9], <<<<1>>, <<3, 8>>>>, <<>>),
     SarmaayaPage("", "Engro", "", <<>>, <<<<9, 2, 8>>>>,
                  <<Box({}, {"price", "high", "volume"}, 8), Box({"high"}, {}, 6)>>)}
FundamentalsGiven == {[company |-> "", sector |-> "Cement"], [company |-> "", sector |-> ""]}

---------------------------------------------------------------------------
Init ==
    /\ part \in Parts
    /\ InitCalendar /\ InitQuotes /\ InitPoll /\ InitRoster
    /\ InitBoard /\ (part # "board" => rows[0] = NoRow)
    /\ InitFeeds /\ InitLists
    /\ InitStockPages /\ (part # "pages" => enabled = Scrapers)
    /\ InitAlerts /\ kind = "price"     \* the kinds differ in what triggers them only
    /\ part # "alert" => ~condition

Next ==
    /\ UNCHANGED part
    /\ \/ /\ part = "calendar" /\ NextCalendar
          /\ UNCHANGED <<boardVars, quotesOnly, pollVars, rosterVars, elsewhere>>
       \/ /\ part = "board" /\ NextBoard
          /\ UNCHANGED <<calendarVars, quotesOnly, pollVars, rosterVars, elsewhere>>
       \/ /\ part = "quotes" /\ NextQuotes
          /\ faults' = 0     \* the rows promise nothing while the calendar cannot be read
          /\ UNCHANGED <<calendarVars, boardOnly, pollVars, rosterVars, elsewhere>>
       \/ /\ part = "poll" /\ NextPoll
          /\ UNCHANGED <<calendarVars, boardVars, quotesOnly, rosterVars, elsewhere>>
       \/ /\ part = "roster" /\ NextRoster
          /\ UNCHANGED <<calendarVars, boardVars, quotesOnly, pollVars, elsewhere>>
       \/ /\ part = "feeds" /\ NextFeeds
          /\ UNCHANGED <<sessionVars, listVars, stockPageVars, alertVars>>
       \/ /\ part = "lists" /\ NextLists
          /\ UNCHANGED <<sessionVars, feedVars, stockPageVars, alertVars>>
       \/ /\ part = "pages" /\ NextStockPages
          /\ UNCHANGED <<sessionVars, feedVars, listVars, alertVars>>
       \/ /\ part = "alert" /\ NextAlerts
          /\ UNCHANGED <<sessionVars, feedVars, listVars, stockPageVars>>

Spec == Init /\ [][Next]_allVars

\* The type invariants of all of them.
TypeOK ==
    /\ CalendarTypeOK /\ BoardTypeOK /\ QuotesTypeOK /\ PollTypeOK /\ RosterTypeOK
    /\ FeedsTypeOK /\ ListReadsTypeOK /\ StockPagesTypeOK /\ AlertsTypeOK

\* The clock is shared with the price rows: the board's promise about time is
\* about the behaviours in which the board runs.
BoardSettles == part = "board" => SettledCloseLands

\* Of what is read on other people's pages, the board's sources, the lists and one
\* symbol's pages: what is handed on is on the page it is said to be of.
PagesAreAsPublished ==
    /\ part = "feeds" => BoardIsAsPublished
    /\ part = "lists" => ListsAreAsPublished
    /\ part = "pages" => ScrapeIsOfThePages

=============================================================================
