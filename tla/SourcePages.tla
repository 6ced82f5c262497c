----------------------------- MODULE SourcePages ------------------------------
(***************************************************************************)
(* Three lists read from other people's pages: the exchange's holidays,    *)
(* the members of the KSE-100, and the session's candles of the symbols    *)
(* asked for, some at a time.  Each page may not answer, or answer with    *)
(* something else; a row that cannot be read is skipped.  What is handed   *)
(* on is what the calendar, the rosters and the session's rows build on.   *)
(*                                                                         *)
(* The pages of one symbol are below them.                                 *)
(***************************************************************************)
EXTENDS Integers, FiniteSets, SequencesExt

CONSTANTS
    HolidayPages,   \* tables the exchange may publish
    DaysOf(_, _),   \* days of a year's month
    MemberLists,    \* what the members' site may answer with
    Tracks,         \* symbols with a stock
    SymbolOf(_),    \* the symbol a spelling means, or Nobody
    Nobody,
    Asked,          \* symbols candles are asked for, in order
    BatchSize,      \* symbols per request
    CandlePages     \* what the scanner may answer a request with

ASSUME ListReadsAssumption == BatchSize \in Nat \ {0} /\ Nobody \notin Tracks

NoFigureRead == -1      \* null
Failure == "failure"    \* the read threw

VARIABLES
    holidayRead,    \* the table asked for, and what was made of it
    memberRead,     \* the members
    breaker,        \* what the members' source was last recorded as
    candleRead      \* the batches answered so far, and the candles

listVars == <<holidayRead, memberRead, breaker, candleRead>>

NotRead == [page |-> <<>>, got |-> <<>>, done |-> FALSE, threw |-> FALSE]

ListReadsTypeOK ==
    /\ breaker \in {"fine", "failed"} /\ candleRead.next \in 1..Len(Asked) + BatchSize
    /\ {holidayRead.done, holidayRead.threw, memberRead.done, memberRead.threw} \subseteq BOOLEAN

InitLists ==
    /\ holidayRead = NotRead /\ memberRead = NotRead /\ breaker = "fine"
    /\ candleRead = [next |-> 1, answers |-> <<>>, got |-> <<>>]

\* Rows in order, the first of each key.
firstOfEach(rows, Key(_)) ==
    FoldLeft(LAMBDA kept, r : IF \E i \in DOMAIN kept : Key(kept[i]) = Key(r) THEN kept ELSE Append(kept, r),
             <<>>, rows)

---------------------------------------------------------------------------
(***************************************************************************)
(* The holidays.  A cell: the months it names, its last year (0 for none), *)
(* the numbers outside parentheses and those within.                       *)
(***************************************************************************)
\* The dates a cell names: none unless it names one month and a year; a number that is
\* no day of that month is none of them.
datesInCell(cell) ==
    IF Cardinality(cell.months) # 1 \/ cell.year = 0 THEN {}
    ELSE LET month == CHOOSE m \in cell.months : TRUE
         IN {[year |-> cell.year, month |-> month, day |-> d] :
                d \in cell.numbers \cap (1..DaysOf(cell.year, month))}

\* A holiday per date, the first row that names it; a row without a serial number, the
\* header and the total are none.
parseHolidayTable(rows) ==
    LET held == SelectSeq(rows, LAMBDA r : r.serial /\ r.name \notin {"", "total"})
        named == UNION {datesInCell(held[i].cell) : i \in DOMAIN held}
        first(d) == held[Min({i \in DOMAIN held : d \in datesInCell(held[i].cell)})]
    IN [d \in named |-> [name |-> first(d).name, partial |-> first(d).cell.only]]

\* A table without a holiday is a table that was not read.
fetchPsxHolidays(page) ==
    /\ ~holidayRead.done
    /\ LET got == parseHolidayTable(page)
       IN holidayRead' = [page |-> page, got |-> got, done |-> TRUE, threw |-> DOMAIN got = {}]
    /\ UNCHANGED <<memberRead, breaker, candleRead>>

---------------------------------------------------------------------------
(***************************************************************************)
(* The members of the KSE-100.                                             *)
(***************************************************************************)
\* A payload that is not the expected list throws; a row without a symbol is dropped.
parseKse100(payload) ==
    LET read == SelectSeq(payload.rows, LAMBDA r : SymbolOf(r) # Nobody)
    IN firstOfEach([i \in DOMAIN read |-> SymbolOf(read[i])], LAMBDA s : s)

\* The members that are tracked, with their places in the list as published.
membersOf(list) ==
    {[symbol |-> list[i], position |-> i] : i \in {j \in DOMAIN list : list[j] \in Tracks}}

\* Only an answer that says no, or none, counts against the source; one that cannot be
\* read says nothing of it, and an empty list is a failure of the pass.
syncKse100Membership(payload) ==
    /\ ~memberRead.done
    /\ LET list == IF payload.shape = "list" THEN parseKse100(payload) ELSE <<>>
       IN memberRead' = [page |-> payload, got |-> membersOf(list), done |-> TRUE, threw |-> list = <<>>]
    /\ breaker' = CASE payload.shape = "refused" -> "failed"
                    [] payload.shape = "list" -> "fine"
                    [] OTHER -> breaker
    /\ UNCHANGED <<holidayRead, candleRead>>

---------------------------------------------------------------------------
(***************************************************************************)
(* The candles.                                                            *)
(***************************************************************************)
\* A number over zero; anything else is no price.  A session may trade nothing.
priceCell(cell) == IF cell > 0 THEN cell ELSE NoFigureRead
volumeCell(cell) == IF cell >= 0 THEN cell ELSE NoFigureRead

candleOf(r) == [symbol |-> SymbolOf(r.symbol), open |-> priceCell(r.open),
                close |-> priceCell(r.close), volume |-> volumeCell(r.volume)]

\* A candle without any price is none, and leaves the symbol to a later row.
parseTradingViewCandles(rows) ==
    firstOfEach(SelectSeq([i \in DOMAIN rows |-> candleOf(rows[i])],
                          LAMBDA c : c.symbol # Nobody /\ {c.open, c.close} # {NoFigureRead}),
                LAMBDA c : c.symbol)

\* The next batch is asked for; one that is not answered leaves the others.
fetchTradingViewCandles(rows) ==
    /\ candleRead.next <= Len(Asked)
    /\ candleRead' = [next |-> candleRead.next + BatchSize, answers |-> Append(candleRead.answers, rows),
                      got |-> candleRead.got \o parseTradingViewCandles(rows)]
    /\ UNCHANGED <<holidayRead, memberRead, breaker>>

NextLists ==
    \/ \E page \in HolidayPages \cup {<<>>} : fetchPsxHolidays(page)
    \/ \E payload \in MemberLists : syncKse100Membership(payload)
    \/ \E rows \in CandlePages \cup {<<>>} : fetchTradingViewCandles(rows)

---------------------------------------------------------------------------
\* A list handed on is the page's.  Every holiday is a date that a row names outside its
\* parentheses, in the only month the row names, and a closure of the whole market where
\* the first such row is one; no such date is left out, and a page without one throws.
\* The members are the tracked symbols, each once and no two in one place, in the order
\* the site lists them; nothing is handed on of a list without any.  A candle has a
\* price, no figure of it is a gap that was read as zero, and there is one of every
\* symbol an answered batch prices.
ListsAreAsPublished ==
    /\ holidayRead.done =>
          LET rows == holidayRead.page
              Names(i, d) == /\ rows[i].serial /\ rows[i].name \notin {"", "total"}
                             /\ rows[i].cell.months = {d.month} /\ rows[i].cell.year = d.year
                             /\ d.day \in rows[i].cell.numbers
          IN /\ \A d \in DOMAIN holidayRead.got :
                   /\ d.day \in 1..DaysOf(d.year, d.month)
                   /\ \E i \in DOMAIN rows :
                         /\ Names(i, d) /\ \A j \in 1..i - 1 : ~Names(j, d)
                         /\ holidayRead.got[d].partial = rows[i].cell.only
             /\ \A i \in DOMAIN rows : \A n \in rows[i].cell.numbers, m \in rows[i].cell.months :
                   LET d == [year |-> rows[i].cell.year, month |-> m, day |-> n]
                   IN d.year # 0 /\ Names(i, d) /\ n \in 1..DaysOf(d.year, m) => d \in DOMAIN holidayRead.got
             /\ holidayRead.threw <=> DOMAIN holidayRead.got = {}
    /\ memberRead.done =>
          LET got == memberRead.got
          IN /\ \A a, b \in got : a.symbol = b.symbol \/ a.position = b.position => a = b
             /\ \A s \in Tracks : (\E a \in got : a.symbol = s) <=>
                   memberRead.page.shape = "list" /\ \E i \in DOMAIN memberRead.page.rows : SymbolOf(memberRead.page.rows[i]) = s
             /\ memberRead.threw => got = {}
    /\ \A i \in DOMAIN candleRead.got :
          LET c == candleRead.got[i]
          IN /\ c.open # 0 /\ c.close # 0 /\ (c.open # NoFigureRead \/ c.close # NoFigureRead)
             /\ \E b \in DOMAIN candleRead.answers : \E j \in DOMAIN candleRead.answers[b] :
                   candleOf(candleRead.answers[b][j]) = c
    /\ \A b \in DOMAIN candleRead.answers : \A j \in DOMAIN candleRead.answers[b] :
          LET r == candleRead.answers[b][j]
          IN SymbolOf(r.symbol) # Nobody /\ r.close > 0 =>
                \E i \in DOMAIN candleRead.got : candleRead.got[i].symbol = SymbolOf(r.symbol)

---------------------------------------------------------------------------
(***************************************************************************)
(* What a sync reads of one symbol: the exchange's company page and        *)
(* Sarmaaya's, each in a browser, and Sarmaaya's fundamentals.  A page's   *)
(* figure is that of the box labelled for it, or of the quote embedded in  *)
(* the page; the answers are merged when all have settled.  A refusal that *)
(* is neither "not found" nor the server's own fault is a page like any    *)
(* other, with nothing on it but a heading.                                *)
(***************************************************************************)
CONSTANTS
    PsxPages,       \* company pages
    SarmaayaPages,  \* Sarmaaya's
    FundamentalsSay \* the name and the sector of the fundamentals, or neither

Unstated == -1      \* null; the text of a figure is a number, or Unstated
NoName == ""

VARIABLES
    enabled,    \* the providers this deployment asks
    settled,    \* how each scraper's request ended, and with which page
    scraped     \* what the merge made of them

stockPageVars == <<enabled, settled, scraped>>

Scrapers == {"psx", "sarmaaya", "fundamentals"}
Waiting == [end |-> "waiting", page |-> <<>>]
NotScraped == [end |-> "none"]
Labelled == {"volume", "high", "low", "open", "cap"}

StockPagesTypeOK ==
    /\ enabled \subseteq Scrapers
    /\ \A p \in Scrapers : settled[p].end \in {"waiting", "read", "invalid", "unavailable", "timeout"}
    /\ scraped.end \in {"none", "invalid", "failed", "merged"}

InitStockPages ==
    /\ enabled \in SUBSET Scrapers
    /\ settled = [p \in Scrapers |-> Waiting] /\ scraped = NotScraped

---------------------------------------------------------------------------
(***************************************************************************)
(* A figure.                                                               *)
(***************************************************************************)
firstStated(first, second) == IF first # Unstated THEN first ELSE second
firstNamed(first, second) == IF first # NoName THEN first ELSE second

\* Published in thousands; a zero is a placeholder.
toMarketCapRupees(n) == IF n > 0 THEN 1000 * n ELSE Unstated

\* The two ends in their order, a placeholder zero dropped; one that is missing stays so.
parseWeek52Range(pair) ==
    LET positive(n) == IF n > 0 THEN n ELSE Unstated
        a == positive(pair.low)
        b == positive(pair.high)
    IN IF a # Unstated /\ b # Unstated /\ b < a THEN [low |-> b, high |-> a]
       ELSE [low |-> a, high |-> b]

\* Of the boxes, the value of the first whose own label says the word.
firstOf(boxes, word) ==
    LET at == {i \in DOMAIN boxes : word \in boxes[i].label}
    IN IF at = {} THEN [value |-> Unstated, low |-> Unstated, high |-> Unstated]
       ELSE boxes[CHOOSE i \in at : \A j \in at : i <= j]

---------------------------------------------------------------------------
(***************************************************************************)
(* The two pages.                                                          *)
(***************************************************************************)
\* Sarmaaya's: the first node that mentions the word anywhere, a container of others too.
byLabel(boxes, word) ==
    LET at == {i \in DOMAIN boxes : word \in boxes[i].label \cup boxes[i].mentions}
    IN IF at = {} THEN Unstated ELSE boxes[CHOOSE i \in at : \A j \in at : i <= j].value

\* The exchange's: read from the box that owns the label.
labelledValue(boxes, word) == firstOf(boxes, word).value

\* The exchange's name without the badge behind it, unless nothing would be left.
\* (The page's heading or title stands in where it has no name.)
companyName(page) == IF page.name # NoName THEN page.name ELSE page.badge

\* The range is of its own box: from its attributes, or the text it shows.
extractPsxPageData(page) ==
    [company |-> firstNamed(companyName(page), page.h1),
     sector |-> page.sector,
     range |-> parseWeek52Range(firstOf(page.boxes, "range")),
     figures |-> [f \in Labelled |->
         LET read == labelledValue(page.boxes, f)
         IN IF f = "cap" THEN toMarketCapRupees(read) ELSE read],
     price |-> page.price]

\* The first label of a range with two numbers in its box.
labelledPair(pairs) ==
    LET at == {i \in DOMAIN pairs : Len(pairs[i]) >= 2}
        p == pairs[CHOOSE i \in at : \A j \in at : i <= j]
    IN IF at = {} THEN [low |-> Unstated, high |-> Unstated]
       ELSE [low |-> p[Len(p) - 1], high |-> p[Len(p)]]

\* The embedded quote first; without it, or a field of it, what a label is beside.
extractSarmaayaPageData(page) ==
    LET q == page.quote
        text(f) == IF f \in DOMAIN q THEN q[f] ELSE Unstated
        pair == labelledPair(page.pairs)
    IN [company |-> firstNamed(page.quoteName, page.h1),
        sector |-> page.sector,
        range |-> parseWeek52Range([low |-> firstStated(text("low52"), pair.low),
                                    high |-> firstStated(text("high52"), pair.high)]),
        figures |-> [f \in Labelled |-> firstStated(text(f), byLabel(page.boxes, f))],
        price |-> firstStated(text("close"), byLabel(page.boxes, "price"))]

---------------------------------------------------------------------------
settles(p, how) ==
    /\ p \in enabled /\ settled[p] = Waiting /\ settled' = [settled EXCEPT ![p] = how]
    /\ UNCHANGED <<enabled, scraped>>

\* Not found, the server's fault, a time-out, or the page; the fundamentals never say
\* that there is no such symbol.
run(p, pages) ==
    \/ \E end \in {"unavailable", "timeout"} : settles(p, [end |-> end, page |-> <<>>])
    \/ p # "fundamentals" /\ settles(p, [end |-> "invalid", page |-> <<>>])
    \/ \E page \in pages : settles(p, [end |-> "read", page |-> page])

\* The exchange's price block if its page was read, whatever is in it; range and cap
\* field by field; name and sector of the first that has one, and whose it is.
mergedScrape ==
    LET Read(p) == settled[p].end = "read"
        Nothing == [company |-> NoName, sector |-> NoName, price |-> Unstated,
                    range |-> [low |-> Unstated, high |-> Unstated],
                    figures |-> [f \in Labelled |-> Unstated]]
        psx == IF Read("psx") THEN extractPsxPageData(settled["psx"].page) ELSE Nothing
        sarmaaya == IF Read("sarmaaya") THEN extractSarmaayaPageData(settled["sarmaaya"].page) ELSE Nothing
        other == IF Read("fundamentals") THEN settled["fundamentals"].page ELSE Nothing
        block == IF Read("psx") THEN psx ELSE sarmaaya
    IN [end |-> "merged",
        company |-> firstNamed(psx.company, firstNamed(sarmaaya.company, other.company)),
        sector |-> firstNamed(psx.sector, firstNamed(sarmaaya.sector, other.sector)),
        sectorSource |-> IF psx.sector # NoName THEN "psx" ELSE IF sarmaaya.sector # NoName THEN "sarmaaya"
                         ELSE IF other.sector # NoName THEN "fundamentals" ELSE "none",
        price |-> block.price,
        range |-> [low |-> firstStated(psx.range.low, sarmaaya.range.low),
                   high |-> firstStated(psx.range.high, sarmaaya.range.high)],
        figures |-> [block.figures EXCEPT !.cap = firstStated(psx.figures.cap, sarmaaya.figures.cap)]]

\* Once all asked have settled: an invalid symbol only if every one of them says so.
scrapeStock ==
    /\ scraped = NotScraped /\ \A p \in enabled : settled[p] # Waiting
    /\ scraped' = IF \E p \in enabled : settled[p].end = "read" THEN mergedScrape
                  ELSE IF \A p \in enabled : settled[p].end = "invalid" THEN [end |-> "invalid"]
                  ELSE [end |-> "failed"]
    /\ UNCHANGED <<enabled, settled>>

NextStockPages ==
    \/ run("psx", PsxPages) \/ run("sarmaaya", SarmaayaPages) \/ run("fundamentals", FundamentalsSay)
    \/ scrapeStock

---------------------------------------------------------------------------
\* What a scrape says is on the pages.  A symbol is given up only when every source that
\* was asked says there is none.  On the exchange's page each figure is of the box that
\* is labelled for it, the cap in rupees, and none is borrowed from another; a figure of
\* the other page is of its embedded quote, where it has one that states it; the sector
\* is that of the source named beside it; and a range read of one page is of that page's
\* range box or quote, in order, and has no placeholder.
ScrapeIsOfThePages ==
    LET psx == settled["psx"]
        sarmaaya == settled["sarmaaya"]
        Read(p) == settled[p].end = "read"
        Own(f) == {b \in Range(psx.page.boxes) : f \in b.label}
        Quoted(f) == f \in DOMAIN sarmaaya.page.quote
        Ends == (IF Read("psx") THEN UNION {{b.low, b.high} : b \in Own("range")} ELSE {})
                \cup (IF Read("sarmaaya") THEN {sarmaaya.page.quote[g] : g \in {"low52", "high52"} \cap DOMAIN sarmaaya.page.quote}
                                             \cup UNION {Range(p) : p \in Range(sarmaaya.page.pairs)} ELSE {})
    IN /\ scraped.end = "invalid" => \A p \in enabled : settled[p].end = "invalid"
       /\ scraped.end = "failed" => \A p \in enabled : ~Read(p)
       /\ scraped.end = "merged" =>
             /\ \A f \in Labelled \ {"cap"} : Read("psx") =>
                   scraped.figures[f] \in {b.value : b \in Own(f)} \cup {Unstated}
             /\ \A f \in Labelled \ {"cap"} : ~Read("psx") /\ Read("sarmaaya") /\ Quoted(f) =>
                   scraped.figures[f] = sarmaaya.page.quote[f]
             /\ Read("psx") /\ (\E b \in Own("cap") : b.value > 0) =>
                   \E b \in Own("cap") : scraped.figures.cap = 1000 * b.value
             /\ scraped.sectorSource \in Scrapers =>
                   settled[scraped.sectorSource].page.sector = scraped.sector
             /\ {scraped.range.low, scraped.range.high} \subseteq (Ends \cup {Unstated}) \ {0}
             /\ Cardinality({p \in {"psx", "sarmaaya"} : Read(p)}) = 1
                /\ Unstated \notin {scraped.range.low, scraped.range.high} => scraped.range.low <= scraped.range.high

=============================================================================
