----------------------------- MODULE QuoteRows -----------------------------
(***************************************************************************)
(* One symbol's price rows and the jobs that write them: the quote poll,   *)
(* the page syncs with their verification (several lanes), and the candle  *)
(* sync.  A row is keyed by an instant; the convention is one instant per  *)
(* session, its marker.  Each job reads first and writes an await or more  *)
(* later, so that jobs overwrite one another in any order.                 *)
(***************************************************************************)
EXTENDS TradingClock

CONSTANTS
    Lanes,          \* page syncs that can be in flight (sync and universe workers)
    Marker,         \* sessionStamp's 16:00, in ticks
    Providers,      \* page scrapers that may answer, of "psx" and "sarmaaya"
    MaxWalk,        \* days a clamp walks back
    QuoteLags,      \* how old a page's or a tick's figures may be, in ticks
    MaxQuoteAge,    \* UNIVERSE_MAX_QUOTE_AGE_DAYS
    MaxPages        \* bound on page syncs

ASSUME QuoteAssumption ==
    /\ Marker \in 0..(DayLength - 1) /\ Providers \subseteq {"psx", "sarmaaya"}
    /\ MaxWalk \in Nat \ {0} /\ MaxQuoteAge \in Nat /\ MaxPages \in Nat
    /\ QuoteLags \subseteq Nat

\* What the convention of one marker per session rests on: the calendar lists just
\* the days that do not trade, a walk is longer than any run of them, and a page read
\* at the marker shows the session of its day.
ASSUME MarkerAssumption ==
    /\ Sessions = Weekdays \ Listed
    /\ \A d \in Days : \E s \in Sessions : s <= d /\ d - s < MaxWalk
    /\ PageTurnsAt <= TradeFrom /\ \A lag \in QuoteLags : lag <= Marker - TradeFrom

VARIABLES
    quotes,     \* stock_prices of the symbol; a row of zeros is no row
    poll,       \* what the quote poll is at
    sync,       \* what each page sync is at
    bar,        \* what the candle sync is at
    pages       \* page syncs so far

quoteVars == <<now, faults, quotes, poll, sync, bar, pages>>

NoQuote == [price |-> 0, from |-> 0, open |-> 0]
Resting == [pc |-> "idle"]

QuotesTypeOK ==
    /\ quotes \in [Moments -> [price : Moments, from : Moments, open : Moments]]
    /\ poll.pc \in {"idle", "write"} /\ bar.pc \in {"idle", "fetch", "write"}
    /\ \A l \in Lanes : sync[l].pc \in {"idle", "clamp", "verify", "write"}
    /\ pages \in 0..MaxPages

InitQuotes ==
    /\ now = DayLength /\ faults = 0
    /\ quotes = [k \in Moments |->
                   IF k = Marker THEN [price |-> Close(0), from |-> 0, open |-> TradeFrom]
                   ELSE NoQuote]
    /\ poll = Resting /\ bar = Resting
    /\ sync = [l \in Lanes |-> Resting]
    /\ pages = 0

Shown == {now - lag : lag \in QuoteLags} \cap Nat
closeBefore(d) == IF d = 0 THEN 0 ELSE Close(SessionBefore(d))
marker(d) == d * DayLength + Marker
Held == {k \in Moments : quotes[k] # NoQuote}

---------------------------------------------------------------------------
(***************************************************************************)
(* The quote poll.                                                         *)
(***************************************************************************)

\* The row a reading belongs to: its session's, whenever it is taken.
\* Deviation: the row of the day it is taken on.
rowOfToday(price) == marker(dayOf(now))
rowOf(price) == marker(dayOf(price))

\* A tick inside market hours gets a reading, stamped with the session the
\* source says it is of; only the series states an open.
PollTick ==
    /\ poll = Resting /\ isMarketOpen(now, OpenAt, CloseAt)
    /\ \E of \in Shown, statesOpen \in BOOLEAN :
       LET p == Level(of)
           d == dayOf(p)
       IN poll' = [pc |-> "write", asOf |-> now, key |-> rowOf(p), price |-> p,
                   from |-> closeBefore(d),
                   open |-> IF statesOpen THEN First(d) ELSE 0]
    /\ UNCHANGED <<now, faults, quotes, sync, bar, pages>>

upsertQuoteSnapshot ==
    /\ poll.pc = "write"
    /\ quotes' = [quotes EXCEPT ![poll.key] =
          [price |-> poll.price, from |-> poll.from,
           open |-> IF poll.open = 0 THEN @.open ELSE poll.open]]
    /\ poll' = Resting
    /\ UNCHANGED <<now, faults, sync, bar, pages>>

---------------------------------------------------------------------------
(***************************************************************************)
(* A page sync: read, clamp the stamp to a session, verify, write.         *)
(***************************************************************************)

\* The exchange's page has no quote date and is stamped with the moment of the
\* read; Sarmaaya's carries one, and is stamped with the session's marker.
stampOf(provider, of) == IF provider = "psx" THEN now ELSE rowOf(Level(of))

scrapeSymbol(l) ==
    /\ sync[l] = Resting /\ pages < MaxPages /\ pages' = pages + 1
    /\ \E provider \in Providers, of \in Shown, statesOpen \in BOOLEAN :
          sync' = [sync EXCEPT ![l] =
             [pc |-> "clamp", asOf |-> now, key |-> stampOf(provider, of), walked |-> 0,
              price |-> Level(of), from |-> IF provider = "psx" THEN ChangeIsFrom(of) ELSE closeBefore(dayOf(Level(of))),
              open |-> IF statesOpen THEN First(dayOf(Level(of))) ELSE 0]]
    /\ UNCHANGED <<now, faults, quotes, poll, bar>>

\* One day of the walk back, an await each.  The time of day is kept; a walk
\* that finds no session leaves the stamp where it was.
clampSessionStamp(l) ==
    LET s == sync[l]
        back == s.key - DayLength
    IN /\ s.pc = "clamp"
       /\ \E state \in States :
             /\ CalendarSays(dayOf(s.key), state)
             /\ sync' = [sync EXCEPT ![l] =
                   CASE state \in {"trading", "unknown"} -> [s EXCEPT !.pc = "verify"]
                     [] state \in {"weekend", "holiday"} /\ s.walked + 1 = MaxWalk ->
                          [s EXCEPT !.pc = "verify", !.key = @ + s.walked * DayLength]
                     [] OTHER -> [s EXCEPT !.key = back, !.walked = @ + 1]]
       /\ UNCHANGED <<now, quotes, poll, bar, pages>>

previousCloseBefore(k) ==
    LET before == {h \in Held : h < k}
    IN IF before = {} THEN 0 ELSE quotes[Latest(before)].price

\* A quote too old is no listing; a change that disagrees with the close stored
\* before the session is dropped from what will be written.
verifyQuote(l) ==
    LET s == sync[l]
        close == previousCloseBefore(s.key)
        listed == dayOf(now) - dayOf(s.key) <= MaxQuoteAge
    IN /\ s.pc = "verify"
       /\ sync' = [sync EXCEPT ![l] =
             IF ~listed THEN Resting
             ELSE [s EXCEPT !.pc = "write", !.from = IF close \in {0, @} THEN @ ELSE 0]]
       /\ UNCHANGED <<now, faults, quotes, poll, bar, pages>>

\* Unlike the poll's, a page's missing open is written too.
persistScrapeResult(l) ==
    LET s == sync[l]
    IN /\ s.pc = "write"
       /\ quotes' = [quotes EXCEPT ![s.key] = [price |-> s.price, from |-> s.from, open |-> s.open]]
       /\ sync' = [sync EXCEPT ![l] = Resting]
       /\ UNCHANGED <<now, faults, poll, bar, pages>>

---------------------------------------------------------------------------
(***************************************************************************)
(* The candle sync, and time.                                              *)
(***************************************************************************)

StartBar ==
    /\ bar = Resting /\ tickOf(now) \in OpenAt..SettledAt
    /\ \E state \in States :
          /\ CalendarSays(dayOf(now), state)
          /\ bar' = IF state \in {"weekend", "holiday"} \/ quotes[marker(dayOf(now))] = NoQuote
                    THEN Resting
                    ELSE [pc |-> "fetch", asOf |-> now, price |-> quotes[marker(dayOf(now))].price]
    /\ UNCHANGED <<now, quotes, poll, sync, pages>>

\* A bar is believed when its close agrees with the price read from the row:
\* here, when that price is of the session the bar is of.
FetchBar ==
    /\ bar.pc = "fetch"
    /\ LET d == dayOf(bar.asOf)
       IN bar' = IF d \in Sessions /\ bar.price >= First(d)
                 THEN [pc |-> "write", asOf |-> bar.asOf] ELSE Resting
    /\ UNCHANGED <<now, faults, quotes, poll, sync, pages>>

setSessionCandle ==
    /\ bar.pc = "write"
    /\ LET k == marker(dayOf(bar.asOf))
       IN quotes' = IF quotes[k] = NoQuote THEN quotes
                    ELSE [quotes EXCEPT ![k].open = First(dayOf(bar.asOf))]
    /\ bar' = Resting
    /\ UNCHANGED <<now, faults, poll, sync, pages>>

\* A job takes at most one tick.
QuoteClock ==
    /\ now < TheEnd
    /\ ~(poll # Resting /\ poll.asOf # now) /\ ~(bar # Resting /\ bar.asOf # now)
    /\ \A l \in Lanes : ~(sync[l] # Resting /\ sync[l].asOf # now)
    /\ now' = now + 1
    /\ UNCHANGED <<faults, quotes, poll, sync, bar, pages>>

NextQuotes ==
    \/ PollTick \/ upsertQuoteSnapshot
    \/ \E l \in Lanes : \/ scrapeSymbol(l) \/ clampSessionStamp(l)
                        \/ verifyQuote(l) \/ persistScrapeResult(l)
    \/ StartBar \/ FetchBar \/ setSessionCandle
    \/ QuoteClock

QuotesSpec == InitQuotes /\ [][NextQuotes]_quoteVars

---------------------------------------------------------------------------
(***************************************************************************)
(* What the rows promise.                                                  *)
(***************************************************************************)

\* A row at a session's marker holds a price and an open traded in that session
\* and a change, if any, against the close of the one before, whichever lane
\* writes it last and however late, as long as the calendar can be read.
PriceIsOfItsSession ==
    faults = 0 =>
        \A k \in Held : tickOf(k) = Marker =>
            /\ dayOf(quotes[k].price) = dayOf(k)
            /\ quotes[k].open # 0 => dayOf(quotes[k].open) = dayOf(k)
            /\ quotes[k].from # 0 => quotes[k].from = closeBefore(dayOf(k))

=============================================================================
