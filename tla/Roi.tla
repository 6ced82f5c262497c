--------------------------------- MODULE Roi ----------------------------------
(***************************************************************************)
(* The return calculator: cash put in once or monthly, whole shares bought *)
(* with it at the session's close, dividends credited, the position sold at*)
(* the end.  Money is whole paisa, every fee is rounded where it is        *)
(* charged.  A step is one session of the window.                          *)
(*                                                                         *)
(* The comparison of several holdings is below it.                         *)
(***************************************************************************)
EXTENDS Integers, Sequences, FiniteSets, FiniteSetsExt

CONSTANTS
    MonthLength,    \* days of a month
    MonthCount,     \* months of stored history
    Closes,         \* closes a session may have
    Amount,         \* what is put in, each time
    FeePcts,        \* feePct, percent
    FlatFee,        \* feeFlat
    TaxPct,         \* divTaxPct and cgtPct, percent
    PerShare        \* a dividend

ASSUME RoiAssumption ==
    /\ MonthLength \in Nat \ {0} /\ MonthCount \in Nat \ {0}
    /\ Closes \subseteq Nat \ {0} /\ {Amount, FlatFee, PerShare} \subseteq Nat
    /\ FeePcts \subseteq 0..100 /\ TaxPct \in 0..100

Days == 0..MonthCount * MonthLength - 1
monthOf(d) == d \div MonthLength
monthStart(m) == m * MonthLength
endOfMonth(m) == monthStart(m) + MonthLength - 1
NoDay == MonthCount * MonthLength

VARIABLES
    asked,      \* the request: mode, start, day of month, fee, and the stored rows
    date,       \* the session the simulation is at, NoDay before the first
    money       \* what the simulation has added up so far

roiVars == <<asked, date, money>>

---------------------------------------------------------------------------
(***************************************************************************)
(* Sessions and dates.                                                     *)
(***************************************************************************)
dates == {d \in Days : asked.close[d] # 0}

sessionOnOrAfter(S, d) == LET after == {e \in S : e >= d}
                          IN IF after = {} THEN NoDay ELSE Min(after)
sessionOnOrBefore(S, d) == LET before == {e \in S : e <= d}
                           IN IF before = {} THEN NoDay ELSE Max(before)

\* A month's contribution: its day, or the first session after it, or, as the
\* month has none left, the last session up to its end.
contribution(m, start, day) ==
    LET target == Min({monthStart(m) + day - 1, endOfMonth(m)})
        session == sessionOnOrAfter(dates, IF m = monthOf(start) THEN Max({start, target})
                                           ELSE target)
    IN IF session # NoDay /\ session > endOfMonth(m)
       THEN sessionOnOrBefore(dates, endOfMonth(m)) ELSE session

sellSession == sessionOnOrBefore(dates, asked.end)

dcaSchedule(start, end, day) ==
    {c \in {contribution(m, start, day) : m \in monthOf(start)..monthOf(end)} : c <= end}

schedule ==
    IF asked.mode = "single" THEN {sessionOnOrAfter(dates, asked.start)}
    ELSE dcaSchedule(asked.start, sellSession, asked.day)

firstBuy == Min(schedule)

\* What is refused before anything is simulated.
evaluate ==
    /\ dates # {} /\ sellSession # NoDay
    /\ sessionOnOrAfter(dates, asked.start) <= sellSession
    /\ asked.mode = "dca" => Cardinality(schedule) >= 2

---------------------------------------------------------------------------
(***************************************************************************)
(* Money.                                                                  *)
(***************************************************************************)
percentOf(n, pct) == (2 * n * pct + 100) \div 200     \* to the nearest paisa

\* Deviation: the fee is not reckoned with when shares are counted.
lotWithoutFee(cash, price) == IF cash < FlatFee THEN 0 ELSE (cash - FlatFee) \div price

affordable(cash, price) ==
    IF cash < FlatFee THEN 0
    ELSE ((cash - FlatFee) * 100) \div (price * (100 + asked.fee))

buyLot(cash, price) ==
    LET quantity == affordable(cash, price)
        gross == quantity * price
        fees == percentOf(gross, asked.fee) + FlatFee
    IN IF quantity = 0 THEN [quantity |-> 0, invested |-> 0, leftover |-> cash]
       ELSE [quantity |-> quantity, invested |-> gross + fees, leftover |-> cash - gross - fees]

Purse == [quantity |-> 0, paidIn |-> 0, invested |-> 0, leftover |-> 0, dividends |-> 0,
          flows |-> 0, profit |-> 0, sold |-> FALSE]

Buy(m, d) ==
    IF d \notin schedule THEN m
    ELSE LET lot == buyLot(Amount + m.leftover, asked.close[d])
         IN [m EXCEPT !.quantity = @ + lot.quantity, !.paidIn = @ + Amount,
                      !.invested = @ + lot.invested, !.leftover = lot.leftover,
                      !.flows = @ - Amount]

\* A dividend announced since the session before, on the shares held by then.
Credit(m, since, d) ==
    LET gross == m.quantity * PerShare
        net == gross - percentOf(gross, TaxPct)
    IN IF asked.dividend > firstBuy /\ asked.dividend > since /\ asked.dividend <= d
       THEN [m EXCEPT !.dividends = @ + net, !.flows = @ + net] ELSE m

\* The sale: unspent cash comes back with it.
Sell(m, d) ==
    LET gross == m.quantity * asked.close[d]
        fees == percentOf(gross, asked.fee) + FlatFee
        gain == gross - fees - m.invested
        net == gross - fees - (IF gain > 0 THEN percentOf(gain, TaxPct) ELSE 0)
    IN [m EXCEPT !.sold = TRUE, !.flows = @ + net + m.leftover,
                 !.profit = net + m.leftover + m.dividends - m.paidIn]

---------------------------------------------------------------------------
InitRoi ==
    /\ \E close \in [Days -> Closes \cup {0}], start \in Days, fee \in FeePcts,
          day \in {1, MonthLength}, dividend \in {NoDay, MonthLength + 1},
          mode \in {"single", "dca"} :
          asked = [mode |-> mode, start |-> start, end |-> Max(Days), day |-> day,
                   fee |-> fee, dividend |-> dividend, close |-> close]
    /\ evaluate
    /\ date = NoDay /\ money = Purse

\* One session of the window.  What falls before it comes first; on one day a
\* purchase comes before a dividend.
simulate ==
    LET d == IF date = NoDay THEN firstBuy ELSE sessionOnOrAfter(dates, date + 1)
        since == IF date = NoDay THEN -1 ELSE date
        added == IF asked.dividend < d THEN Buy(Credit(money, since, d), d)
                 ELSE Credit(Buy(money, d), since, d)
    IN /\ ~money.sold
       /\ date' = d
       /\ money' = IF d = sellSession THEN Sell(added, d) ELSE added
       /\ UNCHANGED asked

NextRoi == simulate
RoiSpec == InitRoi /\ [][NextRoi]_roiVars

RoiTypeOK ==
    /\ date \in Days \cup {NoDay}
    /\ {money.quantity, money.paidIn, money.invested, money.dividends} \subseteq Nat

---------------------------------------------------------------------------
(***************************************************************************)
(* What the figures promise.                                               *)
(***************************************************************************)

\* A monthly plan pays in exactly once in every month before the sale's, weekends
\* and holidays at either end of a month notwithstanding, and at most once in that
\* one, as long as the symbol traded in each of them.
paysOnceAMonth ==
    LET last == monthOf(sellSession)
        months == monthOf(asked.start)..last
        paid(m) == Cardinality({c \in schedule : monthOf(c) = m})
    IN asked.mode = "dca" /\ (\A m \in months : \E d \in dates : monthOf(d) = m) =>
         /\ \A m \in months \ {last} : paid(m) = 1
         /\ paid(last) <= 1
         /\ money.sold => money.paidIn = Amount * (Cardinality(months) - 1 + paid(last))

\* "Cash is never spent twice": at every session what was paid in is what was
\* spent, fees and their rounding included, plus what is left, and that is never
\* overdrawn; the profit printed is the sum of the dated flows its annual rate is
\* solved from; and a monthly plan pays in once a month.
RoiAddsUp ==
    /\ money.paidIn = money.invested + money.leftover /\ money.leftover >= 0
    /\ money.sold => money.profit = money.flows
    /\ paysOnceAMonth

---------------------------------------------------------------------------
(***************************************************************************)
(* The calculator's comparison: several symbols bought on the first        *)
(* session they all had by then and sold on the last, each on its own      *)
(* stored closes.  A symbol with no close on the shared first session is   *)
(* left out and named; one with none on the last refuses the request.      *)
(* Fees and dividends are the single holding's, module Roi.                *)
(***************************************************************************)
CONSTANTS
    Symbols,        \* symbols asked for
    SharePaisa,     \* closes a share may have
    MinOverlap,     \* sessions the symbols must share
    YearDays,       \* days a holding must have to be annualised
    Stake,          \* the lump sum
    MaxStored       \* bound on days

ASSUME CompareAssumption ==
    /\ SharePaisa \subseteq Nat \ {0} /\ {MinOverlap, YearDays, Stake, MaxStored} \subseteq Nat

VARIABLES
    closesOf,       \* stored closes of each symbol, by day; 0 where it did not trade
    lag             \* sessions the stored index is behind the board

compareVars == <<closesOf, lag>>

CompareTypeOK ==
    /\ \A s \in Symbols : \A d \in DOMAIN closesOf[s] : closesOf[s][d] \in SharePaisa \cup {0}
    /\ lag \in 0..1

InitCompare == closesOf = [s \in Symbols |-> <<>>] /\ lag \in 0..1

\* A day passes: a session for the symbols that traded.
StoreDay ==
    /\ \A s \in Symbols : Len(closesOf[s]) < MaxStored
    /\ \E traded \in [Symbols -> SharePaisa \cup {0}] :
          closesOf' = [s \in Symbols |-> Append(closesOf[s], traded[s])]
    /\ UNCHANGED lag

NextCompare == StoreDay
CompareSpec == InitCompare /\ [][NextCompare]_compareVars

---------------------------------------------------------------------------
\* The newest session counted: the index's, while it is not far behind.
latestSession == Len(closesOf[CHOOSE s \in Symbols : TRUE]) - lag

datesOf(s) == {d \in DOMAIN closesOf[s] : closesOf[s][d] # 0 /\ d <= latestSession}

\* Symbols with a session in the window, here the whole record.
prepared == {s \in Symbols : datesOf(s) # {}}

commonStart == Max({Min(datesOf(s)) : s \in prepared})
commonEnd == Min({Max(datesOf(s)) : s \in prepared})

\* Deviation: every symbol with a session takes part.
everyone == prepared

takesPart == {s \in prepared : closesOf[s][commonStart] # 0}

overlapSessions(s) == Cardinality({d \in datesOf(s) : d \in commonStart..commonEnd})

\* A step that lands on a split or a bonus.
suspectedAction(before, after) == before = 2 * after \/ 2 * before = after

maxDrawdown(s) ==
    Max({0} \cup {closesOf[s][p[1]] - closesOf[s][p[2]] :
                     p \in {q \in datesOf(s) \X datesOf(s) :
                              commonStart <= q[1] /\ q[1] <= q[2] /\ q[2] <= commonEnd}})

\* Withheld for a holding under a year, and where a step looks like a split.
annualised(s) ==
    /\ commonEnd - commonStart >= YearDays
    /\ \A d, e \in datesOf(s) :
          /\ commonStart <= d /\ d < e /\ e <= commonEnd
          /\ \A f \in datesOf(s) : ~(d < f /\ f < e)
          => ~suspectedAction(closesOf[s][d], closesOf[s][e])

\* The first session of the symbol from a day on: what a purchase pays.
priceFrom(s, day) == closesOf[s][Min({d \in datesOf(s) : d >= day})]

rowOfSymbol(s) ==
    LET quantity == Stake \div priceFrom(s, commonStart)
    IN [symbol |-> s,
        profit |-> quantity * (closesOf[s][commonEnd] - priceFrom(s, commonStart)),
        drawdown |-> maxDrawdown(s), annualised |-> annualised(s)]

refused ==
    \/ Cardinality(prepared) < 2 \/ commonStart >= commonEnd
    \/ Cardinality(takesPart) < 2
    \/ overlapSessions(CHOOSE s \in takesPart : TRUE) < MinOverlap
    \/ \E s \in takesPart : closesOf[s][commonEnd] = 0

rows == {rowOfSymbol(s) : s \in takesPart}

---------------------------------------------------------------------------
\* What is compared is comparable: every row is one purchase and one sale on the
\* same two sessions, on which its symbol traded; no row has lost more than its
\* drawdown says, whole shares at a time; and a symbol that is left out had no
\* close on the shared first session.
ComparedAlike ==
    ~refused =>
        /\ \A r \in rows :
             LET from == closesOf[r.symbol][commonStart]
                 to == closesOf[r.symbol][commonEnd]
             IN /\ from # 0 /\ to # 0
                /\ r.profit = (Stake \div from) * (to - from)
                /\ -r.profit <= (Stake \div from) * r.drawdown
        /\ \A s \in Symbols \ {r.symbol : r \in rows} :
             datesOf(s) = {} \/ closesOf[s][commonStart] = 0

=============================================================================
