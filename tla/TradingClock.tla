---------------------------- MODULE TradingClock ----------------------------
(***************************************************************************)
(* The market the writers of prices look at: a clock in Karachi, the days  *)
(* that trade, what the calendar says of a day, and what a source's page   *)
(* shows at a moment.                                                      *)
(*                                                                         *)
(* Time is a counter of ticks from midnight of day 0, which traded.  A     *)
(* level or a price is named by the moment it was traded at, so that it    *)
(* says which session it belongs to and whether it is that session's close.*)
(***************************************************************************)
EXTENDS Integers, FiniteSets

CONSTANTS
    Horizon,        \* bound: days 0..Horizon
    DayLength,      \* ticks in a day
    OpenAt,         \* 09:25, the market counts as open from here
    TradeFrom,      \* 09:30, when trading starts
    CloseAt,        \* 15:35, the last minute the market counts as open
    SettledAt,      \* when a source publishes the settled close
    PageTurnsAt,    \* when a source's page starts to describe the new session
    Weekdays,       \* days that are Monday to Friday
    Sessions,       \* days that trade
    Listed,         \* holidays the calendar carries
    Lags,           \* how old a source's figures may be, in ticks
    MaxFaults       \* bound on failures, crashes and unreadable calendars

Days == 0..Horizon

ASSUME MarketAssumption ==
    /\ Horizon \in Nat \ {0} /\ MaxFaults \in Nat
    /\ DayLength \in Nat /\ PageTurnsAt \in Nat
    /\ OpenAt \in Nat /\ TradeFrom \in Nat /\ CloseAt \in Nat /\ SettledAt \in Nat
    /\ OpenAt <= TradeFrom /\ TradeFrom <= CloseAt
    /\ CloseAt < SettledAt /\ SettledAt < DayLength
    /\ Weekdays \subseteq Days /\ Sessions \subseteq Weekdays /\ 0 \in Sessions
    /\ Listed \subseteq Weekdays /\ Lags \subseteq Nat

VARIABLES
    now,        \* the clock
    faults      \* failures explored so far

Moments == 0..(Horizon + 1) * DayLength
TheEnd == (Horizon + 1) * DayLength - 1

dayOf(t) == t \div DayLength
tickOf(t) == t % DayLength
Latest(S) == CHOOSE s \in S : \A r \in S : r <= s

First(d) == d * DayLength + TradeFrom
Close(d) == d * DayLength + SettledAt
SessionBefore(d) == Latest({e \in Sessions : e < d})

\* What a source whose figures are of moment t shows: the last trade by then.
Level(t) == Latest({m \in 0..t : /\ dayOf(m) \in Sessions
                                 /\ tickOf(m) \in TradeFrom..SettledAt}
                   \cup {Close(0)})

\* The session its page describes then, and the close its change is against.
described(t) == Latest({d \in Sessions : d * DayLength + PageTurnsAt <= t})
ChangeIsFrom(t) ==
    IF described(t) = 0 THEN 0 ELSE Close(SessionBefore(described(t)))

Fresh == {now - lag : lag \in Lags} \cap Nat

isMarketOpen(t, from, to) == dayOf(t) \in Weekdays /\ tickOf(t) \in from..to
isClosingPassDue(t) == dayOf(t) \in Weekdays /\ tickOf(t) > CloseAt

\* What the calendar answers about a day; that it cannot be read is a fault.
Fault == faults < MaxFaults /\ faults' = faults + 1
States == {"weekend", "holiday", "trading", "unknown"}
CalendarSays(d, state) ==
    \/ state = "weekend" /\ d \notin Weekdays /\ UNCHANGED faults
    \/ state = "holiday" /\ d \in Listed /\ UNCHANGED faults
    \/ state = "trading" /\ d \in Weekdays \ Listed /\ UNCHANGED faults
    \/ state = "unknown" /\ d \in Weekdays /\ Fault

=============================================================================
