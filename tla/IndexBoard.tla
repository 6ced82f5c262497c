----------------------------- MODULE IndexBoard -----------------------------
(***************************************************************************)
(* One index and its session rows: the five-minute board pass with its     *)
(* closing pass, the candle sync that brings the published open, the sync  *)
(* and the backfill from a published history.                              *)
(*                                                                         *)
(* The timers fire at every tick; a pass or a candle sync takes at most one *)
(* tick over its awaits, and the two run on different workers.             *)
(***************************************************************************)
EXTENDS TradingClock

CONSTANTS
    CaptureTo,      \* OPEN_CAPTURE_CLOSE_MINUTES
    SettleBy,       \* INDEX_BOARD_CLOSE_MINUTES
    MaxAge          \* READING_MAX_AGE_MS

ASSUME BoardAssumption ==
    /\ CaptureTo \in Nat /\ TradeFrom <= CaptureTo /\ CaptureTo <= CloseAt
    /\ SettleBy \in Nat /\ SettledAt <= SettleBy /\ SettleBy < DayLength
    /\ MaxAge \in Nat
    /\ Sessions \cap Listed = {}
    /\ \A lag \in Lags : lag + PageTurnsAt <= DayLength

\* What a repair and the settle window rest on: the calendar lists just the days that
\* do not trade, the page turns between midnight and the oldest reading a pass of the
\* session may write, and the source is no older than the settle window is long.
ASSUME PageAssumption ==
    /\ Sessions = Weekdays \ Listed
    /\ 0 < PageTurnsAt /\ PageTurnsAt + MaxAge <= OpenAt
    /\ \A lag \in Lags : PageTurnsAt + lag <= CloseAt /\ SettledAt + lag <= SettleBy

VARIABLES
    rows,       \* index_values, by day; a row of zeros is no row
    claims,     \* sessions whose close-pass key exists
    fired,      \* timers that fired at this tick
    pass,       \* what the board pass is at
    candle,     \* what the candle sync is at
    closings    \* history: closing passes per session

boardVars == <<now, rows, claims, fired, pass, candle, faults, closings>>

NoRow == [value |-> 0, at |-> 0, open |-> 0]
Asleep == [pc |-> "idle"]

BoardTypeOK ==
    /\ now \in Moments
    /\ rows \in [Days -> [value : Moments, at : Moments, open : Moments]]
    /\ claims \subseteq Days
    /\ fired \subseteq {"board", "candle"}
    /\ pass.pc \in {"idle", "fetch", "row", "write", "repair"}
    /\ candle.pc \in {"idle", "fetch", "write"}
    /\ faults \in 0..MaxFaults
    /\ closings \in [Days -> Nat]

\* What day 0 left: no row, one last read in the session, or a settled one.
Captured(t) == [value |-> t, at |-> t, open |-> TradeFrom]

InitBoard ==
    /\ now = DayLength
    /\ \E before \in {NoRow, Captured(CloseAt), Captured(SettledAt)} :
          rows = [d \in Days |-> IF d = 0 THEN before ELSE NoRow]
    /\ claims = {} /\ fired = {}
    /\ pass = Asleep /\ candle = Asleep
    /\ faults = 0
    /\ closings = [d \in Days |-> 0]

HasRow(d) == rows[d] # NoRow

\* A reading is of a moment, with the source's own stamp or without one.
Readings == [of : Fresh, stamped : BOOLEAN]

---------------------------------------------------------------------------
(***************************************************************************)
(* The rules of a pass.                                                    *)
(***************************************************************************)

isPostCloseReading(at, d) == at > d * DayLength + CloseAt

openingLevelFor(asOf, level, existing) ==
    IF existing = 0 /\ isMarketOpen(asOf, TradeFrom, CaptureTo) THEN level ELSE 0

readingIsWritable(r, asOf) ==
    \/ ~isMarketOpen(asOf, OpenAt, CloseAt)
    \/ r.stamped /\ asOf - r.of <= MaxAge

\* Deviation: a close that was read is repaired like any other level.
repairAnyRow(row, d, implied) == implied # 0 /\ row.value # implied

repairedValueFor(row, d, implied) ==
    implied # 0 /\ ~isPostCloseReading(row.at, d) /\ row.value # implied

---------------------------------------------------------------------------
(***************************************************************************)
(* The board pass, an await at a time.                                     *)
(***************************************************************************)

claimIndexClosingPass(d) == d \notin claims /\ claims' = claims \cup {d}

StartScrape == pass' = [pc |-> "fetch", asOf |-> now]

\* Deviation: the board stops with the market.
boardStopsAtClose(t) == isMarketOpen(t, OpenAt, CloseAt)

boardIsRead(t) == isMarketOpen(t, OpenAt, SettleBy)

\* A tick of the timer: the closing pass first, once per session; else a read
\* of the board while the settle window lasts.
runIndexBoardPass ==
    LET d == dayOf(now) IN
       /\ pass = Asleep /\ "board" \notin fired
       /\ fired' = fired \cup {"board"}
       /\ \/ /\ isClosingPassDue(now) /\ claimIndexClosingPass(d)
             /\ StartScrape
             /\ closings' = [closings EXCEPT ![d] = @ + 1]
          \/ /\ ~isClosingPassDue(now) \/ d \in claims
             /\ IF boardIsRead(now) THEN StartScrape ELSE UNCHANGED pass
             /\ UNCHANGED <<claims, closings>>
       /\ UNCHANGED <<now, rows, candle, faults>>

\* The board answers, and the calendar after it.
FetchBoard ==
    /\ pass.pc = "fetch"
    /\ \E r \in Readings, state \in States :
          /\ CalendarSays(dayOf(pass.asOf), state)
          /\ pass' = [pc |-> "row", asOf |-> pass.asOf, of |-> r.of,
                      stamped |-> r.stamped, state |-> state]
    /\ UNCHANGED <<now, rows, claims, fired, candle, closings>>

\* The session's row is read for its open; a reading that cannot prove it is
\* live while the market is open ends the pass for the index.
ReadDayRow ==
    LET open == openingLevelFor(pass.asOf, Level(pass.of), rows[dayOf(pass.asOf)].open)
    IN /\ pass.pc = "row"
       /\ pass' = IF readingIsWritable(pass, pass.asOf)
                  THEN [pc |-> "write", asOf |-> pass.asOf, of |-> pass.of,
                        stamped |-> pass.stamped, state |-> pass.state, open |-> open]
                  ELSE Asleep
       /\ UNCHANGED <<now, rows, claims, fired, candle, faults, closings>>

\* What a reading does not say leaves the column as it is.
upsertValues(row, level, at, open) ==
    [value |-> level,
     at |-> IF at = 0 THEN row.at ELSE at,
     open |-> IF open = 0 THEN row.open ELSE open]

\* Deviation: only a day known to be closed has no row.
writeUnlessClosed(state) == state \notin {"weekend", "holiday"}

writeSessionRow(state) == state = "trading"

WriteDayRow ==
    LET d == dayOf(pass.asOf) IN
    /\ pass.pc = "write"
    /\ rows' = IF writeSessionRow(pass.state)
               THEN [rows EXCEPT ![d] =
                       upsertValues(@, Level(pass.of),
                                    IF pass.stamped THEN pass.of ELSE pass.asOf, pass.open)]
               ELSE rows
    /\ pass' = IF isMarketOpen(pass.asOf, OpenAt, CloseAt) \/ isClosingPassDue(pass.asOf)
               THEN [pc |-> "repair", asOf |-> pass.asOf, of |-> pass.of]
               ELSE Asleep
    /\ UNCHANGED <<now, claims, fired, candle, faults, closings>>

rowsBefore(d) == {e \in Days : e < d /\ HasRow(e)}

\* The newest row before today is corrected to the close the page implies, and
\* keeps the time of its own reading.
RepairPrevious ==
    /\ pass.pc = "repair"
    /\ \E implied \in {0, ChangeIsFrom(pass.of)} :
       LET before == rowsBefore(dayOf(pass.asOf))
           d == Latest(before)
       IN IF before # {} /\ repairedValueFor(rows[d], d, implied)
          THEN rows' = [rows EXCEPT ![d].value = implied]
          ELSE UNCHANGED rows
    /\ pass' = Asleep
    /\ UNCHANGED <<now, claims, fired, candle, faults, closings>>

\* A request or a write fails, or the worker dies, between two awaits.
PassFails ==
    /\ pass # Asleep /\ Fault
    /\ pass' = Asleep
    /\ UNCHANGED <<now, rows, claims, fired, candle, closings>>

---------------------------------------------------------------------------
(***************************************************************************)
(* The other writers of the rows.                                          *)
(***************************************************************************)

\* Candle sync: the rows and the candle are read first, what agrees with the
\* row's level is written afterwards, and only onto a row that exists.
StartCandles ==
    /\ candle = Asleep /\ "candle" \notin fired
    /\ tickOf(now) \in OpenAt..SettleBy
    /\ fired' = fired \cup {"candle"}
    /\ \E state \in States :
          /\ CalendarSays(dayOf(now), state)
          /\ candle' = IF state \in {"weekend", "holiday"} THEN Asleep
                       ELSE [pc |-> "fetch", asOf |-> now, value |-> rows[dayOf(now)].value]
    /\ UNCHANGED <<now, rows, claims, pass, closings>>

\* The scanner carries the session's bar once it has traded; a bar is believed
\* when its close agrees with the level read from the row.
FetchCandle ==
    /\ candle.pc = "fetch"
    /\ LET d == dayOf(candle.asOf)
       IN candle' = IF d \in Sessions /\ now >= First(d) /\ candle.value >= First(d)
                    THEN [pc |-> "write", asOf |-> candle.asOf] ELSE Asleep
    /\ UNCHANGED <<now, rows, claims, fired, pass, faults, closings>>

setSessionOpen ==
    /\ candle.pc = "write"
    /\ LET d == dayOf(candle.asOf)
       IN rows' = IF HasRow(d) THEN [rows EXCEPT ![d].open = First(d)] ELSE rows
    /\ candle' = Asleep
    /\ UNCHANGED <<now, claims, fired, pass, faults, closings>>

\* Sync from the published series: past sessions are overwritten with their
\* close, and keep the time of the reading they had.  Shares the board's lane.
runIndexSync ==
    /\ pass = Asleep
    /\ \E from \in Sessions :
          rows' = [d \in Days |->
                     IF d \in Sessions /\ d >= from /\ d < dayOf(now)
                     THEN upsertValues(rows[d], Close(d), 0, First(d)) ELSE rows[d]]
    /\ UNCHANGED <<now, claims, fired, pass, candle, faults, closings>>

\* Backfill inserts the sessions that have no row and touches no other.
backfillIndex ==
    /\ rows' = [d \in Days |->
                  IF d \in Sessions /\ d < dayOf(now) /\ ~HasRow(d)
                  THEN [NoRow EXCEPT !.value = Close(d)] ELSE rows[d]]
    /\ rows' # rows
    /\ UNCHANGED <<now, claims, fired, pass, candle, faults, closings>>

\* The clock moves when both timers have fired, and takes a step's time with
\* it: what is under way is at the next tick no longer young.
BoardClock ==
    /\ now < TheEnd
    /\ "board" \in fired
    /\ ~(pass # Asleep /\ pass.asOf # now)
    /\ ~(candle # Asleep /\ candle.asOf # now)
    /\ now' = now + 1
    /\ fired' = {}
    /\ UNCHANGED <<rows, claims, pass, candle, faults, closings>>

NextBoard ==
    \/ runIndexBoardPass \/ FetchBoard \/ ReadDayRow \/ WriteDayRow \/ RepairPrevious
    \/ PassFails
    \/ StartCandles \/ FetchCandle \/ setSessionOpen
    \/ runIndexSync \/ backfillIndex
    \/ BoardClock

BoardSpec == InitBoard /\ [][NextBoard]_boardVars

---------------------------------------------------------------------------
(***************************************************************************)
(* What the rows promise.                                                  *)
(***************************************************************************)

\* The board reads a session's settled level exactly once as "the closing
\* pass": never before the close, never twice, whatever fails after the claim.
ClosingPassOnce ==
    \A d \in Days : closings[d] <= 1 /\ (closings[d] = 1 => d \in claims)

\* No row is ever made of a day the calendar lists as a holiday or a weekend,
\* by any of the writers.
NoPhantomSession == \A d \in Days : HasRow(d) => d \in Weekdays \ Listed

\* The repair at hand cannot know the row's close: no reading after the close has
\* settled the row, and the pass is of a listed holiday, on which the page still
\* describes the last session (canRepair looks at the weekday only), or the session just
\* before the pass has left no row and an older one is taken for it.
MayMistake(d) ==
    /\ ~isPostCloseReading(rows[d].at, d)
    /\ pass.pc = "repair"
    /\ ~(dayOf(pass.asOf) \in Sessions /\ d = SessionBefore(dayOf(pass.asOf)))

\* Once its day is over, a session's level changes to that session's close and to nothing
\* else, whichever of the pass, the repair, the sync and the backfill writes it and how
\* late: but for the rows MayMistake names.  A close that was read after the session is
\* never overwritten, on a holiday either.
PastLevelsSettle ==
    [][\A d \in Days :
          d < dayOf(now) /\ rows'[d].value # rows[d].value /\ ~MayMistake(d)
          => rows'[d].value = Close(d)]_boardVars

\* A session's opening level is one read inside the capture window (a pass
\* that starts in it may read a tick later) or the published one, whichever
\* order the passes and the candle syncs of the session come in.
OpenIsAnOpening ==
    \A d \in Days : rows[d].open # 0 =>
        rows[d].open <= d * DayLength + CaptureTo + 1

\* When nothing fails, the settle window ends with the session's row holding
\* its settled close, as long as the source is no older than the window is long.
SettledCloseLands ==
    \A d \in Sessions \ (Listed \cup {0}) :
        (faults = 0 /\ now > d * DayLength + SettleBy + 1) => rows[d].value = Close(d)

\* The later passes of a session do not blank its open, whoever wrote it.
OpenIsNeverBlanked == [][\A d \in Days : rows[d].open # 0 => rows'[d].open # 0]_boardVars

=============================================================================
