--------------------------- MODULE MarketCalendar ---------------------------
(***************************************************************************)
(* The trading calendar of one process: a table of holidays that a refresh *)
(* rewrites row by row, and a cache of it that readers fill a year at a    *)
(* time.  A reader walks back from a day to the last one that traded, or   *)
(* asks about a single day (a walk of one).  Readers and the refresh       *)
(* interleave at every await; the cache, the set of loaded years and the   *)
(* cooldown after a failed read are shared between them: the worker's      *)
(* lanes are readers of one process, and so are the API's requests.        *)
(***************************************************************************)
EXTENDS Integers, FiniteSets

CONSTANTS
    Readers,        \* calls of the calendar that can be in flight at once
    Dates,           \* calendar days, numbered
    Weekends,       \* those that are a Saturday or a Sunday in Karachi
    Years,
    YearOf,         \* the year of a day
    Published,      \* the lists PSX may publish, [Dates -> Listing]
    MaxBack,        \* days a walk looks at (maxDays)
    Retry,          \* COOLDOWN_MS, in ticks
    MaxFailures     \* bound on failed reads and writes explored

Listing == {"absent", "market", "partial"}

ASSUME CalendarAssumption ==
    /\ Dates \subseteq Nat /\ Weekends \subseteq Dates
    /\ YearOf \in [Dates -> Years]
    /\ Published \subseteq [Dates -> Listing]
    /\ MaxBack \in Nat \ {0} /\ Retry \in Nat \ {0} /\ MaxFailures \in Nat

VARIABLES
    table,      \* the holidays stored, by day
    cache,      \* the module's Map of them
    loaded,     \* loadedYears
    waitUntil,  \* ticks until a failed read may be repeated
    reader,     \* what each reader is at
    refresher,  \* what the refresh is at
    failures,     \* failures explored so far
    versions,   \* history: what was stored of a day since the last refresh
    ever,       \* history: what was ever stored of it
    closed      \* history: the days some reader was told are holidays

calendarVars == <<table, cache, loaded, waitUntil, reader, refresher, failures,
                  versions, ever, closed>>
history == <<versions, ever, closed>>

Idle == [pc |-> "idle"]

\* What a listing means for trading on the day.
classifyTradingDay(d, listing) ==
    CASE d \in Weekends -> "weekend"
      [] d \notin Weekends /\ listing = "market" -> "holiday"
      [] OTHER -> "trading"

\* A reader between two days of its walk, waiting for rows, or holding them.
ReaderState ==
    {Idle}
    \cup [pc : {"look", "rows"}, day : Dates, left : 1..MaxBack]
    \cup [pc : {"fetched"}, day : Dates, left : 1..MaxBack, rows : [Dates -> Listing]]
RefreshState ==
    {Idle} \cup [pc : {"storing"}, list : [Dates -> Listing], todo : SUBSET Dates]

CalendarTypeOK ==
    /\ table \in [Dates -> Listing] /\ cache \in [Dates -> Listing]
    /\ loaded \subseteq Years
    /\ waitUntil \in 0..Retry
    /\ reader \in [Readers -> ReaderState]
    /\ refresher \in RefreshState
    /\ failures \in 0..MaxFailures
    /\ versions \in [Dates -> SUBSET Listing]
    /\ ever \in [Dates -> SUBSET Listing]
    /\ closed \subseteq Dates

InitCalendar ==
    /\ table = [d \in Dates |-> "absent"]
    /\ cache = [d \in Dates |-> "absent"]
    /\ loaded = {}
    /\ waitUntil = 0
    /\ reader = [r \in Readers |-> Idle]
    /\ refresher = Idle
    /\ failures = 0
    /\ versions = [d \in Dates |-> {"absent"}]
    /\ ever = versions
    /\ closed = {}

MayFail == failures < MaxFailures /\ failures' = failures + 1

---------------------------------------------------------------------------
(***************************************************************************)
(* Reading.                                                                *)
(***************************************************************************)

\* A caller starts a walk back from day d, over at most n days.
StartWalk(r, d, n) ==
    /\ reader[r] = Idle
    /\ reader' = [reader EXCEPT ![r] = [pc |-> "look", day |-> d, left |-> n]]
    /\ UNCHANGED <<table, cache, loaded, waitUntil, refresher, failures, history>>

\* The walk has its answer about the day: it ends on a session, on a day it
\* knows nothing of and on the last day it may look at; else it goes back one.
WalkOn(r, state) ==
    LET d == reader[r].day IN
    /\ closed' = closed \cup (IF state = "holiday" THEN {d} ELSE {})
    /\ reader' = [reader EXCEPT ![r] =
          IF state \in {"trading", "unknown"} \/ reader[r].left = 1 \/ d - 1 \notin Dates
          THEN Idle
          ELSE [pc |-> "look", day |-> d - 1, left |-> @.left - 1]]

\* A weekend is a weekend whatever the calendar says, or cannot say.
unreadable(d) == IF d \in Weekends THEN "weekend" ELSE "unknown"

\* The year is loaded: the cache answers, an absent day as not on the list.
Hit(r) ==
    /\ reader[r].pc = "look" /\ YearOf[reader[r].day] \in loaded
    /\ WalkOn(r, classifyTradingDay(reader[r].day, cache[reader[r].day]))
    /\ UNCHANGED <<table, cache, loaded, waitUntil, refresher, failures, versions, ever>>

\* A read failed a moment ago: it is not repeated yet.
CoolingDown(r) ==
    /\ reader[r].pc = "look" /\ YearOf[reader[r].day] \notin loaded /\ waitUntil > 0
    /\ WalkOn(r, unreadable(reader[r].day))
    /\ UNCHANGED <<table, cache, loaded, waitUntil, refresher, failures, versions, ever>>

\* The year counts as loaded from before its rows are awaited.
StartLoad(r) ==
    LET d == reader[r].day IN
    /\ reader[r].pc = "look" /\ YearOf[d] \notin loaded /\ waitUntil = 0
    /\ loaded' = loaded \cup {YearOf[d]}
    /\ reader' = [reader EXCEPT ![r].pc = "rows"]
    /\ UNCHANGED <<table, cache, waitUntil, refresher, failures, history>>

\* The database answers; the reader's promise continues later.
FetchYear(r) ==
    /\ reader[r].pc = "rows"
    /\ reader' = [reader EXCEPT ![r] =
          [pc |-> "fetched", day |-> @.day, left |-> @.left, rows |-> table]]
    /\ UNCHANGED <<table, cache, loaded, waitUntil, refresher, failures, history>>

LoadFails(r) ==
    /\ reader[r].pc = "rows" /\ MayFail
    /\ loaded' = loaded \ {YearOf[reader[r].day]}
    /\ waitUntil' = Retry
    /\ WalkOn(r, unreadable(reader[r].day))
    /\ UNCHANGED <<table, cache, refresher, versions, ever>>

\* The rows go into the cache, over what it holds; days they do not name stay.
FinishLoad(r) ==
    LET d == reader[r].day
        rows == reader[r].rows
        ofYear == {e \in Dates : YearOf[e] = YearOf[d] /\ rows[e] # "absent"}
    IN /\ reader[r].pc = "fetched"
       /\ cache' = [e \in Dates |-> IF e \in ofYear THEN rows[e] ELSE cache[e]]
       /\ WalkOn(r, classifyTradingDay(d, cache'[d]))
       /\ UNCHANGED <<table, loaded, waitUntil, refresher, failures, versions, ever>>

---------------------------------------------------------------------------
(***************************************************************************)
(* Refreshing.  Rows are updated or created, none is ever deleted.         *)
(***************************************************************************)

StartRefresh(list) ==
    /\ refresher = Idle
    /\ \E d \in Dates : list[d] # "absent"
    /\ refresher' = [pc |-> "storing", list |-> list,
                     todo |-> {d \in Dates : list[d] # "absent"}]
    /\ UNCHANGED <<table, cache, loaded, waitUntil, reader, failures, history>>

StoreHoliday ==
    /\ refresher.pc = "storing" /\ refresher.todo # {}
    /\ LET d == CHOOSE e \in refresher.todo : \A f \in refresher.todo : e <= f
           v == refresher.list[d]
       IN /\ table' = [table EXCEPT ![d] = v]
          /\ refresher' = [refresher EXCEPT !.todo = @ \ {d}]
          /\ versions' = [versions EXCEPT ![d] = @ \cup {v}]
          /\ ever' = [ever EXCEPT ![d] = @ \cup {v}]
    /\ UNCHANGED <<cache, loaded, waitUntil, reader, failures, closed>>

\* A write that throws ends the refresh: the cache is not dropped.
RefreshFails ==
    /\ refresher.pc = "storing" /\ MayFail
    /\ refresher' = Idle
    /\ UNCHANGED <<table, cache, loaded, waitUntil, reader, history>>

\* Deviation: the finished refresh leaves the cache as it is.
KeepHolidayCache ==
    /\ UNCHANGED <<cache, loaded>>
    /\ waitUntil' = 0

clearHolidayCache ==
    /\ cache' = [d \in Dates |-> "absent"]
    /\ loaded' = {}
    /\ waitUntil' = 0

FinishRefresh ==
    /\ refresher.pc = "storing" /\ refresher.todo = {}
    /\ refresher' = Idle
    /\ clearHolidayCache
    /\ versions' = [d \in Dates |-> {table[d]}]
    /\ UNCHANGED <<table, reader, failures, ever, closed>>

Tick ==
    /\ waitUntil > 0
    /\ waitUntil' = waitUntil - 1
    /\ UNCHANGED <<table, cache, loaded, reader, refresher, failures, history>>

\* The process dies and starts again with an empty cache.
Restart ==
    /\ MayFail
    /\ cache' = [d \in Dates |-> "absent"] /\ loaded' = {} /\ waitUntil' = 0
    /\ reader' = [r \in Readers |-> Idle]
    /\ refresher' = Idle
    /\ UNCHANGED <<table, history>>

ReaderStep(r) ==
    \/ Hit(r) \/ CoolingDown(r) \/ StartLoad(r)
    \/ FetchYear(r) \/ LoadFails(r) \/ FinishLoad(r)

NextCalendar ==
    \/ \E r \in Readers, d \in Dates, n \in {1, MaxBack} : StartWalk(r, d, n)
    \/ \E r \in Readers : ReaderStep(r)
    \/ \E list \in Published : StartRefresh(list)
    \/ StoreHoliday \/ RefreshFails \/ FinishRefresh
    \/ Tick \/ Restart

CalendarSpec == InitCalendar /\ [][NextCalendar]_calendarVars

---------------------------------------------------------------------------
(***************************************************************************)
(* What the calendar promises.                                             *)
(***************************************************************************)

\* A read of the year is under way.
BeingRead(year) ==
    \E r \in Readers : reader[r].pc \in {"rows", "fetched"} /\ YearOf[reader[r].day] = year

\* "A date that is absent is absent on purpose", unless its year is being read: the
\* cache of a loaded year names each day that every list stored since the last complete
\* refresh names.
AbsentOnPurpose ==
    \A d \in Dates :
        YearOf[d] \in loaded /\ cache[d] = "absent" /\ ~BeingRead(YearOf[d])
        => "absent" \in versions[d]

\* No reader is told of a holiday that no stored list names.
ClosedIsListed == \A d \in closed : "market" \in ever[d]

\* Callers, refreshes, failures and restarts at any await: a session is never taken for
\* a holiday for want of rows, and a holiday for a session, as a second caller is told
\* while the first one's rows are on their way, no longer than they are.
ErrsTowardsTrading == ClosedIsListed /\ AbsentOnPurpose

=============================================================================
