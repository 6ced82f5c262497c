---------------------------- MODULE UniversePass ----------------------------
(***************************************************************************)
(* The universe walk: when a pass over the whole listed board is started,  *)
(* what keeps two of them apart, and what happens to its symbol jobs.      *)
(*                                                                         *)
(* One queue and one lane.  A repeatable pass job fires every CronEvery    *)
(* ticks, whatever the exchange is doing; the runner reads the Karachi     *)
(* clock and decides what is owed: an in-hours walk, the closing walk, or  *)
(* nothing.  Two Redis keys guard it: a claim per session for the closing  *)
(* walk, taken before the board is fetched, and a lock with an expiry that *)
(* stands in for "a walk is still in the queue", taken after.  The pass    *)
(* then leaves one delayed job per symbol on the same queue, and the same  *)
(* lane works through them.                                                *)
(*                                                                         *)
(* Time is a counter of ticks.  Redis round trips take none; a sitemap     *)
(* fetch, a scrape and a restart take at most FetchMax, ScrapeMax and      *)
(* DownMax, and an idle lane takes a due job before the clock moves on.    *)
(***************************************************************************)
EXTENDS Integers, FiniteSets

CONSTANTS
    BoardSize,      \* symbols that may be listed are 1..BoardSize, sorted
    Pacing,         \* UNIVERSE_PACING_MS
    Slack,          \* slackMs of passLockTtlSeconds
    CronEvery,      \* period of UNIVERSE_PASS_CRON
    Backoff,        \* delay before a symbol job's second attempt
    DayLength,      \* ticks in a day
    OpenAt,         \* minutes past midnight the window opens at, in ticks
    CloseAt,        \* and the last one that still counts as open
    TradingDays,    \* days that are Monday to Friday
    Horizon,        \* bound on the clock
    FetchMax,       \* bound on a sitemap fetch (it has a timeout)
    ScrapeMax,      \* bound on the scrape of one symbol (the code sets none)
    DownMax,        \* bound on the time a dead worker takes to come back
    MaxFaults       \* bound on crashes and failed fetches explored

ASSUME SizeAssumption == BoardSize \in Nat /\ MaxFaults \in Nat
ASSUME ClockAssumption ==
    /\ DayLength \in Nat \ {0}
    /\ CronEvery \in Nat \ {0}
    /\ Horizon \in Nat /\ OpenAt \in Nat /\ CloseAt \in Nat
    /\ TradingDays \subseteq Nat
ASSUME DelayAssumption ==
    /\ Pacing \in Nat /\ Slack \in Nat \ {0} /\ Backoff \in Nat
    /\ FetchMax \in Nat /\ ScrapeMax \in Nat /\ DownMax \in Nat

VARIABLES
    now,        \* the clock
    passes,     \* pass jobs in the queue
    jobs,       \* universe-symbol jobs in the queue
    lane,       \* the await the worker is about to perform
    busy,       \* ticks it has spent on it
    laneJob,        \* the job it holds
    kind,       \* pass in hand: the kind the clock chose
    asOf,       \* pass in hand: the clock it read on starting
    found,      \* pass in hand: the symbols of the sitemap
    claimed,    \* sessions whose close-pass key exists
    lockUntil,  \* when the pass-lock key expires
    lockedAt,   \* history: when the lock was last taken
    closings,   \* history: closing walks put on the queue, per session
    faults      \* crashes and failed fetches so far

queue == <<passes, jobs>>
hand == <<kind, asOf, found>>
keys == <<claimed, lockUntil, lockedAt>>
passVars == <<now, queue, lane, busy, laneJob, hand, keys, closings, faults>>

Board == 1..BoardSize
Day(t) == t \div DayLength
Days == {Day(t) : t \in 0..Horizon}
Minute(t) == t % DayLength
Kinds == {"intraday", "close"}
Lanes == {"idle", "down", "claim", "fetch", "lock", "enqueue", "scrape"}

NoJob == [type |-> "none"]
PassJob(due, stalls) == [type |-> "pass", due |-> due, stalls |-> stalls]
SymbolJob(walk, symbol, due, attempt, stalls) ==
    [type |-> "symbol", walk |-> walk, symbol |-> symbol, due |-> due,
     attempt |-> attempt, stalls |-> stalls]

---------------------------------------------------------------------------
(***************************************************************************)
(* The clock rules.                                                        *)
(***************************************************************************)

isMarketOpen(t) == Day(t) \in TradingDays /\ OpenAt <= Minute(t) /\ Minute(t) <= CloseAt

isClosingPassDue(t) == Day(t) \in TradingDays /\ Minute(t) > CloseAt

\* What the clock owes; "none" outside both windows.
resolvePassKind(t) ==
    IF isMarketOpen(t) THEN "intraday"
    ELSE IF isClosingPassDue(t) THEN "close" ELSE "none"

\* The next slot of the cron pattern strictly after t.
NextSlot(t) == ((t \div CronEvery) + 1) * CronEvery

\* Deviation: no slack, the lock only covers the schedule.
TtlNoSlack(n) == n * Pacing

\* Deviation: the lock is set without an expiry.
TtlForever(n) == Horizon + n * Pacing + Slack + 1

\* How long a walk of n symbols may hold the lock.  The unit of the clock is
\* a whole number of seconds, so the rounding up adds nothing.
passLockTtl(n) == n * Pacing + Slack

\* Position of s in the sorted list of the symbols found.
Position(s, S) == Cardinality({r \in S : r < s})

---------------------------------------------------------------------------
InitPass ==
    /\ now = 0
    /\ passes = {PassJob(NextSlot(0), 0)}
    /\ jobs = {}
    /\ lane = "idle"
    /\ busy = 0
    /\ laneJob = NoJob
    /\ kind = "none"
    /\ asOf = 0
    /\ found = {}
    /\ claimed = {}
    /\ lockUntil = 0
    /\ lockedAt = 0
    /\ closings = [d \in Days |-> 0]
    /\ faults = 0

\* The lane moves on to another await.
LaneTo(l) == lane' = l /\ busy' = 0

\* No job in hand, and no pass.
EmptyHand == laneJob' = NoJob /\ kind' = "none" /\ asOf' = 0 /\ found' = {}

\* The processor has returned or thrown.
Settle == LaneTo("idle") /\ EmptyHand

\* The pass goes on to its next await.
GoOn(l) == LaneTo(l) /\ UNCHANGED <<laneJob, hand>>

\* Jobs are taken in the order they fell due.
Due(j) ==
    /\ j.due <= now
    /\ \A i \in passes \cup jobs : j.due <= i.due

---------------------------------------------------------------------------
(***************************************************************************)
(* The pass job.                                                           *)
(***************************************************************************)

\* A pass job starts.  Taking it schedules the next one, and the clock is
\* read once: everything the pass does later is for this instant.
StartPass(j) ==
    /\ lane = "idle"
    /\ Due(j)
    /\ passes' = (passes \ {j}) \cup {PassJob(NextSlot(now), 0)}
    /\ LET owed == resolvePassKind(now)
       IN IF owed = "none"
          THEN Settle
          ELSE /\ LaneTo(IF owed = "close" THEN "claim" ELSE "fetch")
               /\ laneJob' = j
               /\ kind' = owed
               /\ asOf' = now
               /\ UNCHANGED found
    /\ UNCHANGED <<now, jobs, keys, closings, faults>>

\* Deviation: the claim is not set only if absent.
ClaimOverwrites ==
    /\ lane = "claim"
    /\ claimed' = claimed \cup {Day(asOf)}
    /\ GoOn("fetch")
    /\ UNCHANGED <<now, queue, lockUntil, lockedAt, closings, faults>>

\* SET NX on the session's key: the second pass after the close is skipped.
ClaimClosingPass ==
    /\ lane = "claim"
    /\ claimed' = claimed \cup {Day(asOf)}
    /\ IF Day(asOf) \in claimed THEN Settle ELSE GoOn("fetch")
    /\ UNCHANGED <<now, queue, lockUntil, lockedAt, closings, faults>>

\* The sitemap lists some of the board, never none of it.
FetchUniverse ==
    /\ lane = "fetch"
    /\ found' \in SUBSET Board \ {{}}
    /\ LaneTo("lock")
    /\ UNCHANGED <<now, queue, laneJob, kind, asOf, keys, closings, faults>>

\* A refused, unparsable or empty sitemap throws; `attempts: 1', so the job
\* has failed for good.
FetchFailed ==
    /\ lane = "fetch"
    /\ faults < MaxFaults
    /\ faults' = faults + 1
    /\ Settle
    /\ UNCHANGED <<now, queue, keys, closings>>

\* SET NX EX on the lock.  Nothing ever deletes the key.
ClaimPassLock ==
    /\ lane = "lock"
    /\ IF now < lockUntil
       THEN Settle /\ UNCHANGED <<lockUntil, lockedAt>>
       ELSE /\ lockUntil' = now + passLockTtl(Cardinality(found))
            /\ lockedAt' = now
            /\ GoOn("enqueue")
    /\ UNCHANGED <<now, queue, claimed, closings, faults>>

\* The jobs of a walk over S, each delayed by its position.  A walk is told
\* from another by the lock it was started under.
WalkJobs(S) == {SymbolJob(lockedAt, s, now + Position(s, S) * Pacing, 1, 0) : s \in S}

CountClosing ==
    closings' = IF kind = "close" THEN [closings EXCEPT ![Day(asOf)] = @ + 1] ELSE closings

EnqueueUniverseSymbols ==
    /\ lane = "enqueue"
    /\ jobs' = jobs \cup WalkJobs(found)
    /\ CountClosing
    /\ Settle
    /\ UNCHANGED <<now, passes, keys, faults>>

---------------------------------------------------------------------------
(***************************************************************************)
(* The symbol jobs.  What a scrape writes, and that a removed symbol is    *)
(* skipped, is the business of SymbolLifecycle.                            *)
(***************************************************************************)

StartSymbol(j) ==
    /\ lane = "idle"
    /\ Due(j)
    /\ jobs' = jobs \ {j}
    /\ laneJob' = j
    /\ LaneTo("scrape")
    /\ UNCHANGED <<now, passes, hand, keys, closings, faults>>

\* Written, skipped or found not to be listed: the job is complete.
Scraped ==
    /\ lane = "scrape"
    /\ Settle
    /\ UNCHANGED <<now, queue, keys, closings, faults>>

\* The run threw; `attempts: 2', so the first failure is tried once more.
ScrapeFailed ==
    /\ lane = "scrape"
    /\ jobs' = IF laneJob.attempt = 1
               THEN jobs \cup {[laneJob EXCEPT !.attempt = 2, !.due = now + Backoff]}
               ELSE jobs
    /\ Settle
    /\ UNCHANGED <<now, passes, keys, closings, faults>>

---------------------------------------------------------------------------
(***************************************************************************)
(* Crashes, and the clock.                                                 *)
(***************************************************************************)

\* A job whose worker died is put back once; the second time it has failed.
Stalled(j) == IF j.stalls = 0 THEN {[j EXCEPT !.stalls = 1]} ELSE {}

\* The worker dies.  The job it held stays in Redis, and so do the keys.  In
\* the middle of the bulk add, some of the walk's jobs never get an entry.
Crash ==
    /\ lane # "down"
    /\ faults < MaxFaults
    /\ faults' = faults + 1
    /\ LaneTo("down")
    /\ EmptyHand
    /\ passes' = IF laneJob.type = "pass" THEN passes \cup Stalled(laneJob) ELSE passes
    /\ \E S \in SUBSET (IF lane = "enqueue" THEN found ELSE {}) :
         LET kept == {j \in WalkJobs(found) : j.symbol \in S}
             held == IF laneJob.type = "symbol" THEN Stalled(laneJob) ELSE {}
         IN /\ jobs' = jobs \cup kept \cup held
            /\ IF S = {} THEN UNCHANGED closings ELSE CountClosing
    /\ UNCHANGED <<now, keys>>

\* The process is back and registers its schedule: the old repeatable is
\* dropped and the pattern's next slot is added.  The workers are up first, so
\* a pass that fell due meanwhile may have been taken before it is dropped.
Restart ==
    /\ lane = "down"
    /\ \E taken \in SUBSET {j \in passes : j.due <= now} :
         passes' = taken \cup {j \in passes : j.stalls > 0} \cup {PassJob(NextSlot(now), 0)}
    /\ LaneTo("idle")
    /\ UNCHANGED <<now, jobs, laneJob, hand, keys, closings, faults>>

\* How long the lane may stay where it is; an idle one is not held back
\* while a job is due.
Patience ==
    CASE lane = "fetch" -> FetchMax
      [] lane = "scrape" -> ScrapeMax
      [] lane = "down" -> DownMax
      [] OTHER -> 0

Tick ==
    /\ now < Horizon
    /\ IF lane = "idle"
       THEN \A j \in passes \cup jobs : j.due > now
       ELSE busy < Patience
    /\ now' = now + 1
    /\ busy' = IF lane = "idle" THEN 0 ELSE busy + 1
    /\ UNCHANGED <<queue, lane, laneJob, hand, keys, closings, faults>>

NextPass ==
    \/ \E j \in passes : StartPass(j)
    \/ ClaimClosingPass
    \/ FetchUniverse
    \/ FetchFailed
    \/ ClaimPassLock
    \/ EnqueueUniverseSymbols
    \/ \E j \in jobs : StartSymbol(j)
    \/ Scraped
    \/ ScrapeFailed
    \/ Crash
    \/ Restart
    \/ Tick

PassSpec == InitPass /\ [][NextPass]_passVars

---------------------------------------------------------------------------
(***************************************************************************)
(* Properties.                                                             *)
(***************************************************************************)

PassJobs == [type : {"pass"}, due : Nat, stalls : {0, 1}]
SymbolJobs == [type : {"symbol"}, walk : Nat, symbol : Board, due : Nat,
               attempt : {1, 2}, stalls : {0, 1}]

\* The queue holds well-formed jobs, the lane holds a job exactly while it
\* works on one, and only a pass that the clock owed something is in hand.
PassTypeOK ==
    /\ now \in 0..Horizon
    /\ passes \subseteq PassJobs
    /\ jobs \subseteq SymbolJobs
    /\ lane \in Lanes
    /\ busy \in Nat
    /\ lane \in {"idle", "down"} => laneJob = NoJob
    /\ lane = "scrape" => laneJob \in SymbolJobs
    /\ lane \in {"claim", "fetch", "lock", "enqueue"} => laneJob \in PassJobs
    /\ kind \in Kinds \cup {"none"}
    /\ asOf \in 0..Horizon
    /\ found \subseteq Board
    /\ claimed \subseteq Days
    /\ lockUntil \in Nat
    /\ lockedAt \in 0..Horizon
    /\ closings \in [Days -> Nat]
    /\ faults \in 0..MaxFaults

\* The board is walked for the close at most once per session, however many
\* ticks follow the close and whatever crashes in between: the cron keeps
\* firing until midnight, and the claim is all that stops it.
ClosingWalkOnce == \A d \in Days : closings[d] <= 1

\* The symbol jobs a worker has ahead of it are all of one walk.  Does not
\* hold: the lock is never released, it expires on a schedule computed from
\* the pacing, and nothing holds the lane to that schedule.
WalksDoNotOverlap ==
    \A i, k \in jobs \cup {laneJob} : i.type = "symbol" /\ k.type = "symbol" => i.walk = k.walk

\* What the lock does buy: a walk joins one that is still in the queue only
\* where the lane has fallen behind the older walk's schedule by more than the
\* slack.  Each job of the older walk that is still waiting for its first
\* attempt was due a pacing and the slack before the newer walk was started.
OverlapIsLateness ==
    \A i, k \in jobs \cup {laneJob} :
        /\ i.type = "symbol" /\ k.type = "symbol"
        /\ i.walk < k.walk /\ i.attempt = 1
        => i.due + Pacing + Slack <= k.walk

\* The longest a session goes without a walk being started, when every fault
\* explored costs it a tick of the cron.
LongestGap ==
    BoardSize * Pacing + Slack + (MaxFaults + 1) * CronEvery + FetchMax + ScrapeMax + DownMax

\* A pass that dies does not wedge the worker: whatever it had taken when it
\* died, the session never goes longer than an expiry and a tick without
\* another one starting.  It is a matter of sizes: it holds while a scrape
\* takes no longer than the pacing, and not of a lane that falls behind.
DeadPassDoesNotWedge ==
    isMarketOpen(now) /\ Minute(now) - OpenAt > LongestGap => now - lockedAt <= LongestGap

\* The closing pass runs once per session: once it is claimed, either it is
\* still being started or its walk was enqueued.  Does not hold: the claim is
\* taken first, and the pass may then find the lock of the session's last
\* in-hours walk and give up.
ClaimedClosingPassRuns ==
    \A d \in claimed :
        \/ closings[d] > 0
        \/ lane \in {"fetch", "lock", "enqueue"} /\ kind = "close" /\ Day(asOf) = d

=============================================================================
