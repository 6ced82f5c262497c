---------------------------- MODULE SourceGate ----------------------------
(***************************************************************************)
(* What stands between the workers and the sources: the breaker that backs *)
(* off a source refusing us, and the pool of browser pages.                *)
(*                                                                         *)
(* A lane is one concurrent reader inside the worker process.  A pooled    *)
(* lane opens its page in the shared browser and holds one of a few slots  *)
(* from before the launch until its page is closed; a direct lane sends a  *)
(* plain HTTP request.  A guarded lane asks the breaker first and reports  *)
(* what came of its request; the stock page scrapers do neither.           *)
(*                                                                         *)
(* One thread runs all of it: an action is what happens between two        *)
(* awaits, and the actions of different lanes interleave.  In particular a *)
(* lane that waits for a slot is woken in one step and takes the slot in a *)
(* later one.                                                              *)
(***************************************************************************)
EXTENDS Naturals, FiniteSets, Sequences

CONSTANTS
    Pooled,         \* lanes that read through the browser
    Direct,         \* lanes that read with a plain request
    Guarded,        \* lanes that ask the breaker first
    Sources,        \* the sources the breaker keeps an entry for
    SourceOf,       \* the source a lane reads
    Slots,          \* SCRAPER_CONCURRENCY
    Threshold,      \* consecutive refusals that open the breaker
    BaseCooldown,   \* the first cooldown, in ticks
    MaxCooldown,    \* the longest
    OpensCap        \* bound on the trips counted, past the longest cooldown

ASSUME LaneAssumption ==
    /\ IsFiniteSet(Pooled) /\ IsFiniteSet(Direct)
    /\ Pooled \cap Direct = {}
    /\ Direct \subseteq Guarded /\ Guarded \subseteq Pooled \cup Direct
    /\ SourceOf \in [Pooled \cup Direct -> Sources]
ASSUME PoolAssumption == Slots \in Nat \ {0}
ASSUME BreakerAssumption ==
    /\ Threshold \in Nat \ {0} /\ OpensCap \in Nat \ {0}
    /\ BaseCooldown \in Nat /\ MaxCooldown \in Nat /\ BaseCooldown <= MaxCooldown
    /\ BaseCooldown * 2^(OpensCap - 1) >= MaxCooldown
    /\ \A trips \in 1..OpensCap : BaseCooldown * 2^(trips - 1) \in Nat

VARIABLES
    pc,         \* the await a lane is at
    active,     \* the pool's count of slots taken
    queue,      \* lanes waiting for a slot, in order
    browser,    \* is there a connected browser
    launching,  \* is a launch under way
    failures,   \* breaker: refusals since the source last served us
    opens,      \* breaker: trips so far
    cooldown,   \* breaker: ticks left before the source may be asked
    leaked      \* history: requests sent in the current cooldown

pool == <<active, queue, browser, launching>>
breaker == <<failures, opens, cooldown>>
vars == <<pc, pool, breaker, leaked>>

Lanes == Pooled \cup Direct

\* A pooled lane holds a slot from "browser" to "release".
Holding == {"browser", "launching", "page", "request", "release"}
PcsOf(l) == IF l \in Direct THEN {"idle", "request"}
            ELSE {"idle", "waiting", "granted"} \cup Holding

Holders == {l \in Pooled : pc[l] \in Holding}
Granted == {l \in Pooled : pc[l] = "granted"}

isCoolingDown(s) == cooldown[s] > 0

TypeOK ==
    /\ pc \in [Lanes -> UNION {PcsOf(l) : l \in Lanes}]
    /\ \A l \in Lanes : pc[l] \in PcsOf(l)
    /\ active \in 0..Cardinality(Pooled)
    /\ queue \in Seq(Pooled)
    /\ browser \in BOOLEAN
    /\ launching \in BOOLEAN
    /\ failures \in [Sources -> 0..Threshold]
    /\ opens \in [Sources -> 0..OpensCap]
    /\ cooldown \in [Sources -> 0..MaxCooldown]
    /\ leaked \in [Sources -> Nat]

Init ==
    /\ pc = [l \in Lanes |-> "idle"]
    /\ active = 0
    /\ queue = <<>>
    /\ browser = FALSE
    /\ launching = FALSE
    /\ failures = [s \in Sources |-> 0]
    /\ opens = [s \in Sources |-> 0]
    /\ cooldown = [s \in Sources |-> 0]
    /\ leaked = [s \in Sources |-> 0]

Goto(l, p) == pc' = [pc EXCEPT ![l] = p]

---------------------------------------------------------------------------
(***************************************************************************)
(* The breaker.  Counters are kept up to the value past which they no      *)
(* longer change anything: failures up to the threshold, trips up to the   *)
(* one that already waits the longest.                                     *)
(***************************************************************************)

Lesser(a, b) == IF a < b THEN a ELSE b

CooldownAfter(trips) == Lesser(BaseCooldown * 2^(trips - 1), MaxCooldown)

\* Deviation: a refusal while the source cools down trips the breaker again.
RecordFailureRetrips(s) ==
    LET run == Lesser(failures[s] + 1, Threshold)
        trips == Lesser(opens[s] + 1, OpensCap)
    IN /\ failures' = [failures EXCEPT ![s] = run]
       /\ IF run < Threshold
          THEN UNCHANGED <<opens, cooldown>>
          ELSE /\ opens' = [opens EXCEPT ![s] = trips]
               /\ cooldown' = [cooldown EXCEPT ![s] = CooldownAfter(trips)]
       /\ UNCHANGED leaked

RecordFailure(s) ==
    LET run == Lesser(failures[s] + 1, Threshold)
        trips == Lesser(opens[s] + 1, OpensCap)
    IN /\ failures' = [failures EXCEPT ![s] = run]
       /\ IF isCoolingDown(s) \/ run < Threshold
          THEN UNCHANGED <<opens, cooldown>>
          ELSE /\ opens' = [opens EXCEPT ![s] = trips]
               /\ cooldown' = [cooldown EXCEPT ![s] = CooldownAfter(trips)]
       /\ UNCHANGED leaked

\* A served response ends the run and the cooldown with it; the trips stay.
RecordSuccess(s) ==
    /\ failures' = [failures EXCEPT ![s] = 0]
    /\ cooldown' = [cooldown EXCEPT ![s] = 0]
    /\ leaked' = [leaked EXCEPT ![s] = 0]
    /\ UNCHANGED opens

\* assertAvailable, which only guarded lanes call; when it throws the lane has
\* sent nothing and stays idle.
AssertAvailable(l) == l \in Guarded => ~ isCoolingDown(SourceOf[l])

\* A request leaves the process.
Ask(l) ==
    LET s == SourceOf[l]
    IN leaked' = IF l \in Guarded /\ isCoolingDown(s)
                 THEN [leaked EXCEPT ![s] = @ + 1] ELSE leaked

---------------------------------------------------------------------------
(***************************************************************************)
(* The pool.                                                               *)
(***************************************************************************)

\* fetchJson of the historical scraper, or a stock page scrape: the check and
\* the attempt to take a slot are one step, and the wait for it another.
Begin(l) ==
    /\ pc[l] = "idle"
    /\ AssertAvailable(l)
    /\ IF active < Slots
       THEN /\ active' = active + 1
            /\ Goto(l, "browser")
            /\ UNCHANGED queue
       ELSE /\ queue' = Append(queue, l)
            /\ Goto(l, "waiting")
            /\ UNCHANGED active
    /\ UNCHANGED <<browser, launching, breaker, leaked>>

\* The rest of acquireSlot, after the promise it waited on was resolved.
TakeGrantedSlot(l) ==
    /\ pc[l] = "granted"
    /\ active' = active + 1
    /\ Goto(l, "browser")
    /\ UNCHANGED <<queue, browser, launching, breaker, leaked>>

\* getBrowser: a connected browser, the launch under way, or a new launch.
GetBrowser(l) ==
    /\ pc[l] = "browser"
    /\ Goto(l, IF browser THEN "page" ELSE "launching")
    /\ launching' = (launching \/ ~ browser)
    /\ UNCHANGED <<active, queue, browser, breaker, leaked>>

\* Everyone who awaited the launch goes on.
LaunchEnds(p) ==
    /\ launching
    /\ launching' = FALSE
    /\ pc' = [l \in Lanes |-> IF pc[l] = "launching" THEN p ELSE pc[l]]
    /\ UNCHANGED <<active, queue, breaker, leaked>>

LaunchDone == LaunchEnds("page") /\ browser' = TRUE

\* Deviation: the slot is released in a finally that sits after the launch.
LaunchFailedKeepsSlot == LaunchEnds("idle") /\ UNCHANGED browser

\* The launch threw or timed out (and is closed if it resolves after all).
LaunchFailed == LaunchEnds("release") /\ UNCHANGED browser

\* The browser process dies; the pages it had fail on their own.
Disconnected ==
    /\ browser
    /\ browser' = FALSE
    /\ UNCHANGED <<pc, active, queue, launching, breaker, leaked>>

\* newPage or the set-up of the page throws.
PageFailed(l) ==
    /\ pc[l] = "page"
    /\ Goto(l, "release")
    /\ UNCHANGED <<pool, breaker, leaked>>

\* page.goto
Navigate(l) ==
    /\ pc[l] = "page"
    /\ Goto(l, "request")
    /\ Ask(l)
    /\ UNCHANGED <<pool, breaker>>

\* Deviation: nobody is told that a slot is free.
ReleaseSlotSilently(l) ==
    /\ pc[l] = "release"
    /\ active' = active - 1
    /\ Goto(l, "idle")
    /\ UNCHANGED <<queue, browser, launching, breaker, leaked>>

\* releaseSlot: give the slot back and wake the first in line, which has yet
\* to take it.
ReleaseSlot(l) ==
    /\ pc[l] = "release"
    /\ active' = active - 1
    /\ IF queue = <<>>
       THEN Goto(l, "idle") /\ UNCHANGED queue
       ELSE /\ queue' = Tail(queue)
            /\ pc' = [pc EXCEPT ![l] = "idle", ![Head(queue)] = "granted"]
    /\ UNCHANGED <<browser, launching, breaker, leaked>>

---------------------------------------------------------------------------
(***************************************************************************)
(* Requests.                                                               *)
(***************************************************************************)

\* A plain fetch: the check and the request are one step.
Fetch(l) ==
    /\ pc[l] = "idle"
    /\ AssertAvailable(l)
    /\ Goto(l, "request")
    /\ Ask(l)
    /\ UNCHANGED <<pool, breaker>>

\* What a lane does once its request is over.
Answered(l) == Goto(l, IF l \in Direct THEN "idle" ELSE "release") /\ UNCHANGED pool

\* The source served a body that parses.
Served(l) ==
    /\ pc[l] = "request"
    /\ l \in Guarded
    /\ RecordSuccess(SourceOf[l])
    /\ Answered(l)

\* The source refused, or did not answer in time.
Refused(l) ==
    /\ pc[l] = "request"
    /\ l \in Guarded
    /\ RecordFailure(SourceOf[l])
    /\ Answered(l)

\* A 404 or a body that does not parse says nothing of the source, and a lane
\* that is not guarded tells the breaker nothing.
Uncounted(l) ==
    /\ pc[l] = "request"
    /\ Answered(l)
    /\ UNCHANGED <<breaker, leaked>>

\* Time passes, for every source.
Tick ==
    /\ \E s \in Sources : isCoolingDown(s)
    /\ cooldown' = [s \in Sources |-> IF isCoolingDown(s) THEN cooldown[s] - 1 ELSE 0]
    /\ leaked' = [s \in Sources |-> IF cooldown[s] > 1 THEN leaked[s] ELSE 0]
    /\ UNCHANGED <<pc, pool, failures, opens>>

PoolStep(l) ==
    \/ TakeGrantedSlot(l)
    \/ GetBrowser(l)
    \/ PageFailed(l)
    \/ Navigate(l)
    \/ ReleaseSlot(l)

Answer(l) == Served(l) \/ Refused(l) \/ Uncounted(l)

Next ==
    \/ \E l \in Pooled : Begin(l) \/ PoolStep(l)
    \/ \E l \in Direct : Fetch(l)
    \/ \E l \in Lanes : Answer(l)
    \/ LaunchDone
    \/ LaunchFailed
    \/ Disconnected
    \/ Tick

Spec == Init /\ [][Next]_vars

\* A resolved promise is continued, a launch and a navigation end or time out,
\* and so does a request.  Nothing obliges a lane to begin, a browser to die or
\* a cooldown to be waited for.
Fairness ==
    /\ \A l \in Pooled : WF_vars(PoolStep(l))
    /\ \A l \in Lanes : WF_vars(Answer(l))
    /\ WF_vars(LaunchDone \/ LaunchFailed)

FairSpec == Spec /\ Fairness

---------------------------------------------------------------------------
(***************************************************************************)
(* Properties.                                                             *)
(***************************************************************************)

\* A lane waits only while the pool is full: counting the slots really held,
\* and those handed to a lane that has not run yet, none is idle while
\* somebody waits.  A slot that is not given back on some path, or given back
\* without waking anyone, starves the pool for good.
NobodyWaitsForAnIdleSlot ==
    queue # <<>> => Cardinality(Holders \cup Granted) >= Slots

\* A source that is refusing us is spared: of the lanes that asked before the
\* breaker opened, each can still send one request into the cooldown, never
\* two, however the cooldown, the pool and the answers interleave.
LeakIsOnePerLane ==
    \A s \in Sources :
        leaked[s] <= Cardinality({l \in Pooled \cap Guarded : SourceOf[l] = s})

\* The refusals of requests that were in flight when the breaker opened
\* neither extend the cooldown nor make the next one longer.
CooldownIsNotExtended ==
    [][\A s \in Sources : isCoolingDown(s) =>
          cooldown'[s] <= cooldown[s] /\ opens'[s] = opens[s]]_vars

\* Every read comes to an end: a lane that waits for a slot gets one, and one
\* that holds a slot gives it back, even while launches fail and the browser
\* dies.
EveryReadEnds == \A l \in Lanes : (pc[l] # "idle") ~> (pc[l] = "idle")

\* No request may be sent to a source while it is serving its cooldown.  Does
\* not hold: the check comes before the wait for a slot.
NoRequestWhileCooling == \A s \in Sources : leaked[s] = 0

=============================================================================
