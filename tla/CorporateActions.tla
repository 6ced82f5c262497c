-------------------------- MODULE CorporateActions --------------------------
(***************************************************************************)
(* One bonus issue, from the register's announcement to the adjusted chart.*)
(* The register prints a book closure, from which the ex-date is counted   *)
(* back over the holidays known so far; closures are moved, lines leave the*)
(* register, and a declared bonus may never happen.  A daily pass writes   *)
(* every line as announced and then confirms what the stored closes prove; *)
(* it may die at any await.  The issue doubles the shares: a close is 2    *)
(* before the step and 1 from it on.                                       *)
(***************************************************************************)
EXTENDS Integers, FiniteSets

CONSTANTS
    LastDay,        \* bound on time: days run 0..LastDay
    WeekendDays,    \* days of the weekend
    Holidays,       \* days the exchange is closed besides
    Closures,       \* first days of the book closures the register may print
    ExWalk,         \* days the ex-date is looked for back from a closure
    MaxDeaths       \* bound on passes cut short

ASSUME ActionsAssumption ==
    /\ LastDay \in Nat /\ ExWalk \in Nat /\ MaxDeaths \in Nat
    /\ Closures \subseteq 1..LastDay

Dates == 0..LastDay
Never == LastDay + 1
Closed == WeekendDays \cup Holidays

VARIABLES
    today,
    known,      \* market_holidays
    closure,    \* what the register prints, Never when the line is gone
    moved,      \* the closure has been moved
    stepsAt,    \* the day the shares really double, Never when they do not
    closes,     \* days with a close in stock_prices
    gap,        \* a session of the past has no close
    actions,    \* corporate_actions of the issue, by ex-date
    ingest,     \* what the pass is at
    deaths      \* passes cut short so far

actionVars == <<today, known, closure, moved, stepsAt, closes, gap, actions, ingest, deaths>>

Waiting == [pc |-> "idle", ex |-> Never, todo |-> {}]

ActionsTypeOK ==
    /\ today \in Dates /\ known \subseteq Holidays
    /\ closure \in Closures \cup {Never} /\ stepsAt \in Dates \cup {Never}
    /\ closes \subseteq Dates \ Closed /\ gap \in BOOLEAN /\ moved \in BOOLEAN
    /\ actions \in [Dates -> {"none", "announced", "confirmed"}]
    /\ ingest \in [pc : {"idle", "upsert", "read", "confirm"}, ex : Dates \cup {Never},
                   todo : SUBSET Dates]
    /\ deaths \in 0..MaxDeaths

---------------------------------------------------------------------------
(***************************************************************************)
(* The calculations.                                                       *)
(***************************************************************************)

\* The second trading day before a day, of those a walk of ExWalk days meets.
exDateFor(day, holidays) ==
    LET trading(d) == d \notin WeekendDays \cup holidays
        found == {d \in 0..day - 1 :
                    /\ day - d <= ExWalk /\ trading(d)
                    /\ Cardinality({e \in d..day - 1 : trading(e)}) = 2}
    IN IF found = {} THEN Never ELSE CHOOSE d \in found : TRUE

Close(d) == IF d >= stepsAt THEN 1 ELSE 2

\* Deviation: what trades on the ex-date counts as before it.
ProvedUpTo(ex) ==
    LET before == {d \in closes : d <= ex}
        after == {d \in closes : d > ex}
    IN /\ before # {} /\ after # {}
       /\ LET prev == CHOOSE d \in before : \A e \in before : e <= d
              next == CHOOSE d \in after : \A e \in after : d <= e
          IN Close(prev) = 2 * Close(next)

\* The step between the last close before the ex-date and the first from it on
\* is the one the ratio announces.
Proved(ex) ==
    LET before == {d \in closes : d < ex}
        after == {d \in closes : d >= ex}
    IN /\ before # {} /\ after # {}
       /\ LET prev == CHOOSE d \in before : \A e \in before : e <= d
              next == CHOOSE d \in after : \A e \in after : d <= e
          IN Close(prev) = 2 * Close(next)

Confirmed == {ex \in Dates : actions[ex] = "confirmed"}

\* How many times a price of a day is halved.
factorAt(date) == Cardinality({ex \in Confirmed : ex > date})

---------------------------------------------------------------------------
InitActions ==
    /\ today = 0 /\ known \in SUBSET Holidays
    /\ closure \in Closures /\ exDateFor(closure, Holidays) \in Dates \ {0}
    /\ stepsAt \in {exDateFor(closure, Holidays), Never}
    /\ closes = {} /\ gap = FALSE /\ moved = FALSE
    /\ actions = [d \in Dates |-> "none"]
    /\ ingest = Waiting /\ deaths = 0

\* The page is read, then the holidays, then the page again with them.
FetchRegister ==
    /\ ingest = Waiting /\ closure # Never
    /\ ingest' = [pc |-> "upsert", ex |-> exDateFor(closure, known), todo |-> {}]
    /\ UNCHANGED <<today, known, closure, moved, stepsAt, closes, gap, actions, deaths>>

\* A line without an ex-date is not stored; a row that is there is overwritten,
\* its status too.
WriteAnnounced ==
    /\ ingest.pc = "upsert"
    /\ actions' = [d \in Dates |-> IF d = ingest.ex THEN "announced" ELSE actions[d]]
    /\ ingest' = [ingest EXCEPT !.pc = "read"]
    /\ UNCHANGED <<today, known, closure, moved, stepsAt, closes, gap, deaths>>

\* Deviation: only the line just written is tried.
ReadUnconfirmedLine ==
    /\ ingest.pc = "read"
    /\ ingest' = [ingest EXCEPT !.pc = "confirm", !.todo = {}]
    /\ UNCHANGED <<today, known, closure, moved, stepsAt, closes, gap, actions, deaths>>

\* The stock's announced actions, whichever pass wrote them.
ReadUnconfirmed ==
    /\ ingest.pc = "read"
    /\ ingest' = [ingest EXCEPT !.pc = "confirm",
                     !.todo = {ex \in Dates : actions[ex] = "announced" /\ ingest.ex # Never}]
    /\ UNCHANGED <<today, known, closure, moved, stepsAt, closes, gap, actions, deaths>>

confirmFromPrices ==
    /\ ingest.pc = "confirm" /\ ingest.todo # {}
    /\ \E ex \in ingest.todo :
          /\ actions' = IF Proved(ex) THEN [actions EXCEPT ![ex] = "confirmed"] ELSE actions
          /\ ingest' = [ingest EXCEPT !.todo = @ \ {ex}]
    /\ UNCHANGED <<today, known, closure, moved, stepsAt, closes, gap, deaths>>

FinishIngest ==
    /\ ingest.pc = "confirm" /\ ingest.todo = {}
    /\ ingest' = Waiting
    /\ UNCHANGED <<today, known, closure, moved, stepsAt, closes, gap, actions, deaths>>

\* An error or a crash: what was written stays.
DieIngesting ==
    /\ ingest # Waiting /\ deaths < MaxDeaths
    /\ deaths' = deaths + 1 /\ ingest' = Waiting
    /\ UNCHANGED <<today, known, closure, moved, stepsAt, closes, gap, actions>>

\* A day passes, between passes: its session has left a close, as a rule.
PassDay ==
    /\ ingest = Waiting /\ today < LastDay /\ today' = today + 1
    /\ IF today \in Closed THEN UNCHANGED <<closes, gap>>
       ELSE \/ closes' = closes \cup {today} /\ UNCHANGED gap
            \/ gap' = TRUE /\ UNCHANGED closes
    /\ UNCHANGED <<known, closure, moved, stepsAt, actions, ingest, deaths>>

LearnHoliday ==
    /\ \E h \in Holidays \ known : known' = known \cup {h}
    /\ UNCHANGED <<today, closure, moved, stepsAt, closes, gap, actions, ingest, deaths>>

\* The closure is moved, ahead of the step; or the line leaves the register.
MoveClosure ==
    /\ today < stepsAt
    /\ \E c \in Closures \ {closure} :
          LET ex == exDateFor(c, Holidays)
          IN /\ ex \in Dates /\ ex > today
             /\ closure' = c /\ moved' = TRUE
             /\ stepsAt' = IF stepsAt = Never THEN Never ELSE ex
    /\ UNCHANGED <<today, known, closes, gap, actions, ingest, deaths>>

LeaveRegister ==
    /\ closure # Never /\ today > stepsAt /\ closure' = Never
    /\ UNCHANGED <<today, known, moved, stepsAt, closes, gap, actions, ingest, deaths>>

PassSteps == FetchRegister \/ WriteAnnounced \/ ReadUnconfirmed \/ confirmFromPrices \/ FinishIngest

NextActions ==
    \/ PassSteps \/ DieIngesting
    \/ PassDay \/ LearnHoliday \/ MoveClosure \/ LeaveRegister

ActionsSpec == InitActions /\ [][NextActions]_actionVars

---------------------------------------------------------------------------
(***************************************************************************)
(* What the chart promises.                                                *)
(***************************************************************************)

\* A row was dated from a holiday list that lacked that very day, and then the
\* closure was moved: the stale row may sit beside the real one.
Misdated == moved /\ \E h \in Holidays : actions[h] # "none"

\* The adjusted series is the one as traded or it is flat: wherever a closure was
\* moved to, whichever holiday was learnt late (one of the two) and wherever a
\* pass died, no action is applied that did not happen, twice, or a day off; as
\* long as each session left a close.
AdjustedIsRawOrFlat ==
    \/ gap \/ Misdated \/ Confirmed = {}
    \/ \A d \in closes : factorAt(d) = (IF d < stepsAt THEN 1 ELSE 0)

\* The step can be seen in the closes and the register still names its date.
Visible ==
    /\ closure # Never /\ exDateFor(closure, known) = stepsAt
    /\ ~gap /\ \E d \in closes : d < stepsAt
    /\ \E d \in closes : d >= stepsAt

\* A bonus whose step stays visible is confirmed by some pass, and again after
\* every pass that wrote announced over it and died.
StepIsConfirmed == <>[]Visible => []<>(Confirmed # {})

=============================================================================
