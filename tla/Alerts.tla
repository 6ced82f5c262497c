------------------------------- MODULE Alerts -------------------------------
(***************************************************************************)
(* One alert of a device.  Nothing schedules its evaluation: every open    *)
(* alerts page asks for one, so that several run at once.  An evaluation   *)
(* reads the alert, then the market, seconds later, takes the time once    *)
(* for all the alerts of the device, and as their turn comes stores an     *)
(* event, dated by the database, together with the time that was taken.    *)
(* The user pauses, resumes and deletes the alert meanwhile.               *)
(***************************************************************************)
EXTENDS Integers, FiniteSets

CONSTANTS
    Tabs,           \* pages that evaluate
    Cooldown,       \* cooldownMinutes, in ticks
    LastTick,       \* bound on time
    MaxEvents       \* bound on events, failed ones included

ASSUME AlertAssumption == Cooldown \in Nat /\ LastTick \in Nat /\ MaxEvents \in Nat

None == -1

VARIABLES
    clock,
    kind,       \* what the alert watches: the price, the RSI, or a cross of an average
    condition,  \* its condition holds in the stored closes
    alert,      \* the row of alerts: deleted or not, paused or not, when it fired
    events,     \* alert_events
    eval        \* what each evaluation is at

alertVars == <<clock, kind, condition, alert, events, eval>>

\* An event: its place in the order of events, when it was written, the time its
\* evaluation had taken, whether it was delivered, and how many events there were
\* when its evaluation began.
Event == [nth : 1..MaxEvents, at : 0..LastTick, asOf : 0..LastTick, stored : BOOLEAN,
          seen : 0..MaxEvents]

AtEase == [pc |-> "idle", paused |-> FALSE, last |-> None, seen |-> 0,
           met |-> FALSE, asOf |-> 0]

AlertsTypeOK ==
    /\ clock \in 0..LastTick /\ condition \in BOOLEAN
    /\ kind \in {"price", "rsi", "cross"}
    /\ alert \in [exists : BOOLEAN, paused : BOOLEAN, last : 0..LastTick \cup {None}]
    /\ events \subseteq Event
    /\ eval \in [Tabs -> [pc : {"idle", "market", "fire", "failed"}, paused : BOOLEAN,
                          last : 0..LastTick \cup {None}, seen : 0..MaxEvents,
                          met : BOOLEAN, asOf : 0..LastTick]]

InitAlerts ==
    /\ clock = 0 /\ condition \in BOOLEAN /\ kind \in {"price", "rsi", "cross"}
    /\ alert = [exists |-> TRUE, paused |-> FALSE, last |-> None]
    /\ events = {}
    /\ eval = [t \in Tabs |-> AtEase]

---------------------------------------------------------------------------
\* The device's alerts that are not paused, as they stand now.
ReadAlerts(t) ==
    /\ eval[t] = AtEase /\ alert.exists /\ ~alert.paused
    /\ eval' = [eval EXCEPT ![t] =
          [AtEase EXCEPT !.pc = "market", !.paused = alert.paused, !.last = alert.last,
                         !.seen = Cardinality(events)]]
    /\ UNCHANGED <<clock, kind, condition, alert, events>>

\* The board of indicators, whose rows are filed by the stock's id.
technicalUniverse == [key \in {"id"} |-> condition]

\* An indicator is looked up by symbol; and a cross of an average needs the
\* average of the session before, which is not read.
isTriggered ==
    \/ kind = "price" /\ condition
    \/ kind = "rsi" /\ "symbol" \in DOMAIN technicalUniverse /\ technicalUniverse["symbol"]

\* The prices and the indicators, two awaits; then the time, once for all alerts.
ReadMarket(t) ==
    /\ eval[t].pc = "market"
    /\ eval' = [eval EXCEPT ![t].pc = "fire", ![t].met = isTriggered, ![t].asOf = clock]
    /\ UNCHANGED <<clock, kind, condition, alert, events>>

\* Deviation: any later moment will do.
isCoolLater(e) == ~e.paused /\ (e.last = None \/ e.asOf > e.last)

isCool(e) == ~e.paused /\ (e.last = None \/ e.asOf - e.last >= Cooldown)

NewEvent(t, stored) ==
    [nth |-> Cardinality(events) + 1, at |-> clock, asOf |-> eval[t].asOf, stored |-> stored,
     seen |-> eval[t].seen]

\* The alert's turn in the loop: the event and the time that was taken, in one
\* transaction; one that fails, as it does when the alert is gone, leaves neither.
evaluateAlert(t) ==
    /\ eval[t].pc = "fire" /\ Cardinality(events) < MaxEvents
    /\ IF ~(isCool(eval[t]) /\ eval[t].met)
       THEN eval' = [eval EXCEPT ![t] = AtEase] /\ UNCHANGED <<alert, events>>
       ELSE \/ /\ alert.exists
               /\ events' = events \cup {NewEvent(t, TRUE)}
               /\ alert' = [alert EXCEPT !.last = eval[t].asOf]
               /\ eval' = [eval EXCEPT ![t] = AtEase]
            \/ /\ eval' = [eval EXCEPT ![t].pc = "failed"]
               /\ UNCHANGED <<alert, events>>
    /\ UNCHANGED <<clock, kind, condition>>

\* The failure is recorded, unless the alert is gone: then that fails too, and
\* the request with it.
RecordFailure(t) ==
    /\ eval[t].pc = "failed" /\ Cardinality(events) < MaxEvents
    /\ events' = IF alert.exists THEN events \cup {NewEvent(t, FALSE)} ELSE events
    /\ eval' = [eval EXCEPT ![t] = AtEase]
    /\ UNCHANGED <<clock, kind, condition, alert>>

\* PATCH and DELETE.  A delete takes the events with it.
SetPaused ==
    /\ alert.exists
    /\ alert' = [alert EXCEPT !.paused = ~@]
    /\ UNCHANGED <<clock, kind, condition, events, eval>>

DeleteAlert ==
    /\ alert.exists
    /\ alert' = [alert EXCEPT !.exists = FALSE] /\ events' = {}
    /\ UNCHANGED <<clock, kind, condition, eval>>

MarketMoves ==
    /\ condition' = ~condition
    /\ UNCHANGED <<clock, kind, alert, events, eval>>

\* Time passes while the market is read, and while the other alerts have their turn.
AlertClock ==
    /\ clock < LastTick /\ clock' = clock + 1
    /\ UNCHANGED <<kind, condition, alert, events, eval>>

NextAlerts ==
    \/ \E t \in Tabs : ReadAlerts(t) \/ ReadMarket(t) \/ evaluateAlert(t) \/ RecordFailure(t)
    \/ SetPaused \/ DeleteAlert \/ MarketMoves \/ AlertClock

AlertsSpec == InitAlerts /\ [][NextAlerts]_alertVars

---------------------------------------------------------------------------
\* "Once fired, it stays quiet for cooldownMinutes": of two events that were stored the
\* later is a cooldown after the earlier.  Does not hold: an evaluation judges by the
\* alert it read, and nothing keeps another from firing it meanwhile.
QuietOnceFired ==
    \A e, f \in events : e.stored /\ f.stored /\ e.nth < f.nth => f.at - e.at >= Cooldown

\* What the code does keep: the alert remembers the time of the event that was stored
\* last, never that of one that failed; and an evaluation keeps the cooldown of the one
\* that was stored last when it began, whoever stored it.
LastFiringIsHeeded ==
    /\ alert.exists /\ alert.last # None =>
          \E e \in events : e.stored /\ e.asOf = alert.last /\ \A f \in events : f.stored => f.nth <= e.nth
    /\ \A e, f \in events :
          /\ e.stored /\ f.stored /\ e.nth <= f.seen
          /\ \A g \in events : g.stored /\ g.nth <= f.seen => g.nth <= e.nth
          => f.asOf - e.asOf >= Cooldown

=============================================================================
