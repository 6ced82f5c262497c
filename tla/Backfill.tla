------------------------------ MODULE Backfill ------------------------------
(***************************************************************************)
(* Old sessions brought in from a second source: the daily bars of one     *)
(* stock from Yahoo, and the sessions of an index no board carries from    *)
(* Sarmaaya, whose registration waits for the source to answer for it.     *)
(* The stock's rows are also written by its history sync, a run may die at *)
(* any step and be started again, and the source may answer otherwise.     *)
(*                                                                         *)
(* A row is the figures the two sources share, the open and the close; the *)
(* rest of a row is as its open: given or missing.                         *)
(***************************************************************************)
EXTENDS Integers, Sequences, FiniteSets

CONSTANTS
    BarDays,        \* the sessions
    BarPrices,      \* the figures of a row
    Payloads,       \* what Yahoo may answer: sequences of a day, an open and a close
    IndexPayloads,  \* what Sarmaaya may answer: its prices and its volumes
    MinDeep,        \* --min-sessions: with as many rows nothing is asked for
    MaxBackfills    \* bound on the runs, the syncs and the registrations

ASSUME BackfillAssumption ==
    /\ BarPrices \subseteq Nat \ {0} /\ MinDeep \in Nat \ {0} /\ MaxBackfills \in Nat

\* A figure that is no number is 0; the days of an index are numbered.
ASSUME PayloadsAssumption ==
    /\ Payloads \subseteq Seq([day : BarDays, open : BarPrices \cup {0}, close : BarPrices \cup {0}])
    /\ IndexPayloads \subseteq [prices : Seq([day : Nat, price : Nat]),
                              volumes : Seq([day : Nat, volume : Nat])]

VARIABLES
    rows,       \* the stock's rows, by session
    run,        \* a run of backfillSymbol
    others,     \* what a sync has written since the run read its rows: sessions
    syncs,      \* runs, syncs and registrations begun
    indexRow,   \* the supplementary index: tracked, synced, its sessions, and how
                \* many the source had answered for when it was registered
    pass        \* a run of registerSupplementaryIndices

backfillVars == <<rows, run, others, syncs, indexRow, pass>>

Missing == 0
NoBarRow == [open |-> Missing, close |-> Missing, stored |-> FALSE]
Fields == {"open", "close"}
BarRows == {NoBarRow} \cup [open : BarPrices \cup {Missing}, close : BarPrices, stored : {TRUE}]

\* A run that is not under way, one that got to its end, one that threw.
NoRun(how) == [at |-> how, bars |-> <<>>, next |-> 1, byDay |-> [d \in BarDays |-> NoBarRow]]
NoPass == [at |-> "idle", held |-> {}, answer |-> <<>>]

BackfillTypeOK ==
    /\ rows \in [BarDays -> BarRows] /\ others \in SUBSET BarDays /\ syncs \in 0..MaxBackfills
    /\ run.at \in {"idle", "thrown", "done", "fetched", "filling"}
    /\ run.next \in 1..Len(run.bars) + 1 /\ run.byDay \in [BarDays -> BarRows]
    /\ indexRow.tracked \in BOOLEAN /\ indexRow.synced \in BOOLEAN
    /\ pass.at \in {"idle", "verified", "registered", "answered"}

InitBackfill ==
    /\ rows \in [BarDays -> {NoBarRow} \cup [open : {Missing}, close : BarPrices, stored : {TRUE}]]
    /\ run = NoRun("idle") /\ others = {} /\ syncs = 0
    /\ indexRow = [tracked |-> FALSE, synced |-> FALSE, sessions |-> <<>>, answeredFor |-> 0]
    /\ pass = NoPass

Begin == syncs < MaxBackfills /\ syncs' = syncs + 1

---------------------------------------------------------------------------
(***************************************************************************)
(* Yahoo's bars: those without a close are dropped, the others may lack    *)
(* the rest.                                                               *)
(***************************************************************************)
parseDailyBars(payload) ==
    LET closed == {i \in DOMAIN payload : payload[i].close # Missing}
        nth(n) == CHOOSE i \in closed : Cardinality({j \in closed : j <= i}) = n
    IN [n \in 1..Cardinality(closed) |-> payload[nth(n)]]

\* Deviation: the source's figures win.
sourceWins(existing, bar) == {f \in Fields : bar[f] # Missing}

\* The figures missing here and present there.
planUpdate(existing, bar) == {f \in Fields : bar[f] # Missing /\ existing[f] = Missing}

Filled(row, bar, fields) ==
    [row EXCEPT !.open = IF "open" \in fields THEN bar.open ELSE @,
                !.close = IF "close" \in fields THEN bar.close ELSE @]

RowOf(bar) == [open |-> bar.open, close |-> bar.close, stored |-> TRUE]

---------------------------------------------------------------------------
(***************************************************************************)
(* A run over one symbol: the count, the request, the rows, then one write *)
(* per bar.  A run that is deep enough, or is refused, ends where it is.   *)
(***************************************************************************)
Deep == Cardinality({d \in BarDays : rows[d].stored}) >= MinDeep

fetchDailyBars(payload) ==
    /\ run.at \in {"idle", "thrown", "done"} /\ ~Deep /\ Begin
    /\ run' = [NoRun("fetched") EXCEPT !.bars = parseDailyBars(payload)]
    /\ others' = {}
    /\ UNCHANGED <<rows, indexRow, pass>>

ReadRows ==
    /\ run.at = "fetched"
    /\ run' = [run EXCEPT !.at = "filling", !.byDay = rows]
    /\ UNCHANGED <<rows, others, syncs, indexRow, pass>>

\* The next bar is skipped, fills the row it was read to belong to, or is a row of its
\* own: one session has one row, so a row written since makes the run throw.
WriteBar ==
    /\ run.at = "filling" /\ run.next <= Len(run.bars)
    /\ LET bar == run.bars[run.next]
           existing == run.byDay[bar.day]
       IN IF existing.stored
          THEN /\ rows' = [rows EXCEPT ![bar.day] = Filled(@, bar, planUpdate(existing, bar))]
               /\ run' = [run EXCEPT !.next = @ + 1]
          ELSE IF rows[bar.day].stored
          THEN rows' = rows /\ run' = NoRun("thrown")
          ELSE /\ rows' = [rows EXCEPT ![bar.day] = RowOf(bar)]
               /\ run' = [run EXCEPT !.next = @ + 1]
    /\ UNCHANGED <<others, syncs, indexRow, pass>>

FinishRun ==
    /\ run.at = "filling" /\ run.next > Len(run.bars)
    /\ run' = [run EXCEPT !.at = "done"]
    /\ UNCHANGED <<rows, others, syncs, indexRow, pass>>

DieRunning ==
    /\ run.at \in {"fetched", "filling"}
    /\ run' = NoRun("idle")
    /\ UNCHANGED <<rows, others, syncs, indexRow, pass>>

\* The history sync's upsert of one point, in a chunk of a transaction of its own:
\* it writes what the exchange says, an open it does not give as none.
bulkUpsertHistory(point) ==
    /\ run.at \in {"fetched", "filling"} /\ Begin
    /\ rows' = [rows EXCEPT ![point.day] = RowOf(point)]
    /\ others' = others \cup {point.day}
    /\ UNCHANGED <<run, indexRow, pass>>

---------------------------------------------------------------------------
(***************************************************************************)
(* Sarmaaya's two series joined: the first price of a day, and its volume. *)
(***************************************************************************)
Readable(prices) == {i \in DOMAIN prices : prices[i].price # Missing}
FirstOn(prices, d) == CHOOSE i \in Readable(prices) :
    prices[i].day = d /\ \A j \in Readable(prices) : j < i => prices[j].day # d
LastOn(volumes, d) == {i \in DOMAIN volumes : volumes[i].day = d
                         /\ \A j \in i + 1..Len(volumes) : volumes[j].day # d}

\* A price that cannot be read is no point, a volume that cannot is missing.
parseIndexHistory(prices, volumes) ==
    {[day |-> d, value |-> prices[FirstOn(prices, d)].price,
      volume |-> IF LastOn(volumes, d) = {} THEN Missing
                 ELSE volumes[CHOOSE i \in LastOn(volumes, d) : TRUE].volume]
       : d \in {prices[i].day : i \in Readable(prices)}}

planIndexInserts(held, points) == {p \in points : p.day \notin held}

SessionDays == {indexRow.sessions[i].day : i \in DOMAIN indexRow.sessions}

\* registerSupplementaryIndices, up to the fill: tracked already, or asked for first,
\* and left alone when the source does not answer or has no session of it.
RegisterPass(payload) ==
    /\ pass.at = "idle" /\ ~indexRow.tracked /\ Begin
    /\ LET sessions == Cardinality(parseIndexHistory(payload.prices, <<>>)) IN
       pass' = [NoPass EXCEPT !.at = IF sessions = 0 THEN "idle" ELSE "verified",
                              !.answer = IF sessions = 0 THEN <<>> ELSE <<sessions>>]
    /\ UNCHANGED <<rows, run, others, indexRow>>

FillPass ==
    /\ pass.at = "idle" /\ indexRow.tracked /\ Begin
    /\ pass' = [NoPass EXCEPT !.at = "registered"]
    /\ UNCHANGED <<rows, run, others, indexRow>>

createIndex ==
    /\ pass.at = "verified"
    /\ indexRow' = [indexRow EXCEPT !.tracked = TRUE, !.answeredFor = pass.answer[1]]
    /\ pass' = [NoPass EXCEPT !.at = "registered"]
    /\ UNCHANGED <<rows, run, others, syncs>>

\* backfillIndex: both series and the days held, then one insert that skips a day that
\* is there by then.  A request that fails ends the fill; the registration stays.
FetchSeries(payload) ==
    /\ pass.at = "registered"
    /\ pass' = [NoPass EXCEPT !.at = "answered", !.held = SessionDays,
                  !.answer = <<parseIndexHistory(payload.prices, payload.volumes)>>]
    /\ UNCHANGED <<rows, run, others, syncs, indexRow>>

InsertAndMark ==
    /\ pass.at = "answered"
    /\ \E order \in {s \in [1..Cardinality(planIndexInserts(pass.held, pass.answer[1]))
                              -> planIndexInserts(pass.held, pass.answer[1])] :
                        \A i, j \in DOMAIN s : i < j => s[i].day < s[j].day} :
          indexRow' = [indexRow EXCEPT !.sessions = @ \o order, !.synced = TRUE]
    /\ pass' = NoPass
    /\ UNCHANGED <<rows, run, others, syncs>>

\* The fill's request fails, or the worker dies.
LosePass ==
    /\ pass.at # "idle"
    /\ pass' = NoPass
    /\ UNCHANGED <<rows, run, others, syncs, indexRow>>

NextBackfill ==
    \/ \E payload \in Payloads : fetchDailyBars(payload)
    \/ ReadRows \/ WriteBar \/ FinishRun \/ DieRunning
    \/ \E d \in BarDays, o \in BarPrices \cup {Missing}, c \in BarPrices :
          bulkUpsertHistory([day |-> d, open |-> o, close |-> c])
    \/ \E payload \in IndexPayloads : RegisterPass(payload) \/ FetchSeries(payload)
    \/ FillPass \/ createIndex \/ InsertAndMark \/ LosePass

BackfillSpec == InitBackfill /\ [][NextBackfill]_backfillVars

---------------------------------------------------------------------------
\* The figure of the source for a session, the last that is given.
Given(d, f) ==
    LET of == {i \in DOMAIN run.bars : run.bars[i].day = d /\ run.bars[i][f] # Missing}
    IN IF of = {} THEN Missing ELSE run.bars[CHOOSE i \in of : \A j \in of : j <= i][f]

\* A session the history sync has not written since the run read it keeps every figure
\* it had, and once a run got to its end has every figure the source gave for the ones
\* it had not; an index is tracked only after its source answered for it, has one row a
\* session, and is synced only when tracked.
GapsAreFilledOnce ==
    /\ run.at \in {"filling", "done"} =>
          \A d \in BarDays \ others, f \in Fields :
              IF run.byDay[d][f] # Missing THEN rows[d][f] = run.byDay[d][f]
              ELSE run.at = "done" => rows[d][f] = Given(d, f)
    /\ indexRow.tracked => indexRow.answeredFor > 0
    /\ indexRow.synced \/ indexRow.sessions # <<>> => indexRow.tracked
    /\ \A i, j \in DOMAIN indexRow.sessions :
          indexRow.sessions[i].day = indexRow.sessions[j].day => i = j

=============================================================================
