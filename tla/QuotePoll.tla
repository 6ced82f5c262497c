----------------------------- MODULE QuotePoll -----------------------------
(***************************************************************************)
(* The quote poll's tick: three sources asked in turn for the symbols the  *)
(* ones before left unserved, and one write per symbol served.  The last   *)
(* source is asked for a slice of the tail only, and a cursor moves the    *)
(* slice along.  Symbols are added and removed by the API meanwhile.       *)
(***************************************************************************)
EXTENDS Integers, FiniteSets

CONSTANTS
    Symbols,        \* numbers, in the order findAllSymbols lists them
    Slice,          \* SARMAYA_QUOTE_MAX_SYMBOLS
    MinInterval,    \* QUOTE_POLL_DPS_MIN_INTERVAL_MS, in ticks
    MaxTicks,       \* bound on ticks
    MaxChanges      \* bound on symbols added or removed

ASSUME PollAssumption ==
    /\ Symbols \subseteq Nat /\ IsFiniteSet(Symbols)
    /\ Slice \in Nat /\ MinInterval \in Nat
    /\ MaxTicks \in Nat /\ MaxChanges \in Nat

VARIABLES
    stock,      \* the id of each symbol's row in stocks, 0 when it has none
    changes,    \* adds and removes so far
    sinceSeries,\* ticks since the per-symbol series was last read
    cursor,     \* perSymbolCursor
    tick,       \* what the tick is at
    ticks,      \* ticks so far
    read,       \* the tick whose reading each symbol's row holds, 0 for none
    tail,       \* history: the tail of the last tick that had one to rotate
    waited      \* history: ticks each symbol of that tail has not been asked for

pollVars == <<stock, changes, sinceSeries, cursor, tick, ticks, read, tail, waited>>

Phases == {"idle", "series", "ticker", "perSymbol", "find", "upsert", "done"}

PollTypeOK ==
    /\ stock \in [Symbols -> 0..MaxChanges + 1] /\ changes \in 0..MaxChanges
    /\ sinceSeries \in 0..MinInterval /\ cursor \in Nat
    /\ tick.pc \in Phases /\ tick.served \subseteq Symbols /\ tick.left \subseteq Symbols
    /\ ticks \in 0..MaxTicks /\ read \in [Symbols -> 0..MaxTicks]
    /\ tail \subseteq Symbols /\ waited \in [Symbols -> Nat]

Quiet == [pc |-> "idle", ids |-> [s \in Symbols |-> 0], served |-> {}, left |-> {},
          of |-> 0, id |-> 0]

InitPoll ==
    /\ stock = [s \in Symbols |-> 1] /\ changes = 0
    /\ sinceSeries = MinInterval /\ cursor = 0
    /\ tick = Quiet /\ ticks = 0 /\ read = [s \in Symbols |-> 0]
    /\ tail = {} /\ waited = [s \in Symbols |-> 0]

Wanted == {s \in Symbols : tick.ids[s] # 0}
Missing == Wanted \ tick.served

\* The place of a symbol in a set, from 0, in the order of the list.
Place(s, S) == Cardinality({r \in S : r < s})
CeilDiv(a, b) == (a + b - 1) \div b

\* What comes of asking a source for symbols: any part of them, as each request
\* is refused, times out or carries no row; the last source is sent a capped list.
fetchMany(symbols) == SUBSET symbols
fetchSarmaayaTicker(symbols) == SUBSET symbols
fetchSarmaayaQuotes(symbols) ==
    {S \in SUBSET symbols : Cardinality(S) <= Slice}

---------------------------------------------------------------------------
StartPoll ==
    /\ tick.pc \in {"idle", "done"} /\ ticks < MaxTicks
    /\ ticks' = ticks + 1
    /\ tick' = [Quiet EXCEPT !.pc = "series", !.ids = stock]
    /\ sinceSeries' = IF sinceSeries < MinInterval THEN sinceSeries + 1 ELSE sinceSeries
    /\ UNCHANGED <<stock, changes, cursor, read, tail, waited>>

\* The per-symbol series, on its own slower interval; a source that is refusing
\* is not asked, and one that is asked may serve any part.
ReadSeries ==
    /\ tick.pc = "series"
    /\ \/ sinceSeries = MinInterval /\ sinceSeries' = 0
          /\ \E served \in fetchMany(Wanted) :
                tick' = [tick EXCEPT !.pc = "ticker", !.served = served]
       \/ tick' = [tick EXCEPT !.pc = "ticker"] /\ UNCHANGED sinceSeries
    /\ UNCHANGED <<stock, changes, cursor, ticks, read, tail, waited>>

\* One request for the whole market; it fills what is missing, or some of it.
ReadTicker ==
    /\ tick.pc = "ticker"
    /\ \E filled \in fetchSarmaayaTicker(Missing) :
          tick' = [tick EXCEPT !.pc = "perSymbol", !.served = @ \cup filled]
    /\ UNCHANGED <<stock, changes, sinceSeries, cursor, ticks, read, tail, waited>>

\* What is asked for of the tail, a slice from the cursor on that wraps, and where
\* the cursor goes.
Rotates == Slice > 0 /\ Cardinality(Missing) > Slice
Targets ==
    LET n == Cardinality(Missing)
        start == cursor % n
    IN IF Rotates THEN {s \in Missing : (Place(s, Missing) + n - start) % n < Slice}
       ELSE Missing

\* Deviation: the cursor stays.
cursorStays == cursor

cursorAfter ==
    IF Rotates THEN ((cursor % Cardinality(Missing)) + Slice) % Cardinality(Missing)
    ELSE cursor

ReadPerSymbol ==
    /\ tick.pc = "perSymbol"
    /\ \E served \in fetchSarmaayaQuotes(Targets) :
          LET got == tick.served \cup served
          IN tick' = [tick EXCEPT !.pc = IF got = {} THEN "idle" ELSE "find",
                                  !.served = got, !.left = got]
    /\ cursor' = cursorAfter
    /\ tail' = Missing
    /\ waited' = [s \in Symbols |->
          IF ~Rotates \/ s \in Targets \/ s \notin Missing THEN 0
          ELSE 1 + (IF tail = Missing THEN waited[s] ELSE 0)]
    /\ UNCHANGED <<stock, changes, sinceSeries, ticks, read>>

---------------------------------------------------------------------------
\* Deviation: a symbol without a row ends the loop.
FindStockOrStop ==
    /\ tick.pc = "find"
    /\ IF tick.left = {} THEN tick' = [tick EXCEPT !.pc = "done"]
       ELSE \E s \in tick.left :
              tick' = IF stock[s] = 0 THEN [tick EXCEPT !.pc = "done"]
                      ELSE [tick EXCEPT !.pc = "upsert", !.of = s, !.id = stock[s]]
    /\ UNCHANGED <<stock, changes, sinceSeries, cursor, ticks, read, tail, waited>>

\* The write of one symbol: its row is looked up, then the price is written.
FindStock ==
    /\ tick.pc = "find"
    /\ IF tick.left = {} THEN tick' = [tick EXCEPT !.pc = "done"]
       ELSE \E s \in tick.left :
              tick' = IF stock[s] = 0 THEN [tick EXCEPT !.left = @ \ {s}]
                      ELSE [tick EXCEPT !.pc = "upsert", !.of = s, !.id = stock[s]]
    /\ UNCHANGED <<stock, changes, sinceSeries, cursor, ticks, read, tail, waited>>

\* A row removed between the two fails the statement, and with it the tick.
UpsertPrice ==
    /\ tick.pc = "upsert"
    /\ IF stock[tick.of] = tick.id
       THEN /\ read' = [read EXCEPT ![tick.of] = ticks]
            /\ tick' = [tick EXCEPT !.pc = "find", !.left = @ \ {tick.of}]
       ELSE tick' = [tick EXCEPT !.pc = "idle"] /\ UNCHANGED read
    /\ UNCHANGED <<stock, changes, sinceSeries, cursor, ticks, tail, waited>>

\* The API: a removal cascades to the symbol's prices, an add is a new row.
RemoveStock(s) ==
    /\ stock[s] # 0 /\ changes < MaxChanges
    /\ changes' = changes + 1
    /\ stock' = [stock EXCEPT ![s] = 0] /\ read' = [read EXCEPT ![s] = 0]
    /\ UNCHANGED <<sinceSeries, cursor, tick, ticks, tail, waited>>

AddStock(s) ==
    /\ stock[s] = 0 /\ changes < MaxChanges
    /\ changes' = changes + 1
    /\ stock' = [stock EXCEPT ![s] = changes + 2]
    /\ UNCHANGED <<sinceSeries, cursor, tick, ticks, read, tail, waited>>

NextPoll ==
    \/ StartPoll \/ ReadSeries \/ ReadTicker \/ ReadPerSymbol
    \/ FindStock \/ UpsertPrice
    \/ \E s \in Symbols : RemoveStock(s) \/ AddStock(s)

PollSpec == InitPoll /\ [][NextPoll]_pollVars

---------------------------------------------------------------------------
(***************************************************************************)
(* What a tick promises.                                                   *)
(***************************************************************************)

\* "A tick takes the next slice and wraps": while the tail stays the same, no
\* symbol of it goes unasked for as many ticks as the tail has slices, wherever
\* the cursor was left by the tails before.
AskedInTurn ==
    \A s \in Symbols :
        waited[s] > 0 => waited[s] < CeilDiv(Cardinality(tail), Slice)

\* A tick that ends has stored the reading of every symbol a source served,
\* whatever was removed or added while it wrote: a symbol that is gone costs
\* nobody else their price.
ServedIsStored ==
    tick.pc = "done" =>
        \A s \in tick.served : stock[s] = tick.ids[s] => read[s] = ticks

=============================================================================
