---------------------------- MODULE IndexRoster ----------------------------
(***************************************************************************)
(* What an index is made of: the member list and the contributions, each   *)
(* replaced whole by what its source delivers, while the API adds and      *)
(* removes the stocks they point at.  A pass fetches, looks the symbols up *)
(* in the stocks, reads the rows that are there, and replaces them in one  *)
(* transaction: four awaits.  Each table's passes are jobs of one queue    *)
(* whose worker takes one job at a time; the two queues run side by side.  *)
(***************************************************************************)
EXTENDS Integers, FiniteSets

CONSTANTS
    Securities,     \* the exchange's symbols
    MaxPasses,      \* bound on passes
    MaxMoves        \* bound on stocks added or removed

ASSUME RosterAssumption == MaxPasses \in Nat /\ MaxMoves \in Nat

Tables == {"members", "contributions"}

VARIABLES
    ids,        \* the id of each symbol's row in stocks, 0 when it has none
    moves,      \* stocks added or removed so far
    held,       \* per table, the rows it holds
    lane,       \* what the pass over each table is at
    begun       \* passes begun

rosterVars == <<ids, moves, held, lane, begun>>

\* A row: its symbol, the stock it points at, and the pass that wrote it.
Row == [symbol : Securities, id : 1..MaxMoves + 1, captured : 0..MaxPasses]
AtRest == [pc |-> "idle", list |-> {}, unread |-> {}, incoming |-> {}, removed |-> {}]

RosterTypeOK ==
    /\ ids \in [Securities -> 0..MaxMoves + 1] /\ moves \in 0..MaxMoves /\ begun \in 0..MaxPasses
    /\ held \in [Tables -> SUBSET Row]
    /\ \A t \in Tables :
          /\ lane[t].pc \in {"idle", "lookup", "read", "replace"}
          /\ lane[t].incoming \subseteq Row /\ lane[t].removed \subseteq Row

InitRoster ==
    /\ ids = [s \in Securities |-> 1] /\ moves = 0 /\ begun = 0
    /\ held = [t \in Tables |-> [symbol : Securities, id : {1}, captured : {0}]]
    /\ lane = [t \in Tables |-> AtRest]

---------------------------------------------------------------------------
\* What comes of asking: the member list whole; of the contributions the pages
\* read before one was refused, or was of another shape: the rest is not read.
fetchIndexMembers(published) == {published}
fetchIndexConstituents(published) == SUBSET published

\* An empty member list is a failure of the pass, an empty page is not.
Delivered(table, published) ==
    IF table = "members" THEN fetchIndexMembers(published) \ {{}}
    ELSE fetchIndexConstituents(published)

Fetch(t) ==
    /\ lane[t] = AtRest /\ begun < MaxPasses /\ begun' = begun + 1
    /\ \E published \in SUBSET Securities :
       \E list \in Delivered(t, published) :
          lane' = [lane EXCEPT ![t] = [AtRest EXCEPT !.pc = "lookup", !.list = list,
                                             !.unread = published \ list]]
    /\ UNCHANGED <<ids, moves, held>>

\* Only the tracked symbols of the list become rows; the rest is reported.
Lookup(t) ==
    /\ lane[t].pc = "lookup"
    /\ lane' = [lane EXCEPT ![t].pc = "read", ![t].incoming =
          {[symbol |-> s, id |-> ids[s], captured |-> begun] :
              s \in {r \in lane[t].list : ids[r] # 0}}]
    /\ UNCHANGED <<ids, moves, held, begun>>

Stocks(S) == {<<r.symbol, r.id>> : r \in S}
StocksIn(S, T) == {r \in S : <<r.symbol, r.id>> \in Stocks(T)}

\* replaceForIndex reads what is there before its transaction.
ReadExisting(t) ==
    /\ lane[t].pc = "read"
    /\ lane' = [lane EXCEPT ![t].pc = "replace", ![t].removed =
          held[t] \ StocksIn(held[t], lane[t].incoming)]
    /\ UNCHANGED <<ids, moves, held, begun>>

\* Deviation: the rows are merged, and those of leavers stay.
merged(existing, incoming, removed) == (existing \ StocksIn(existing, incoming)) \cup incoming

replaced(existing, incoming, removed) ==
    (existing \ StocksIn(existing, incoming \cup removed)) \cup incoming

\* The transaction: a row whose stock is gone by now fails it all.
replaceForIndex(t) ==
    /\ lane[t].pc = "replace"
    /\ IF \A r \in lane[t].incoming : ids[r.symbol] = r.id
       THEN held' = [held EXCEPT ![t] = replaced(held[t], lane[t].incoming, lane[t].removed)]
       ELSE UNCHANGED held
    /\ lane' = [lane EXCEPT ![t] = AtRest]
    /\ UNCHANGED <<ids, moves, begun>>

\* The API: a stock's removal takes its rows along.
DropStock(s) ==
    /\ ids[s] # 0 /\ moves < MaxMoves /\ moves' = moves + 1
    /\ ids' = [ids EXCEPT ![s] = 0]
    /\ held' = [t \in Tables |-> {r \in held[t] : r.symbol # s}]
    /\ UNCHANGED <<lane, begun>>

TrackStock(s) ==
    /\ ids[s] = 0 /\ moves < MaxMoves /\ moves' = moves + 1
    /\ ids' = [ids EXCEPT ![s] = moves + 2]
    /\ UNCHANGED <<held, lane, begun>>

NextRoster ==
    \/ \E t \in Tables : Fetch(t) \/ Lookup(t) \/ ReadExisting(t) \/ replaceForIndex(t)
    \/ \E s \in Securities : DropStock(s) \/ TrackStock(s)

RosterSpec == InitRoster /\ [][NextRoster]_rosterVars

---------------------------------------------------------------------------
(***************************************************************************)
(* What the tables promise.                                                *)
(***************************************************************************)

Whole == INSTANCE WholeRoster WITH Ids <- 1..MaxMoves + 1, Captures <- 0..MaxPasses

\* The four awaits of a pass come to one step, whatever stocks are added and
\* removed between them: a reader of a table sees the rows of one capture less the
\* stocks removed since, never a mixture of two.  It says nothing of how much of
\* what is published a capture holds: see UnreadKeepTheirReading.
OneCaptureAtATime == Whole!WholeSpec

\* What fetchIndexConstituents says of the pages it does not read: "the symbols it
\* does not cover simply keep their previous reading".  Does not hold: to
\* replaceForIndex they are leavers, and their rows are deleted.
UnreadKeepTheirReading ==
    [][\A s \in lane["contributions"].unread :
          lane["contributions"].pc = "replace" /\ lane["contributions"].list # {}
          => \A r \in held["contributions"] :
                r.symbol = s => r \in held'["contributions"] \/ ids'[s] # ids[s]]_rosterVars

=============================================================================
