----------------------------- MODULE MarketCap -----------------------------
(***************************************************************************)
(* The market caps on the price rows.  A refresh asks the scanner for every*)
(* symbol and a second source, one page each, for those it left without a  *)
(* cap; writes what it trusts; fills rows from earlier ones; and clears    *)
(* what it caught sharing a figure with another symbol.  Syncs write price *)
(* rows at any time, with the cap of the page they read or without one; a  *)
(* carry-forward of its own schedule fills rows between refreshes.         *)
(***************************************************************************)
EXTENDS Integers

CONSTANTS
    Companies,      \* symbols
    Caps,           \* figures a source may report
    MaxRows,        \* bound on price rows written by syncs
    MaxRefreshes    \* bound on refreshes

ASSUME CapAssumption == Caps \subseteq Nat \ {0} /\ MaxRows \in Nat /\ MaxRefreshes \in Nat

VARIABLES
    newest,     \* the cap on each symbol's newest price row, 0 for none
    earlier,    \* the most recent cap on its rows before, 0 for none
    refresh,    \* what the refresh is at
    priceRows,  \* price rows written so far
    refreshes,  \* refreshes so far
    vouched,    \* history: the symbols the last refresh to read collisions had from the scanner
    since       \* history: the symbols whose newest cap a sync or a carry-forward wrote since

capVars == <<newest, earlier, refresh, priceRows, refreshes, vouched, since>>
standing == <<vouched, since>>

Reading == [Companies -> Caps \cup {0}]
Nothing == [c \in Companies |-> 0]
Unasked == [pc |-> "idle", scanner |-> Nothing, gaps |-> {}, gapFill |-> Nothing, clear |-> {}]

Covered == {c \in Companies : refresh.scanner[c] # 0}

CapsTypeOK ==
    /\ newest \in Reading /\ earlier \in Reading
    /\ priceRows \in 0..MaxRows /\ refreshes \in 0..MaxRefreshes
    /\ refresh.scanner \in Reading /\ refresh.gapFill \in Reading
    /\ refresh.gaps \subseteq Companies \ Covered /\ refresh.clear \subseteq Companies
    /\ vouched \subseteq Companies /\ since \subseteq Companies

InitCaps ==
    /\ newest = Nothing /\ earlier = Nothing
    /\ refresh = Unasked /\ priceRows = 0 /\ refreshes = 0 /\ vouched = {} /\ since = {}

\* The gap-fill figures that another symbol has from either source.
dropSharedGapValues ==
    {c \in Companies : refresh.gapFill[c] # 0 /\
        \E d \in Companies \ {c} : refresh.gapFill[c] \in {refresh.scanner[d], refresh.gapFill[d]}}

\* Scanner rows go by the batch and gap-fill pages one by one: any part is served.
fetchTradingViewMarketCaps ==
    /\ refresh.pc = "idle" /\ refreshes < MaxRefreshes /\ refreshes' = refreshes + 1
    /\ \E scanner \in Reading : refresh' = [Unasked EXCEPT !.pc = "gaps", !.scanner = scanner]
    /\ UNCHANGED <<newest, earlier, priceRows, standing>>

findSymbolsWithoutLatestMarketCap ==
    /\ refresh.pc = "gaps"
    /\ refresh' = [refresh EXCEPT !.pc = "walk",
                       !.gaps = {c \in Companies : newest[c] = 0} \ Covered]
    /\ UNCHANGED <<newest, earlier, priceRows, refreshes, standing>>

fetchMarketCaps ==
    /\ refresh.pc = "walk"
    /\ \E figures \in Reading :
          /\ \A c \in Companies \ refresh.gaps : figures[c] = 0
          /\ refresh' = [refresh EXCEPT !.pc = "write", !.gapFill = figures]
    /\ UNCHANGED <<newest, earlier, priceRows, refreshes, standing>>

Trusted(c) ==
    IF c \in Covered THEN refresh.scanner[c]
    ELSE IF c \in dropSharedGapValues THEN 0 ELSE refresh.gapFill[c]

\* Each cap lands on the row that is the newest now, one statement for all.
updateLatestMarketCaps ==
    /\ refresh.pc = "write"
    /\ newest' = [c \in Companies |-> IF Trusted(c) # 0 THEN Trusted(c) ELSE newest[c]]
    /\ refresh' = [refresh EXCEPT !.pc = "carry"]
    /\ UNCHANGED <<earlier, priceRows, refreshes, standing>>

carryForwardLatestMarketCaps ==
    newest' = [c \in Companies |-> IF newest[c] = 0 THEN earlier[c] ELSE newest[c]]

RefreshCarries ==
    /\ refresh.pc = "carry" /\ carryForwardLatestMarketCaps
    /\ refresh' = [refresh EXCEPT !.pc = "find"]
    /\ UNCHANGED <<earlier, priceRows, refreshes, standing>>

\* Deviation: what is stored is not looked at.
FindDiscarded ==
    /\ refresh.pc = "find"
    /\ refresh' = [refresh EXCEPT !.pc = "clear", !.clear = dropSharedGapValues]
    /\ vouched' = Covered /\ since' = {}
    /\ UNCHANGED <<newest, earlier, priceRows, refreshes>>

\* The stored figures two symbols share and the scanner does not vouch for.
findSymbolsWithDuplicateMarketCap ==
    LET shared == {c \in Companies : newest[c] # 0 /\
                      \E d \in Companies \ {c} : newest[d] = newest[c]}
    IN /\ refresh.pc = "find"
       /\ refresh' = [refresh EXCEPT !.pc = "clear",
                          !.clear = dropSharedGapValues \cup (shared \ Covered)]
       /\ vouched' = Covered /\ since' = {}
       /\ UNCHANGED <<newest, earlier, priceRows, refreshes>>

clearLatestMarketCap ==
    /\ refresh.pc = "clear"
    /\ newest' = [c \in Companies |-> IF c \in refresh.clear THEN 0 ELSE newest[c]]
    /\ refresh' = [refresh EXCEPT !.pc = "done"]
    /\ UNCHANGED <<earlier, priceRows, refreshes, standing>>

FinishRefresh ==
    /\ refresh.pc = "done" /\ refresh' = Unasked
    /\ UNCHANGED <<newest, earlier, priceRows, refreshes, standing>>

\* The carry-forward's own tick, on the same serial queue.
carryForward ==
    /\ refresh.pc = "idle" /\ carryForwardLatestMarketCaps
    /\ since' = since \cup {c \in Companies : newest'[c] # newest[c]}
    /\ UNCHANGED <<earlier, refresh, priceRows, refreshes, vouched>>

\* A sync writes the row of a new session, at any moment, with its page's cap or none.
AddPriceRow(c) ==
    /\ priceRows < MaxRows /\ priceRows' = priceRows + 1
    /\ \E cap \in Caps \cup {0} : newest' = [newest EXCEPT ![c] = cap]
    /\ earlier' = [earlier EXCEPT ![c] = IF newest[c] # 0 THEN newest[c] ELSE @]
    /\ since' = since \cup {c}
    /\ UNCHANGED <<refresh, refreshes, vouched>>

\* A sync writes a row that stands, the newest or the one before: a page's cap replaces
\* the stored one, a page without one leaves it.
UpdatePriceRow(c) ==
    /\ priceRows < MaxRows /\ priceRows' = priceRows + 1
    /\ \E cap \in Caps :
          \/ newest' = [newest EXCEPT ![c] = cap] /\ since' = since \cup {c} /\ UNCHANGED earlier
          \/ earlier' = [earlier EXCEPT ![c] = cap] /\ UNCHANGED <<newest, since>>
    /\ UNCHANGED <<refresh, refreshes, vouched>>

NextCaps ==
    \/ fetchTradingViewMarketCaps \/ findSymbolsWithoutLatestMarketCap \/ fetchMarketCaps
    \/ updateLatestMarketCaps \/ RefreshCarries \/ findSymbolsWithDuplicateMarketCap
    \/ clearLatestMarketCap \/ FinishRefresh \/ carryForward
    \/ \E c \in Companies : AddPriceRow(c) \/ UpdatePriceRow(c)

CapsSpec == InitCaps /\ [][NextCaps]_capVars

---------------------------------------------------------------------------
\* Outside the stretch of a refresh that writes and checks, two symbols show one figure
\* only if the last refresh had it from the scanner for both, or a sync or a
\* carry-forward wrote one of them after that refresh read the collisions: neither what
\* its walk wrote nor what stood before it survives, whichever rows appeared under it.
SharedCapIsVouchedFor ==
    refresh.pc \notin {"carry", "find", "clear"} =>
        \A c, d \in Companies \ since :
            c # d /\ newest[c] = newest[d] /\ newest[c] # 0 => {c, d} \subseteq vouched

=============================================================================
