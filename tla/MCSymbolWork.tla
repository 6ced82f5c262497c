---------------------------- MODULE MCSymbolWork ----------------------------
(***************************************************************************)
(* One small instance of each module about how symbols come to be scraped: *)
(* the walks over the listed universe, the adding, syncing and removing of *)
(* tracked symbols, and the JSON leg of a sync.  A behaviour is one of     *)
(* them; the others' variables keep one initial value.                     *)
(***************************************************************************)
EXTENDS UniversePass, SymbolLifecycle, Fundamentals, TLC

VARIABLE part

\* Interest has no annual figures and is in the middle.
SourceLines == <<"sales", "interest", "profit">>

InitWork ==
    /\ part \in {"walk", "lifecycle", "fundamentals"}
    /\ InitPass
    /\ Init /\ (part # "lifecycle" => stocks = {})
    /\ InitFundamentals /\ (part # "fundamentals" => profile = CHOOSE p \in Profiles : TRUE)

NextWork ==
    /\ UNCHANGED part
    /\ \/ part = "walk" /\ NextPass /\ UNCHANGED <<vars, fundamentalsVars>>
       \/ part = "lifecycle" /\ Next /\ UNCHANGED <<passVars, fundamentalsVars>>
       \/ part = "fundamentals" /\ NextFundamentals /\ UNCHANGED <<passVars, vars>>

SpecWork == InitWork /\ [][NextWork]_<<part, passVars, vars, fundamentalsVars>>

\* Callers are alike, and so are the lanes of the sync worker.
Alike == Permutations(Callers) \cup Permutations(SyncWorkers)

=============================================================================
