---------------------------- MODULE WholeRoster ----------------------------
(***************************************************************************)
(* What an index's tables promise their readers: a table changes only by   *)
(* what one pass was handed, which is then all it holds, and by the        *)
(* removal of a stock, which takes its rows out of every table at once.    *)
(* Whether a pass was handed all that its source publishes is not its      *)
(* concern.                                                                *)
(***************************************************************************)
CONSTANTS
    Tables, Securities,
    Ids,            \* ids of stocks
    Captures        \* the passes a row may be of

VARIABLE held       \* the rows of each table

\* What a pass was handed: one capture of some symbols, one row each.
Delivery(rows) ==
    \E capture \in Captures, listed \in SUBSET Securities, id \in [Securities -> Ids] :
        rows = {[symbol |-> s, id |-> id[s], captured |-> capture] : s \in listed}

WholeInit == \A t \in Tables : Delivery(held[t])

Replace(t) ==
    /\ Delivery(held'[t])
    /\ held' = [held EXCEPT ![t] = held'[t]]

Cascade(s) == held' = [t \in Tables |-> {r \in held[t] : r.symbol # s}]

WholeNext ==
    \/ \E t \in Tables : Replace(t)
    \/ \E s \in Securities : Cascade(s)

WholeSpec == WholeInit /\ [][WholeNext]_held

=============================================================================
