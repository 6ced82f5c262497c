------------------------------- MODULE Search -------------------------------
(***************************************************************************)
(* The search dialog of the header, the page of results it leads to, and   *)
(* the service behind both.  A reader types, moves along the rows, presses *)
(* Enter, clicks and closes; the text is searched for when it has rested;  *)
(* answers arrive late or not at all, and are kept by the browser and by   *)
(* the server while symbols are added to the register.                     *)
(*                                                                         *)
(* A text is a model value with its length, the symbol it spells and the   *)
(* symbols it is like.  The clock is not modelled: a text rests, a kept    *)
(* answer ages, whenever it may.                                           *)
(***************************************************************************)
EXTENDS Integers, FiniteSets, SequencesExt

CONSTANTS
    Texts,      \* what can be typed
    NoText,    \* the empty text, one of them
    TextLength, \* their lengths, up to two
    Spells,     \* the symbol a text is, or NoSymbol
    LikeText,   \* the symbols it is like, or whose company's name it is in
    NoSymbol,
    Tracked,    \* the register at first
    Added,      \* a symbol added later
    Constituents, \* the rows offered before anything is typed
    MaxTyped    \* bound on the keystrokes

ASSUME SearchAssumption ==
    /\ NoText \in Texts /\ TextLength \in [Texts -> 0..2] /\ TextLength[NoText] = 0
    /\ \A t \in Texts : Spells[t] # NoSymbol => Spells[t] \in LikeText[t]
    /\ IsFiniteSet(Tracked) /\ IsFiniteSet(Constituents) /\ MaxTyped \in Nat

VARIABLES
    register,   \* the symbols tracked
    dialog,     \* open, the text, the text searched for, the row marked, and by whom
    pages,      \* the browser's cache: what useSearch has of each text
    searching,     \* texts being asked for
    offered,    \* the rows of the index, or none yet
    location,   \* the page the reader is on
    typed       \* keystrokes so far

searchVars == <<register, dialog, pages, searching, offered, location, typed>>

Queries == {t \in Texts : TextLength[t] > 0}
\* Kinds of no answer, as lists no search gives.
NotAsked == <<NoSymbol>>
Failed == <<NoSymbol, NoSymbol>>
Elsewhere == "elsewhere"   \* any page but a stock's and that of the results
ResultsPage == "results"
ClosedDialog == [open |-> FALSE, input |-> NoText, debounced |-> NoText, resting |-> FALSE, touched |-> FALSE,
                 active |-> 1, moved |-> FALSE]
ResultLists == UNION {SetToSeqs(S) : S \in SUBSET (Tracked \cup {Added})}

SearchTypeOK ==
    /\ register \in SUBSET (Tracked \cup {Added})
    /\ pages \in [Queries -> ResultLists \cup {NotAsked, Failed}]
    /\ searching \in SUBSET Queries /\ offered \in {<<>>} \cup SetToSeqs(Constituents)
    /\ dialog.input \in Texts /\ dialog.debounced \in Texts /\ typed \in 0..MaxTyped

InitSearch ==
    /\ register = Tracked /\ dialog = ClosedDialog /\ searching = {} /\ offered = <<>>
    /\ pages = [t \in Queries |-> NotAsked]
    /\ location = Elsewhere /\ typed = 0

---------------------------------------------------------------------------
(***************************************************************************)
(* The service.                                                            *)
(***************************************************************************)
\* Every order the query may give of the symbols in R: the one spelt out first, the
\* others by likeness.
ranked(t, R) ==
    {l \in SetToSeqs(LikeText[t] \cap R) : Spells[t] \in R => l # <<>> /\ l[1] = Spells[t]}

\* What the query gives, or gave before the register grew: the service keeps an answer
\* for a while.
search(t) == ranked(t, register) \cup ranked(t, Tracked)

---------------------------------------------------------------------------
(***************************************************************************)
(* What the dialog searches for and shows.                                 *)
(***************************************************************************)
enabled == TextLength[dialog.debounced] >= 2

\* Rows of a text: the answer, and nothing while there is none or it failed.
rowsOf(t) == IF t \in Queries /\ pages[t] \notin {NotAsked, Failed} THEN pages[t] ELSE <<>>

results == IF enabled THEN rowsOf(dialog.debounced) ELSE <<>>

\* One list at a time, which the arrows walk.
rowsShown == IF enabled THEN results ELSE offered

\* A text that comes into view is asked for unless it is kept and fresh.
fetchFor(t) ==
    \/ t \in Queries /\ searching' = searching \cup {t}
    \/ (t \in Queries => pages[t] \notin {NotAsked, Failed}) /\ UNCHANGED searching

---------------------------------------------------------------------------
(***************************************************************************)
(* The reader.                                                             *)
(***************************************************************************)
OpenDialog ==
    /\ ~dialog.open /\ dialog' = [dialog EXCEPT !.open = TRUE]
    /\ UNCHANGED <<register, pages, searching, offered, location, typed>>

\* Deviation: the text in the field is cleared and the one searched for is left to rest.
clearField(d) == [ClosedDialog EXCEPT !.debounced = d.debounced, !.resting = d.input # NoText]

\* Closing clears the field, the text searched for and the mark.
onClosed(d) == ClosedDialog

go(place) ==
    /\ location' = place /\ dialog' = onClosed(dialog)
    /\ UNCHANGED <<register, pages, offered, typed>>

goToStock(s) == go(s) /\ UNCHANGED searching

\* The page of results searches for the text of its own accord, of any length.
goToResults(t) == go(ResultsPage) /\ fetchFor(t)

CloseDialog ==
    /\ dialog.open /\ dialog' = onClosed(dialog)
    /\ UNCHANGED <<register, pages, searching, offered, location, typed>>

Type(t) ==
    /\ dialog.open /\ t # dialog.input /\ typed < MaxTyped /\ typed' = typed + 1
    /\ dialog' = [dialog EXCEPT !.input = t, !.resting = TRUE, !.touched = TRUE]
    /\ UNCHANGED <<register, pages, searching, offered, location>>

\* The text has rested: it is searched for, and the mark returns to the first row.
Settle ==
    /\ dialog.resting
    /\ LET again == dialog.input = dialog.debounced
       IN dialog' = [dialog EXCEPT !.debounced = dialog.input, !.resting = FALSE,
                        !.active = IF again THEN @ ELSE 1, !.moved = IF again THEN @ ELSE FALSE]
    /\ IF TextLength[dialog.input] >= 2 /\ dialog.input # dialog.debounced
         THEN fetchFor(dialog.input) ELSE UNCHANGED searching
    /\ UNCHANGED <<register, pages, offered, location, typed>>

\* Down or up, from the last row to the first and back.
onKeyDown(step) ==
    /\ dialog.open /\ rowsShown # <<>>
    /\ dialog' = [dialog EXCEPT !.moved = TRUE, !.active = ((@ - 1 + step) % Len(rowsShown)) + 1]
    /\ UNCHANGED <<register, pages, searching, offered, location, typed>>

\* Pointing at a row marks it; only a row of the index counts as a choice made.
Hover(i) ==
    /\ dialog.open /\ i \in DOMAIN rowsShown
    /\ dialog' = [dialog EXCEPT !.active = i, !.moved = @ \/ ~enabled]
    /\ UNCHANGED <<register, pages, searching, offered, location, typed>>

Click(i) == dialog.open /\ i \in DOMAIN rowsShown /\ goToStock(rowsShown[i])

\* Enter: the row marked, of the results or, once the reader has moved, of the index;
\* else all results of what is in the field.
submit ==
    /\ dialog.open
    /\ \/ enabled /\ results # <<>> /\ goToStock(results[Min({dialog.active, Len(results)})])
       \/ ~enabled /\ dialog.moved /\ dialog.active \in DOMAIN offered
          /\ goToStock(offered[dialog.active])
       \/ /\ ~(enabled /\ results # <<>>)
          /\ ~(~enabled /\ dialog.moved /\ dialog.active \in DOMAIN offered)
          /\ dialog.input # NoText /\ goToResults(dialog.input)

SeeAll == /\ dialog.open /\ enabled /\ TextLength[dialog.input] >= 2 /\ goToResults(dialog.input)

---------------------------------------------------------------------------
(***************************************************************************)
(* Answers, and what changes behind them.                                  *)
(***************************************************************************)
Found(t) ==
    /\ t \in searching /\ searching' = searching \ {t}
    /\ \E answer \in search(t) : pages' = [pages EXCEPT ![t] = answer]
    /\ UNCHANGED <<register, dialog, offered, location, typed>>

\* After the one retry; what was there stays.
SearchFails(t) ==
    /\ t \in searching /\ searching' = searching \ {t}
    /\ pages' = [pages EXCEPT ![t] = IF @ = NotAsked THEN Failed ELSE @]
    /\ UNCHANGED <<register, dialog, offered, location, typed>>

\* The rows of the index arrive, or arrive again in another order.
Offer ==
    /\ offered' \in SetToSeqs(Constituents) \ {offered}
    /\ UNCHANGED <<register, dialog, pages, searching, location, typed>>

Track ==
    /\ Added \notin register /\ register' = register \cup {Added}
    /\ UNCHANGED <<dialog, pages, searching, offered, location, typed>>

NextSearch ==
    \/ OpenDialog \/ CloseDialog \/ Settle \/ submit \/ SeeAll \/ Offer \/ Track
    \/ \E t \in Texts : Type(t)
    \/ \E t \in Queries : Found(t) \/ SearchFails(t)
    \/ \E step \in {1, -1} : onKeyDown(step)
    \/ \E i \in 1..Cardinality(Tracked \cup {Added}) : Hover(i) \/ Click(i)

SearchSpec == InitSearch /\ [][NextSearch]_searchVars

---------------------------------------------------------------------------
\* Enter on a dialog that has come to rest, with no row chosen by hand, does what was
\* typed in this opening: nothing while nothing was typed, and the stock itself for a
\* symbol spelt out that was tracked when the dialog was first used, whatever was
\* searched for, marked or left behind before.
EnterDoesWhatIsTyped ==
    [][ submit /\ ~dialog.moved /\ dialog.active = 1 =>
          /\ dialog.touched
          /\ ~dialog.resting /\ Spells[dialog.input] \in Tracked /\ TextLength[dialog.input] = 2
             /\ pages[dialog.input] \notin {NotAsked, Failed}
               => location' = Spells[dialog.input] ]_searchVars

=============================================================================
