----------------------------- MODULE ListProofs -----------------------------
(*************************************************************************)
(* Proofs about what readers hold and are served. AlertDesk, for any     *)
(* calls in flight: the list a page shows is the server's unless a       *)
(* refresh is owed or was lost. Search, for any texts, register and      *)
(* answers: Enter follows what was typed. Listing, for any symbols,      *)
(* figures and page length: the pages of a list turned while nothing is  *)
(* written meet every symbol of it once, and the pages of the screener   *)
(* list what meets its form. DeviceLists, for any tabs and refusals of   *)
(* the storage: the tabs agree on what the device stores. Roi and its    *)
(* comparison, for any closes, splits, dividends and schedule: a purchase*)
(* adds up to the paisa, and what is compared is held over the same two  *)
(* sessions. Performance, for any calendar and splits: the total return  *)
(* is a holder's. Insights, for any sector and figures: a score is       *)
(* between the pillars it is of; and for any closes: the sessions a      *)
(* share did not trade do not move its beta. MCReads, of which these are *)
(* the parts: each holds in every run of all of them.                    *)
(*************************************************************************)
EXTENDS MCReads, FiniteSetTheorems, SequenceTheorems, WellFoundedInduction, TLAPS

\* A set of numbers has a least one.
LEMMA FirstOf ==
    ASSUME NEW S \in SUBSET Nat, S # {} PROVE \E s \in S : \A r \in S : s <= r
<1>1. PICK s \in S : \A r \in S : ~(<<r, s>> \in OpToRel(<, Nat))
  BY NatLessThanWellFounded, WFMin
<1>2. \A r \in S : r < s => <<r, s>> \in OpToRel(<, Nat)
  BY DEF OpToRel
<1>3. ASSUME NEW r \in S PROVE s <= r
  <2>1. r \in Nat /\ s \in Nat /\ ~(r < s)
    BY <1>1, <1>2
  <2> QED
    BY <2>1
<1> QED
  BY <1>3

(***************************************************************************)
(* The list of alerts a page shows.                                        *)
(***************************************************************************)
AlertRecords == [owner : 1..2, paused : BOOLEAN, fired : BOOLEAN]
Calls == [what : {"evaluate", "create", "pause", "resume", "delete"}, id : Nat,
          at : {"sent", "done", "fired"}, n : Nat]

\* The rows of a list that came are not looked into.
DeskFits ==
    /\ Held \subseteq Ids /\ alerts \in [Held -> AlertRecords] /\ deviceToken \in 1..2
    /\ count \in 0..MaxCalls /\ unsure \in BOOLEAN /\ calls \subseteq Calls /\ deleting \in Nat
    /\ listAsk \in {Unasked, Sent, ListFailed} \/ listAsk.at = "read"

\* The page has yet to be told of a change it must refresh for.
Untold == \E c \in calls : c.at # "sent" /\ refreshes(c)

\* The list on its way and the list shown are the server's, but for changes the page has
\* yet to be told of or never will be.
DeskInv ==
    /\ DeskFits
    /\ ~unsure /\ ~Untold /\ listAsk.at = "read" => listAsk.list = ownAlerts
    /\ ~unsure /\ ~Untold /\ listAsk = Unasked /\ shown.loaded => shown = ownAlerts

LEMMA AsksDiffer == /\ Unasked.at = "none" /\ Sent.at = "sent" /\ ListFailed.at = "failed"
                    /\ Unasked # Sent /\ ListFailed # Unasked
<1>1. Unasked.at = "none" /\ Sent.at = "sent" /\ ListFailed.at = "failed"
  BY DEF Unasked, Sent, ListFailed
<1>. QED  BY <1>1

LEMMA DeskStarts == InitAlertDesk => DeskInv
<1>. SUFFICES ASSUME InitAlertDesk PROVE DeskInv
  OBVIOUS
<1>1. Held \subseteq Ids /\ alerts \in [Held -> AlertRecords]
  <2>1. PICK first \in {{}, {1}} :
            alerts = [i \in first |-> [owner |-> 1, paused |-> FALSE, fired |-> FALSE]]
    BY DEF InitAlertDesk
  <2>. QED  BY <2>1, AlertDeskAssumption DEF Held, Ids, AlertRecords
<1>2. calls \subseteq Calls /\ deviceToken \in 1..2 /\ count \in 0..MaxCalls /\ deleting \in Nat
  BY AlertDeskAssumption DEF InitAlertDesk, Calls
<1>3. listAsk = Sent /\ listAsk # Unasked /\ listAsk.at # "read" /\ unsure \in BOOLEAN
  BY AsksDiffer DEF InitAlertDesk
<1>. QED  BY <1>1, <1>2, <1>3 DEF DeskInv, DeskFits

\* Where the server's alerts do not change, nor what the page has yet to be told of.
LEMMA SameAlerts ==
    ASSUME DeskInv, UNCHANGED <<alerts, deviceToken, shown, listAsk, unsure>>, calls' \subseteq Calls,
           Untold => Untold', count' \in 0..MaxCalls, deleting' \in Nat
    PROVE  DeskInv'
BY DEF DeskInv, DeskFits, Held, ownAlerts

\* A call moves on: what is known of it.
LEMMA BecomesIs ==
    ASSUME calls \subseteq Calls, NEW c \in calls, c.at = "sent", NEW at \in {"done", "fired"}, Becomes(c, at)
    PROVE  /\ calls' \subseteq Calls
           /\ Untold => Untold'
           /\ c.what # "evaluate" \/ at = "fired" => Untold'
<1>. DEFINE d == [c EXCEPT !.at = at]
<1>1. d \in Calls /\ d.what = c.what /\ d.at = at
  BY DEF Calls
<1>2. calls' = (calls \ {c}) \cup {d}
  BY DEF Becomes
<1>. HIDE DEF d
<1>3. ASSUME Untold PROVE Untold'
  <2>1. PICK e \in calls : e.at # "sent" /\ refreshes(e)
    BY <1>3 DEF Untold
  <2>. QED  BY <1>2, <2>1 DEF Untold
<1>4. ASSUME c.what # "evaluate" \/ at = "fired" PROVE Untold'
  BY <1>1, <1>2, <1>4 DEF Untold, refreshes
<1>. QED  BY <1>1, <1>2, <1>3, <1>4

\* A call that changes the alerts leaves the page to be told.
LEMMA Changes ==
    ASSUME DeskInv, calls' \subseteq Calls, Untold', UNCHANGED server,
           NEW S \in SUBSET Ids, alerts' \in [S -> AlertRecords]
    PROVE  DeskInv'
BY DEF DeskInv, DeskFits, Held, server

LEMMA CallKeeps ==
    ASSUME DeskInv, NEW what \in {"evaluate", "create", "pause", "resume", "delete"}, NEW id \in Nat,
           Call(what, id), UNCHANGED <<alerts, deviceToken, shown, listAsk, deleting, unsure>>
    PROVE  DeskInv'
<1>1. count + 1 \in 0..MaxCalls /\ count + 1 \in Nat
  BY AlertDeskAssumption DEF Call, DeskInv, DeskFits
<1>2. [what |-> what, id |-> id, at |-> "sent", n |-> count + 1] \in Calls
  BY <1>1 DEF Calls
<1>3. calls' \subseteq Calls /\ count' \in 0..MaxCalls /\ deleting' \in Nat /\ calls \subseteq calls'
  BY <1>1, <1>2 DEF Call, DeskInv, DeskFits
<1>4. Untold => Untold'
  BY <1>3 DEF Untold
<1>. QED  BY <1>3, <1>4, SameAlerts

LEMMA DeskStep == DeskInv /\ [NextAlertDesk]_alertDeskVars => DeskInv'
<1>. SUFFICES ASSUME DeskInv, [NextAlertDesk]_alertDeskVars PROVE DeskInv'
  OBVIOUS
<1>0. /\ Held \subseteq Ids /\ alerts \in [Held -> AlertRecords] /\ calls \subseteq Calls
      /\ count \in 0..MaxCalls /\ deviceToken \in 1..2 /\ deleting \in Nat /\ unsure \in BOOLEAN
  BY DEF DeskInv, DeskFits
<1>1. ASSUME NEW c \in calls, createTaken(c) PROVE DeskInv'
  <2>1. Becomes(c, "done") /\ c.at = "sent" /\ c.what = "create" /\ UNCHANGED server
    BY <1>1 DEF createTaken
  <2>2. calls' \subseteq Calls /\ Untold'
    BY <1>0, <2>1, BecomesIs
  <2>3. PICK i \in Ids \ Held : alerts' = [j \in Held \cup {i} |->
            IF j = i THEN [owner |-> deviceToken, paused |-> FALSE, fired |-> FALSE] ELSE alerts[j]]
    BY <1>1 DEF createTaken
  <2>4. alerts' \in [Held \cup {i} -> AlertRecords] /\ Held \cup {i} \in SUBSET Ids
    BY <1>0, <2>3 DEF AlertRecords
  <2>. QED  BY <2>1, <2>2, <2>4, Changes
<1>2. ASSUME NEW c \in calls, toggleTaken(c) PROVE DeskInv'
  <2>1. Becomes(c, "done") /\ c.at = "sent" /\ c.what # "evaluate" /\ UNCHANGED server
    BY <1>2 DEF toggleTaken
  <2>2. calls' \subseteq Calls /\ Untold'
    BY <1>0, <2>1, BecomesIs
  <2>3. alerts' \in [Held -> AlertRecords]
    BY <1>0, <1>2 DEF toggleTaken, AlertRecords
  <2>. QED  BY <1>0, <2>1, <2>2, <2>3, Changes
<1>3. ASSUME NEW c \in calls, deleteTaken(c) PROVE DeskInv'
  <2>1. Becomes(c, "done") /\ c.at = "sent" /\ c.what # "evaluate" /\ UNCHANGED server
    BY <1>3 DEF deleteTaken
  <2>2. calls' \subseteq Calls /\ Untold'
    BY <1>0, <2>1, BecomesIs
  <2>3. alerts' \in [Held \ {c.id} -> AlertRecords] /\ Held \ {c.id} \in SUBSET Ids
    BY <1>0, <1>3 DEF deleteTaken
  <2>. QED  BY <2>1, <2>2, <2>3, Changes
<1>4. ASSUME NEW c \in calls, evaluateTaken(c) PROVE DeskInv'
  <2>1. c.at = "sent" /\ UNCHANGED server
    BY <1>4 DEF evaluateTaken
  <2>2. PICK some \in SUBSET {i \in Held : alerts[i].owner = deviceToken /\ ~alerts[i].paused /\ ~alerts[i].fired} :
          /\ alerts' = [i \in Held |-> [alerts[i] EXCEPT !.fired = i \in some \/ alerts[i].fired]]
          /\ Becomes(c, IF some = {} THEN "done" ELSE "fired")
    BY <1>4 DEF evaluateTaken
  <2>3. CASE some = {}
    <3>1. Becomes(c, "done")
      BY <2>2, <2>3
    <3>2. \A i \in Held : [alerts[i] EXCEPT !.fired = i \in some \/ alerts[i].fired] = alerts[i]
      <4>. SUFFICES ASSUME NEW i \in Held
                    PROVE  [alerts[i] EXCEPT !.fired = i \in some \/ alerts[i].fired] = alerts[i]
        OBVIOUS
      <4>1. alerts[i] \in AlertRecords /\ (i \in some \/ alerts[i].fired) = alerts[i].fired
        BY <1>0, <2>3 DEF AlertRecords
      <4>. QED  BY <4>1 DEF AlertRecords
    <3>3. alerts' = alerts
      BY <1>0, <2>2, <3>2
    <3>4. calls' \subseteq Calls /\ (Untold => Untold')
      BY <1>0, <2>1, <3>1, BecomesIs
    <3>. QED  BY <1>0, <2>1, <3>3, <3>4, SameAlerts DEF server
  <2>4. CASE some # {}
    <3>1. Becomes(c, "fired")
      BY <2>2, <2>4
    <3>2. calls' \subseteq Calls /\ Untold'
      BY <1>0, <2>1, <3>1, BecomesIs
    <3>3. \A i \in Held : [alerts[i] EXCEPT !.fired = i \in some \/ alerts[i].fired] \in AlertRecords
      <4>. SUFFICES ASSUME NEW i \in Held
                    PROVE  [alerts[i] EXCEPT !.fired = i \in some \/ alerts[i].fired] \in AlertRecords
        OBVIOUS
      <4>1. alerts[i] \in AlertRecords /\ (i \in some \/ alerts[i].fired) \in BOOLEAN
        BY <1>0 DEF AlertRecords
      <4>. QED  BY <4>1 DEF AlertRecords
    <3>4. alerts' \in [Held -> AlertRecords]
      BY <2>2, <3>3
    <3>. QED  BY <1>0, <2>1, <3>2, <3>4, Changes
  <2>. QED  BY <2>3, <2>4
<1>5. ASSUME listRead PROVE DeskInv'
  <2>1. /\ listAsk' = [at |-> "read", list |-> ownAlerts] /\ listAsk'.at = "read"
        /\ listAsk'.list = ownAlerts
        /\ UNCHANGED <<alerts, deviceToken, shown, calls, deleting, count, unsure>>
    BY <1>5 DEF listRead
  <2>2. listAsk' # Unasked
    BY <2>1, AsksDiffer
  <2>. QED  BY <2>1, <2>2 DEF DeskInv, DeskFits, Held, ownAlerts, Untold
<1>6. ASSUME listArrives PROVE DeskInv'
  <2>1. /\ listAsk.at = "read" /\ shown' = listAsk.list /\ listAsk' = Unasked
        /\ UNCHANGED <<alerts, deviceToken, calls, deleting, count, unsure>>
    BY <1>6 DEF listArrives
  <2>2. listAsk'.at = "none"
    BY <2>1, AsksDiffer
  <2>. QED  BY <2>1, <2>2 DEF DeskInv, DeskFits, Held, ownAlerts, Untold
<1>7. ASSUME listFails PROVE DeskInv'
  <2>1. /\ listAsk' = ListFailed
        /\ UNCHANGED <<alerts, deviceToken, shown, calls, deleting, count, unsure>>
    BY <1>7 DEF listFails
  <2>2. listAsk'.at = "failed" /\ listAsk' # Unasked
    BY <2>1, AsksDiffer
  <2>. QED  BY <2>1, <2>2 DEF DeskInv, DeskFits, Held
<1>8. ASSUME NEW c \in calls, onSuccess(c) PROVE DeskInv'
  <2>. DEFINE more == IF c.what = "create" THEN {[what |-> "evaluate", id |-> 0, at |-> "sent", n |-> c.n]} ELSE {}
  <2>1. /\ calls' = (calls \ {c}) \cup more /\ deleting' \in Nat
        /\ UNCHANGED <<alerts, deviceToken, shown, count>>
    BY <1>0, <1>8 DEF onSuccess
  <2>2. more \subseteq Calls
    BY <1>0 DEF Calls
  <2>3. calls' \subseteq Calls
    BY <1>0, <2>1, <2>2
  <2>. HIDE DEF more
  <2>4. CASE refreshes(c)
    <3>1. CASE listAsk' = Sent /\ unsure' = FALSE
      <4>1. listAsk' # Unasked /\ listAsk'.at # "read"
        BY <3>1, AsksDiffer
      <4>. QED  BY <2>1, <2>3, <3>1, <4>1 DEF DeskInv, DeskFits, Held
    <3>2. CASE listAsk' = listAsk /\ unsure' = TRUE
      BY <2>1, <2>3, <3>2 DEF DeskInv, DeskFits, Held
    <3>. QED  BY <1>8, <2>4, <3>1, <3>2 DEF onSuccess, invalidateList
  <2>5. CASE ~refreshes(c)
    <3>1. UNCHANGED <<listAsk, unsure>>
      BY <1>8, <2>5 DEF onSuccess
    <3>2. Untold => Untold'
      <4>1. ASSUME NEW e \in calls, e.at # "sent", refreshes(e) PROVE e \in calls'
        BY <2>1, <2>5, <4>1
      <4>. QED  BY <4>1 DEF Untold
    <3>. QED  BY <1>0, <2>1, <2>3, <3>1, <3>2, SameAlerts
  <2>. QED  BY <2>4, <2>5
<1>9. ASSUME NEW c \in calls, onError(c) PROVE DeskInv'
  <2>1. /\ calls' = calls \ {c} /\ unsure' = (unsure \/ c.at # "sent")
        /\ UNCHANGED <<alerts, deviceToken, shown, listAsk, deleting, count>>
    BY <1>9 DEF onError
  <2>2. CASE c.at # "sent"
    <3>1. unsure' = TRUE
      BY <1>0, <2>1, <2>2
    <3>. QED  BY <1>0, <2>1, <3>1 DEF DeskInv, DeskFits, Held
  <2>3. CASE c.at = "sent"
    <3>1. unsure' = unsure
      BY <1>0, <2>1, <2>3
    <3>2. Untold => Untold'
      BY <2>1, <2>3 DEF Untold
    <3>3. calls' \subseteq Calls /\ count' \in 0..MaxCalls /\ deleting' \in Nat
      BY <1>0, <2>1
    <3>. QED  BY <2>1, <3>1, <3>2, <3>3, SameAlerts
  <2>. QED  BY <2>2, <2>3
<1>10. ASSUME NEW token \in deviceToken..2, arrive(token) PROVE DeskInv'
  <2>1. /\ deviceToken' = token /\ shown' = NotLoaded /\ listAsk' = Sent /\ deleting' = 0
        /\ unsure' = FALSE /\ alerts' = alerts /\ count < MaxCalls /\ count' = count + 1
        /\ calls' = {[what |-> "evaluate", id |-> 0, at |-> "sent", n |-> count + 1]}
    BY <1>10 DEF arrive
  <2>2. listAsk' # Unasked /\ listAsk'.at # "read"
    BY <2>1, AsksDiffer
  <2>3. count' \in 0..MaxCalls /\ token \in 1..2 /\ count + 1 \in Nat
    BY <1>0, <2>1, AlertDeskAssumption
  <2>4. calls' \subseteq Calls
    BY <2>1, <2>3 DEF Calls
  <2>. QED  BY <1>0, <2>1, <2>2, <2>3, <2>4 DEF DeskInv, DeskFits, Held
<1>11. CASE evaluateAll
  BY <1>11, CallKeeps DEF evaluateAll
<1>12. CASE create
  BY <1>12, CallKeeps DEF create
<1>13. CASE confirmDelete
  BY <1>0, <1>13, CallKeeps DEF confirmDelete
<1>14. ASSUME NEW i \in Ids, toggleAlert(i) PROVE DeskInv'
  <2>1. i \in Nat
    BY DEF Ids
  <2>. QED  BY <1>14, <2>1, CallKeeps DEF toggleAlert
<1>15. ASSUME NEW i \in Ids, openDelete(i) PROVE DeskInv'
  <2>1. i \in Nat
    BY DEF Ids
  <2>2. deleting' \in Nat /\ UNCHANGED <<alerts, deviceToken, shown, listAsk, calls, count, unsure>>
    BY <1>15, <2>1 DEF openDelete
  <2>3. Untold => Untold'
    BY <2>2 DEF Untold
  <2>. QED  BY <1>0, <2>2, <2>3, SameAlerts
<1>16. CASE closeDelete
  <2>1. deleting' \in Nat /\ UNCHANGED <<alerts, deviceToken, shown, listAsk, calls, count, unsure>>
    BY <1>16 DEF closeDelete
  <2>2. Untold => Untold'
    BY <2>1 DEF Untold
  <2>. QED  BY <1>0, <2>1, <2>2, SameAlerts
<1>17. CASE UNCHANGED alertDeskVars
  BY <1>17 DEF alertDeskVars, DeskInv, DeskFits, Held, ownAlerts, Untold
<1>. QED  BY <1>1, <1>2, <1>3, <1>4, <1>5, <1>6, <1>7, <1>8, <1>9, <1>10, <1>11, <1>12, <1>13,
             <1>14, <1>15, <1>16, <1>17 DEF NextAlertDesk

\* The variables keep their types.
THEOREM DeskTypes == AlertDeskSpec => []AlertDeskTypeOK
<1>1. DeskInv => AlertDeskTypeOK
  BY DEF DeskInv, DeskFits, AlertDeskTypeOK, Calls
<1>. QED  BY <1>1, DeskStarts, DeskStep, PTL DEF AlertDeskSpec

\* Whatever requests overlap, fail or are answered in another order, a page that has been
\* told of everything and has its list shows exactly the server's alerts of this browser.
THEOREM ListStaysHeld == AlertDeskSpec => []ListIsHeld
<1>1. DeskInv => ListIsHeld
  BY DEF DeskInv, ListIsHeld, Untold
<1>. QED  BY <1>1, DeskStarts, DeskStep, PTL DEF AlertDeskSpec

(***************************************************************************)
(* The search dialog.                                                      *)
(***************************************************************************)
Dialogs == [open : BOOLEAN, input : Texts, debounced : Texts, resting : BOOLEAN,
            touched : BOOLEAN, active : Int, moved : BOOLEAN]

\* An untouched dialog is as it opened; one at rest has searched for what is in it.
DialogIsOfThisOpening ==
    /\ ~dialog.touched => dialog.input = NoText /\ dialog.debounced = NoText
    /\ ~dialog.resting => dialog.debounced = dialog.input

\* A symbol spelt out, and tracked from the start, leads every answer kept for its text.
SpeltOutLeads ==
    \A t \in Queries : pages[t] \notin {NotAsked, Failed} /\ Spells[t] \in Tracked =>
        pages[t] # <<>> /\ pages[t][1] = Spells[t]

\* The inductive invariant of the dialog.
SearchInv ==
    /\ SearchTypeOK /\ Tracked \subseteq register /\ dialog \in Dialogs
    /\ DialogIsOfThisOpening /\ SpeltOutLeads

---------------------------------------------------------------------------
LEMMA OrdersAreSequences ==
    ASSUME NEW S, IsFiniteSet(S), NEW l \in SetToSeqs(S)
    PROVE  l \in Seq(S) /\ Len(l) \in Nat /\ DOMAIN l = 1..Len(l)
<1>1. Cardinality(S) \in Nat
  BY FS_CardinalityType
<1>2. l \in [1..Cardinality(S) -> S]
  BY DEF SetToSeqs
<1>. QED  BY <1>1, <1>2

LEMMA SymbolsAreFinite == IsFiniteSet(Tracked \cup {Added}) /\ \A S \in SUBSET (Tracked \cup {Added}) : IsFiniteSet(S)
<1>1. IsFiniteSet(Tracked \cup {Added})
  BY SearchAssumption, FS_AddElement
<1>. QED  BY <1>1, FS_Subset

LEMMA AnswersAreSequences ==
    ASSUME NEW l \in ResultLists \cup {NotAsked, Failed}
    PROVE  Len(l) \in Nat /\ DOMAIN l = 1..Len(l) /\ (l # <<>> => Len(l) > 0)
<1>1. CASE l = NotAsked \/ l = Failed
  BY <1>1 DEF NotAsked, Failed
<1>2. CASE l \in ResultLists
  <2>1. PICK S \in SUBSET (Tracked \cup {Added}) : l \in SetToSeqs(S)
    BY <1>2 DEF ResultLists
  <2>. QED  BY <2>1, SymbolsAreFinite, OrdersAreSequences
<1>. QED  BY <1>1, <1>2

LEMMA OffersAreSequences ==
    ASSUME NEW l \in {<<>>} \cup SetToSeqs(Constituents)
    PROVE  Len(l) \in Nat /\ DOMAIN l = 1..Len(l) /\ (l # <<>> => Len(l) > 0)
<1>1. CASE l = <<>>
  BY <1>1
<1>2. CASE l \in SetToSeqs(Constituents)
  BY <1>2, SearchAssumption, OrdersAreSequences
<1>. QED  BY <1>1, <1>2

\* What the service answers is a list of symbols, and the one spelt out leads it.
LEMMA AnswerLeads ==
    ASSUME SearchInv, NEW t \in Queries, NEW answer \in search(t)
    PROVE  /\ answer \in ResultLists
           /\ Spells[t] \in Tracked => answer # <<>> /\ answer[1] = Spells[t]
<1>1. PICK R \in {register, Tracked} : answer \in ranked(t, R)
  BY DEF search
<1>2. R \in SUBSET (Tracked \cup {Added}) /\ Tracked \subseteq R
  BY <1>1 DEF SearchInv, SearchTypeOK
<1>3. answer \in SetToSeqs(LikeText[t] \cap R) /\ (Spells[t] \in R => answer # <<>> /\ answer[1] = Spells[t])
  BY <1>1 DEF ranked
<1>4. LikeText[t] \cap R \in SUBSET (Tracked \cup {Added})
  BY <1>2
<1>. QED  BY <1>2, <1>3, <1>4 DEF ResultLists

LEMMA SearchStarts == InitSearch => SearchInv
<1>. SUFFICES ASSUME InitSearch PROVE SearchInv
  OBVIOUS
<1>1. dialog = ClosedDialog /\ dialog \in Dialogs /\ dialog.input = NoText /\ dialog.debounced = NoText
  BY SearchAssumption DEF InitSearch, ClosedDialog, Dialogs
<1>2. \A t \in Queries : pages[t] = NotAsked
  BY DEF InitSearch
<1>3. SearchTypeOK
  BY <1>1, SearchAssumption DEF InitSearch, SearchTypeOK
<1>. QED  BY <1>1, <1>2, <1>3 DEF InitSearch, SearchInv, DialogIsOfThisOpening, SpeltOutLeads

\* Where only the dialog moves, and where else but the pages and the register.
LEMMA DialogMoves ==
    ASSUME SearchInv, dialog' \in Dialogs, DialogIsOfThisOpening', UNCHANGED <<register, pages>>,
           searching' \subseteq Queries, offered' \in {<<>>} \cup SetToSeqs(Constituents), typed' \in 0..MaxTyped
    PROVE  SearchInv'
<1>1. dialog'.input \in Texts /\ dialog'.debounced \in Texts
  BY DEF Dialogs
<1>. QED  BY <1>1 DEF SearchInv, SearchTypeOK, SpeltOutLeads

LEMMA FetchKeeps ==
    ASSUME SearchInv, NEW t, fetchFor(t) PROVE searching' \subseteq Queries
BY DEF fetchFor, SearchInv, SearchTypeOK

LEMMA GoKeeps ==
    ASSUME SearchInv, NEW place, go(place), searching' \subseteq Queries PROVE SearchInv'
<1>1. dialog' = ClosedDialog
  BY DEF go, onClosed
<1>2. dialog' \in Dialogs /\ dialog'.input = NoText /\ dialog'.debounced = NoText
  BY <1>1, SearchAssumption DEF ClosedDialog, Dialogs
<1>3. DialogIsOfThisOpening'
  BY <1>2 DEF DialogIsOfThisOpening
<1>. QED  BY <1>2, <1>3, DialogMoves DEF go, SearchInv, SearchTypeOK

LEMMA RowsAreSequences ==
    ASSUME SearchInv PROVE rowsShown # <<>> => Len(rowsShown) \in Nat /\ Len(rowsShown) > 0
<1>1. CASE enabled
  <2>1. CASE dialog.debounced \in Queries /\ pages[dialog.debounced] \notin {NotAsked, Failed}
    BY <1>1, <2>1, AnswersAreSequences DEF rowsShown, results, rowsOf, SearchInv, SearchTypeOK
  <2>2. CASE ~(dialog.debounced \in Queries /\ pages[dialog.debounced] \notin {NotAsked, Failed})
    BY <1>1, <2>2 DEF rowsShown, results, rowsOf
  <2>. QED  BY <2>1, <2>2
<1>2. CASE ~enabled
  BY <1>2, OffersAreSequences DEF rowsShown, SearchInv, SearchTypeOK
<1>. QED  BY <1>1, <1>2

LEMMA SearchStep == SearchInv /\ [NextSearch]_searchVars => SearchInv'
<1>. SUFFICES ASSUME SearchInv, [NextSearch]_searchVars PROVE SearchInv'
  OBVIOUS
<1>0. /\ dialog \in Dialogs /\ DialogIsOfThisOpening /\ SearchTypeOK /\ searching \subseteq Queries
      /\ typed \in 0..MaxTyped /\ offered \in {<<>>} \cup SetToSeqs(Constituents)
  BY DEF SearchInv, SearchTypeOK
<1>1. CASE OpenDialog
  <2>1. dialog' = [dialog EXCEPT !.open = TRUE] /\ UNCHANGED <<register, pages, searching, offered, typed>>
    BY <1>1 DEF OpenDialog
  <2>2. /\ dialog' \in Dialogs /\ dialog'.input = dialog.input /\ dialog'.debounced = dialog.debounced
        /\ dialog'.resting = dialog.resting /\ dialog'.touched = dialog.touched
    BY <1>0, <2>1 DEF Dialogs
  <2>. QED  BY <1>0, <2>1, <2>2, DialogMoves DEF DialogIsOfThisOpening
<1>2. CASE CloseDialog
  <2>1. dialog' = ClosedDialog /\ UNCHANGED <<register, pages, searching, offered, typed>>
    BY <1>2 DEF CloseDialog, onClosed
  <2>2. dialog' \in Dialogs /\ dialog'.input = NoText /\ dialog'.debounced = NoText
    BY <2>1, SearchAssumption DEF ClosedDialog, Dialogs
  <2>. QED  BY <1>0, <2>1, <2>2, DialogMoves DEF DialogIsOfThisOpening
<1>3. CASE Settle
  <2>. DEFINE again == dialog.input = dialog.debounced
              A == IF again THEN dialog.active ELSE 1
              M == IF again THEN dialog.moved ELSE FALSE
  <2>1. /\ dialog' = [dialog EXCEPT !.debounced = dialog.input, !.resting = FALSE, !.active = A, !.moved = M]
        /\ UNCHANGED <<register, pages, offered, typed>>
    BY <1>3 DEF Settle
  <2>2. dialog.active \in Int /\ dialog.moved \in BOOLEAN
    BY <1>0 DEF Dialogs
  <2>. HIDE DEF again
  <2>3. A \in Int
    BY <2>2
  <2>4. M \in BOOLEAN
    BY <2>2
  <2>. HIDE DEF A, M
  <2>5. dialog' \in Dialogs
    BY <1>0, <2>1, <2>3, <2>4 DEF Dialogs
  <2>6. dialog'.input = dialog.input
    BY <1>0, <2>1 DEF Dialogs
  <2>7. dialog'.debounced = dialog.input
    BY <1>0, <2>1 DEF Dialogs
  <2>8. dialog'.touched = dialog.touched
    BY <1>0, <2>1 DEF Dialogs
  <2>9. searching' \subseteq Queries
    BY <1>0, <1>3, FetchKeeps DEF Settle
  <2>. QED  BY <1>0, <2>1, <2>5, <2>6, <2>7, <2>8, <2>9, DialogMoves DEF DialogIsOfThisOpening
<1>4. CASE submit
  BY <1>0, <1>4, GoKeeps, FetchKeeps DEF submit, goToStock, goToResults
<1>5. CASE SeeAll
  BY <1>0, <1>5, GoKeeps, FetchKeeps DEF SeeAll, goToResults
<1>6. CASE Offer
  <2>1. UNCHANGED <<register, dialog, pages, searching, typed>> /\ offered' \in SetToSeqs(Constituents)
    BY <1>6 DEF Offer
  <2>. QED  BY <1>0, <2>1, DialogMoves DEF DialogIsOfThisOpening
<1>7. CASE Track
  <2>1. register' = register \cup {Added} /\ UNCHANGED <<dialog, pages, searching, offered, typed>>
    BY <1>7 DEF Track
  <2>. QED  BY <1>0, <2>1 DEF SearchInv, SearchTypeOK, DialogIsOfThisOpening, SpeltOutLeads
<1>8. ASSUME NEW t \in Texts, Type(t) PROVE SearchInv'
  <2>1. /\ dialog' = [dialog EXCEPT !.input = t, !.resting = TRUE, !.touched = TRUE]
        /\ typed' = typed + 1 /\ typed < MaxTyped /\ UNCHANGED <<register, pages, searching, offered>>
    BY <1>8 DEF Type
  <2>2. dialog' \in Dialogs
    BY <1>0, <2>1 DEF Dialogs
  <2>3. dialog'.resting = TRUE /\ dialog'.touched = TRUE
    BY <1>0, <2>1 DEF Dialogs
  <2>4. typed' \in 0..MaxTyped
    BY <1>0, <2>1, SearchAssumption
  <2>. QED  BY <1>0, <2>1, <2>2, <2>3, <2>4, DialogMoves DEF DialogIsOfThisOpening
<1>9. ASSUME NEW t \in Queries, Found(t) PROVE SearchInv'
  <2>1. PICK answer \in search(t) : pages' = [pages EXCEPT ![t] = answer]
    BY <1>9 DEF Found
  <2>2. searching' \subseteq Queries /\ UNCHANGED <<register, dialog, offered, typed>>
    BY <1>0, <1>9 DEF Found
  <2>3. answer \in ResultLists /\ (Spells[t] \in Tracked => answer # <<>> /\ answer[1] = Spells[t])
    BY AnswerLeads
  <2>4. SearchTypeOK'
    BY <1>0, <2>1, <2>2, <2>3 DEF SearchTypeOK
  <2>5. SpeltOutLeads'
    BY <1>0, <2>1, <2>3 DEF SearchInv, SearchTypeOK, SpeltOutLeads
  <2>. QED  BY <2>2, <2>4, <2>5 DEF SearchInv, DialogIsOfThisOpening
<1>10. ASSUME NEW t \in Queries, SearchFails(t) PROVE SearchInv'
  <2>1. /\ pages' = [pages EXCEPT ![t] = IF @ = NotAsked THEN Failed ELSE @]
        /\ searching' \subseteq Queries /\ UNCHANGED <<register, dialog, offered, typed>>
    BY <1>0, <1>10 DEF SearchFails
  <2>2. \A u \in Queries : pages'[u] = pages[u] \/ pages'[u] = Failed
    BY <1>0, <2>1 DEF SearchTypeOK
  <2>3. SearchTypeOK'
    BY <1>0, <2>1, <2>2 DEF SearchTypeOK
  <2>4. SpeltOutLeads'
    BY <2>2 DEF SearchInv, SpeltOutLeads
  <2>. QED  BY <2>1, <2>3, <2>4 DEF SearchInv, DialogIsOfThisOpening
<1>11. ASSUME NEW step \in {1, -1}, onKeyDown(step) PROVE SearchInv'
  <2>. DEFINE A == ((dialog.active - 1 + step) % Len(rowsShown)) + 1
  <2>1. /\ rowsShown # <<>> /\ dialog' = [dialog EXCEPT !.moved = TRUE, !.active = A]
        /\ UNCHANGED <<register, pages, searching, offered, typed>>
    BY <1>11 DEF onKeyDown
  <2>2. A \in Int
    <3>1. Len(rowsShown) \in Nat /\ Len(rowsShown) > 0
      BY <2>1, RowsAreSequences
    <3>2. dialog.active - 1 + step \in Int
      BY <1>0 DEF Dialogs
    <3>. DEFINE n == Len(rowsShown)
                m == dialog.active - 1 + step
    <3>3. n \in Nat /\ n > 0 /\ m \in Int
      BY <3>1, <3>2
    <3>. HIDE DEF n, m
    <3>4. m % n \in Int
      BY <3>3
    <3>. QED  BY <3>4 DEF n, m
  <2>. HIDE DEF A
  <2>3. dialog' \in Dialogs
    BY <1>0, <2>1, <2>2 DEF Dialogs
  <2>4. dialog'.input = dialog.input /\ dialog'.debounced = dialog.debounced
    BY <1>0, <2>1 DEF Dialogs
  <2>5. dialog'.resting = dialog.resting /\ dialog'.touched = dialog.touched
    BY <1>0, <2>1 DEF Dialogs
  <2>. QED  BY <1>0, <2>1, <2>3, <2>4, <2>5, DialogMoves DEF DialogIsOfThisOpening
<1>12. ASSUME NEW i \in 1..Cardinality(Tracked \cup {Added}), Hover(i) PROVE SearchInv'
  <2>. DEFINE M == dialog.moved \/ ~enabled
  <2>1. /\ dialog' = [dialog EXCEPT !.active = i, !.moved = M]
        /\ UNCHANGED <<register, pages, searching, offered, typed>>
    BY <1>12 DEF Hover
  <2>2. M \in BOOLEAN /\ i \in Int
    OBVIOUS
  <2>. HIDE DEF M
  <2>3. dialog' \in Dialogs
    BY <1>0, <2>1, <2>2 DEF Dialogs
  <2>4. dialog'.input = dialog.input /\ dialog'.debounced = dialog.debounced
    BY <1>0, <2>1 DEF Dialogs
  <2>5. dialog'.resting = dialog.resting /\ dialog'.touched = dialog.touched
    BY <1>0, <2>1 DEF Dialogs
  <2>. QED  BY <1>0, <2>1, <2>3, <2>4, <2>5, DialogMoves DEF DialogIsOfThisOpening
<1>13. ASSUME NEW i \in 1..Cardinality(Tracked \cup {Added}), Click(i) PROVE SearchInv'
  BY <1>0, <1>13, GoKeeps DEF Click, goToStock
<1>14. CASE UNCHANGED searchVars
  BY <1>14 DEF searchVars, SearchInv, SearchTypeOK, DialogIsOfThisOpening, SpeltOutLeads
<1>. QED  BY <1>1, <1>2, <1>3, <1>4, <1>5, <1>6, <1>7, <1>8, <1>9, <1>10, <1>11, <1>12, <1>13, <1>14
          DEF NextSearch

\* The first row is the least row there is.
LEMMA FirstOfMany == ASSUME NEW n \in Nat, n > 0 PROVE Min({1, n}) = 1
<1>1. \A x \in {1, n} : (\A y \in {1, n} : x =< y) <=> x = 1
  OBVIOUS
<1>. QED  BY <1>1 DEF Min

\* Enter, with nothing chosen by hand.
LEMMA EnterGoes ==
    ASSUME SearchInv, submit, ~dialog.moved, dialog.active = 1
    PROVE  /\ dialog.touched
           /\ ~dialog.resting /\ Spells[dialog.input] \in Tracked /\ TextLength[dialog.input] = 2
              /\ pages[dialog.input] \notin {NotAsked, Failed}
                => location' = Spells[dialog.input]
<1>0. dialog.input \in Texts /\ dialog.touched \in BOOLEAN /\ TextLength \in [Texts -> 0..2]
      /\ TextLength[NoText] = 0 /\ DialogIsOfThisOpening
  BY SearchAssumption DEF SearchInv, Dialogs
<1>1. dialog.touched
  <2>. SUFFICES ASSUME ~dialog.touched PROVE FALSE
    BY <1>0
  <2>1. dialog.input = NoText /\ dialog.debounced = NoText
    BY <1>0 DEF DialogIsOfThisOpening
  <2>2. ~enabled
    BY <1>0, <2>1 DEF enabled
  <2>. QED  BY <2>1, <2>2 DEF submit
<1>2. ASSUME ~dialog.resting, Spells[dialog.input] \in Tracked, TextLength[dialog.input] = 2,
             pages[dialog.input] \notin {NotAsked, Failed}
      PROVE  location' = Spells[dialog.input]
  <2>1. dialog.debounced = dialog.input
    BY <1>0, <1>2 DEF DialogIsOfThisOpening
  <2>2. dialog.input \in Queries /\ enabled
    BY <1>0, <1>2, <2>1 DEF Queries, enabled
  <2>3. results = pages[dialog.input]
    BY <1>2, <2>1, <2>2 DEF results, rowsOf
  <2>4. results # <<>> /\ results[1] = Spells[dialog.input]
    BY <1>2, <2>2, <2>3 DEF SearchInv, SpeltOutLeads
  <2>5. Len(results) \in Nat /\ Len(results) > 0
    BY <2>2, <2>3, <2>4, AnswersAreSequences DEF SearchInv, SearchTypeOK
  <2>6. Min({dialog.active, Len(results)}) = 1
    BY <2>5, FirstOfMany
  <2>7. goToStock(results[Min({dialog.active, Len(results)})])
    BY <2>2, <2>4 DEF submit
  <2>. QED  BY <2>4, <2>6, <2>7 DEF goToStock, go
<1>. QED  BY <1>1, <1>2

\* The variables keep their types.
THEOREM SearchTypes == SearchSpec => []SearchTypeOK
<1>1. SearchInv => SearchTypeOK
  BY DEF SearchInv
<1>. QED  BY <1>1, SearchStarts, SearchStep, PTL DEF SearchSpec

\* Whatever was typed, answered late or left behind before, Enter does what was typed in
\* this opening: the action property of the dialog.
THEOREM EnterDoes == SearchSpec => EnterDoesWhatIsTyped
<1>. DEFINE A == submit /\ ~dialog.moved /\ dialog.active = 1 =>
          /\ dialog.touched
          /\ ~dialog.resting /\ Spells[dialog.input] \in Tracked /\ TextLength[dialog.input] = 2
             /\ pages[dialog.input] \notin {NotAsked, Failed}
               => location' = Spells[dialog.input]
<1>1. SearchInv /\ [NextSearch]_searchVars => [A]_searchVars
  BY EnterGoes
<1>. HIDE DEF A
<1>2. SearchSpec => [][A]_searchVars
  BY <1>1, SearchStarts, SearchStep, PTL DEF SearchSpec
<1>. QED  BY <1>2 DEF EnterDoesWhatIsTyped, A

---------------------------------------------------------------------------
(***************************************************************************)
(* The pages of the stock list.                                            *)
(***************************************************************************)
\* What is read of a question is a page of the list, and its count, as they were then.
Answered == [rows : Seq(Tickers), rowsAt : Int, total : Nat, totalAt : Int]

IsPageOf(q, a) ==
    /\ a.rowsAt <= changed /\ a.totalAt <= changed
    /\ a.rowsAt = changed =>
          \E sorted \in Sorted(members[q.list], q.order) : a.rows = PageOf(sorted, q.page)
    /\ a.totalAt = changed => a.total = Cardinality(members[q.list])

\* The inductive invariant of the list: what came, and what is on its way, is of its question.
PagesInv ==
    /\ figure \in [Tickers -> Figures \cup {Dash}] /\ members \in [Lists -> SUBSET Tickers]
    /\ question \in Questions /\ requests \in 0..MaxAsked /\ changed \in 0..MaxChanged
    /\ DOMAIN answers \subseteq Questions /\ answers \in [DOMAIN answers -> Answered]
    /\ DOMAIN asking \subseteq Questions /\ asking \in [DOMAIN asking -> Answered]
    /\ \A q \in DOMAIN answers : IsPageOf(q, answers[q])
    /\ \A q \in DOMAIN asking : IsPageOf(q, asking[q])

---------------------------------------------------------------------------
\* The order of a query ranks any two symbols, one way.
LEMMA OrderIsTotal ==
    ASSUME figure \in [Tickers -> Figures \cup {Dash}], NEW order \in {"asc", "desc"},
           NEW s \in Tickers, NEW t \in Tickers
    PROVE  /\ ~(buildOrderBy(order, s, t) /\ buildOrderBy(order, t, s))
           /\ s # t => buildOrderBy(order, s, t) \/ buildOrderBy(order, t, s)
<1>1. s \in Nat /\ t \in Nat
  BY ListingAssumption
<1>2. figure[s] \in Figures \cup {0} /\ figure[t] \in Figures \cup {0}
  BY DEF Dash
<1>. DEFINE a == figure[s]
            b == figure[t]
<1>3. /\ buildOrderBy(order, s, t)
         <=> \/ a # 0 /\ b = 0
             \/ a # 0 /\ b # 0 /\ (IF order = "asc" THEN a < b ELSE a > b)
             \/ a = b /\ s < t
      /\ buildOrderBy(order, t, s)
         <=> \/ b # 0 /\ a = 0
             \/ b # 0 /\ a # 0 /\ (IF order = "asc" THEN b < a ELSE b > a)
             \/ b = a /\ t < s
  BY DEF buildOrderBy, ByFigure, Dash
<1>. HIDE DEF a, b
<1>4. \A v \in Figures \cup {0} : v \in Nat
  BY ListingAssumption
<1>5. a \in Nat /\ b \in Nat
  BY <1>2, <1>4 DEF a, b
<1>6. CASE order = "asc"
  BY <1>1, <1>3, <1>6, <1>5
<1>7. CASE order # "asc"
  BY <1>1, <1>3, <1>7, <1>5
<1>. QED  BY <1>6, <1>7

\* An order of a finite set meets each of its symbols at one place, the later ones not
\* before the earlier.
LEMMA SortedMeetsAll ==
    ASSUME figure \in [Tickers -> Figures \cup {Dash}], NEW order \in {"asc", "desc"},
           NEW S \in SUBSET Tickers, NEW l \in Sorted(S, order)
    PROVE  /\ Cardinality(S) \in Nat /\ l \in [1..Cardinality(S) -> S] /\ l \in Seq(S)
           /\ Len(l) = Cardinality(S)
           /\ \A i, j \in 1..Cardinality(S) : l[i] = l[j] => i = j
           /\ \A s \in S : \E i \in 1..Cardinality(S) : l[i] = s
           /\ \A i, j \in 1..Cardinality(S) : i < j => buildOrderBy(order, l[i], l[j])
<1>. DEFINE N == Cardinality(S)
<1>1. IsFiniteSet(S) /\ N \in Nat
  BY ListingAssumption, FS_Subset, FS_CardinalityType
<1>. HIDE DEF N
<1>2. /\ l \in [1..N -> S] /\ \A i, j \in 1..N : i # j => l[i] # l[j]
      /\ \A i, j \in 1..N : i < j => ~buildOrderBy(order, l[j], l[i])
  BY DEF Sorted, SetToSeqs, N
<1>3. l \in Seq(S) /\ Len(l) = N
  BY <1>1, <1>2
<1>4. l \in Injection(1..N, S)
  BY <1>2 DEF Injection, IsInjective
<1>5. Cardinality(1..N) = N
  BY <1>1, FS_Interval
<1>6. l \in Surjection(1..N, S)
  BY <1>1, <1>4, <1>5, FS_Injection DEF N
<1>7. \A s \in S : \E i \in 1..N : l[i] = s
  BY <1>6 DEF Surjection
<1>8. ASSUME NEW i \in 1..N, NEW j \in 1..N, i < j PROVE buildOrderBy(order, l[i], l[j])
  <2>1. i # j /\ l[i] \in Tickers /\ l[j] \in Tickers
    BY <1>1, <1>2, <1>8
  <2>. QED  BY <1>2, <1>8, <2>1, OrderIsTotal
<1>. QED  BY <1>1, <1>2, <1>3, <1>7, <1>8 DEF N

\* A query can answer in one order only.
LEMMA SortedIsOne ==
    ASSUME figure \in [Tickers -> Figures \cup {Dash}], NEW order \in {"asc", "desc"},
           NEW S \in SUBSET Tickers, NEW l \in Sorted(S, order), NEW m \in Sorted(S, order)
    PROVE  l = m
<1>. DEFINE N == Cardinality(S)
            apart == {i \in 1..N : l[i] # m[i]}
<1>0. /\ N \in Nat /\ l \in [1..N -> S]
      /\ \A i, j \in 1..N : l[i] = l[j] => i = j
      /\ \A s \in S : \E i \in 1..N : l[i] = s
      /\ \A i, j \in 1..N : i < j => buildOrderBy(order, l[i], l[j])
  BY SortedMeetsAll
<1>1. /\ m \in [1..N -> S]
      /\ \A i, j \in 1..N : m[i] = m[j] => i = j
      /\ \A s \in S : \E i \in 1..N : m[i] = s
      /\ \A i, j \in 1..N : i < j => buildOrderBy(order, m[i], m[j])
  BY SortedMeetsAll
<1>. HIDE DEF N
<1>2. ASSUME apart # {} PROVE FALSE
  <2>1. apart \subseteq Nat
    BY <1>0, <1>1
  <2>2. PICK i \in apart : \A j \in apart : i <= j
    BY <1>2, <2>1, FirstOf
  <2>3. i \in 1..N /\ l[i] # m[i] /\ \A j \in 1..N : j < i => l[j] = m[j]
    BY <1>0, <1>1, <2>2
  <2>4. PICK j \in 1..N : m[j] = l[i]
    BY <1>0, <1>1, <2>3
  <2>5. PICK k \in 1..N : l[k] = m[i]
    BY <1>0, <1>1, <2>3
  <2>6. i < j
    <3>1. j # i
      BY <2>3, <2>4
    <3>2. ~(j < i)
      BY <1>0, <1>1, <2>3, <2>4
    <3>. QED  BY <1>0, <1>1, <2>3, <3>1, <3>2
  <2>7. i < k
    <3>1. k # i
      BY <2>3, <2>5
    <3>2. ~(k < i)
      BY <1>0, <1>1, <2>3, <2>5
    <3>. QED  BY <1>0, <1>1, <2>3, <3>1, <3>2
  <2>8. buildOrderBy(order, m[i], m[j]) /\ buildOrderBy(order, l[i], l[k])
    BY <1>0, <1>1, <2>3, <2>6, <2>7
  <2>9. buildOrderBy(order, m[i], l[i]) /\ buildOrderBy(order, l[i], m[i])
    BY <2>4, <2>5, <2>8
  <2>10. l[i] \in Tickers /\ m[i] \in Tickers
    BY <1>0, <1>1, <2>3
  <2>. QED  BY <2>9, <2>10, OrderIsTotal
<1>3. \A i \in 1..N : l[i] = m[i]
  BY <1>2
<1>. QED  BY <1>0, <1>1, <1>3

---------------------------------------------------------------------------
\* Where a page begins and ends.
LEMMA PageBounds ==
    ASSUME NEW N \in Nat, NEW p \in 1..PageCount(N)
    PROVE  /\ (p - 1) * PageRows \in Nat /\ (p - 1) * PageRows < N
           /\ p * PageRows = (p - 1) * PageRows + PageRows
<1>. DEFINE n == (N + PageRows - 1) \div PageRows
<1>1. PageRows \in Nat /\ PageRows > 0 /\ n \in Nat
  BY ListingAssumption
<1>2. n * PageRows <= N + PageRows - 1
  BY <1>1
<1>3. p \in Nat /\ p >= 1 /\ p <= n
  BY <1>1 DEF PageCount
<1>. HIDE DEF n
<1>4. p * PageRows <= n * PageRows
  BY <1>1, <1>3
<1>5. p * PageRows = (p - 1) * PageRows + PageRows /\ (p - 1) * PageRows \in Nat
  BY <1>1, <1>3
<1>6. n * PageRows \in Nat /\ p * PageRows \in Nat
  BY <1>1, <1>3
<1>. QED  BY <1>1, <1>2, <1>4, <1>5, <1>6

\* A place of the list is a row of one of its pages.
LEMMA PlaceHasACell ==
    ASSUME NEW N \in Nat, NEW k \in 1..N
    PROVE  \E p \in 1..PageCount(N) : \E i \in 1..PageRows : k = (p - 1) * PageRows + i
<1>. DEFINE n == (N + PageRows - 1) \div PageRows
            d == (k - 1) \div PageRows
            r == (k - 1) % PageRows
<1>1. PageRows \in Nat /\ PageRows > 0
  BY ListingAssumption
<1>2. n \in Nat /\ d \in Nat /\ r \in Nat
  BY <1>1
<1>3. r < PageRows
  BY <1>1
<1>4. k - 1 = d * PageRows + r
  BY <1>1
<1>5. N + PageRows - 1 < n * PageRows + PageRows
  BY <1>1
<1>6. PageCount(N) = n
  BY DEF PageCount
<1>. HIDE DEF n, d, r
<1>7. d < n
  <2>1. SUFFICES ASSUME n <= d PROVE FALSE
    BY <1>2
  <2>2. n * PageRows <= d * PageRows
    BY <1>1, <1>2, <2>1
  <2>3. n * PageRows \in Nat /\ d * PageRows \in Nat
    BY <1>1, <1>2
  <2>. QED  BY <1>1, <1>2, <1>4, <1>5, <2>2, <2>3
<1>8. d + 1 \in 1..PageCount(N) /\ r + 1 \in 1..PageRows
  BY <1>1, <1>2, <1>3, <1>6, <1>7
<1>9. d * PageRows \in Nat
  BY <1>1, <1>2
<1>10. (d + 1) - 1 = d
  BY <1>2
<1>11. k = ((d + 1) - 1) * PageRows + (r + 1)
  BY <1>2, <1>4, <1>9, <1>10
<1>. QED  BY <1>8, <1>11

\* A row of an earlier page comes before those of a later one.
LEMMA CellsAreInOrder ==
    ASSUME NEW p \in Nat \ {0}, NEW q \in Nat \ {0}, p < q, NEW i \in 1..PageRows, NEW j \in 1..PageRows
    PROVE  (p - 1) * PageRows + i < (q - 1) * PageRows + j
<1>1. PageRows \in Nat /\ PageRows > 0
  BY ListingAssumption
<1>2. p * PageRows = (p - 1) * PageRows + PageRows
  BY <1>1
<1>3. p * PageRows <= (q - 1) * PageRows
  BY <1>1
<1>4. p * PageRows \in Nat /\ (p - 1) * PageRows \in Nat /\ (q - 1) * PageRows \in Nat
  BY <1>1
<1>. QED  BY <1>1, <1>2, <1>3, <1>4

\* The rows of a page are the places from its first to its last.
LEMMA RowsOfAPage ==
    ASSUME NEW S, NEW N \in Nat, NEW l \in [1..N -> S], NEW p \in 1..PageCount(N)
    PROVE  LET page == PageOf(l, p) IN
           /\ page \in Seq(S) /\ DOMAIN page \subseteq 1..PageRows
           /\ \A i \in 1..PageRows : i \in DOMAIN page <=> (p - 1) * PageRows + i <= N
           /\ \A i \in DOMAIN page :
                 (p - 1) * PageRows + i \in 1..N /\ page[i] = l[(p - 1) * PageRows + i]
<1>. DEFINE a == (p - 1) * PageRows
            z == IF p * PageRows < Len(l) THEN p * PageRows ELSE Len(l)
            page == PageOf(l, p)
<1>1. /\ a \in Nat /\ a < N /\ p * PageRows = a + PageRows /\ PageRows \in Nat /\ PageRows > 0
  BY PageBounds, ListingAssumption
<1>2. l \in Seq(S) /\ Len(l) = N
  OBVIOUS
<1>3. page = SubSeq(l, a + 1, z)
  BY DEF PageOf
<1>. HIDE DEF a, page
<1>4. z = IF a + PageRows < N THEN a + PageRows ELSE N
  BY <1>1, <1>2
<1>. HIDE DEF z
<1>5. z \in Nat /\ a + 1 <= z /\ z <= N /\ z <= a + PageRows
  BY <1>1, <1>4
<1>6. \A i \in (a + 1)..z : l[i] \in S
  BY <1>1, <1>5
<1>7. /\ page \in Seq(S) /\ Len(page) = z - (a + 1) + 1
      /\ \A i \in 1..z - (a + 1) + 1 : page[i] = l[(a + 1) + i - 1]
  BY <1>1, <1>3, <1>5, <1>6, SubSeqProperties
<1>8. DOMAIN page = 1..z - a
  BY <1>1, <1>5, <1>7
<1>9. DOMAIN page \subseteq 1..PageRows
  <2>1. z - a \in Int /\ z - a <= PageRows
    BY <1>1, <1>5
  <2>2. PICK k \in Int : k = z - a /\ k <= PageRows
    BY <2>1
  <2>3. 1..k \subseteq 1..PageRows
    BY <1>1, <2>2
  <2> QED
    BY <1>8, <2>2, <2>3
<1>10. \A i \in 1..PageRows : i \in DOMAIN page <=> a + i <= N
  <2>1. SUFFICES ASSUME NEW i \in 1..PageRows PROVE i \in DOMAIN page <=> a + i <= N
    OBVIOUS
  <2>2. i \in 1..z - a <=> i <= z - a
    BY <1>1, <1>5
  <2>3. i <= z - a <=> a + i <= N
    BY <1>1, <1>4
  <2> QED
    BY <1>8, <2>2, <2>3
<1>11. ASSUME NEW i \in DOMAIN page PROVE a + i \in 1..N /\ page[i] = l[a + i]
  <2>1. i \in 1..z - a
    BY <1>8, <1>11
  <2>2. i \in 1..z - (a + 1) + 1 /\ a + i \in 1..N /\ (a + 1) + i - 1 = a + i
    BY <1>1, <1>5, <2>1
  <2> QED
    BY <1>7, <2>2
<1>. QED  BY <1>7, <1>9, <1>10, <1>11 DEF a, page

\* Pages of one order cover what is ordered.
LEMMA PagesCover ==
    ASSUME figure \in [Tickers -> Figures \cup {Dash}], NEW order \in {"asc", "desc"},
           NEW S \in SUBSET Tickers, NEW l \in Sorted(S, order), NEW f,
           \A p \in 1..PageCount(Cardinality(S)) : f[p] = PageOf(l, p)
    PROVE  Covers(f, 1..PageCount(Cardinality(S)), S)
<1>. DEFINE N == Cardinality(S)
            turned == 1..PageCount(N)
            cells == UNION {{<<p, i>> : i \in DOMAIN f[p]} : p \in turned}
            symbol(c) == f[c[1]][c[2]]
            place(c) == (c[1] - 1) * PageRows + c[2]
            before(c, d) == c[1] < d[1] \/ (c[1] = d[1] /\ c[2] < d[2])
<1>1. /\ N \in Nat /\ l \in [1..N -> S]
      /\ \A i, j \in 1..N : l[i] = l[j] => i = j
      /\ \A s \in S : \E i \in 1..N : l[i] = s
      /\ \A i, j \in 1..N : i < j => buildOrderBy(order, l[i], l[j])
  BY SortedMeetsAll
<1>. HIDE DEF N
<1>2. ASSUME NEW p \in turned
      PROVE  /\ DOMAIN f[p] \subseteq 1..PageRows /\ p \in Nat \ {0}
             /\ \A i \in 1..PageRows : i \in DOMAIN f[p] <=> (p - 1) * PageRows + i <= N
             /\ \A i \in DOMAIN f[p] :
                   (p - 1) * PageRows + i \in 1..N /\ f[p][i] = l[(p - 1) * PageRows + i]
  <2>1. f[p] = PageOf(l, p)
    BY DEF N
  <2>2. p \in Nat \ {0}
    OBVIOUS
  <2>. DEFINE page == PageOf(l, p)
  <2>3. /\ DOMAIN page \subseteq 1..PageRows
        /\ \A i \in 1..PageRows : i \in DOMAIN page <=> (p - 1) * PageRows + i <= N
        /\ \A i \in DOMAIN page :
              (p - 1) * PageRows + i \in 1..N /\ page[i] = l[(p - 1) * PageRows + i]
    BY <1>1, RowsOfAPage
  <2>4. f[p] = page
    BY <2>1
  <2>. HIDE DEF page
  <2>. QED  BY <2>2, <2>3, <2>4
<1>3. ASSUME NEW c \in cells
      PROVE  /\ c = <<c[1], c[2]>> /\ c[1] \in turned /\ c[1] \in Nat \ {0} /\ c[2] \in 1..PageRows
             /\ place(c) \in 1..N /\ symbol(c) = l[place(c)]
  <2>1. PICK p \in turned : \E i \in DOMAIN f[p] : c = <<p, i>>
    OBVIOUS
  <2>2. PICK i \in DOMAIN f[p] : c = <<p, i>>
    BY <2>1
  <2>3. c[1] = p /\ c[2] = i
    BY <2>2
  <2>. QED  BY <1>2, <2>2, <2>3
<1>4. ASSUME NEW p \in turned, NEW i \in DOMAIN f[p] PROVE <<p, i>> \in cells
  OBVIOUS
<1>. HIDE DEF cells, turned
<1>5. ASSUME NEW c \in cells, NEW d \in cells, before(c, d) PROVE place(c) < place(d)
  <2>0. PageRows \in Nat
    BY ListingAssumption
  <2>1. CASE c[1] < d[1]
    BY <1>3, <2>1, CellsAreInOrder
  <2>2. CASE c[1] = d[1] /\ c[2] < d[2]
    <3>. DEFINE a == (c[1] - 1) * PageRows
    <3>1. a \in Int /\ c[2] \in Int /\ d[2] \in Int
      BY <1>3, <2>0
    <3>2. place(c) = a + c[2] /\ place(d) = a + d[2]
      BY <2>2
    <3>. HIDE DEF a
    <3>. QED  BY <2>2, <3>1, <3>2
  <2>. QED  BY <1>5, <2>1, <2>2
<1>6. ASSUME NEW c \in cells, NEW d \in cells, symbol(c) = symbol(d) PROVE c = d
  <2>1. place(c) = place(d) /\ place(c) \in Int /\ place(d) \in Int
    BY <1>1, <1>3, <1>6
  <2>2. ~before(c, d) /\ ~before(d, c)
    <3>1. ~(place(c) < place(d)) /\ ~(place(d) < place(c))
      BY <2>1
    <3>. QED  BY <1>5, <3>1
  <2>3. c[1] \in Int /\ d[1] \in Int /\ c[2] \in Int /\ d[2] \in Int
    BY <1>3, ListingAssumption
  <2>4. c[1] = d[1] /\ c[2] = d[2]
    BY <2>2, <2>3
  <2>. QED  BY <1>3, <2>4
<1>7. ASSUME NEW s \in S PROVE \E c \in cells : symbol(c) = s
  <2>1. PICK k \in 1..N : l[k] = s
    BY <1>1
  <2>2. PICK p \in 1..PageCount(N), i \in 1..PageRows : k = (p - 1) * PageRows + i
    BY <1>1, PlaceHasACell
  <2>3. p \in turned /\ k <= N
    BY <1>1 DEF turned
  <2>4. i \in DOMAIN f[p] /\ f[p][i] = s
    BY <1>2, <2>1, <2>2, <2>3
  <2>5. <<p, i>> \in cells /\ symbol(<<p, i>>) = s
    BY <1>4, <2>3, <2>4
  <2>. QED  BY <2>5
<1>8. \A c \in cells : symbol(c) \in S
  BY <1>1, <1>3
<1>9. {symbol(c) : c \in cells} = S
  BY <1>7, <1>8
<1>10. ASSUME NEW c \in cells, NEW d \in cells, before(c, d), figure[symbol(c)] = Dash
       PROVE  figure[symbol(d)] = Dash
  <2>1. buildOrderBy(order, symbol(c), symbol(d))
    BY <1>1, <1>3, <1>5, <1>10
  <2>. QED  BY <1>10, <2>1 DEF buildOrderBy, ByFigure
<1>. QED  BY <1>6, <1>9, <1>10 DEF Covers, cells, turned, N

---------------------------------------------------------------------------
\* Any page of an order is a list of its symbols.
LEMMA PageIsAList ==
    ASSUME NEW S, NEW N \in Nat, NEW l \in [1..N -> S], NEW p \in Nat \ {0}
    PROVE  PageOf(l, p) \in Seq(S)
<1>. DEFINE a == (p - 1) * PageRows
            b == p * PageRows
            z == IF b < Len(l) THEN b ELSE Len(l)
<1>1. PageRows \in Nat /\ p - 1 \in Nat
  BY ListingAssumption
<1>2. a \in Nat /\ b \in Nat
  BY <1>1
<1>3. Len(l) = N
  OBVIOUS
<1>4. PageOf(l, p) = SubSeq(l, a + 1, z)
  BY DEF PageOf
<1>. HIDE DEF a, b
<1>5. z \in Nat /\ z <= N
  BY <1>2, <1>3
<1>. HIDE DEF z
<1>6. \A i \in (a + 1)..z : l[i] \in S
  BY <1>2, <1>5
<1>7. a + 1 \in Int /\ z \in Int
  BY <1>2, <1>5
<1>. QED  BY <1>4, <1>6, <1>7, SubSeqProperties

\* Where nothing is written, an answer stays of its question.
LEMMA AnswersStay ==
    ASSUME UNCHANGED <<figure, members, changed>>, NEW q, NEW a, IsPageOf(q, a)
    PROVE  IsPageOf(q, a)'
  BY DEF IsPageOf, Sorted, buildOrderBy, ByFigure, PageOf

\* What is said of a set of answers.
Good(f) ==
    /\ DOMAIN f \subseteq Questions /\ f \in [DOMAIN f -> Answered]
    /\ \A q \in DOMAIN f : IsPageOf(q, f[q])

LEMMA GoodWith ==
    ASSUME NEW f, Good(f), NEW q \in Questions, NEW a \in Answered, IsPageOf(q, a)
    PROVE  Good(With(f, q, a))
<1>. DEFINE g == With(f, q, a)
<1>1. /\ DOMAIN g = DOMAIN f \cup {q}
      /\ g = [x \in DOMAIN g |-> IF x = q THEN a ELSE f[x]]
  BY DEF With
<1>. HIDE DEF g
<1>2. DOMAIN g \subseteq Questions
  BY <1>1 DEF Good
<1>3. ASSUME NEW x \in DOMAIN g PROVE g[x] \in Answered /\ IsPageOf(x, g[x])
  <2>1. CASE x = q
    <3>1. g[x] = a
      BY <1>1, <2>1
    <3>. QED  BY <2>1, <3>1
  <2>2. CASE x # q
    <3>1. g[x] = f[x] /\ x \in DOMAIN f
      BY <1>1, <2>2
    <3>. QED  BY <3>1 DEF Good
  <2>. QED  BY <2>1, <2>2
<1>4. g \in [DOMAIN g -> Answered]
  <2>1. \A x \in DOMAIN g : (IF x = q THEN a ELSE f[x]) \in Answered
    BY <1>1, <1>3
  <2>. QED  BY <1>1, <2>1
<1>5. Good(g)
  BY <1>2, <1>3, <1>4 DEF Good
<1>. QED  BY <1>5 DEF g

LEMMA GoodWithout ==
    ASSUME NEW f, Good(f), NEW q PROVE Good(Without(f, q))
<1>. DEFINE g == Without(f, q)
<1>1. DOMAIN g = DOMAIN f \ {q} /\ g = [x \in DOMAIN f \ {q} |-> f[x]]
  BY DEF Without
<1>. HIDE DEF g
<1>2. \A x \in DOMAIN g : g[x] = f[x] /\ x \in DOMAIN f
  BY <1>1
<1>3. \A x \in DOMAIN f : f[x] \in Answered /\ IsPageOf(x, f[x]) /\ x \in Questions
  BY DEF Good
<1>4. g \in [DOMAIN g -> Answered]
  BY <1>1, <1>3
<1>5. Good(g)
  BY <1>2, <1>3, <1>4 DEF Good
<1>. QED  BY <1>5 DEF g

LEMMA GoodStays ==
    ASSUME UNCHANGED <<figure, members, changed>>, NEW f, Good(f) PROVE Good(f)'
<1>1. ASSUME NEW q \in DOMAIN f PROVE IsPageOf(q, f[q])'
  BY AnswersStay DEF Good
<1>. QED  BY <1>1 DEF Good

\* A request that was just sent says nothing yet.
LEMMA NothingIsGood ==
    ASSUME changed \in Nat, NEW q PROVE NoAnswer \in Answered /\ IsPageOf(q, NoAnswer)
<1>1. NoAnswer \in Answered
  BY DEF NoAnswer, Answered
<1>2. NoAnswer.rowsAt = -1 /\ NoAnswer.totalAt = -1
  BY DEF NoAnswer
<1>. QED  BY <1>1, <1>2 DEF IsPageOf

\* The invariant, by what it says of the answers.
LEMMA PagesInvIs ==
    PagesInv <=>
        /\ figure \in [Tickers -> Figures \cup {Dash}] /\ members \in [Lists -> SUBSET Tickers]
        /\ question \in Questions /\ requests \in 0..MaxAsked /\ changed \in 0..MaxChanged
        /\ Good(answers) /\ Good(asking)
  BY DEF PagesInv, Good

\* The board starts in the invariant.
LEMMA PagesStart == InitListing => PagesInv
<1>. SUFFICES ASSUME InitListing PROVE PagesInv
  OBVIOUS
<1>1. changed = 0 /\ requests = 1 /\ figure \in [Tickers -> Figures \cup {Dash}]
  BY DEF InitListing
<1>2. members \in [Lists -> SUBSET Tickers]
  BY DEF InitListing
<1>3. question \in Questions
  BY DEF InitListing, Questions, Lists
<1>4. NoAnswer \in Answered /\ \A q \in Questions : IsPageOf(q, NoAnswer)
  BY <1>1, NothingIsGood
<1>5. Good(answers)
  BY DEF InitListing, Good
<1>6. Good(asking)
  <2>1. asking = [q \in {question} |-> NoAnswer]
    BY DEF InitListing
  <2>. QED  BY <1>3, <1>4, <2>1 DEF Good
<1>7. requests \in 0..MaxAsked /\ changed \in 0..MaxChanged
  BY <1>1, ListingAssumption
<1>. QED  BY <1>1, <1>2, <1>3, <1>5, <1>6, <1>7, PagesInvIs

\* The invariant where nothing is written.
LEMMA PagesGoOn ==
    ASSUME PagesInv, UNCHANGED <<figure, members, changed>>, question' \in Questions,
           requests' \in 0..MaxAsked, NEW f, answers' = f, Good(f), NEW g, asking' = g, Good(g)
    PROVE  PagesInv'
<1>1. Good(f)' /\ Good(g)'
  BY GoodStays
<1>2. Good(answers)' /\ Good(asking)'
  BY <1>1 DEF Good
<1>3. /\ figure' \in [Tickers -> Figures \cup {Dash}] /\ members' \in [Lists -> SUBSET Tickers]
      /\ changed' \in 0..MaxChanged
  BY DEF PagesInv
<1>. QED  BY <1>2, <1>3 DEF PagesInv, Good

\* The board asks for where it gets to.
LEMMA UseKeeps == ASSUME PagesInv, NEW q \in Questions, useStocks(q) PROVE PagesInv'
<1>1. Good(answers) /\ Good(asking) /\ changed \in Nat /\ requests \in 0..MaxAsked
  BY PagesInvIs, ListingAssumption
<1>2. /\ question' = q /\ UNCHANGED <<figure, members, changed>> /\ answers' = answers
      /\ \/ asking' = asking /\ requests' = requests
         \/ /\ requests < MaxAsked
            /\ asking' = IF q \in DOMAIN asking THEN asking ELSE With(asking, q, NoAnswer)
            /\ requests' = IF q \in DOMAIN asking THEN requests ELSE requests + 1
  BY DEF useStocks
<1>3. PICK f : f = answers
  OBVIOUS
<1>4. PICK g : g = IF asking' = asking THEN asking ELSE With(asking, q, NoAnswer)
  OBVIOUS
<1>5. asking' = g
  BY <1>2, <1>4
<1>6. Good(With(asking, q, NoAnswer))
  BY <1>1, NothingIsGood, GoodWith
<1>7. Good(f) /\ Good(g)
  BY <1>1, <1>3, <1>4, <1>6
<1>8. requests' \in 0..MaxAsked
  BY <1>1, <1>2, ListingAssumption
<1>. QED  BY <1>2, <1>3, <1>5, <1>7, <1>8, PagesGoOn

\* An answer with what was found is one.
LEMMA AnsweredWith ==
    ASSUME NEW a \in Answered, NEW n \in Int
    PROVE  /\ \A entries \in Seq(Tickers) : [[a EXCEPT !.rowsAt = n] EXCEPT !.rows = entries] \in Answered
           /\ \A total \in Nat : [[a EXCEPT !.totalAt = n] EXCEPT !.total = total] \in Answered
<1>1. [a EXCEPT !.rowsAt = n] \in Answered
  BY DEF Answered
<1>2. [a EXCEPT !.totalAt = n] \in Answered
  BY DEF Answered
<1>3. ASSUME NEW b \in Answered, NEW entries \in Seq(Tickers) PROVE [b EXCEPT !.rows = entries] \in Answered
  BY DEF Answered
<1>4. ASSUME NEW b \in Answered, NEW total \in Nat PROVE [b EXCEPT !.total = total] \in Answered
  BY DEF Answered
<1>5. PICK b, c : b = [a EXCEPT !.rowsAt = n] /\ c = [a EXCEPT !.totalAt = n]
  OBVIOUS
<1>6. b \in Answered /\ c \in Answered
  BY <1>1, <1>2, <1>5
<1>7. /\ \A entries \in Seq(Tickers) : [b EXCEPT !.rows = entries] \in Answered
      /\ \A total \in Nat : [c EXCEPT !.total = total] \in Answered
  BY <1>3, <1>4, <1>6
<1>. QED  BY <1>5, <1>7

\* What is found for a question: its rows, and its count.
LEMMA RowsAreGood ==
    ASSUME PagesInv, NEW q \in DOMAIN asking, NEW sorted \in Sorted(buildWhereClause(q.list), q.order)
    PROVE  Good([asking EXCEPT ![q].rowsAt = changed, ![q].rows = PageOf(sorted, q.page)])
<1>. DEFINE entries == PageOf(sorted, q.page)
            g == [asking EXCEPT ![q].rowsAt = changed, ![q].rows = entries]
<1>1. /\ q \in Questions /\ asking[q] \in Answered /\ IsPageOf(q, asking[q]) /\ changed \in Nat
      /\ DOMAIN asking \subseteq Questions /\ asking \in [DOMAIN asking -> Answered]
      /\ figure \in [Tickers -> Figures \cup {Dash}]
  BY ListingAssumption DEF PagesInv
<1>2. members[q.list] \in SUBSET Tickers /\ q.order \in {"asc", "desc"} /\ q.page \in Nat \ {0}
  BY <1>1 DEF PagesInv, Questions
<1>3. sorted \in Sorted(members[q.list], q.order)
  BY DEF buildWhereClause
<1>4. entries \in Seq(Tickers)
  <2>1. /\ Cardinality(members[q.list]) \in Nat
        /\ sorted \in [1..Cardinality(members[q.list]) -> members[q.list]]
    BY <1>1, <1>2, <1>3, SortedMeetsAll
  <2>2. sorted \in [1..Cardinality(members[q.list]) -> Tickers]
    BY <1>2, <2>1
  <2>. QED  BY <1>2, <2>1, <2>2, PageIsAList
<1>5. entries = PageOf(sorted, q.page)
  OBVIOUS
<1>. HIDE DEF entries
<1>6. DOMAIN g = DOMAIN asking /\ \A x \in DOMAIN asking \ {q} : g[x] = asking[x]
  OBVIOUS
<1>7. g[q] \in Answered
  <2>2. [[asking[q] EXCEPT !.rowsAt = changed] EXCEPT !.rows = entries] \in Answered
    <3>1. changed \in Int
      BY <1>1
    <3>. QED  BY <1>1, <1>4, <3>1, AnsweredWith
  <2>3. g[q] = [[asking[q] EXCEPT !.rowsAt = changed] EXCEPT !.rows = entries]
    OBVIOUS
  <2>. QED  BY <2>2, <2>3
<1>8. g[q].rowsAt = changed
  BY <1>1 DEF Answered
<1>9. g[q].rows = entries
  BY <1>1 DEF Answered
<1>10. g[q].total = asking[q].total
  BY <1>1 DEF Answered
<1>11. g[q].totalAt = asking[q].totalAt
  BY <1>1 DEF Answered
<1>12. g = [x \in DOMAIN g |-> g[x]]
  OBVIOUS
<1>13. g = [asking EXCEPT ![q].rowsAt = changed, ![q].rows = PageOf(sorted, q.page)]
  BY <1>5
<1>. HIDE DEF g
<1>14. IsPageOf(q, g[q])
  BY <1>1, <1>3, <1>5, <1>8, <1>9, <1>10, <1>11 DEF IsPageOf
<1>15. ASSUME NEW x \in DOMAIN asking PROVE g[x] \in Answered /\ IsPageOf(x, g[x])
  <2>1. CASE x = q
    BY <1>7, <1>14, <2>1
  <2>2. CASE x # q
    BY <1>6, <2>2 DEF PagesInv
  <2>. QED  BY <2>1, <2>2
<1>16. Good(g)
  BY <1>1, <1>6, <1>12, <1>15 DEF Good
<1>. QED  BY <1>13, <1>16

LEMMA TotalIsGood ==
    ASSUME PagesInv, NEW q \in DOMAIN asking
    PROVE  Good([asking EXCEPT ![q].totalAt = changed,
                               ![q].total = Cardinality(buildWhereClause(q.list))])
<1>. DEFINE all == Cardinality(members[q.list])
            g == [asking EXCEPT ![q].totalAt = changed, ![q].total = all]
<1>1. /\ q \in Questions /\ asking[q] \in Answered /\ IsPageOf(q, asking[q]) /\ changed \in Nat
      /\ DOMAIN asking \subseteq Questions /\ asking \in [DOMAIN asking -> Answered]
  BY ListingAssumption DEF PagesInv
<1>2. members[q.list] \in SUBSET Tickers
  BY <1>1 DEF PagesInv, Questions
<1>3. all \in Nat
  BY <1>2, ListingAssumption, FS_Subset, FS_CardinalityType
<1>4. all = Cardinality(members[q.list]) /\ buildWhereClause(q.list) = members[q.list]
  BY DEF buildWhereClause
<1>. HIDE DEF all
<1>6. DOMAIN g = DOMAIN asking /\ \A x \in DOMAIN asking \ {q} : g[x] = asking[x]
  OBVIOUS
<1>7. g[q] \in Answered
  <2>2. [[asking[q] EXCEPT !.totalAt = changed] EXCEPT !.total = all] \in Answered
    <3>1. changed \in Int
      BY <1>1
    <3>. QED  BY <1>1, <1>3, <3>1, AnsweredWith
  <2>3. g[q] = [[asking[q] EXCEPT !.totalAt = changed] EXCEPT !.total = all]
    OBVIOUS
  <2>. QED  BY <2>2, <2>3
<1>8. g[q].totalAt = changed
  BY <1>1 DEF Answered
<1>9. g[q].total = all
  BY <1>1 DEF Answered
<1>10. g[q].rows = asking[q].rows
  BY <1>1 DEF Answered
<1>11. g[q].rowsAt = asking[q].rowsAt
  BY <1>1 DEF Answered
<1>12. g = [x \in DOMAIN g |-> g[x]]
  OBVIOUS
<1>13. g = [asking EXCEPT ![q].totalAt = changed,
                          ![q].total = Cardinality(buildWhereClause(q.list))]
  BY <1>4
<1>. HIDE DEF g
<1>14. IsPageOf(q, g[q])
  BY <1>1, <1>4, <1>8, <1>9, <1>10, <1>11 DEF IsPageOf
<1>15. ASSUME NEW x \in DOMAIN asking PROVE g[x] \in Answered /\ IsPageOf(x, g[x])
  <2>1. CASE x = q
    BY <1>7, <1>14, <2>1
  <2>2. CASE x # q
    BY <1>6, <2>2 DEF PagesInv
  <2>. QED  BY <2>1, <2>2
<1>16. Good(g)
  BY <1>1, <1>6, <1>12, <1>15 DEF Good
<1>. QED  BY <1>13, <1>16

\* After a write, nothing that was read is said to be current.
LEMMA WriteKeeps == ASSUME PagesInv, WriteFigure PROVE PagesInv'
<1>1. /\ changed < MaxChanged /\ changed' = changed + 1 /\ changed \in 0..MaxChanged
      /\ UNCHANGED <<question, answers, asking, requests>>
  BY DEF WriteFigure, PagesInv
<1>2. changed' \in 0..MaxChanged
  BY <1>1, ListingAssumption
<1>3. figure' \in [Tickers -> Figures \cup {Dash}]
  BY DEF WriteFigure, PagesInv
<1>4. members' \in [Lists -> SUBSET Tickers]
  BY DEF WriteFigure, PagesInv
<1>5. ASSUME NEW q, NEW a \in Answered, a.rowsAt <= changed, a.totalAt <= changed
      PROVE  IsPageOf(q, a)'
  <2>1. a.rowsAt \in Int /\ a.totalAt \in Int
    BY DEF Answered
  <2>2. a.rowsAt < changed + 1 /\ a.totalAt < changed + 1
    BY <1>1, <1>5, <2>1
  <2>3. /\ a.rowsAt <= changed' /\ a.totalAt <= changed'
        /\ a.rowsAt # changed' /\ a.totalAt # changed'
    BY <1>1, <2>1, <2>2
  <2>. QED  BY <2>3 DEF IsPageOf
<1>6. \A q \in DOMAIN answers' : IsPageOf(q, answers[q])'
  <2>1. SUFFICES ASSUME NEW q \in DOMAIN answers PROVE IsPageOf(q, answers[q])'
    BY <1>1
  <2>2. PICK a : a = answers[q]
    OBVIOUS
  <2>3. a \in Answered /\ a.rowsAt <= changed /\ a.totalAt <= changed
    BY <2>2 DEF PagesInv, IsPageOf
  <2>4. IsPageOf(q, a)'
    BY <1>5, <2>3
  <2>. QED  BY <1>1, <2>2, <2>4 DEF IsPageOf
<1>7. \A q \in DOMAIN asking' : IsPageOf(q, asking[q])'
  <2>1. SUFFICES ASSUME NEW q \in DOMAIN asking PROVE IsPageOf(q, asking[q])'
    BY <1>1
  <2>2. PICK a : a = asking[q]
    OBVIOUS
  <2>3. a \in Answered /\ a.rowsAt <= changed /\ a.totalAt <= changed
    BY <2>2 DEF PagesInv, IsPageOf
  <2>4. IsPageOf(q, a)'
    BY <1>5, <2>3
  <2>. QED  BY <1>1, <2>2, <2>4 DEF IsPageOf
<1>. QED  BY <1>1, <1>2, <1>3, <1>4, <1>6, <1>7 DEF PagesInv

\* Another list or order of a question, from its first page, is a question.
LEMMA FirstPageOf ==
    ASSUME NEW q \in Questions
    PROVE  /\ \A list \in Lists : [q EXCEPT !.list = list, !.page = 1] \in Questions
           /\ \A order \in {"asc", "desc"} : [q EXCEPT !.order = order, !.page = 1] \in Questions
<1>1. \A list \in Lists : [q EXCEPT !.list = list] \in Questions
  BY DEF Questions
<1>2. \A order \in {"asc", "desc"} : [q EXCEPT !.order = order] \in Questions
  BY DEF Questions
<1>3. \A r \in Questions : [r EXCEPT !.page = 1] \in Questions
  BY DEF Questions
<1>4. \A list \in Lists : [[q EXCEPT !.list = list] EXCEPT !.page = 1] \in Questions
  BY <1>1, <1>3
<1>5. \A order \in {"asc", "desc"} : [[q EXCEPT !.order = order] EXCEPT !.page = 1] \in Questions
  BY <1>2, <1>3
<1>. QED  BY <1>4, <1>5

\* Every step of the list keeps the invariant.
LEMMA PagesStep == PagesInv /\ [NextListing]_listingVars => PagesInv'
<1>. SUFFICES ASSUME PagesInv, [NextListing]_listingVars PROVE PagesInv'
  OBVIOUS
<1>0. /\ Good(answers) /\ Good(asking) /\ question \in Questions /\ changed \in Nat
      /\ requests \in 0..MaxAsked
  BY PagesInvIs, ListingAssumption
<1>1. CASE Poll
  BY <1>0, <1>1, UseKeeps DEF Poll
<1>2. CASE chooseUniverse
  <2>1. PICK list \in Lists : useStocks([question EXCEPT !.list = list, !.page = 1])
    BY <1>2 DEF chooseUniverse
  <2>2. [question EXCEPT !.list = list, !.page = 1] \in Questions
    BY <1>0, FirstPageOf
  <2>. QED  BY <2>1, <2>2, UseKeeps
<1>3. CASE handleSortChange
  <2>1. PICK order \in {"asc", "desc"} : useStocks([question EXCEPT !.order = order, !.page = 1])
    BY <1>3 DEF handleSortChange
  <2>2. [question EXCEPT !.order = order, !.page = 1] \in Questions
    BY <1>0, FirstPageOf
  <2>. QED  BY <2>1, <2>2, UseKeeps
<1>4. CASE TurnPage
  <2>1. CASE useStocks([question EXCEPT !.page = @ + 1])
    <3>1. [question EXCEPT !.page = @ + 1] \in Questions
      BY <1>0 DEF Questions
    <3>. QED  BY <2>1, <3>1, UseKeeps
  <2>2. CASE question.page > 1 /\ useStocks([question EXCEPT !.page = @ - 1])
    <3>1. question.page - 1 \in Nat \ {0}
      BY <1>0, <2>2 DEF Questions
    <3>2. [question EXCEPT !.page = @ - 1] \in Questions
      BY <1>0, <3>1 DEF Questions
    <3>. QED  BY <2>2, <3>2, UseKeeps
  <2>. QED  BY <1>4, <2>1, <2>2 DEF TurnPage
<1>5. CASE WriteFigure
  BY <1>5, WriteKeeps
<1>6. ASSUME NEW q \in DOMAIN asking, QueryRows(q) PROVE PagesInv'
  <2>1. PICK sorted \in Sorted(buildWhereClause(q.list), q.order) :
            asking' = [asking EXCEPT ![q].rowsAt = changed, ![q].rows = PageOf(sorted, q.page)]
    BY <1>6 DEF QueryRows
  <2>2. PICK f, g : /\ f = answers
                    /\ g = [asking EXCEPT ![q].rowsAt = changed, ![q].rows = PageOf(sorted, q.page)]
    OBVIOUS
  <2>3. Good(f) /\ Good(g)
    BY <1>0, <2>2, RowsAreGood
  <2>4. /\ answers' = f /\ asking' = g /\ UNCHANGED <<figure, members, changed>>
        /\ question' \in Questions /\ requests' \in 0..MaxAsked
    BY <1>0, <1>6, <2>1, <2>2 DEF QueryRows
  <2>. QED  BY <2>3, <2>4, PagesGoOn
<1>7. ASSUME NEW q \in DOMAIN asking, QueryTotal(q) PROVE PagesInv'
  <2>1. asking' = [asking EXCEPT ![q].totalAt = changed,
                                 ![q].total = Cardinality(buildWhereClause(q.list))]
    BY <1>7 DEF QueryTotal
  <2>2. PICK f, g : /\ f = answers
                    /\ g = [asking EXCEPT ![q].totalAt = changed,
                                          ![q].total = Cardinality(buildWhereClause(q.list))]
    OBVIOUS
  <2>3. Good(f) /\ Good(g)
    BY <1>0, <2>2, TotalIsGood
  <2>4. /\ answers' = f /\ asking' = g /\ UNCHANGED <<figure, members, changed>>
        /\ question' \in Questions /\ requests' \in 0..MaxAsked
    BY <1>0, <1>7, <2>1, <2>2 DEF QueryTotal
  <2>. QED  BY <2>3, <2>4, PagesGoOn
<1>8. ASSUME NEW q \in DOMAIN asking, Answer(q) PROVE PagesInv'
  <2>1. PICK f, g : f = With(answers, q, asking[q]) /\ g = Without(asking, q)
    OBVIOUS
  <2>2. q \in Questions /\ asking[q] \in Answered /\ IsPageOf(q, asking[q])
    BY <1>0 DEF Good
  <2>3. Good(f) /\ Good(g)
    BY <1>0, <2>1, <2>2, GoodWith, GoodWithout
  <2>4. /\ answers' = f /\ asking' = g /\ UNCHANGED <<figure, members, changed>>
        /\ question' \in Questions /\ requests' \in 0..MaxAsked
    BY <1>0, <1>8, <2>1 DEF Answer
  <2>. QED  BY <2>3, <2>4, PagesGoOn
<1>9. ASSUME NEW q \in DOMAIN asking, FailAnswer(q) PROVE PagesInv'
  <2>1. PICK f, g : f = answers /\ g = Without(asking, q)
    OBVIOUS
  <2>2. Good(f) /\ Good(g)
    BY <1>0, <2>1, GoodWithout
  <2>3. /\ answers' = f /\ asking' = g /\ UNCHANGED <<figure, members, changed>>
        /\ question' \in Questions /\ requests' \in 0..MaxAsked
    BY <1>0, <1>9, <2>1 DEF FailAnswer
  <2>. QED  BY <2>2, <2>3, PagesGoOn
<1>10. CASE UNCHANGED listingVars
  <2>1. PICK f, g : f = answers /\ g = asking
    OBVIOUS
  <2>2. /\ answers' = f /\ asking' = g /\ UNCHANGED <<figure, members, changed>>
        /\ question' \in Questions /\ requests' \in 0..MaxAsked
    BY <1>0, <1>10, <2>1 DEF listingVars
  <2>. QED  BY <1>0, <2>1, <2>2, PagesGoOn
<1>. QED  BY <1>1, <1>2, <1>3, <1>4, <1>5, <1>6, <1>7, <1>8, <1>9, <1>10 DEF NextListing

\* What the invariant says of the pages of a list.
LEMMA PagesMeet == PagesInv => PagesCoverTheList
<1>. SUFFICES ASSUME PagesInv, NEW list \in Lists, NEW order \in {"asc", "desc"},
                     1..PageCount(Cardinality(buildWhereClause(list)))
                         \subseteq DOMAIN RowsOf(Current(list, order))
              PROVE  /\ Covers(RowsOf(Current(list, order)),
                               1..PageCount(Cardinality(buildWhereClause(list))),
                               buildWhereClause(list))
                     /\ \A q \in Current(list, order) :
                           answers[q].total = Cardinality(buildWhereClause(list))
  BY DEF PagesCoverTheList
<1>. DEFINE S == members[list]
            N == Cardinality(S)
            current == Current(list, order)
            f == RowsOf(current)
            turned == 1..PageCount(N)
<1>0. buildWhereClause(list) = S
  BY DEF buildWhereClause
<1>1. S \in SUBSET Tickers /\ figure \in [Tickers -> Figures \cup {Dash}]
  BY DEF PagesInv
<1>2. IsFiniteSet(S) /\ N \in Nat
  BY <1>1, ListingAssumption, FS_Subset, FS_CardinalityType
<1>3. ASSUME NEW q \in current
      PROVE  /\ q.list = list /\ q.order = order /\ answers[q].total = N
             /\ \E sorted \in Sorted(S, order) : answers[q].rows = PageOf(sorted, q.page)
  BY DEF PagesInv, IsPageOf, Current
<1>4. turned \subseteq DOMAIN f
  BY <1>0
<1>5. ASSUME NEW p \in turned
      PROVE  \E sorted \in Sorted(S, order) : f[p] = PageOf(sorted, p)
  <2>1. p \in {q.page : q \in current}
    BY <1>4 DEF RowsOf
  <2>2. PICK r : r = CHOOSE q \in current : q.page = p
    OBVIOUS
  <2>3. r \in current /\ r.page = p
    BY <2>1, <2>2
  <2>4. f[p] = answers[r].rows
    BY <2>1, <2>2 DEF RowsOf
  <2>. QED  BY <1>3, <2>3, <2>4
<1>6. Covers(f, turned, S)
  <2>1. CASE turned = {}
    <3>1. N = 0
      <4>1. SUFFICES ASSUME N # 0 PROVE FALSE
        OBVIOUS
      <4>2. 1 \in 1..N
        BY <1>2, <4>1
      <4>. QED  BY <1>2, <2>1, <4>2, PlaceHasACell
    <3>2. S = {}
      BY <1>2, <3>1, FS_EmptySet
    <3>. QED  BY <2>1, <3>2 DEF Covers
  <2>2. CASE turned # {}
    <3>1. PICK l \in Sorted(S, order) : TRUE
      BY <1>5, <2>2
    <3>2. ASSUME NEW p \in turned PROVE f[p] = PageOf(l, p)
      BY <1>1, <1>5, <3>1, SortedIsOne
    <3>. HIDE DEF f
    <3>. QED  BY <1>1, <3>1, <3>2, PagesCover
  <2>. QED  BY <2>1, <2>2
<1>. QED  BY <1>0, <1>3, <1>6

LEMMA PagesHold == ListingSpec => []PagesInv
<1>. QED  BY PagesStart, PagesStep, PTL DEF ListingSpec

\* What the board is at, what it was answered and what it waits for are well formed, and
\* what it keeps is kept under questions it can ask (useStocks).
THEOREM ListingTypes == ListingSpec => []ListingTypeOK
<1>1. PagesInv => ListingTypeOK
  BY DEF PagesInv, ListingTypeOK
<1>. QED  BY <1>1, PagesHold, PTL

\* Turning all the pages of a list while nothing is written meets every symbol of it
\* once, and as many as the count says, whichever answers came late (getStocks).
THEOREM PagesMeetEveryone == ListingSpec => []PagesCoverTheList
  BY PagesMeet, PagesHold, PTL

---------------------------------------------------------------------------
(***************************************************************************)
(* The screener.                                                           *)
(***************************************************************************)
\* A set of filters: fields of the form, and the switch.
IsFilters(f) ==
    /\ f = [x \in DOMAIN f |-> f[x]] /\ DOMAIN f \subseteq Fields \cup {"shariah"}
    /\ \A x \in DOMAIN f \cap Fields : f[x] \in ValuesOf[x]

IsAddress(u) ==
    /\ u = [filters |-> u.filters, preset |-> u.preset, sort |-> u.sort, page |-> u.page]
    /\ IsFilters(u.filters) /\ u.preset \in NamedScreens \cup {NoScreen}
    /\ u.sort \in {"pe", NoScreen} /\ u.page \in Nat \ {0}

\* The inductive invariant of the screen: a form nobody types in shows the address.
ScreensInv ==
    /\ IsAddress(url) /\ IsFilters(draft) /\ DOMAIN draft \subseteq Fields
    /\ edited \in BOOLEAN
    /\ ~edited => draft = parseScreen(url)

---------------------------------------------------------------------------
\* What the form shows of an address is a filter set without the switch.
LEMMA ParsedIsOfTheForm ==
    ASSUME NEW u, IsAddress(u)
    PROVE  IsFilters(parseScreen(u)) /\ DOMAIN parseScreen(u) \subseteq Fields
<1>. DEFINE d == parseScreen(u)
<1>1. DOMAIN d = Fields \cap DOMAIN u.filters /\ d = [x \in DOMAIN d |-> u.filters[x]]
  BY DEF parseScreen
<1>. HIDE DEF d
<1>2. \A x \in DOMAIN d : d[x] = u.filters[x] /\ x \in DOMAIN u.filters \cap Fields
  BY <1>1
<1>3. \A x \in DOMAIN u.filters \cap Fields : u.filters[x] \in ValuesOf[x]
  BY DEF IsAddress, IsFilters
<1>4. IsFilters(d) /\ DOMAIN d \subseteq Fields
  BY <1>1, <1>2, <1>3 DEF IsFilters
<1>. QED  BY <1>4 DEF d

LEMMA BlankIsAnAddress == IsAddress(Blank) /\ parseScreen(Blank) = NoFilters
<1>1. DOMAIN NoFilters = {} /\ NoFilters = [x \in DOMAIN NoFilters |-> NoFilters[x]]
  BY DEF NoFilters
<1>2. IsFilters(NoFilters)
  BY <1>1 DEF IsFilters
<1>3. /\ Blank.filters = NoFilters /\ Blank.preset = NoScreen /\ Blank.sort = NoScreen
      /\ Blank.page = 1
      /\ Blank = [filters |-> Blank.filters, preset |-> Blank.preset, sort |-> Blank.sort, page |-> Blank.page]
  BY DEF Blank
<1>4. parseScreen(Blank) = NoFilters
  BY <1>1, <1>3 DEF parseScreen, NoFilters
<1>. QED  BY <1>2, <1>3, <1>4 DEF IsAddress

\* A field filled in, and one emptied.
LEMMA WithIsFilters ==
    ASSUME NEW f, IsFilters(f), NEW x \in Fields \cup {"shariah"}, NEW v, x \in Fields => v \in ValuesOf[x]
    PROVE  IsFilters(With(f, x, v)) /\ DOMAIN With(f, x, v) = DOMAIN f \cup {x}
<1>. DEFINE g == With(f, x, v)
<1>1. DOMAIN g = DOMAIN f \cup {x} /\ g = [y \in DOMAIN g |-> IF y = x THEN v ELSE f[y]]
  BY DEF With
<1>. HIDE DEF g
<1>2. \A y \in DOMAIN g : g[y] = IF y = x THEN v ELSE f[y]
  BY <1>1
<1>3. g = [y \in DOMAIN g |-> g[y]]
  BY <1>1, <1>2
<1>4. IsFilters(g)
  BY <1>1, <1>2, <1>3 DEF IsFilters
<1>. QED  BY <1>1, <1>4 DEF g

LEMMA WithoutIsFilters ==
    ASSUME NEW f, IsFilters(f), NEW x
    PROVE  IsFilters(Without(f, x)) /\ DOMAIN Without(f, x) = DOMAIN f \ {x}
<1>. DEFINE g == Without(f, x)
<1>1. DOMAIN g = DOMAIN f \ {x} /\ g = [y \in DOMAIN g |-> f[y]]
  BY DEF Without
<1>. HIDE DEF g
<1>2. \A y \in DOMAIN g : g[y] = f[y]
  BY <1>1
<1>3. g = [y \in DOMAIN g |-> g[y]]
  BY <1>1, <1>2
<1>4. IsFilters(g)
  BY <1>1, <1>2, <1>3 DEF IsFilters
<1>. QED  BY <1>1, <1>4 DEF g

\* Whatever address is set, the form follows it.
LEMMA SetParamsKeeps == ASSUME ScreensInv, NEW u, IsAddress(u), setParams(u) PROVE ScreensInv'
<1>1. CASE u = url
  BY <1>1 DEF setParams, ScreensInv, IsAddress, IsFilters, parseScreen
<1>2. CASE u # url
  <2>1. PICK d : d = parseScreen(u)
    OBVIOUS
  <2>2. url' = u /\ draft' = d /\ edited' = FALSE
    BY <1>2, <2>1 DEF setParams
  <2>3. IsFilters(d) /\ DOMAIN d \subseteq Fields
    BY <2>1, ParsedIsOfTheForm
  <2>4. IsAddress(url)' /\ IsFilters(draft)'
    BY <2>2, <2>3 DEF IsAddress, IsFilters
  <2>. QED  BY <2>1, <2>2, <2>3, <2>4 DEF ScreensInv, parseScreen
<1>. QED  BY <1>1, <1>2

\* Typing keeps the address.
LEMMA TypingKeeps ==
    ASSUME ScreensInv, NEW d, IsFilters(d), DOMAIN d \subseteq Fields,
           draft' = d, edited' = TRUE, UNCHANGED url
    PROVE  ScreensInv'
  BY DEF ScreensInv, IsAddress, IsFilters

LEMMA ScreensStep == ScreensInv /\ [NextScreens]_screenVars => ScreensInv'
<1>. SUFFICES ASSUME ScreensInv, [NextScreens]_screenVars PROVE ScreensInv'
  OBVIOUS
<1>0. /\ IsAddress(url) /\ IsFilters(draft) /\ DOMAIN draft \subseteq Fields
      /\ IsFilters(url.filters) /\ url.preset \in NamedScreens \cup {NoScreen}
      /\ url.sort \in {"pe", NoScreen} /\ url.page \in Nat \ {0}
      /\ url = [filters |-> url.filters, preset |-> url.preset, sort |-> url.sort, page |-> url.page]
  BY DEF ScreensInv, IsAddress
<1>00. ASSUME NEW f, IsFilters(f), NEW p \in NamedScreens \cup {NoScreen}, NEW s \in {"pe", NoScreen},
              NEW n \in Nat \ {0}
       PROVE  IsAddress(screenParams(f, p, s, n))
  <2>1. PICK u : u = screenParams(f, p, s, n)
    OBVIOUS
  <2>2. u.filters = f /\ u.preset = p /\ u.sort = s /\ u.page = n
    BY <2>1 DEF screenParams
  <2>3. IsAddress(u)
    BY <1>00, <2>1, <2>2 DEF IsAddress, screenParams
  <2>. QED  BY <2>1, <2>3
<1>1. CASE apply
  <2>1. IsAddress(screenParams(buildFilters, url.preset, NoScreen, 1))
    BY <1>0, <1>00 DEF buildFilters
  <2>. QED  BY <1>1, <2>1, SetParamsKeeps DEF apply
<1>2. CASE reset
  <2>1. PICK u, d : u = Blank /\ d = NoFilters
    OBVIOUS
  <2>2. url' = u /\ draft' = d /\ edited' = FALSE
    BY <1>2, <2>1 DEF reset
  <2>3. IsAddress(u) /\ IsFilters(d) /\ d = parseScreen(u) /\ DOMAIN d \subseteq Fields
    BY <2>1, BlankIsAnAddress, ParsedIsOfTheForm
  <2>4. IsAddress(url)' /\ IsFilters(draft)'
    BY <2>2, <2>3 DEF IsAddress, IsFilters
  <2>. QED  BY <2>2, <2>3, <2>4 DEF ScreensInv, parseScreen
<1>3. CASE changeSort
  <2>1. IsAddress(screenParams(url.filters, url.preset, "pe", 1))
    BY <1>0, <1>00
  <2>. QED  BY <1>3, <2>1, SetParamsKeeps DEF changeSort
<1>4. CASE toggleShariah
  <2>1. PICK f : /\ f = IF "shariah" \in DOMAIN url.filters THEN Without(url.filters, "shariah")
                        ELSE With(url.filters, "shariah", "1")
                 /\ setParams([url EXCEPT !.filters = f])
    BY <1>4 DEF toggleShariah
  <2>2. "shariah" \notin Fields
    BY DEF Fields
  <2>3. IsFilters(With(url.filters, "shariah", "1"))
    BY <1>0, <2>2, WithIsFilters
  <2>4. IsFilters(Without(url.filters, "shariah"))
    BY <1>0, WithoutIsFilters
  <2>5. IsFilters(f)
    BY <2>1, <2>3, <2>4
  <2>6. [url EXCEPT !.filters = f] = screenParams(f, url.preset, url.sort, url.page)
    BY <1>0 DEF screenParams
  <2>7. IsAddress([url EXCEPT !.filters = f])
    BY <1>0, <1>00, <2>5, <2>6
  <2>. QED  BY <2>1, <2>7, SetParamsKeeps
<1>5. ASSUME NEW f \in Fields, emptyField(f) PROVE ScreensInv'
  <2>1. PICK d : d = Without(draft, f)
    OBVIOUS
  <2>2. IsFilters(d) /\ DOMAIN d \subseteq Fields
    BY <1>0, <2>1, WithoutIsFilters
  <2>. QED  BY <1>5, <2>1, <2>2, TypingKeeps DEF emptyField
<1>6. ASSUME NEW f \in Fields, NEW v \in ValuesOf[f], setField(f, v) PROVE ScreensInv'
  <2>1. PICK d : d = With(draft, f, v)
    OBVIOUS
  <2>2. IsFilters(With(draft, f, v)) /\ DOMAIN With(draft, f, v) = DOMAIN draft \cup {f}
    BY <1>0, WithIsFilters
  <2>3. IsFilters(d) /\ DOMAIN d \subseteq Fields
    BY <1>0, <2>1, <2>2
  <2>. QED  BY <1>6, <2>1, <2>3, TypingKeeps DEF setField
<1>7. ASSUME NEW key \in NamedScreens, choosePreset(key) PROVE ScreensInv'
  <2>1. IsFilters(NoFilters)
    BY BlankIsAnAddress DEF IsAddress, Blank
  <2>2. PICK k \in NamedScreens \cup {NoScreen} : k = IF key = url.preset THEN NoScreen ELSE key
    OBVIOUS
  <2>3. IsAddress(screenParams(NoFilters, k, NoScreen, 1))
    BY <1>00, <2>1
  <2>. QED  BY <1>7, <2>2, <2>3, SetParamsKeeps DEF choosePreset
<1>8. CASE changePage
  <2>0. PICK p \in 1..Cardinality(Matching(query)) :
            setParams(screenParams(url.filters, url.preset, url.sort, p))
    BY <1>8 DEF changePage, listStocks
  <2>1. p \in Nat \ {0}
    <3>1. Matching(query) \subseteq DOMAIN Board
      BY DEF Matching
    <3>2. Cardinality(Matching(query)) \in Nat
      BY <3>1, ScreensAssumption, FS_Subset, FS_CardinalityType
    <3>. QED  BY <3>2
  <2>2. IsAddress(screenParams(url.filters, url.preset, url.sort, p))
    BY <1>0, <1>00, <2>1
  <2>. QED  BY <2>0, <2>2, SetParamsKeeps
<1>9. CASE UNCHANGED screenVars
  BY <1>9 DEF screenVars, ScreensInv, IsAddress, IsFilters, parseScreen
<1>. QED  BY <1>1, <1>2, <1>3, <1>4, <1>5, <1>6, <1>7, <1>8, <1>9 DEF NextScreens

LEMMA ScreensStart == InitScreens => ScreensInv
<1>. SUFFICES ASSUME InitScreens PROVE ScreensInv
  OBVIOUS
<1>1. url = Blank /\ draft = NoFilters /\ edited = FALSE
  BY DEF InitScreens
<1>2. IsFilters(NoFilters) /\ DOMAIN NoFilters \subseteq Fields
  BY BlankIsAnAddress, ParsedIsOfTheForm
<1>. QED  BY <1>1, <1>2, BlankIsAnAddress DEF ScreensInv

---------------------------------------------------------------------------
\* A rank is on a page.
LEMMA RankHasAPage ==
    ASSUME NEW k \in Nat \ {0}
    PROVE  \E p \in 1..k : k > (p - 1) * ScreenRows /\ k <= p * ScreenRows
<1>. DEFINE d == (k - 1) \div ScreenRows
            r == (k - 1) % ScreenRows
<1>1. ScreenRows \in Nat /\ ScreenRows > 0
  BY ScreensAssumption
<1>2. d \in Nat /\ r \in Nat /\ r < ScreenRows
  BY <1>1
<1>3. k - 1 = d * ScreenRows + r
  BY <1>1
<1>. HIDE DEF d, r
<1>4. d * ScreenRows \in Nat
  BY <1>1, <1>2
<1>5. (d + 1) * ScreenRows = d * ScreenRows + ScreenRows
  BY <1>1, <1>2
<1>6. d <= d * ScreenRows
  BY <1>1, <1>2
<1>7. d + 1 \in 1..k
  BY <1>1, <1>2, <1>3, <1>4, <1>6
<1>8. (d + 1) - 1 = d
  BY <1>2
<1>9. k > ((d + 1) - 1) * ScreenRows /\ k <= (d + 1) * ScreenRows
  BY <1>1, <1>2, <1>3, <1>4, <1>5, <1>8
<1>. QED  BY <1>7, <1>9

\* Questions that differ in their page find the same companies, in the same order.
LEMMA PageAside ==
    ASSUME NEW q, NEW r, q.filters = r.filters, q.preset = r.preset, q.sort = r.sort
    PROVE  /\ Matching(q) = Matching(r)
           /\ \A c, d : inOrder(q, c, d) = inOrder(r, c, d)
<1>1. filtersOf(q) = filtersOf(r)
  BY DEF filtersOf, toStockFilters
<1>2. \A c : matchesTechnical(q, c) <=> matchesTechnical(r, c)
  BY DEF matchesTechnical
<1>. QED  BY <1>1, <1>2 DEF Matching, inOrder

\* All pages together list what matches.
LEMMA PagesListThemAll ==
    ASSUME NEW f, NEW s, NEW o
    PROVE  LET at(p) == [filters |-> f, preset |-> s, page |-> p, sort |-> o]
           IN UNION {{r.company : r \in listStocks(at(p)).rows} : p \in 1..Cardinality(DOMAIN Board)}
                = Matching(at(1))
<1>. DEFINE at(p) == [filters |-> f, preset |-> s, page |-> p, sort |-> o]
            M == Matching(at(1))
            before(d, c) == inOrder(at(1), d, c)
            rank(c) == Cardinality({d \in M : before(d, c)}) + 1
            N == Cardinality(DOMAIN Board)
            paged(p) == {r.company : r \in listStocks(at(p)).rows}
<1>1. M \subseteq DOMAIN Board /\ IsFiniteSet(DOMAIN Board) /\ N \in Nat
  BY ScreensAssumption, FS_CardinalityType DEF Matching
<1>2. ASSUME NEW c \in M PROVE ~before(c, c)
  <2>1. c \in Nat
    BY <1>1, ScreensAssumption
  <2>2. ~(c < c)
    BY <2>1
  <2>. QED  BY <2>2 DEF inOrder
<1>3. ASSUME NEW p \in Nat
      PROVE  paged(p) = {c \in M : rank(c) > (p - 1) * ScreenRows /\ rank(c) <= p * ScreenRows}
  <2>1. /\ at(p).filters = at(1).filters /\ at(p).preset = at(1).preset /\ at(p).sort = at(1).sort
        /\ at(p).page = p
    OBVIOUS
  <2>2. PICK q, r : q = at(p) /\ r = at(1)
    OBVIOUS
  <2>3. q.filters = r.filters /\ q.preset = r.preset /\ q.sort = r.sort /\ q.page = p
    BY <2>1, <2>2
  <2>4. Matching(q) = M /\ \A c, d : inOrder(q, c, d) = before(c, d)
    BY <2>2, <2>3, PageAside
  <2>. DEFINE on == {c \in M : rank(c) > (p - 1) * ScreenRows /\ rank(c) <= p * ScreenRows}
  <2>5. listStocks(q).rows = {[company |-> c, rank |-> rank(c)] : c \in on}
    BY <2>3, <2>4 DEF listStocks
  <2>6. PICK entries : entries = listStocks(q).rows
    OBVIOUS
  <2>7. paged(p) = {x.company : x \in entries}
    BY <2>2, <2>6
  <2>. HIDE DEF M, before, rank, at, paged, on
  <2>8. /\ \A c \in on : [company |-> c, rank |-> rank(c)] \in entries
        /\ \A x \in entries : \E c \in on : x = [company |-> c, rank |-> rank(c)]
    BY <2>5, <2>6
  <2>9. \A c \in on : [company |-> c, rank |-> rank(c)].company = c
    OBVIOUS
  <2>10. paged(p) = on
    <3>1. \A c \in on : \E x \in entries : x.company = c
      BY <2>8, <2>9
    <3>2. ASSUME NEW x \in entries PROVE x.company \in on
      <4>1. PICK c \in on : x = [company |-> c, rank |-> rank(c)]
        BY <2>8
      <4>. QED  BY <2>9, <4>1
    <3>. QED  BY <2>7, <3>1, <3>2
  <2>. QED  BY <2>10 DEF on
<1>. HIDE DEF M, before, paged, at
<1>4. ASSUME NEW c \in M PROVE rank(c) \in 1..N
  <2>. DEFINE B == {d \in M : before(d, c)}
              D == DOMAIN Board
  <2>1. B \subseteq D \ {c} /\ c \in D
    BY <1>1, <1>2
  <2>. HIDE DEF B
  <2>2. IsFiniteSet(D \ {c}) /\ Cardinality(D \ {c}) = N - 1
    BY <1>1, <2>1, FS_RemoveElement
  <2>. HIDE DEF D
  <2>3. Cardinality(B) <= N - 1 /\ Cardinality(B) \in Nat
    BY <2>1, <2>2, FS_Subset, FS_CardinalityType
  <2>4. Cardinality(B) + 1 \in 1..N
    BY <1>1, <2>3
  <2>. QED  BY <2>4 DEF B
<1>5. ASSUME NEW c \in M PROVE \E p \in 1..N : c \in paged(p)
  <2>. DEFINE k == rank(c)
  <2>1. k \in 1..N /\ k \in Nat \ {0}
    BY <1>1, <1>4
  <2>. HIDE DEF k
  <2>2. PICK p \in 1..k : k > (p - 1) * ScreenRows /\ k <= p * ScreenRows
    BY <2>1, RankHasAPage
  <2>3. p \in 1..N /\ p \in Nat
    BY <1>1, <2>1
  <2>4. rank(c) > (p - 1) * ScreenRows /\ rank(c) <= p * ScreenRows
    BY <2>2 DEF k
  <2>5. c \in paged(p)
    BY <1>3, <2>3, <2>4
  <2>. QED  BY <2>3, <2>5
<1>6. ASSUME NEW p \in 1..N PROVE paged(p) \subseteq M
  <2>1. p \in Nat
    BY <1>1
  <2>. HIDE DEF rank
  <2>. QED  BY <1>3, <2>1
<1>7. UNION {paged(p) : p \in 1..N} = M
  BY <1>5, <1>6
<1>. QED  BY <1>7 DEF paged, M, at

\* What a question finds is what meets the form, where the form shows the address.
LEMMA MatchingIsMeeting ==
    ASSUME ScreensInv, ~edited, NEW q, q.filters = url.filters, q.preset = url.preset,
           NEW c \in DOMAIN Board
    PROVE  c \in Matching(q) <=> Meets(c)
<1>. DEFINE D == url.filters
            F == filtersOf(q)
            sent == Without(D, "maRelation")
            stock == toStockFilters(q)
<1>1. /\ DOMAIN D \subseteq Fields \cup {"shariah"}
      /\ url.preset \in {"low_pe", "gainers", "none"}
      /\ DOMAIN draft = Fields \cap DOMAIN D /\ \A x \in DOMAIN draft : draft[x] = D[x]
  <2>1. draft = [x \in Fields \cap DOMAIN D |-> D[x]]
    BY DEF ScreensInv, parseScreen
  <2>2. DOMAIN draft = Fields \cap DOMAIN D /\ \A x \in DOMAIN draft : draft[x] = D[x]
    BY <2>1
  <2>3. IsFilters(D) /\ url.preset \in NamedScreens \cup {NoScreen}
    BY DEF ScreensInv, IsAddress
  <2>. QED  BY <2>2, <2>3 DEF IsFilters, NamedScreens, NoScreen
<1>2. /\ DOMAIN sent = DOMAIN D \ {"maRelation"}
      /\ \A x \in DOMAIN sent : sent[x] = D[x]
  BY DEF Without
<1>3. /\ DOMAIN stock = DOMAIN sent \cup (IF "minReturn" \in DOMAIN sent THEN {"returnPeriod"} ELSE {})
      /\ \A x \in DOMAIN sent : stock[x] = D[x]
      /\ "returnPeriod" \notin DOMAIN sent /\ "minReturn" \in DOMAIN sent
           => stock["returnPeriod"] = "1m"
  <2>1. CASE "minReturn" \in DOMAIN sent
    <3>1. stock = Over(sent, [returnPeriod |-> "1m"])
      BY <2>1 DEF toStockFilters
    <3>. HIDE DEF sent, stock
    <3>2. DOMAIN [returnPeriod |-> "1m"] = {"returnPeriod"} /\ [returnPeriod |-> "1m"]["returnPeriod"] = "1m"
      OBVIOUS
    <3>3. DOMAIN stock = DOMAIN sent \cup {"returnPeriod"}
      BY <3>1, <3>2 DEF Over
    <3>4. \A x \in DOMAIN stock : stock[x] = IF x \in DOMAIN sent THEN sent[x] ELSE [returnPeriod |-> "1m"][x]
      BY <3>1, <3>3, <3>2 DEF Over
    <3>. QED  BY <1>2, <2>1, <3>2, <3>3, <3>4
  <2>2. CASE "minReturn" \notin DOMAIN sent
    <3>1. stock = sent
      BY <2>2 DEF toStockFilters
    <3>. HIDE DEF stock, sent
    <3>. QED  BY <1>2, <2>2, <3>1
  <2>. QED  BY <2>1, <2>2
<1>. DEFINE named == IF q.preset = NoScreen THEN NoFilters ELSE SCREENER_PRESETS[q.preset]
<1>4. F = Over(stock, named)
  BY DEF filtersOf
<1>5. /\ url.preset = "none" => DOMAIN named = {}
      /\ url.preset = "low_pe" => DOMAIN named = {"minPe", "maxPe"} /\ named["minPe"] = 1 /\ named["maxPe"] = 10
      /\ url.preset = "gainers" => DOMAIN named = {"minChange"} /\ named["minChange"] = 1
  BY DEF NoScreen, NoFilters, SCREENER_PRESETS
<1>. HIDE DEF F, stock, named, sent
<1>6. /\ DOMAIN F = DOMAIN stock \cup DOMAIN named
      /\ \A x \in DOMAIN F : F[x] = IF x \in DOMAIN stock THEN stock[x] ELSE named[x]
  BY <1>4 DEF Over
<1>7. /\ "minPe" \in DOMAIN F <=> "minPe" \in DOMAIN draft \/ url.preset = "low_pe"
      /\ "minPe" \in DOMAIN draft => F["minPe"] = draft["minPe"]
      /\ "minPe" \notin DOMAIN draft /\ url.preset = "low_pe" => F["minPe"] = 1
  BY <1>1, <1>2, <1>3, <1>5, <1>6 DEF Fields
<1>8. /\ "maxPe" \in DOMAIN F <=> url.preset = "low_pe"
      /\ url.preset = "low_pe" => F["maxPe"] = 10
      /\ "minChange" \in DOMAIN F <=> url.preset = "gainers"
      /\ url.preset = "gainers" => F["minChange"] = 1
  BY <1>1, <1>2, <1>3, <1>5, <1>6 DEF Fields
<1>9. /\ "minReturn" \in DOMAIN F <=> "minReturn" \in DOMAIN draft
      /\ "minReturn" \in DOMAIN draft =>
            /\ F["minReturn"] = draft["minReturn"]
            /\ F["returnPeriod"] = IF "returnPeriod" \in DOMAIN draft THEN draft["returnPeriod"] ELSE "1m"
      /\ "shariah" \in DOMAIN F <=> "shariah" \in DOMAIN D
  BY <1>1, <1>2, <1>3, <1>5, <1>6 DEF Fields
<1>10. "maRelation" \in DOMAIN q.filters <=> "maRelation" \in DOMAIN draft
  BY <1>1 DEF Fields
<1>11. c \in Matching(q) <=> matchesTechnical(q, c) /\ buildScreenerClauses(c, F)
  BY DEF Matching, F
<1>12. matchesTechnical(q, c) <=> ("maRelation" \in DOMAIN draft => Board[c].above = "yes")
  BY <1>10 DEF matchesTechnical
<1>13. buildScreenerClauses(c, F) <=>
          /\ atLeast(Board[c].pe, F, "minPe") /\ atLeast(Board[c].change, F, "minChange")
          /\ url.preset = "low_pe" => Board[c].pe # Unpublished /\ Board[c].pe <= 10
          /\ "minReturn" \in DOMAIN draft =>
                LET r == Board[c].ret[IF "returnPeriod" \in DOMAIN draft THEN draft["returnPeriod"] ELSE "1m"]
                IN r # Unpublished /\ r >= draft["minReturn"]
          /\ "shariah" \in DOMAIN D => Board[c].shariah
  BY <1>8, <1>9 DEF buildScreenerClauses, atLeast
<1>14. atLeast(Board[c].change, F, "minChange")
          <=> (url.preset = "gainers" => Board[c].change # Unpublished /\ Board[c].change >= 1)
  BY <1>8 DEF atLeast
<1>15. atLeast(Board[c].pe, F, "minPe")
          <=> /\ "minPe" \in DOMAIN draft =>
                    Board[c].pe # Unpublished /\ Board[c].pe >= draft["minPe"]
              /\ "minPe" \notin DOMAIN draft /\ url.preset = "low_pe" =>
                    Board[c].pe # Unpublished /\ Board[c].pe >= 1
  BY <1>7 DEF atLeast
<1>. QED  BY <1>11, <1>12, <1>13, <1>14, <1>15 DEF Meets

LEMMA ResultsMeet == ScreensInv => ResultsAreOfTheForm
<1>. SUFFICES ASSUME ScreensInv, ~edited
              PROVE  UNION {{r.company : r \in listStocks([query EXCEPT !.page = p]).rows}
                               : p \in 1..Cardinality(DOMAIN Board)}
                       = {c \in DOMAIN Board : Meets(c)}
  BY DEF ResultsAreOfTheForm
<1>. DEFINE at(p) == [filters |-> query.filters, preset |-> query.preset, page |-> p, sort |-> query.sort]
<1>1. \A p : [query EXCEPT !.page = p] = at(p)
  BY DEF query
<1>2. at(1).filters = url.filters /\ at(1).preset = url.preset
  BY DEF query
<1>3. UNION {{r.company : r \in listStocks(at(p)).rows} : p \in 1..Cardinality(DOMAIN Board)}
        = Matching(at(1))
  BY PagesListThemAll
<1>4. PICK q : q = at(1)
  OBVIOUS
<1>5. \A c \in DOMAIN Board : c \in Matching(q) <=> Meets(c)
  BY <1>2, <1>4, MatchingIsMeeting
<1>6. Matching(q) \subseteq DOMAIN Board
  BY DEF Matching
<1>. HIDE DEF at
<1>. QED  BY <1>1, <1>3, <1>4, <1>5, <1>6

LEMMA ScreensHold == ScreensSpec => []ScreensInv
<1>. QED  BY ScreensStart, ScreensStep, PTL DEF ScreensSpec

\* The form's fields hold what such a field may, and the address is one the screen can
\* parse (parseScreen, screenParams).
THEOREM ScreensTypes == ScreensSpec => []ScreensTypeOK
<1>1. ScreensInv => ScreensTypeOK
  BY DEF ScreensInv, ScreensTypeOK, IsAddress, IsFilters
<1>. QED  BY <1>1, ScreensHold, PTL

\* Whatever was typed, applied, chosen, switched or turned to before, a form at rest and
\* the list under it agree: all pages together are the companies that meet it.
THEOREM ResultsAreAsked == ScreensSpec => []ResultsAreOfTheForm
  BY ResultsMeet, ScreensHold, PTL

---------------------------------------------------------------------------
(***************************************************************************)
(* The lists a browser keeps (DeviceLists).                                *)
(***************************************************************************)
\* A number of places no more than a list of them has is the rank of one of them.
LEMMA NthPlace ==
    ASSUME NEW n \in Nat, NEW S \in SUBSET (1..n), NEW k \in 1..Cardinality(S)
    PROVE  \E i \in S : Cardinality({j \in S : j <= i}) = k
<1> DEFINE upto(i) == {j \in S : j <= i}
           size == [i \in 0..n |-> Cardinality(upto(i))]
           T == {i \in 0..n : size[i] >= k}
<1>1. IsFiniteSet(S)
  <2>1. IsFiniteSet(1..n)
    BY FS_Interval
  <2> QED
    BY <2>1, FS_Subset
<1>2. ASSUME NEW i \in 0..n PROVE size[i] \in Nat /\ IsFiniteSet(upto(i))
  <2>1. upto(i) \in SUBSET S
    OBVIOUS
  <2>2. IsFiniteSet(upto(i))
    BY <1>1, <2>1, FS_Subset
  <2> QED
    BY <2>2, FS_CardinalityType
<1>3. upto(n) = S
  <2>1. \A j \in S : j <= n
    OBVIOUS
  <2> QED
    BY <2>1
<1>4. upto(0) = {}
  <2>1. \A j \in S : ~(j <= 0)
    OBVIOUS
  <2> QED
    BY <2>1
<1>5. Cardinality(S) \in Nat /\ k \in Nat /\ k > 0 /\ k <= Cardinality(S)
  BY <1>1, FS_CardinalityType
<1>6. size[n] = Cardinality(S) /\ size[0] = 0
  BY <1>3, <1>4, FS_EmptySet
<1>7. ASSUME NEW i \in 1..n
      PROVE  /\ i \notin S => size[i] = size[i - 1]
             /\ i \in S => size[i] = size[i - 1] + 1
  <2>1. i \in 0..n /\ i - 1 \in 0..n
    OBVIOUS
  <2>2. ASSUME i \notin S PROVE upto(i) = upto(i - 1)
    <3>1. \A j \in S : j <= i <=> j <= i - 1
      BY <2>2
    <3> QED
      BY <3>1
  <2>3. ASSUME i \in S PROVE upto(i) = upto(i - 1) \cup {i} /\ i \notin upto(i - 1)
    <3>1. \A j \in S : j <= i <=> (j <= i - 1 \/ j = i)
      OBVIOUS
    <3>2. ~(i <= i - 1)
      OBVIOUS
    <3>3. \A j : j \in upto(i) <=> j \in upto(i - 1) \/ j = i
      BY <2>3, <3>1
    <3> QED
      BY <3>2, <3>3
  <2>4. IsFiniteSet(upto(i - 1))
    BY <1>2, <2>1
  <2> HIDE DEF upto
  <2>5. size[i] = Cardinality(upto(i)) /\ size[i - 1] = Cardinality(upto(i - 1))
    BY <2>1
  <2> QED
    BY <2>2, <2>3, <2>4, <2>5, FS_AddElement
<1> HIDE DEF size, upto
<1>8. n \in T /\ 0 \notin T
  BY <1>5, <1>6
<1>9. PICK i \in T : \A r \in T : i <= r
  <2>1. T \in SUBSET Nat /\ T # {}
    BY <1>8
  <2> HIDE DEF T
  <2> QED
    BY <2>1, FirstOf
<1>10. i \in 1..n /\ size[i] >= k /\ ~(size[i - 1] >= k)
  <2>1. i \in 0..n /\ i # 0
    BY <1>8, <1>9
  <2>2. i - 1 \in 0..n /\ i - 1 \notin T
    BY <1>9, <2>1
  <2> QED
    BY <1>9, <2>1, <2>2
<1>11. i \in S /\ size[i] = k
  <2>1. size[i] \in Nat /\ size[i - 1] \in Nat
    BY <1>2, <1>10
  <2> QED
    BY <1>5, <1>7, <1>10, <2>1
<1>12. size[i] = Cardinality({j \in S : j <= i})
  BY <1>10 DEF size, upto
<1> QED
  BY <1>11, <1>12

\* The places of a list that hold what is kept have a rank each, and no two the same.
LEMMA PlacesRank ==
    ASSUME NEW n \in Nat, NEW S \in SUBSET (1..n)
    PROVE  /\ Cardinality(S) \in Nat
           /\ \A i \in S : Cardinality({j \in S : j <= i}) \in 1..Cardinality(S)
           /\ \A i, k \in S : Cardinality({j \in S : j <= i}) = Cardinality({j \in S : j <= k}) => i = k
<1> DEFINE upto(i) == {j \in S : j <= i}
<1>1. IsFiniteSet(S)
  <2>1. IsFiniteSet(1..n)
    BY FS_Interval
  <2> QED
    BY <2>1, FS_Subset
<1>2. ASSUME NEW i \in S
      PROVE  /\ IsFiniteSet(upto(i)) /\ Cardinality(upto(i)) \in Nat
             /\ Cardinality(upto(i)) <= Cardinality(S) /\ Cardinality(upto(i)) # 0
  <2>1. upto(i) \subseteq S /\ i \in upto(i)
    OBVIOUS
  <2> HIDE DEF upto
  <2>2. IsFiniteSet(upto(i)) /\ Cardinality(upto(i)) <= Cardinality(S)
    BY <1>1, <2>1, FS_Subset
  <2> QED
    BY <2>1, <2>2, FS_CardinalityType, FS_EmptySet
<1>3. ASSUME NEW i \in S, NEW k \in S, i < k PROVE Cardinality(upto(i)) # Cardinality(upto(k))
  <2>1. upto(i) \subseteq upto(k) /\ k \in upto(k) /\ k \notin upto(i)
    <3>1. \A j \in S : j \in Nat
      OBVIOUS
    <3>2. \A j \in S : j <= i => j <= k
      BY <1>3, <3>1
    <3>3. k <= k /\ ~(k <= i)
      BY <1>3, <3>1
    <3> QED
      BY <3>2, <3>3
  <2>2. IsFiniteSet(upto(k))
    BY <1>2
  <2> HIDE DEF upto
  <2>3. Cardinality(upto(i)) = Cardinality(upto(k)) => upto(k) = upto(i)
    BY <2>1, <2>2, FS_Subset
  <2> QED
    BY <2>1, <2>3
<1>4. Cardinality(S) \in Nat
  BY <1>1, FS_CardinalityType
<1>5. \A i \in S : Cardinality(upto(i)) \in 1..Cardinality(S)
  <2> HIDE DEF upto
  <2> QED
    BY <1>2, <1>4
<1>6. \A i, k \in S : Cardinality(upto(i)) = Cardinality(upto(k)) => i = k
  <2> HIDE DEF upto
  <2>1. \A i, k \in S : i < k \/ k < i \/ i = k
    OBVIOUS
  <2> QED
    BY <1>3, <2>1
<1> QED
  BY <1>4, <1>5, <1>6

\* A list with no more than what is kept is a list of what it held and is kept, and of
\* nothing twice if it held nothing twice.
LEMMA KeepingKeeps ==
    ASSUME NEW S, NEW list \in Seq(S), NEW kept
    PROVE  /\ Keeping(list, kept) \in Seq(S)
           /\ ToSet(Keeping(list, kept)) = ToSet(list) \cap kept
           /\ \A a, b \in DOMAIN Keeping(list, kept) : a # b =>
                 \E i, k \in DOMAIN list : i # k /\ list[i] = Keeping(list, kept)[a]
                                              /\ list[k] = Keeping(list, kept)[b]
           /\ ToSet(list) \subseteq kept => Keeping(list, kept) = list
<1> DEFINE places == {k \in DOMAIN list : list[k] \in kept}
           rank(k) == Cardinality({j \in places : j <= k})
           nth(n) == CHOOSE k \in places : rank(k) = n
           m == Cardinality(places)
<1>1. PICK len \in Nat : len = Len(list)
  OBVIOUS
<1>2. DOMAIN list = 1..len /\ \A k \in 1..len : list[k] \in S
  BY <1>1
<1>3. places \in SUBSET (1..len)
  BY <1>2
<1>4. /\ m \in Nat /\ \A k \in places : rank(k) \in 1..m
      /\ \A i, k \in places : rank(i) = rank(k) => i = k
  <2> HIDE DEF places
  <2> QED
    BY <1>3, PlacesRank
<1>5. \A n \in 1..m : nth(n) \in places /\ rank(nth(n)) = n
  <2> SUFFICES ASSUME NEW n \in 1..m PROVE nth(n) \in places /\ rank(nth(n)) = n
    OBVIOUS
  <2>1. \E k \in places : rank(k) = n
    <3> HIDE DEF places
    <3> QED
      BY <1>3, NthPlace
  <2> HIDE DEF rank, places
  <2> QED
    BY <2>1
<1>6. \A k \in places : nth(rank(k)) = k
  <2> HIDE DEF rank, nth, m, places
  <2> QED
    BY <1>4, <1>5
<1>7. Keeping(list, kept) = [n \in 1..m |-> list[nth(n)]]
  BY DEF Keeping
<1>8. \A k \in places : list[k] \in S /\ list[k] \in kept /\ k \in DOMAIN list
  BY <1>2
<1>9. \A k \in DOMAIN list : list[k] \in kept => k \in places
  OBVIOUS
<1> DEFINE result == Keeping(list, kept)
<1> HIDE DEF rank, nth, m, places, result
<1>10. DOMAIN result = 1..m /\ \A n \in 1..m : result[n] = list[nth(n)]
  BY <1>7 DEF result
<1>11. result \in [1..m -> S]
  BY <1>5, <1>7, <1>8 DEF result
<1>12. result \in Seq(S)
  BY <1>4, <1>11
<1>13. ToSet(result) \subseteq ToSet(list) \cap kept
  BY <1>5, <1>8, <1>10 DEF ToSet
<1>14. ToSet(list) \cap kept \subseteq ToSet(result)
  <2> SUFFICES ASSUME NEW k \in DOMAIN list, list[k] \in kept PROVE list[k] \in ToSet(result)
    BY DEF ToSet
  <2>1. k \in places
    BY <1>9
  <2>2. rank(k) \in 1..m /\ nth(rank(k)) = k
    BY <1>4, <1>6, <2>1
  <2> QED
    BY <1>10, <2>2 DEF ToSet
<1>15. ASSUME NEW a \in 1..m, NEW b \in 1..m, a # b
       PROVE  \E i, k \in DOMAIN list : i # k /\ list[i] = result[a] /\ list[k] = result[b]
  <2>1. nth(a) \in DOMAIN list /\ nth(b) \in DOMAIN list /\ nth(a) # nth(b)
    BY <1>5, <1>8, <1>15
  <2> QED
    BY <1>10, <2>1
<1>16. ASSUME ToSet(list) \subseteq kept PROVE result = list
  <2>1. places = 1..len
    BY <1>2, <1>8, <1>9, <1>16 DEF ToSet
  <2>2. \A k \in 1..len : rank(k) = k
    <3> SUFFICES ASSUME NEW k \in 1..len PROVE rank(k) = k
      OBVIOUS
    <3>1. {j \in places : j <= k} = 1..k
      BY <2>1
    <3>2. k \in Int /\ 1 \in Int /\ ~(1 > k) /\ k - 1 + 1 = k
      OBVIOUS
    <3>3. Cardinality(1..k) = k
      BY <3>2, FS_Interval
    <3> QED
      BY <3>1, <3>3 DEF rank
  <2>3. m = len
    BY <2>1, FS_Interval DEF m
  <2>4. \A n \in 1..len : nth(n) = n
    BY <1>6, <2>1, <2>2
  <2> QED
    BY <1>1, <1>2, <1>10, <1>11, <2>3, <2>4
<1> QED
  BY <1>10, <1>12, <1>13, <1>14, <1>15, <1>16 DEF result

\* A list with one more at its end that it did not hold.
LEMMA AppendHolds ==
    ASSUME NEW S, NEW list \in Seq(S), NEW i \in S
    PROVE  /\ Append(list, i) \in Seq(S)
           /\ ToSet(Append(list, i)) = ToSet(list) \cup {i}
           /\ IsInjective(list) /\ i \notin ToSet(list) => IsInjective(Append(list, i))
<1> DEFINE more == Append(list, i)
<1>1. PICK n \in Nat : n = Len(list)
  OBVIOUS
<1>2. more \in Seq(S) /\ DOMAIN more = 1..(n + 1) /\ DOMAIN list = 1..n
  BY <1>1
<1>3. more[n + 1] = i /\ \A k \in 1..n : more[k] = list[k]
  BY <1>1
<1>4. \A k \in 1..(n + 1) : k = n + 1 \/ k \in 1..n
  OBVIOUS
<1>5. 1..n \subseteq 1..(n + 1) /\ n + 1 \in 1..(n + 1)
  OBVIOUS
<1> HIDE DEF more
<1>6. ToSet(more) = ToSet(list) \cup {i}
  BY <1>2, <1>3, <1>4, <1>5 DEF ToSet
<1>7. ASSUME IsInjective(list), i \notin ToSet(list) PROVE IsInjective(more)
  BY <1>2, <1>3, <1>4, <1>7 DEF IsInjective, ToSet
<1> QED
  BY <1>2, <1>6, <1>7 DEF more

SavedScreens == [id : Int, name : Names \cup {Unnamed, "old"}, query : Addresses \cup {""}, whole : BOOLEAN]
TabRows == [screens : Seq(SavedScreens), stars : Seq(Followed), dialog : Names \cup {Unnamed, Closed}]

NamesDiffer(screens) ==
    \A i, k \in DOMAIN screens : Lower(screens[i].name) = Lower(screens[k].name) => i = k
AllWhole(screens) == \A i \in DOMAIN screens : screens[i].whole

DeviceTyped ==
    /\ storage \in Seq(SavedScreens) /\ watched \in Seq(Followed) /\ refusing \in BOOLEAN
    /\ writes \in 0..MaxWrites /\ lastStar \in Open \cup {"none"}
    /\ Open \subseteq DeviceTabs /\ unheard \subseteq Open
    /\ \A t \in Open : tab[t] \in TabRows

\* What a tab holds it could store as it is; a tab that has been told everything holds
\* what is stored, and no two screens of what anybody holds have one name.
TabsInStep ==
    /\ NamesDiffer(read(storage)) /\ told \subseteq ids(read(storage))
    /\ lastStar \in Open => watched = tab[lastStar].stars
    /\ \A t \in Open :
          /\ AllWhole(tab[t].screens) /\ NamesDiffer(tab[t].screens)
          /\ t \notin unheard => tab[t].screens = read(storage)

DeviceInv == DeviceTyped /\ TabsInStep

---------------------------------------------------------------------------
\* What is read of a stored list.
LEMMA ReadFacts ==
    ASSUME NEW was \in Seq(SavedScreens)
    PROVE  /\ read(was) \in Seq(SavedScreens) /\ AllWhole(read(was))
           /\ NamesDiffer(was) => NamesDiffer(read(was))
           /\ AllWhole(was) => read(was) = was
<1> DEFINE kept == {s \in ToSet(was) : s.whole}
           list == read(was)
<1>1. list = Keeping(was, kept)
  BY DEF read
<1>2. ToSet(list) = ToSet(was) \cap kept /\ \A s \in kept : s.whole
  <2>1. \A s \in kept : s.whole
    OBVIOUS
  <2> HIDE DEF kept
  <2> QED
    BY <1>1, <2>1, KeepingKeeps
<1>3. AllWhole(list)
  <2> HIDE DEF list, kept
  <2> QED
    BY <1>2 DEF AllWhole, ToSet
<1>4. ASSUME NamesDiffer(was) PROVE NamesDiffer(list)
  <2> SUFFICES ASSUME NEW a \in DOMAIN list, NEW b \in DOMAIN list, a # b
               PROVE  Lower(list[a].name) # Lower(list[b].name)
    BY DEF NamesDiffer
  <2>1. \E i, k \in DOMAIN was : i # k /\ was[i] = list[a] /\ was[k] = list[b]
    <3> HIDE DEF kept
    <3> QED
      BY <1>1, KeepingKeeps
  <2> HIDE DEF list
  <2> QED
    BY <1>4, <2>1 DEF NamesDiffer
<1>5. ASSUME AllWhole(was) PROVE list = was
  <2>1. ToSet(was) \subseteq kept
    BY <1>5 DEF AllWhole, ToSet
  <2> HIDE DEF kept
  <2> QED
    BY <1>1, <2>1, KeepingKeeps
<1>6. list \in Seq(SavedScreens)
  <2> HIDE DEF kept
  <2> QED
    BY <1>1, KeepingKeeps
<1> QED
  BY <1>3, <1>4, <1>5, <1>6

\* A list without one screen.
LEMMA RemovedFacts ==
    ASSUME NEW screens \in Seq(SavedScreens), NEW id
    PROVE  LET next == Keeping(screens, {s \in ToSet(screens) : s.id # id})
           IN /\ next \in Seq(SavedScreens) /\ ids(next) = ids(screens) \ {id}
              /\ AllWhole(screens) => AllWhole(next)
              /\ NamesDiffer(screens) => NamesDiffer(next)
<1> DEFINE kept == {s \in ToSet(screens) : s.id # id}
           next == Keeping(screens, kept)
<1>1. \A s \in ToSet(screens) : s \in kept <=> s.id # id
  OBVIOUS
<1> HIDE DEF kept
<1>2. /\ next \in Seq(SavedScreens) /\ ToSet(next) = ToSet(screens) \cap kept
      /\ \A a, b \in DOMAIN next : a # b =>
            \E i, k \in DOMAIN screens : i # k /\ screens[i] = next[a] /\ screens[k] = next[b]
  BY KeepingKeeps
<1> HIDE DEF next
<1>3. ids(next) = ids(screens) \ {id}
  <2>1. ids(next) = {s.id : s \in ToSet(next)} /\ ids(screens) = {s.id : s \in ToSet(screens)}
    BY DEF ids, ToSet
  <2> QED
    BY <1>1, <1>2, <2>1
<1>4. ASSUME AllWhole(screens) PROVE AllWhole(next)
  <2>1. \A s \in ToSet(screens) : s.whole
    BY <1>4 DEF AllWhole, ToSet
  <2>2. \A k \in DOMAIN next : next[k] \in ToSet(next)
    BY DEF ToSet
  <2> QED
    BY <1>2, <2>1, <2>2 DEF AllWhole
<1>5. NamesDiffer(screens) => NamesDiffer(next)
  BY <1>2 DEF NamesDiffer
<1> QED
  BY <1>2, <1>3, <1>4, <1>5 DEF next, kept

\* A list with a screen of a new name at its end.
LEMMA JoinedFacts ==
    ASSUME NEW screens \in Seq(SavedScreens), NEW s \in SavedScreens
    PROVE  LET next == Append(screens, s)
           IN /\ next \in Seq(SavedScreens) /\ ids(next) = ids(screens) \cup {s.id}
              /\ AllWhole(screens) /\ s.whole => AllWhole(next)
              /\ NamesDiffer(screens) /\ (\A i \in DOMAIN screens : Lower(screens[i].name) # Lower(s.name))
                    => NamesDiffer(next)
<1> DEFINE next == Append(screens, s)
<1>1. PICK n \in Nat : n = Len(screens)
  OBVIOUS
<1>2. next \in Seq(SavedScreens) /\ DOMAIN next = 1..(n + 1) /\ DOMAIN screens = 1..n
  BY <1>1
<1>3. next[n + 1] = s /\ \A k \in 1..n : next[k] = screens[k]
  BY <1>1
<1>4. \A k \in 1..(n + 1) : k = n + 1 \/ k \in 1..n
  OBVIOUS
<1>5. 1..n \subseteq 1..(n + 1) /\ n + 1 \in 1..(n + 1) /\ n + 1 \notin 1..n
  OBVIOUS
<1> HIDE DEF next
<1>6. ids(next) = ids(screens) \cup {s.id}
  BY <1>2, <1>3, <1>4, <1>5 DEF ids
<1>7. AllWhole(screens) /\ s.whole => AllWhole(next)
  BY <1>2, <1>3, <1>4 DEF AllWhole
<1>8. ASSUME NamesDiffer(screens), \A i \in DOMAIN screens : Lower(screens[i].name) # Lower(s.name)
      PROVE  NamesDiffer(next)
  BY <1>2, <1>3, <1>4, <1>8 DEF NamesDiffer
<1> QED
  BY <1>2, <1>6, <1>7, <1>8 DEF next

\* The page of a watchlist lists nothing else, and all of it while it is short.
LEMMA WatchlistLists ==
    ASSUME DeviceTyped, NEW t \in Open
    PROVE  /\ \A s \in Range(Watchlist(t)) : has(t, s)
           /\ Len(tab[t].stars) <= WatchLimit => \A s \in Followed : has(t, s) => s \in Range(Watchlist(t))
<1> DEFINE starred == Range(tab[t].stars)
           rank(s) == Cardinality({r \in starred : r <= s})
           nth(n) == CHOOSE s \in starred : rank(s) = n
           many == Cardinality(starred)
           length == IF many < WatchLimit THEN many ELSE WatchLimit
<1>1. tab[t].stars \in Seq(Followed)
  BY DEF DeviceTyped, TabRows
<1>2. PICK n \in Nat : n = Len(tab[t].stars)
  BY <1>1
<1>3. DOMAIN tab[t].stars = 1..n /\ tab[t].stars \in [1..n -> Followed]
  BY <1>1, <1>2
<1>4. PICK all \in Nat : Followed = 1..all
  BY DeviceListsAssumption, FS_CardinalityType
<1>5. starred \in SUBSET (1..all)
  BY <1>3, <1>4 DEF Range
<1>6. /\ many \in Nat /\ \A s \in starred : rank(s) \in 1..many
      /\ \A r, s \in starred : rank(r) = rank(s) => r = s
  <2> HIDE DEF starred
  <2> QED
    BY <1>5, PlacesRank
<1>7. many <= n
  <2>1. tab[t].stars \in Surjection(1..n, starred)
    BY <1>3 DEF Surjection, Range
  <2>2. IsFiniteSet(1..n) /\ Cardinality(1..n) = n
    <3>1. 1 \in Int /\ n \in Int /\ (IF 1 > n THEN 0 ELSE n - 1 + 1) = n
      OBVIOUS
    <3> QED
      BY <3>1, FS_Interval
  <2> HIDE DEF starred
  <2> QED
    BY <2>1, <2>2, FS_Surjection
<1>8. \A k \in 1..many : nth(k) \in starred /\ rank(nth(k)) = k
  <2> SUFFICES ASSUME NEW k \in 1..many PROVE nth(k) \in starred /\ rank(nth(k)) = k
    OBVIOUS
  <2>1. \E s \in starred : rank(s) = k
    <3> HIDE DEF starred
    <3> QED
      BY <1>5, NthPlace
  <2> HIDE DEF starred, rank
  <2> QED
    BY <2>1
<1>9. \A s \in starred : nth(rank(s)) = s
  <2> HIDE DEF rank, nth, many, starred
  <2> QED
    BY <1>6, <1>8
<1>10. Watchlist(t) = [k \in 1..length |-> nth(k)]
  BY DEF Watchlist
<1>11. length \in Nat /\ length <= many /\ (n <= WatchLimit => length = many)
  <2> HIDE DEF many
  <2> QED
    BY <1>6, <1>7, DeviceListsAssumption
<1> HIDE DEF rank, nth, many, length, starred
<1>12. Range(Watchlist(t)) = {nth(k) : k \in 1..length}
  BY <1>10 DEF Range
<1>13. \A s \in Range(Watchlist(t)) : s \in starred
  <2>1. \A k \in 1..length : k \in 1..many
    BY <1>6, <1>11
  <2> QED
    BY <1>8, <1>12, <2>1
<1>14. ASSUME n <= WatchLimit, NEW s \in starred PROVE s \in Range(Watchlist(t))
  BY <1>6, <1>9, <1>11, <1>12, <1>14
<1> QED
  BY <1>2, <1>13, <1>14 DEF has, starred

\* One tab changes what it holds.
LEMMA OneTab ==
    ASSUME DeviceTyped, NEW t \in Open, NEW holds \in TabRows, tab' = [tab EXCEPT ![t] = holds]
    PROVE  /\ Open' = Open /\ tab'[t] = holds /\ \A u \in Open : u # t => tab'[u] = tab[u]
           /\ \A u \in Open' : tab'[u] \in TabRows
BY DEF DeviceTyped, Open

\* A tab writes its list of screens: it is the one stored, the others are to be told.
LEMMA StoredKeeps ==
    ASSUME DeviceInv, NEW t \in Open, NEW holds \in TabRows, Shown(t, holds),
           holds.stars = tab[t].stars, write(t, holds.screens),
           AllWhole(holds.screens), NamesDiffer(holds.screens),
           told' \subseteq ids(holds.screens), writes' \in 0..MaxWrites,
           UNCHANGED <<watched, refusing, lastStar>>
    PROVE  DeviceInv'
<1>1. /\ Open' = Open /\ tab'[t] = holds /\ \A u \in Open : u # t => tab'[u] = tab[u]
      /\ \A u \in Open' : tab'[u] \in TabRows
  BY OneTab DEF DeviceInv, Shown
<1>2. storage' = holds.screens /\ holds.screens \in Seq(SavedScreens)
  BY DEF write, TabRows
<1>3. read(holds.screens) = holds.screens
  BY <1>2, ReadFacts
<1>4. read(storage)' = read(holds.screens)
  BY <1>2 DEF read, Keeping, ToSet
<1>5. unheard' \subseteq Open' /\ unheard \subseteq unheard'
  BY <1>1 DEF DeviceInv, DeviceTyped, write
<1>6. DeviceTyped'
  BY <1>1, <1>2, <1>5 DEF DeviceInv, DeviceTyped
<1>7. told' \subseteq ids(read(storage))' /\ NamesDiffer(read(storage))'
  <2>1. ids(read(storage))' = ids(holds.screens)
    BY <1>3, <1>4 DEF ids
  <2>2. NamesDiffer(read(storage))' <=> NamesDiffer(holds.screens)
    BY <1>3, <1>4 DEF NamesDiffer
  <2> QED
    BY <2>1, <2>2
<1>8. lastStar' \in Open' => watched' = tab'[lastStar'].stars
  BY <1>1 DEF DeviceInv, TabsInStep
<1>9. ASSUME NEW u \in Open'
      PROVE  /\ AllWhole(tab'[u].screens) /\ NamesDiffer(tab'[u].screens)
             /\ u \notin unheard' => tab'[u].screens = holds.screens
  <2>1. CASE u = t
    BY <1>1, <2>1
  <2>2. CASE u # t
    <3>1. tab'[u] = tab[u] /\ u \in Open
      BY <1>1, <2>2
    <3>2. u \notin unheard' => holds.screens = storage /\ u \notin unheard
      BY <1>5, <2>2, <3>1 DEF write
    <3>3. u \notin unheard => tab[u].screens = read(storage)
      BY <3>1 DEF DeviceInv, TabsInStep
    <3>4. u \notin unheard' => tab'[u].screens = holds.screens
      BY <1>3, <3>1, <3>2, <3>3
    <3> QED
      BY <3>1, <3>4 DEF DeviceInv, TabsInStep
  <2> QED
    BY <2>1, <2>2
<1>10. TabsInStep'
  BY <1>3, <1>4, <1>7, <1>8, <1>9 DEF TabsInStep, AllWhole, NamesDiffer
<1> QED
  BY <1>6, <1>10 DEF DeviceInv

\* What a tab still promises it holds.
LEMMA PromisedIsHeld ==
    ASSUME DeviceInv, NEW t \in Open
    PROVE  Promised(t) \subseteq ids(tab[t].screens)
<1>1. t \notin unheard => tab[t].screens = read(storage)
  BY DEF DeviceInv, TabsInStep
<1> QED
  BY <1>1 DEF Promised, DeviceInv, TabsInStep

\* The screens are left alone: a step of the dialog, of the watchlist, or of the storage.
LEMMA ScreensStay ==
    ASSUME DeviceInv, UNCHANGED <<storage, unheard, told, tab, watched, lastStar>>,
           refusing' \in BOOLEAN, writes' \in 0..MaxWrites
    PROVE  DeviceInv'
<1>1. Open' = Open /\ read(storage)' = read(storage)
  BY DEF Open, read, Keeping, ToSet
<1>2. DeviceTyped'
  BY <1>1 DEF DeviceInv, DeviceTyped
<1>3. ids(read(storage))' = ids(read(storage)) /\ (NamesDiffer(read(storage))' <=> NamesDiffer(read(storage)))
  BY <1>1 DEF ids, NamesDiffer
<1>4. TabsInStep'
  BY <1>1, <1>3 DEF DeviceInv, TabsInStep, AllWhole, NamesDiffer
<1> QED
  BY <1>2, <1>4 DEF DeviceInv

\* The stored list and what a tab shows of it stay; its dialog or its stars change.
LEMMA OneTabKeeps ==
    ASSUME DeviceInv, NEW t \in Open, NEW holds \in TabRows, Shown(t, holds),
           holds.screens = tab[t].screens \/ holds.screens = read(storage),
           t \notin unheard' => holds.screens = read(storage),
           UNCHANGED <<storage, told, refusing>>, writes' \in 0..MaxWrites,
           unheard' = unheard \/ unheard' = unheard \ {t},
           watched' \in Seq(Followed), lastStar' \in Open \cup {"none"},
           lastStar' = t => watched' = holds.stars,
           lastStar' \in Open \ {t} => watched' = watched /\ lastStar' = lastStar
    PROVE  DeviceInv'
<1>1. /\ Open' = Open /\ tab'[t] = holds /\ \A u \in Open : u # t => tab'[u] = tab[u]
      /\ \A u \in Open' : tab'[u] \in TabRows
  BY OneTab DEF DeviceInv, Shown
<1>2. read(storage)' = read(storage)
  BY DEF read, Keeping, ToSet
<1>3. DeviceTyped'
  BY <1>1 DEF DeviceInv, DeviceTyped
<1>4. ids(read(storage))' = ids(read(storage)) /\ (NamesDiffer(read(storage))' <=> NamesDiffer(read(storage)))
  BY <1>2 DEF ids, NamesDiffer
<1>5. AllWhole(holds.screens) /\ NamesDiffer(holds.screens)
  <2>1. AllWhole(read(storage)) /\ NamesDiffer(read(storage))
    BY ReadFacts DEF DeviceInv, DeviceTyped, TabsInStep
  <2> QED
    BY <2>1 DEF DeviceInv, TabsInStep
<1>6. ASSUME NEW u \in Open'
      PROVE  /\ AllWhole(tab'[u].screens) /\ NamesDiffer(tab'[u].screens)
             /\ u \notin unheard' => tab'[u].screens = read(storage)
  <2>1. CASE u = t
    BY <1>1, <1>5, <2>1
  <2>2. CASE u # t
    BY <1>1, <2>2 DEF DeviceInv, TabsInStep
  <2> QED
    BY <2>1, <2>2
<1>7. lastStar' \in Open' => watched' = tab'[lastStar'].stars
  <2>1. CASE lastStar' = t
    BY <1>1, <2>1
  <2>2. CASE lastStar' # t
    BY <1>1, <2>2 DEF DeviceInv, TabsInStep
  <2> QED
    BY <2>1, <2>2
<1>8. TabsInStep'
  BY <1>2, <1>4, <1>6, <1>7 DEF DeviceInv, TabsInStep, AllWhole, NamesDiffer
<1> QED
  BY <1>3, <1>8 DEF DeviceInv

LEMMA DeviceStarts == InitDevice => DeviceInv
<1> SUFFICES ASSUME InitDevice PROVE DeviceInv
  OBVIOUS
<1> DEFINE older == [id |-> -1, name |-> "old", query |-> "", whole |-> FALSE]
           kept == [id |-> 0, name |-> "old", query |-> "", whole |-> TRUE]
           unread == [id |-> -2, name |-> Unnamed, query |-> "", whole |-> FALSE]
<1>1. older \in SavedScreens /\ kept \in SavedScreens /\ unread \in SavedScreens
  BY DEF SavedScreens
<1>2. storage \in {<<>>, <<unread>>, <<older, kept>>}
  BY DEF InitDevice, Garbage
<1> HIDE DEF older, kept, unread
<1>31. <<>> \in Seq(SavedScreens) /\ <<unread>> \in Seq(SavedScreens) /\ <<older, kept>> \in Seq(SavedScreens)
  <2>1. <<>> \in Seq(SavedScreens)
    OBVIOUS
  <2>2. <<unread>> \in Seq(SavedScreens)
    BY <1>1
  <2>3. <<older, kept>> \in Seq(SavedScreens)
    BY <1>1
  <2> QED
    BY <2>1, <2>2, <2>3
<1>3. storage \in Seq(SavedScreens)
  BY <1>2, <1>31
<1>4. Open = {}
  <2>1. tab = <<>>
    BY DEF InitDevice
  <2>2. DOMAIN <<>> = {}
    OBVIOUS
  <2> QED
    BY <2>1, <2>2 DEF Open
<1>41. ~older.whole /\ ~unread.whole
  BY DEF older, unread
<1>5. DeviceTyped
  <2>1. watched \in Seq(Followed) /\ refusing \in BOOLEAN /\ writes \in 0..MaxWrites
    <3>1. watched = <<>> /\ refusing \in BOOLEAN /\ writes = 0
      BY DEF InitDevice
    <3>2. <<>> \in Seq(Followed)
      OBVIOUS
    <3>3. 0 \in 0..MaxWrites
      BY DeviceListsAssumption
    <3> QED
      BY <3>1, <3>2, <3>3
  <2>2. lastStar = "none" /\ unheard = {}
    BY DEF InitDevice
  <2> QED
    BY <1>3, <1>4, <2>1, <2>2 DEF DeviceTyped
<1>6. \A a, b \in DOMAIN read(storage) : a = b
  <2> DEFINE good == {s \in ToSet(storage) : s.whole}
  <2>1. read(storage) = Keeping(storage, good)
    BY DEF read
  <2>2. \A a, b \in DOMAIN read(storage) : a # b =>
          \E i, k \in DOMAIN storage : i # k /\ storage[i] = read(storage)[a] /\ storage[k] = read(storage)[b]
    <3> HIDE DEF good
    <3> QED
      BY <1>3, <2>1, KeepingKeeps
  <2>3. \A a \in DOMAIN read(storage) : read(storage)[a].whole
    BY <1>3, ReadFacts DEF AllWhole
  <2>4. \A i, k \in DOMAIN storage : storage[i].whole /\ storage[k].whole => i = k
    <3>1. CASE storage = <<>>
      <4>1. DOMAIN <<>> = {}
        OBVIOUS
      <4> QED
        BY <3>1, <4>1
    <3>2. CASE storage = <<unread>>
      <4>1. DOMAIN storage = {1}
        BY <3>2
      <4> QED
        BY <4>1
    <3>3. CASE storage = <<older, kept>>
      <4>1. DOMAIN storage = {1, 2} /\ storage[1] = older /\ storage[2] = kept
        BY <3>3
      <4> QED
        BY <1>41, <4>1
    <3> QED
      BY <1>2, <3>1, <3>2, <3>3
  <2> QED
    BY <2>2, <2>3, <2>4
<1>7. NamesDiffer(read(storage))
  BY <1>6 DEF NamesDiffer
<1>8. TabsInStep
  BY <1>4, <1>7 DEF InitDevice, TabsInStep
<1> QED
  BY <1>5, <1>8 DEF DeviceInv

LEMMA DialogKeeps ==
    ASSUME DeviceInv, NEW t \in Open, NEW text \in Names \cup {Unnamed, Closed}, Dialog(t, text)
    PROVE  DeviceInv'
<1> DEFINE holds == [tab[t] EXCEPT !.dialog = text]
<1>1. tab[t] \in TabRows
  BY DEF DeviceInv, DeviceTyped
<1>2. holds \in TabRows /\ holds.screens = tab[t].screens /\ holds.stars = tab[t].stars
  BY <1>1 DEF TabRows
<1>3. Shown(t, holds) /\ UNCHANGED <<storage, watched, refusing, unheard, told, lastStar, writes>>
  BY DEF Dialog
<1> HIDE DEF holds
<1>4. /\ t \notin unheard => holds.screens = read(storage)
      /\ lastStar = t => watched = holds.stars
  BY <1>2 DEF DeviceInv, TabsInStep
<1> QED
  BY <1>2, <1>3, <1>4, OneTabKeeps DEF DeviceInv, DeviceTyped

LEMMA SaveKeeps ==
    ASSUME DeviceInv, NEW t \in Open, NEW address \in Addresses, commitSave(t, address)
    PROVE  DeviceInv'
<1> DEFINE s == [id |-> writes + 1, name |-> tab[t].dialog, query |-> address, whole |-> TRUE]
           holds == [tab[t] EXCEPT !.screens = Joined(t, address), !.dialog = Closed]
<1>1. tab[t] \in TabRows /\ writes \in Nat
  BY DeviceListsAssumption DEF DeviceInv, DeviceTyped
<1>2. /\ tab[t].dialog # Closed /\ screenNameProblem(tab[t].screens, tab[t].dialog) = NoProblem
      /\ writes < MaxWrites /\ writes' = writes + 1 /\ write(t, Joined(t, address)) /\ Shown(t, holds)
      /\ told' = Promised(t) \cup {writes + 1} /\ UNCHANGED <<watched, refusing, lastStar>>
  BY DEF commitSave
<1>3. tab[t].dialog # Unnamed /\ \A i \in DOMAIN tab[t].screens : Lower(tab[t].screens[i].name) # Lower(tab[t].dialog)
  BY <1>2 DEF screenNameProblem, NoProblem
<1>4. s \in SavedScreens
  <2>1. tab[t].dialog \in Names
    BY <1>1, <1>2, <1>3 DEF TabRows
  <2>2. writes + 1 \in Int
    BY <1>1
  <2>3. address \in Addresses \cup {""}
    OBVIOUS
  <2>4. tab[t].dialog \in Names \cup {Unnamed, "old"}
    BY <2>1
  <2> QED
    BY <2>2, <2>3, <2>4 DEF SavedScreens
<1>5. s.id = writes + 1 /\ s.whole /\ s.name = tab[t].dialog /\ Joined(t, address) = Append(tab[t].screens, s)
  BY DEF Joined
<1>6. tab[t].screens \in Seq(SavedScreens) /\ AllWhole(tab[t].screens) /\ NamesDiffer(tab[t].screens)
  BY <1>1 DEF DeviceInv, TabsInStep, TabRows
<1> HIDE DEF s
<1>7. /\ Joined(t, address) \in Seq(SavedScreens) /\ ids(Joined(t, address)) = ids(tab[t].screens) \cup {writes + 1}
      /\ AllWhole(Joined(t, address)) /\ NamesDiffer(Joined(t, address))
  BY <1>3, <1>4, <1>5, <1>6, JoinedFacts
<1>8. holds \in TabRows /\ holds.screens = Joined(t, address) /\ holds.stars = tab[t].stars
  BY <1>1, <1>7 DEF TabRows
<1> HIDE DEF holds
<1>9. told' \subseteq ids(holds.screens)
  BY <1>2, <1>7, <1>8, PromisedIsHeld
<1>10. writes' \in 0..MaxWrites
  BY <1>1, <1>2, DeviceListsAssumption
<1> QED
  BY <1>2, <1>7, <1>8, <1>9, <1>10, StoredKeeps

LEMMA RemoveKeeps ==
    ASSUME DeviceInv, NEW t \in Open, NEW id, remove(t, id)
    PROVE  DeviceInv'
<1> DEFINE next == Keeping(tab[t].screens, {s \in ToSet(tab[t].screens) : s.id # id})
           holds == [tab[t] EXCEPT !.screens = next]
<1>1. tab[t] \in TabRows /\ writes \in Nat
  BY DeviceListsAssumption DEF DeviceInv, DeviceTyped
<1>2. /\ writes < MaxWrites /\ writes' = writes + 1 /\ write(t, next) /\ Shown(t, holds)
      /\ told' = Promised(t) \ {id} /\ UNCHANGED <<watched, refusing, lastStar>>
  BY DEF remove
<1>3. tab[t].screens \in Seq(SavedScreens) /\ AllWhole(tab[t].screens) /\ NamesDiffer(tab[t].screens)
  BY <1>1 DEF DeviceInv, TabsInStep, TabRows
<1>4. /\ next \in Seq(SavedScreens) /\ ids(next) = ids(tab[t].screens) \ {id}
      /\ AllWhole(next) /\ NamesDiffer(next)
  BY <1>3, RemovedFacts
<1> HIDE DEF next
<1>5. holds \in TabRows /\ holds.screens = next /\ holds.stars = tab[t].stars
  BY <1>1, <1>4 DEF TabRows
<1> HIDE DEF holds
<1>6. told' \subseteq ids(holds.screens)
  BY <1>2, <1>4, <1>5, PromisedIsHeld
<1>7. writes' \in 0..MaxWrites
  BY <1>1, <1>2, DeviceListsAssumption
<1> QED
  BY <1>2, <1>4, <1>5, <1>6, <1>7, StoredKeeps

LEMMA HearKeeps ==
    ASSUME DeviceInv, NEW t \in Open, onStorage(t)
    PROVE  DeviceInv'
<1> DEFINE holds == [tab[t] EXCEPT !.screens = read(storage)]
<1>1. tab[t] \in TabRows /\ read(storage) \in Seq(SavedScreens)
  BY ReadFacts DEF DeviceInv, DeviceTyped
<1>2. holds \in TabRows /\ holds.screens = read(storage) /\ holds.stars = tab[t].stars
  BY <1>1 DEF TabRows
<1>3. /\ Shown(t, holds) /\ unheard' = unheard \ {t}
      /\ UNCHANGED <<storage, watched, refusing, told, lastStar, writes>>
  BY DEF onStorage
<1> HIDE DEF holds
<1>4. lastStar = t => watched = holds.stars
  BY <1>2 DEF DeviceInv, TabsInStep
<1> QED
  BY <1>2, <1>3, <1>4, OneTabKeeps DEF DeviceInv, DeviceTyped

LEMMA StarsKeep ==
    ASSUME DeviceInv, NEW t \in Open, NEW symbols \in Seq(Followed), setWatchlist(t, symbols)
    PROVE  DeviceInv'
<1> DEFINE holds == [tab[t] EXCEPT !.stars = symbols]
<1>1. tab[t] \in TabRows /\ writes \in Nat
  BY DeviceListsAssumption DEF DeviceInv, DeviceTyped
<1>2. holds \in TabRows /\ holds.screens = tab[t].screens /\ holds.stars = symbols
  BY <1>1 DEF TabRows
<1>3. /\ writes < MaxWrites /\ writes' = writes + 1 /\ Shown(t, holds)
      /\ UNCHANGED <<storage, refusing, unheard, told>>
      /\ IF refusing THEN watched' = watched /\ lastStar' = (IF lastStar = t THEN "none" ELSE lastStar)
         ELSE watched' = symbols /\ lastStar' = t
  BY DEF setWatchlist
<1> HIDE DEF holds
<1>4. t # "none" /\ (t \notin unheard => holds.screens = read(storage))
  BY <1>2, DeviceListsAssumption DEF DeviceInv, DeviceTyped, TabsInStep
<1>5. writes' \in 0..MaxWrites
  BY <1>1, <1>3, DeviceListsAssumption
<1>6. /\ watched' \in Seq(Followed) /\ lastStar' \in Open \cup {"none"}
      /\ lastStar' = t => watched' = holds.stars
      /\ lastStar' \in Open \ {t} => watched' = watched /\ lastStar' = lastStar
  <2>1. watched \in Seq(Followed) /\ lastStar \in Open \cup {"none"} /\ "none" \notin Open
    BY DeviceListsAssumption DEF DeviceInv, DeviceTyped
  <2>2. CASE refusing
    <3>1. watched' = watched /\ lastStar' = (IF lastStar = t THEN "none" ELSE lastStar)
      BY <1>3, <2>2
    <3>2. CASE lastStar = t
      BY <1>4, <2>1, <3>1, <3>2
    <3>3. CASE lastStar # t
      BY <2>1, <3>1, <3>3
    <3> QED
      BY <3>2, <3>3
  <2>3. CASE ~refusing
    BY <1>2, <1>3, <2>3
  <2> QED
    BY <2>2, <2>3
<1> QED
  BY <1>2, <1>3, <1>4, <1>5, <1>6, OneTabKeeps

\* The lists a toggle or a clear makes are lists of symbols.
LEMMA ToggleKeeps ==
    ASSUME DeviceInv, NEW t \in Open, NEW symbol \in Followed, toggle(t, symbol)
    PROVE  DeviceInv'
<1> DEFINE kept == Followed \ {symbol}
           next == IF has(t, symbol) THEN Keeping(tab[t].stars, kept) ELSE Append(tab[t].stars, symbol)
<1>1. tab[t].stars \in Seq(Followed)
  BY DEF DeviceInv, DeviceTyped, TabRows
<1>2. next \in Seq(Followed)
  <2> HIDE DEF kept
  <2>1. Keeping(tab[t].stars, kept) \in Seq(Followed)
    BY <1>1, KeepingKeeps
  <2>2. Append(tab[t].stars, symbol) \in Seq(Followed)
    BY <1>1
  <2> QED
    BY <2>1, <2>2
<1>3. setWatchlist(t, next)
  BY DEF toggle
<1> HIDE DEF next
<1> QED
  BY <1>2, <1>3, StarsKeep

LEMMA OpenKeeps ==
    ASSUME DeviceInv, NEW t \in DeviceTabs, OpenTab(t)
    PROVE  DeviceInv'
<1>1. /\ t \notin Open /\ tab' = [u \in Open \cup {t} |-> IF u = t THEN Opened ELSE tab[u]]
      /\ UNCHANGED <<storage, watched, refusing, unheard, told, lastStar, writes>>
  BY DEF OpenTab
<1>2. read(storage) \in Seq(SavedScreens) /\ AllWhole(read(storage)) /\ NamesDiffer(read(storage))
  BY ReadFacts DEF DeviceInv, DeviceTyped, TabsInStep
<1>3. Opened \in TabRows /\ Opened.screens = read(storage)
  BY <1>2 DEF DeviceInv, DeviceTyped, Opened, TabRows
<1>4. Open' = Open \cup {t} /\ tab'[t] = Opened /\ \A u \in Open : tab'[u] = tab[u]
  BY <1>1 DEF Open
<1>5. read(storage)' = read(storage)
  BY <1>1 DEF read, Keeping, ToSet
<1>6. DeviceTyped'
  BY <1>1, <1>3, <1>4 DEF DeviceInv, DeviceTyped
<1>7. ids(read(storage))' = ids(read(storage)) /\ (NamesDiffer(read(storage))' <=> NamesDiffer(read(storage)))
  BY <1>5 DEF ids, NamesDiffer
<1>8. lastStar' \in Open' => watched' = tab'[lastStar'].stars
  BY <1>1, <1>4, DeviceListsAssumption DEF DeviceInv, DeviceTyped, TabsInStep
<1>9. \A u \in Open' : /\ AllWhole(tab'[u].screens) /\ NamesDiffer(tab'[u].screens)
                       /\ u \notin unheard' => tab'[u].screens = read(storage)
  BY <1>1, <1>2, <1>3, <1>4 DEF DeviceInv, TabsInStep
<1>10. TabsInStep'
  BY <1>1, <1>5, <1>7, <1>8, <1>9 DEF DeviceInv, TabsInStep, AllWhole, NamesDiffer
<1> QED
  BY <1>6, <1>10 DEF DeviceInv

LEMMA CloseKeeps ==
    ASSUME DeviceInv, NEW t \in Open, CloseTab(t)
    PROVE  DeviceInv'
<1>1. /\ tab' = [u \in Open \ {t} |-> tab[u]] /\ unheard' = unheard \ {t}
      /\ lastStar' = IF lastStar = t THEN "none" ELSE lastStar
      /\ UNCHANGED <<storage, watched, refusing, told, writes>>
  BY DEF CloseTab
<1>2. Open' = Open \ {t} /\ \A u \in Open' : u \in Open /\ tab'[u] = tab[u]
  BY <1>1 DEF Open
<1>3. read(storage)' = read(storage)
  BY <1>1 DEF read, Keeping, ToSet
<1>4. DeviceTyped'
  BY <1>1, <1>2 DEF DeviceInv, DeviceTyped
<1>5. ids(read(storage))' = ids(read(storage)) /\ (NamesDiffer(read(storage))' <=> NamesDiffer(read(storage)))
  BY <1>3 DEF ids, NamesDiffer
<1>6. lastStar' \in Open' => watched' = tab'[lastStar'].stars
  <2>1. "none" \notin Open
    BY DeviceListsAssumption DEF DeviceInv, DeviceTyped
  <2> QED
    BY <1>1, <1>2, <2>1 DEF DeviceInv, TabsInStep
<1>7. \A u \in Open' : /\ AllWhole(tab'[u].screens) /\ NamesDiffer(tab'[u].screens)
                       /\ u \notin unheard' => tab'[u].screens = read(storage)
  BY <1>1, <1>2 DEF DeviceInv, TabsInStep
<1>8. TabsInStep'
  BY <1>1, <1>3, <1>5, <1>6, <1>7 DEF DeviceInv, TabsInStep, AllWhole, NamesDiffer
<1> QED
  BY <1>4, <1>8 DEF DeviceInv

LEMMA DeviceStep == DeviceInv /\ [NextDevice]_deviceVars => DeviceInv'
<1>1. ASSUME DeviceInv, UNCHANGED deviceVars PROVE DeviceInv'
  BY <1>1, ScreensStay DEF deviceVars, DeviceInv, DeviceTyped
<1>2. ASSUME DeviceInv, NextDevice PROVE DeviceInv'
  <2>1. CASE StorageTurns
    BY <1>2, <2>1, ScreensStay DEF StorageTurns, DeviceInv, DeviceTyped
  <2>2. CASE \E t \in DeviceTabs : OpenTab(t)
    BY <1>2, <2>2, OpenKeeps
  <2>3. CASE \E t \in Open : CloseTab(t)
    BY <1>2, <2>3, CloseKeeps
  <2>4. CASE \E t \in Open : openSave(t) \/ cancelSave(t)
    BY <1>2, <2>4, DialogKeeps DEF openSave, cancelSave
  <2>5. CASE \E t \in Open, name \in Names : typeName(t, name)
    BY <1>2, <2>5, DialogKeeps DEF typeName
  <2>6. CASE \E t \in Open : onStorage(t)
    BY <1>2, <2>6, HearKeeps
  <2>7. CASE \E t \in Open : clear(t)
    <3>1. <<>> \in Seq(Followed)
      OBVIOUS
    <3> QED
      BY <1>2, <2>7, <3>1, StarsKeep DEF clear
  <2>8. CASE \E t \in Open, address \in Addresses : commitSave(t, address)
    BY <1>2, <2>8, SaveKeeps
  <2>9. CASE \E t \in Open : \E id \in ids(tab[t].screens) : remove(t, id)
    BY <1>2, <2>9, RemoveKeeps
  <2>10. CASE \E t \in Open, symbol \in Followed : toggle(t, symbol)
    BY <1>2, <2>10, ToggleKeeps
  <2> QED
    BY <1>2, <2>1, <2>2, <2>3, <2>4, <2>5, <2>6, <2>7, <2>8, <2>9, <2>10 DEF NextDevice
<1> QED
  BY <1>1, <1>2

LEMMA DeviceHolds == DeviceInv => DeviceListsTypeOK /\ TabsAgree
<1> SUFFICES ASSUME DeviceInv PROVE DeviceListsTypeOK /\ TabsAgree
  OBVIOUS
<1>1. \A t \in Open : tab[t].dialog \in Names \cup {Unnamed, Closed} /\ tab[t].stars \in Seq(Followed)
  BY DEF DeviceInv, DeviceTyped, TabRows
<1>2. DeviceListsTypeOK
  BY <1>1 DEF DeviceInv, DeviceTyped, DeviceListsTypeOK
<1>3. ASSUME NEW t \in Open
      PROVE  LET screens == tab[t].screens
             IN /\ t \notin unheard => screens = read(storage)
                /\ \A i, j \in DOMAIN screens :
                      Lower(screens[i].name) = Lower(screens[j].name) => i = j
                /\ \A s \in Followed : s \in Range(Watchlist(t)) => has(t, s)
                /\ Len(tab[t].stars) <= WatchLimit => \A s \in Followed : has(t, s) => s \in Range(Watchlist(t))
  BY WatchlistLists DEF DeviceInv, TabsInStep, NamesDiffer
<1>4. TabsAgree
  BY <1>3 DEF DeviceInv, TabsInStep, TabsAgree
<1> QED
  BY <1>2, <1>4

\* The lists of a device and of its tabs keep their types.
THEOREM DeviceTypes == DeviceSpec => []DeviceListsTypeOK
BY DeviceStarts, DeviceStep, DeviceHolds, PTL DEF DeviceSpec

\* Whatever the tabs starred, saved or deleted and whichever write the storage refused: a tab
\* that was told everything shows the screens that are stored, and no screen a reader was
\* told is saved is lost but to a tab that had not heard of it.
THEOREM TabsStayAgreed == DeviceSpec => []TabsAgree
BY DeviceStarts, DeviceStep, DeviceHolds, PTL DEF DeviceSpec

---------------------------------------------------------------------------
(***************************************************************************)
(* The browser's lists among all that readers are served.                  *)
(***************************************************************************)
\* A behaviour about a device's tabs is one of DeviceLists, and one about the alerts one
\* of AlertDesk; no other becomes one.
LEMMA DeviceRuns ==
    /\ Spec /\ part = "device" => DeviceSpec
    /\ Spec /\ part # "device" => [](part # "device")
<1>1. Init /\ part = "device" => InitDevice
  BY DEF Init
<1>2. part = "device" /\ [Next]_allVars => (part = "device")' /\ [NextDevice]_deviceVars
  BY DEF Next, Only, allVars
<1>3. part # "device" /\ [Next]_allVars => (part # "device")'
  BY DEF Next, Only, allVars
<1> QED
  BY <1>1, <1>2, <1>3, PTL DEF Spec, DeviceSpec

LEMMA AlertsRun ==
    /\ Spec /\ part = "alerts" => AlertDeskSpec
    /\ Spec /\ part # "alerts" => [](part # "alerts")
<1>1. Init /\ part = "alerts" => InitAlertDesk
  BY DEF Init
<1>2. part = "alerts" /\ [Next]_allVars => (part = "alerts")' /\ [NextAlertDesk]_alertDeskVars
  BY DEF Next, Only, allVars
<1>3. part # "alerts" /\ [Next]_allVars => (part # "alerts")'
  BY DEF Next, Only, allVars
<1> QED
  BY <1>1, <1>2, <1>3, PTL DEF Spec, AlertDeskSpec

\* BrowserListsHold, of all that readers are served: the tabs of a device agree on what it
\* stores, and the list of alerts is the server's.
THEOREM BrowserListsStay == Spec => []BrowserListsHold
<1>1. part = "device" \/ part # "device"
  OBVIOUS
<1>2. part = "alerts" \/ part # "alerts"
  OBVIOUS
<1>3. /\ part # "device" \/ TabsAgree
      /\ part # "alerts" \/ ListIsHeld
      => BrowserListsHold
  BY DEF BrowserListsHold
<1>4. Spec => [](part # "device" \/ TabsAgree)
  BY <1>1, DeviceRuns, TabsStayAgreed, PTL
<1>5. Spec => [](part # "alerts" \/ ListIsHeld)
  BY <1>2, AlertsRun, ListStaysHeld, PTL
<1> QED
  BY <1>3, <1>4, <1>5, PTL

---------------------------------------------------------------------------
(***************************************************************************)
(* The return calculator (Roi).                                            *)
(***************************************************************************)
\* The least of a set of numbers.
LEMMA LeastIs ==
    ASSUME NEW S \in SUBSET Nat, S # {}
    PROVE  Min(S) \in S /\ \A y \in S : Min(S) <= y
<1>1. \E x \in S : \A y \in S : x <= y
  BY FirstOf
<1> QED
  BY <1>1 DEF Min

\* A set of numbers below some number has a greatest one.
LEMMA GreatestIs ==
    ASSUME NEW n \in Nat, NEW S \in SUBSET (0..n), S # {}
    PROVE  Max(S) \in S /\ \A y \in S : y <= Max(S)
<1> DEFINE T == {k \in Nat : \A y \in S : y <= k}
<1>1. n \in T
  OBVIOUS
<1>2. PICK k \in T : \A r \in T : k <= r
  <2> HIDE DEF T
  <2>1. T \in SUBSET Nat
    BY DEF T
  <2> QED
    BY <1>1, <2>1, FirstOf
<1>3. k \in S
  <2>1. SUFFICES ASSUME k \notin S PROVE FALSE
    OBVIOUS
  <2>2. \A y \in S : y \in Nat /\ y <= k /\ y # k
    BY <1>2, <2>1
  <2>3. k # 0
    <3>1. PICK y : y \in S
      OBVIOUS
    <3>2. y \in Nat /\ y <= k /\ y # k
      BY <2>2, <3>1
    <3> QED
      BY <1>2, <3>2
  <2>4. k - 1 \in T
    BY <1>2, <2>2, <2>3
  <2> QED
    BY <1>2, <2>4
<1>4. \E x \in S : \A y \in S : x >= y
  BY <1>2, <1>3
<1> QED
  BY <1>4 DEF Max

---------------------------------------------------------------------------
\* Days and months.
LEMMA DayFacts ==
    /\ NoDay \in Nat /\ NoDay > 0 /\ Days = 0..(NoDay - 1)
    /\ MonthLength \in Nat /\ MonthLength > 0
    /\ \A d \in Days : d \in Nat /\ d < NoDay
<1>1. MonthLength \in Nat /\ MonthLength > 0 /\ MonthCount \in Nat /\ MonthCount > 0
  BY RoiAssumption
<1>2. MonthCount * MonthLength \in Nat /\ MonthCount * MonthLength > 0
  BY <1>1
<1> QED
  BY <1>1, <1>2 DEF NoDay, Days

LEMMA AfterIs ==
    ASSUME NEW S \in SUBSET Days, NEW d \in Nat
    PROVE  \/ sessionOnOrAfter(S, d) = NoDay /\ \A e \in S : e < d
           \/ /\ sessionOnOrAfter(S, d) \in S /\ sessionOnOrAfter(S, d) >= d
              /\ \A e \in S : e >= d => sessionOnOrAfter(S, d) <= e
<1> DEFINE T == {e \in S : e >= d}
<1>1. T \in SUBSET Nat
  BY DayFacts
<1>2. sessionOnOrAfter(S, d) = IF T = {} THEN NoDay ELSE Min(T)
  BY DEF sessionOnOrAfter
<1>3. \A e \in S : e \in Nat
  BY DayFacts
<1>4. T = {} => \A e \in S : e < d
  BY <1>3
<1>5. \A e : e \in T <=> e \in S /\ e >= d
  OBVIOUS
<1> HIDE DEF T
<1>6. T # {} => Min(T) \in T /\ \A y \in T : Min(T) <= y
  BY <1>1, LeastIs
<1> QED
  BY <1>2, <1>4, <1>5, <1>6

LEMMA BeforeIs ==
    ASSUME NEW S \in SUBSET Days, NEW d \in Nat
    PROVE  \/ sessionOnOrBefore(S, d) = NoDay /\ \A e \in S : e > d
           \/ /\ sessionOnOrBefore(S, d) \in S /\ sessionOnOrBefore(S, d) <= d
              /\ \A e \in S : e <= d => e <= sessionOnOrBefore(S, d)
<1> DEFINE T == {e \in S : e <= d}
<1>1. T \in SUBSET (0..(NoDay - 1)) /\ NoDay - 1 \in Nat
  <2>1. T \subseteq Days /\ Days = 0..(NoDay - 1)
    BY DayFacts
  <2>2. NoDay - 1 \in Nat
    BY DayFacts
  <2> QED
    BY <2>1, <2>2
<1>2. sessionOnOrBefore(S, d) = IF T = {} THEN NoDay ELSE Max(T)
  BY DEF sessionOnOrBefore
<1>3. \A e \in S : e \in Nat
  BY DayFacts
<1>4. T = {} => \A e \in S : e > d
  BY <1>3
<1>5. \A e : e \in T <=> e \in S /\ e <= d
  OBVIOUS
<1> HIDE DEF T
<1>6. T # {} => Max(T) \in T /\ \A y \in T : y <= Max(T)
  BY <1>1, GreatestIs
<1> QED
  BY <1>2, <1>4, <1>5, <1>6

LEMMA MonthHolds ==
    ASSUME NEW d \in Nat
    PROVE  monthOf(d) \in Nat /\ monthStart(monthOf(d)) <= d /\ d <= endOfMonth(monthOf(d))
<1> DEFINE m == d \div MonthLength
           r == d % MonthLength
<1>1. MonthLength \in Nat /\ MonthLength > 0
  BY DayFacts
<1>2. m \in Nat /\ r \in Nat /\ r < MonthLength /\ d = m * MonthLength + r
  BY <1>1
<1> HIDE DEF m, r
<1>3. m * MonthLength \in Nat
  BY <1>1, <1>2
<1>4. m * MonthLength <= d /\ d <= m * MonthLength + MonthLength - 1
  BY <1>1, <1>2, <1>3
<1> QED
  BY <1>2, <1>4 DEF m, monthOf, monthStart, endOfMonth

LEMMA MonthsFollow ==
    ASSUME NEW m \in Nat, NEW k \in Nat
    PROVE  /\ monthStart(m) \in Nat /\ endOfMonth(m) \in Nat /\ monthStart(m) <= endOfMonth(m)
           /\ endOfMonth(m) = monthStart(m) + MonthLength - 1
           /\ m < k => endOfMonth(m) < monthStart(k)
<1>1. MonthLength \in Nat /\ MonthLength > 0
  BY DayFacts
<1>2. m * MonthLength \in Nat /\ k * MonthLength \in Nat
  BY <1>1
<1>3. ASSUME m < k PROVE m * MonthLength + MonthLength <= k * MonthLength
  <2>1. (m + 1) * MonthLength <= k * MonthLength
    BY <1>1, <1>3
  <2>2. (m + 1) * MonthLength = m * MonthLength + MonthLength
    BY <1>1
  <2> QED
    BY <2>1, <2>2
<1> QED
  BY <1>1, <1>2, <1>3 DEF monthStart, endOfMonth

LEMMA InMonth ==
    ASSUME NEW d \in Nat, NEW m \in Nat, monthStart(m) <= d, d <= endOfMonth(m)
    PROVE  monthOf(d) = m
<1>1. PICK k \in Nat : k = monthOf(d)
  BY MonthHolds
<1>2. monthStart(k) <= d /\ d <= endOfMonth(k)
  BY <1>1, MonthHolds
<1>3. m < k => endOfMonth(m) < monthStart(k)
  BY MonthsFollow
<1>4. k < m => endOfMonth(k) < monthStart(m)
  BY MonthsFollow
<1>5. /\ monthStart(m) \in Nat /\ endOfMonth(m) \in Nat
      /\ monthStart(k) \in Nat /\ endOfMonth(k) \in Nat
  BY MonthsFollow
<1>6. ~(m < k) /\ ~(k < m)
  BY <1>2, <1>3, <1>4, <1>5
<1> QED
  BY <1>1, <1>6

---------------------------------------------------------------------------
\* A lot is paid for out of the cash there is.
LEMMA RoundedWithin ==
    ASSUME NEW gross \in Nat, NEW pct \in 0..100
    PROVE  percentOf(gross, pct) \in Nat /\ percentOf(gross, pct) <= gross
<1>1. gross * pct \in Nat /\ gross * pct <= gross * 100
  BY Z3
<1>2. 2 * gross * pct = 2 * (gross * pct)
  BY Z3
<1>3. PICK x \in Nat : x = gross * pct
  BY <1>1
<1>4. (2 * x + 100) \div 200 \in Nat /\ (x <= gross * 100 => (2 * x + 100) \div 200 <= gross)
  OBVIOUS
<1> QED
  BY <1>1, <1>2, <1>3, <1>4 DEF percentOf

LEMMA LotAddsUp ==
    ASSUME NEW cash \in Nat, NEW price \in Nat, price > 0, asked.fee \in 0..100
    PROVE  LET lot == buyLot(cash, price)
           IN /\ lot.quantity \in Nat /\ lot.invested \in Nat /\ lot.leftover \in Nat
              /\ lot.invested + lot.leftover = cash
<1> DEFINE q == affordable(cash, price)
           gross == q * price
           fees == percentOf(gross, asked.fee) + FlatFee
<1>1. FlatFee \in Nat
  BY RoiAssumption
<1>2. PICK fee \in 0..100 : fee = asked.fee
  OBVIOUS
<1>3. q \in Nat /\ (q # 0 => q * (price * (100 + fee)) <= (cash - FlatFee) * 100)
  <2>1. CASE cash < FlatFee
    BY <2>1 DEF affordable
  <2>2. CASE ~(cash < FlatFee)
    <3>1. PICK a \in Nat : a = (cash - FlatFee) * 100
      BY <1>1, <2>2
    <3>2. PICK b \in Nat : b = price * (100 + fee) /\ b > 0
      <4>1. price * (100 + fee) \in Nat /\ price * (100 + fee) > 0
        OBVIOUS
      <4> QED
        BY <4>1
    <3>3. a \div b \in Nat /\ (a \div b) * b <= a
      BY <3>2
    <3>4. q = a \div b
      BY <1>2, <2>2, <3>1, <3>2 DEF affordable
    <3> QED
      BY <3>1, <3>2, <3>3, <3>4
  <2> QED
    BY <2>1, <2>2
<1>4. buyLot(cash, price) = IF q = 0 THEN [quantity |-> 0, invested |-> 0, leftover |-> cash]
                            ELSE [quantity |-> q, invested |-> gross + fees, leftover |-> cash - gross - fees]
  BY DEF buyLot
<1>5. ASSUME q # 0
      PROVE  gross \in Nat /\ fees \in Nat /\ gross + fees <= cash
  <2> HIDE DEF q
  <2>1. PICK g \in Nat : g = gross
    BY <1>3
  <2>2. PICK x \in Nat : x = g * fee
    OBVIOUS
  <2>3. q * (price * (100 + fee)) = gross * 100 + gross * fee
    BY <1>3
  <2>4. g * 100 + x <= (cash - FlatFee) * 100
    BY <1>3, <1>5, <2>1, <2>2, <2>3
  <2>5. percentOf(gross, asked.fee) = (2 * x + 100) \div 200
    <3>1. 2 * g * fee = 2 * (g * fee)
      OBVIOUS
    <3> QED
      BY <1>2, <2>1, <2>2, <3>1 DEF percentOf
  <2>6. (2 * x + 100) \div 200 \in Nat /\ g + (2 * x + 100) \div 200 + FlatFee <= cash
    BY <1>1, <2>4
  <2> QED
    BY <1>1, <2>1, <2>5, <2>6
<1> HIDE DEF q, fees, gross
<1> QED
  BY <1>3, <1>4, <1>5

\* A request that was not refused, over the history it was asked of.
AskedFits ==
    /\ asked.mode \in {"single", "dca"} /\ asked.start \in Days /\ asked.end = Max(Days)
    /\ asked.day \in 1..MonthLength /\ asked.fee \in 0..100 /\ asked.dividend \in Nat
    /\ \A d \in Days : asked.close[d] \in Nat
    /\ evaluate

lastMonth == monthOf(sellSession)
monthsAsked == monthOf(asked.start)..lastMonth
contributionOf(m) == contribution(m, asked.start, asked.day)
everyMonthTraded == \A m \in monthsAsked : \E d \in dates : monthOf(d) = m
paidIn(m) == {c \in schedule : monthOf(c) = m}

LEMMA SessionsAreDays == dates \subseteq Days /\ IsFiniteSet(dates) /\ \A d \in dates : d \in Nat
<1>1. dates \subseteq Days
  BY DEF dates
<1>2. IsFiniteSet(Days)
  <2>1. NoDay - 1 \in Int /\ Days = 0..(NoDay - 1)
    BY DayFacts
  <2> QED
    BY <2>1, FS_Interval
<1>3. IsFiniteSet(dates)
  BY <1>1, <1>2, FS_Subset
<1> QED
  BY <1>1, <1>3, DayFacts

\* The sale is on the last session there is.
LEMMA SaleIsLast ==
    ASSUME AskedFits
    PROVE  sellSession \in dates /\ \A d \in dates : d <= sellSession
<1>1. asked.end \in Nat /\ \A d \in Days : d <= asked.end
  <2>1. Days \in SUBSET (0..(NoDay - 1)) /\ NoDay - 1 \in Nat /\ Days # {}
    <3>1. Days = 0..(NoDay - 1) /\ NoDay - 1 \in Nat
      BY DayFacts
    <3>2. 0 \in Days
      BY <3>1
    <3> QED
      BY <3>1, <3>2
  <2>2. Max(Days) \in Days /\ \A d \in Days : d <= Max(Days)
    BY <2>1, GreatestIs
  <2> QED
    BY <2>2, DayFacts DEF AskedFits
<1>2. sellSession # NoDay
  BY DEF AskedFits, evaluate
<1>3. dates \in SUBSET Days /\ \A d \in dates : d <= asked.end
  BY <1>1, SessionsAreDays
<1> QED
  BY <1>1, <1>2, <1>3, BeforeIs DEF sellSession

\* A month's contribution is on one of its sessions, if it has one that is not too late.
LEMMA ContributionIs ==
    ASSUME AskedFits, NEW m \in Nat
    PROVE  /\ contributionOf(m) \in dates \cup {NoDay}
           /\ (\E d \in dates : monthOf(d) = m) /\ contributionOf(m) # NoDay
                => contributionOf(m) \in Nat /\ monthOf(contributionOf(m)) = m
           /\ (\E d \in dates : monthOf(d) = m) /\ m < lastMonth => contributionOf(m) # NoDay
<1> DEFINE from == monthStart(m)
           to == endOfMonth(m)
           target == Min({from + asked.day - 1, to})
           x == IF m = monthOf(asked.start) THEN Max({asked.start, target}) ELSE target
           first == sessionOnOrAfter(dates, x)
           back == sessionOnOrBefore(dates, to)
<1>1. from \in Nat /\ to \in Nat /\ from <= to /\ asked.start \in Nat /\ asked.day \in Nat /\ asked.day >= 1
  <2>1. asked.start \in Days /\ asked.day \in 1..MonthLength /\ MonthLength \in Nat
    BY DayFacts DEF AskedFits
  <2>2. asked.start \in Nat
    BY <2>1, DayFacts
  <2>3. asked.day \in Nat /\ asked.day >= 1
    BY <2>1
  <2> QED
    BY <2>2, <2>3, MonthsFollow
<1>2. contributionOf(m) = IF first # NoDay /\ first > to THEN back ELSE first
  BY DEF contributionOf, contribution
<1>3. target \in Nat /\ from <= target /\ target <= to
  <2>1. {from + asked.day - 1, to} \in SUBSET Nat
    BY <1>1
  <2> HIDE DEF from, to
  <2>2. target \in {from + asked.day - 1, to} /\ target <= to
    BY <2>1, LeastIs
  <2> QED
    BY <1>1, <2>2
<1> HIDE DEF target
<1>4. x \in Nat /\ from <= x /\ x <= to
  <2>1. CASE m = monthOf(asked.start)
    <3>1. from <= asked.start /\ asked.start <= to
      BY <1>1, <2>1, MonthHolds
    <3>2. {asked.start, target} \in SUBSET (0..to)
      BY <1>1, <1>3, <3>1
    <3> HIDE DEF from, to
    <3>3. Max({asked.start, target}) \in {asked.start, target}
      BY <1>1, <3>2, GreatestIs
    <3> QED
      BY <1>1, <1>3, <2>1, <3>1, <3>3
  <2>2. CASE m # monthOf(asked.start)
    BY <1>3, <2>2
  <2> QED
    BY <2>1, <2>2
<1> HIDE DEF x, from, to
<1>5. dates \in SUBSET Days /\ \A d \in dates : d \in Nat
  BY SessionsAreDays
<1>6. \/ first = NoDay /\ \A e \in dates : e < x
      \/ first \in dates /\ first >= x /\ \A e \in dates : e >= x => first <= e
  BY <1>4, <1>5, AfterIs
<1>7. \/ back = NoDay /\ \A e \in dates : e > to
      \/ back \in dates /\ back <= to /\ \A e \in dates : e <= to => e <= back
  BY <1>1, <1>5, BeforeIs
<1> HIDE DEF first, back
<1>8. ASSUME NEW d \in dates, monthOf(d) = m, contributionOf(m) # NoDay
      PROVE  contributionOf(m) \in Nat /\ monthOf(contributionOf(m)) = m
  <2>1. from <= d /\ d <= to
    BY <1>5, <1>8, MonthHolds DEF from, to
  <2>2. contributionOf(m) \in Nat /\ from <= contributionOf(m) /\ contributionOf(m) <= to
    <3>1. CASE first # NoDay /\ first > to
      <4>1. contributionOf(m) = back
        BY <1>2, <3>1
      <4>2. back \in dates /\ back <= to /\ d <= back
        BY <1>7, <1>8, <2>1, <4>1
      <4> QED
        BY <1>1, <1>5, <2>1, <4>1, <4>2
    <3>2. CASE ~(first # NoDay /\ first > to)
      <4>1. contributionOf(m) = first
        BY <1>2, <3>2
      <4>2. first \in dates /\ first >= x /\ ~(first > to)
        BY <1>6, <1>8, <3>2, <4>1
      <4> QED
        BY <1>1, <1>4, <1>5, <4>1, <4>2
    <3> QED
      BY <3>1, <3>2
  <2> QED
    BY <2>2, InMonth DEF from, to
<1>9. ASSUME m < lastMonth, NEW d \in dates, monthOf(d) = m PROVE contributionOf(m) # NoDay
  <2>1. sellSession \in dates /\ sellSession \in Nat
    BY <1>5, SaleIsLast
  <2>2. lastMonth \in Nat /\ monthStart(lastMonth) <= sellSession
    BY <2>1, MonthHolds DEF lastMonth
  <2>3. to < monthStart(lastMonth) /\ monthStart(lastMonth) \in Nat
    BY <1>9, <2>2, MonthsFollow DEF to
  <2>4. sellSession > x
    BY <1>1, <1>4, <2>1, <2>2, <2>3
  <2>5. first \in dates /\ first # NoDay
    BY <1>4, <1>5, <1>6, <2>1, <2>4, DayFacts
  <2>6. back = NoDay => d > to
    BY <1>7, <1>9, <1>5, DayFacts
  <2>7. d <= to
    BY <1>5, <1>9, MonthHolds DEF to
  <2>8. back # NoDay
    BY <1>1, <1>5, <2>6, <2>7
  <2> QED
    BY <1>2, <2>5, <2>8
<1>10. contributionOf(m) \in dates \cup {NoDay}
  BY <1>2, <1>6, <1>7
<1> QED
  BY <1>8, <1>9, <1>10

LEMMA ScheduleIs ==
    ASSUME AskedFits
    PROVE  /\ schedule \subseteq dates /\ schedule # {} /\ IsFiniteSet(schedule)
           /\ \A c \in schedule : c <= sellSession
           /\ asked.mode = "dca" =>
                 \A c : c \in schedule <=> c <= sellSession /\ \E m \in monthsAsked : c = contributionOf(m)
<1>1. /\ sellSession \in dates /\ sellSession \in Days /\ dates \in SUBSET Days /\ IsFiniteSet(dates)
      /\ asked.start \in Days /\ asked.start \in Nat
  BY SaleIsLast, SessionsAreDays, DayFacts DEF AskedFits
<1>2. \A d \in Days : d \in Nat /\ d < NoDay /\ NoDay \in Nat
  BY DayFacts
<1>3. monthOf(asked.start) \in Nat
  BY <1>1, MonthHolds
<1>4. CASE asked.mode = "single"
  <2>1. schedule = {sessionOnOrAfter(dates, asked.start)}
    BY <1>4 DEF schedule
  <2>2. sessionOnOrAfter(dates, asked.start) <= sellSession
    BY DEF AskedFits, evaluate
  <2>3. sessionOnOrAfter(dates, asked.start) \in dates \cup {NoDay}
    BY <1>1, AfterIs
  <2>4. sessionOnOrAfter(dates, asked.start) \in dates
    BY <1>1, <1>2, <2>2, <2>3
  <2>5. schedule \subseteq dates /\ schedule # {} /\ \A c \in schedule : c <= sellSession
    BY <2>1, <2>2, <2>4
  <2> QED
    BY <1>1, <1>4, <2>5, FS_Subset
<1>5. CASE asked.mode = "dca"
  <2>1. \A c : c \in schedule <=> c <= sellSession /\ \E m \in monthsAsked : c = contributionOf(m)
    BY <1>5 DEF schedule, dcaSchedule, contributionOf, monthsAsked, lastMonth
  <2>2. ASSUME NEW c \in schedule PROVE c \in dates
    <3>1. PICK m \in monthsAsked : c = contributionOf(m)
      BY <2>1
    <3>2. m \in Nat
      <4>1. lastMonth \in Nat
        BY <1>1, <1>2, MonthHolds DEF lastMonth
      <4> QED
        BY <1>3, <3>1, <4>1 DEF monthsAsked
    <3>3. c \in dates \cup {NoDay} /\ c <= sellSession
      BY <2>1, <3>1, <3>2, ContributionIs
    <3> QED
      BY <1>1, <1>2, <3>3
  <2>3. schedule # {}
    <3>1. Cardinality(schedule) >= 2
      BY <1>5 DEF AskedFits, evaluate
    <3> QED
      BY <3>1, FS_EmptySet
  <2>4. schedule \subseteq dates /\ \A c \in schedule : c <= sellSession
    BY <2>1, <2>2
  <2> QED
    BY <1>1, <2>1, <2>3, <2>4, FS_Subset
<1> QED
  BY <1>4, <1>5 DEF AskedFits

LEMMA FirstBuyIs ==
    ASSUME AskedFits
    PROVE  firstBuy \in schedule /\ firstBuy \in dates /\ firstBuy <= sellSession /\ \A c \in schedule : firstBuy <= c
<1>1. schedule \in SUBSET Nat /\ schedule # {}
  BY ScheduleIs, SessionsAreDays
<1>2. firstBuy \in schedule /\ \A c \in schedule : firstBuy <= c
  BY <1>1, LeastIs DEF firstBuy
<1> QED
  BY <1>2, ScheduleIs

\* A monthly plan has one date in each month before the sale's, and so as many dates.
LEMMA PaysOnce ==
    ASSUME AskedFits, asked.mode = "dca", everyMonthTraded
    PROVE  /\ \A m \in monthsAsked \ {lastMonth} : Cardinality(paidIn(m)) = 1
           /\ Cardinality(paidIn(lastMonth)) <= 1
           /\ Cardinality(schedule) = Cardinality(monthsAsked) - 1 + Cardinality(paidIn(lastMonth))
<1>1. /\ sellSession \in dates /\ sellSession \in Nat /\ asked.start \in Nat /\ asked.start <= sellSession
      /\ \A d \in dates : d \in Nat
  <2>1. sellSession \in dates /\ sellSession \in Nat /\ asked.start \in Nat /\ dates \in SUBSET Days
    BY SaleIsLast, SessionsAreDays, DayFacts DEF AskedFits
  <2>2. sessionOnOrAfter(dates, asked.start) <= sellSession
    BY DEF AskedFits, evaluate
  <2>3. sessionOnOrAfter(dates, asked.start) = NoDay \/ sessionOnOrAfter(dates, asked.start) >= asked.start
    BY <2>1, AfterIs
  <2>4. NoDay \in Nat /\ sellSession < NoDay
    BY <2>1, DayFacts
  <2>5. sessionOnOrAfter(dates, asked.start) \in dates \cup {NoDay}
    BY <2>1, AfterIs
  <2>6. \A d \in dates : d \in Nat
    BY SessionsAreDays
  <2>7. asked.start <= sellSession
    <3>1. PICK x \in Nat : x = sessionOnOrAfter(dates, asked.start)
      BY <2>4, <2>5, <2>6
    <3>2. x <= sellSession /\ (x = NoDay \/ x >= asked.start)
      BY <2>2, <2>3, <3>1
    <3> QED
      BY <2>1, <2>4, <3>1, <3>2
  <2> QED
    BY <2>1, <2>6, <2>7
<1>2. PICK a \in Nat : a = monthOf(asked.start)
  BY <1>1, MonthHolds
<1>3. PICK z \in Nat : z = lastMonth
  BY <1>1, MonthHolds DEF lastMonth
<1>4. a <= z
  <2>1. monthStart(a) <= asked.start /\ sellSession <= endOfMonth(z)
    BY <1>1, <1>2, <1>3, MonthHolds DEF lastMonth
  <2>2. z < a => endOfMonth(z) < monthStart(a)
    BY MonthsFollow
  <2>3. monthStart(a) \in Nat /\ endOfMonth(z) \in Nat
    BY MonthsFollow
  <2> QED
    BY <1>1, <2>1, <2>2, <2>3
<1>5. monthsAsked = a..z /\ IsFiniteSet(monthsAsked) /\ lastMonth \in monthsAsked /\ \A m \in monthsAsked : m \in Nat /\ m <= z
  <2>1. monthsAsked = a..z
    BY <1>2, <1>3 DEF monthsAsked
  <2>2. a \in Int /\ z \in Int
    OBVIOUS
  <2>3. IsFiniteSet(a..z)
    BY <2>2, FS_Interval
  <2>4. \A m \in a..z : m \in Nat /\ m <= z
    OBVIOUS
  <2>5. z \in a..z
    BY <1>4
  <2> QED
    BY <1>3, <2>1, <2>3, <2>4, <2>5
<1>6. /\ IsFiniteSet(schedule) /\ schedule \subseteq dates
      /\ \A c : c \in schedule <=> c <= sellSession /\ \E m \in monthsAsked : c = contributionOf(m)
  BY ScheduleIs
<1>7. ASSUME NEW m \in monthsAsked, contributionOf(m) \in schedule PROVE monthOf(contributionOf(m)) = m
  <2>1. contributionOf(m) # NoDay
    <3>1. contributionOf(m) \in Days
      BY <1>6, <1>7, SessionsAreDays
    <3> QED
      BY <3>1, DayFacts
  <2> QED
    BY <1>5, <2>1, ContributionIs DEF everyMonthTraded
<1>8. ASSUME NEW m \in monthsAsked \ {lastMonth} PROVE contributionOf(m) \in schedule
  <2>1. m \in Nat /\ m < lastMonth
    BY <1>3, <1>5
  <2>2. contributionOf(m) # NoDay
    BY <2>1, ContributionIs DEF everyMonthTraded
  <2>3. contributionOf(m) \in Nat /\ monthOf(contributionOf(m)) = m
    BY <2>1, <2>2, ContributionIs DEF everyMonthTraded
  <2>4. contributionOf(m) <= endOfMonth(m)
    BY <2>3, MonthHolds
  <2>5. monthStart(lastMonth) <= sellSession
    BY <1>1, MonthHolds DEF lastMonth
  <2>6. endOfMonth(m) < monthStart(lastMonth) /\ endOfMonth(m) \in Nat /\ monthStart(lastMonth) \in Nat
    BY <1>3, <2>1, MonthsFollow
  <2>7. contributionOf(m) <= sellSession
    BY <1>1, <2>3, <2>4, <2>5, <2>6
  <2> QED
    BY <1>6, <2>7
<1>9. ASSUME NEW m \in monthsAsked PROVE paidIn(m) \subseteq {contributionOf(m)}
  BY <1>6, <1>7 DEF paidIn
<1>10. ASSUME NEW m \in monthsAsked \ {lastMonth} PROVE Cardinality(paidIn(m)) = 1
  <2>1. paidIn(m) = {contributionOf(m)}
    BY <1>7, <1>8, <1>9 DEF paidIn
  <2> QED
    BY <2>1, FS_Singleton
<1>11. Cardinality(paidIn(lastMonth)) <= 1
  <2>1. IsFiniteSet({contributionOf(lastMonth)}) /\ Cardinality({contributionOf(lastMonth)}) = 1
    BY FS_Singleton
  <2>2. paidIn(lastMonth) \in SUBSET {contributionOf(lastMonth)}
    BY <1>5, <1>9
  <2>3. Cardinality(paidIn(lastMonth)) <= Cardinality({contributionOf(lastMonth)})
    BY <2>1, <2>2, FS_Subset
  <2> QED
    BY <2>1, <2>3
<1> DEFINE before == monthsAsked \ {lastMonth}
           early == {c \in schedule : monthOf(c) # lastMonth}
           late == paidIn(lastMonth)
           g == [m \in before |-> contributionOf(m)]
<1>12. IsFiniteSet(before) /\ Cardinality(before) = Cardinality(monthsAsked) - 1
  BY <1>5, FS_RemoveElement
<1>13. g \in Surjection(before, early) /\ g \in Injection(before, early)
  <2>1. \A m \in before : g[m] = contributionOf(m) /\ monthOf(g[m]) = m /\ g[m] \in early
    <3>1. \A m \in before : monthOf(contributionOf(m)) = m /\ contributionOf(m) \in schedule
      BY <1>7, <1>8
    <3> QED
      BY <3>1
  <2>2. g \in [before -> early]
    BY <2>1
  <2>3. \A m, k \in before : g[m] = g[k] => m = k
    BY <2>1
  <2>4. \A c \in early : \E m \in before : g[m] = c
    <3>1. SUFFICES ASSUME NEW c \in early PROVE \E m \in before : g[m] = c
      OBVIOUS
    <3>2. PICK m \in monthsAsked : c = contributionOf(m)
      BY <1>6
    <3>3. m # lastMonth
      BY <1>7, <3>2
    <3> QED
      BY <3>2, <3>3
  <2> HIDE DEF g, early, before
  <2>5. g \in Surjection(before, early)
    BY <2>2, <2>4 DEF Surjection
  <2>6. g \in Injection(before, early)
    BY <2>2, <2>3 DEF Injection, IsInjective
  <2> QED
    BY <2>5, <2>6
<1>14. Cardinality(early) = Cardinality(before)
  <2> HIDE DEF g, early, before
  <2> QED
    BY <1>12, <1>13, FS_Surjection
<1>15. /\ IsFiniteSet(early) /\ IsFiniteSet(late) /\ early \cap late = {} /\ early \cup late = schedule
  <2>1. early \in SUBSET schedule /\ late \in SUBSET schedule
    BY DEF paidIn
  <2>2. IsFiniteSet(early) /\ IsFiniteSet(late)
    BY <1>6, <2>1, FS_Subset
  <2> QED
    BY <2>2 DEF paidIn
<1>16. Cardinality(schedule) = Cardinality(early) + Cardinality(late)
  <2> HIDE DEF early, late
  <2>1. Cardinality(early \cup late) = Cardinality(early) + Cardinality(late) - Cardinality(early \cap late)
    BY <1>15, FS_Union
  <2>2. Cardinality(early \cap late) = 0
    BY <1>15, FS_EmptySet
  <2>3. Cardinality(early) \in Nat /\ Cardinality(late) \in Nat
    BY <1>15, FS_CardinalityType
  <2> QED
    BY <1>15, <2>1, <2>2, <2>3
<1> QED
  BY <1>10, <1>11, <1>12, <1>14, <1>16

Sheets == [quantity : Nat, paidIn : Nat, invested : Nat, leftover : Nat, dividends : Nat,
           flows : Int, profit : Int, sold : BOOLEAN]

\* The dates paid in on so far.
paidBy(d) == {c \in schedule : c <= d}

\* What was paid in is spent or left; before the sale the flows are the dividends less
\* what was paid in, and as much was paid in as there were dates up to the session.
Adds(m, d) ==
    /\ m \in Sheets
    /\ m.paidIn = m.invested + m.leftover
    /\ m.paidIn = Amount * Cardinality(paidBy(d))

Unsold(m) == m.flows = m.dividends - m.paidIn /\ m.sold = FALSE

RoiInv ==
    /\ AskedFits
    /\ date = NoDay => money = Purse
    /\ date # NoDay => date \in dates /\ firstBuy <= date /\ date <= sellSession /\ Adds(money, date)
    /\ date # NoDay /\ date # sellSession => Unsold(money)
    /\ date = sellSession => money.sold /\ money.profit = money.flows

LEMMA RoiStarts == InitRoi => RoiInv
<1> SUFFICES ASSUME InitRoi PROVE RoiInv
  OBVIOUS
<1>1. PICK close \in [Days -> Closes \cup {0}], start \in Days, fee \in FeePcts,
          on \in {1, MonthLength}, dividend \in {NoDay, MonthLength + 1},
          mode \in {"single", "dca"} :
          asked = [mode |-> mode, start |-> start, end |-> Max(Days), day |-> on,
                   fee |-> fee, dividend |-> dividend, close |-> close]
  BY DEF InitRoi
<1>2. evaluate /\ date = NoDay /\ money = Purse
  BY DEF InitRoi
<1>3. asked.mode \in {"single", "dca"} /\ asked.start \in Days /\ asked.end = Max(Days)
  BY <1>1
<1>4. asked.day \in 1..MonthLength
  BY <1>1, DayFacts
<1>5. asked.fee \in 0..100
  BY <1>1, RoiAssumption
<1>6. asked.dividend \in Nat
  BY <1>1, DayFacts
<1>7. \A d \in Days : asked.close[d] \in Nat
  <2>1. asked.close = close
    BY <1>1
  <2>2. Closes \cup {0} \subseteq Nat
    BY RoiAssumption
  <2> QED
    BY <2>1, <2>2
<1>8. AskedFits
  BY <1>2, <1>3, <1>4, <1>5, <1>6, <1>7 DEF AskedFits
<1>9. date # sellSession
  BY <1>2, <1>8, SaleIsLast, SessionsAreDays, DayFacts
<1> QED
  BY <1>2, <1>8, <1>9 DEF RoiInv

\* A purchase on a session: what it pays in is spent or left.
LEMMA BuyAdds ==
    ASSUME AskedFits, NEW m \in Sheets, NEW d \in dates, Unsold(m), m.paidIn = m.invested + m.leftover
    PROVE  /\ Buy(m, d) \in Sheets /\ Unsold(Buy(m, d))
           /\ Buy(m, d).paidIn = Buy(m, d).invested + Buy(m, d).leftover
           /\ Buy(m, d).paidIn = m.paidIn + (IF d \in schedule THEN Amount ELSE 0)
<1>1. Amount \in Nat
  BY RoiAssumption
<1>2. CASE d \notin schedule
  <2>1. Buy(m, d) = m
    BY <1>2 DEF Buy
  <2>2. m.paidIn \in Nat
    BY DEF Sheets
  <2> QED
    BY <1>2, <2>1, <2>2
<1>3. CASE d \in schedule
  <2> DEFINE lot == buyLot(Amount + m.leftover, asked.close[d])
             b == [m EXCEPT !.quantity = @ + lot.quantity, !.paidIn = @ + Amount,
                            !.invested = @ + lot.invested, !.leftover = lot.leftover,
                            !.flows = @ - Amount]
  <2>1. Buy(m, d) = b
    BY <1>3 DEF Buy
  <2>2. asked.close[d] \in Nat /\ asked.close[d] > 0 /\ asked.fee \in 0..100
    <3>1. d \in Days /\ asked.close[d] # 0
      BY DEF dates
    <3> QED
      BY <3>1 DEF AskedFits
  <2>3. m.leftover \in Nat /\ m.quantity \in Nat /\ m.paidIn \in Nat /\ m.invested \in Nat /\ m.dividends \in Nat /\ m.flows \in Int
    BY DEF Sheets
  <2>4. /\ lot.quantity \in Nat /\ lot.invested \in Nat /\ lot.leftover \in Nat
        /\ lot.invested + lot.leftover = Amount + m.leftover
    BY <1>1, <2>2, <2>3, LotAddsUp
  <2> HIDE DEF lot
  <2>5. /\ b.quantity = m.quantity + lot.quantity /\ b.paidIn = m.paidIn + Amount
        /\ b.invested = m.invested + lot.invested /\ b.leftover = lot.leftover
        /\ b.flows = m.flows - Amount /\ b.dividends = m.dividends /\ b.sold = m.sold
    BY DEF Sheets
  <2>6. b \in Sheets
    <3>1. /\ m.quantity + lot.quantity \in Nat /\ m.paidIn + Amount \in Nat
          /\ m.invested + lot.invested \in Nat /\ m.flows - Amount \in Int
      BY <1>1, <2>3, <2>4
    <3> QED
      BY <2>4, <3>1 DEF Sheets
  <2> HIDE DEF b
  <2>7. Unsold(b)
    <3>1. m.flows = m.dividends - m.paidIn /\ m.sold = FALSE
      BY DEF Unsold
    <3>2. b.flows = b.dividends - b.paidIn /\ b.sold = FALSE
      BY <1>1, <2>3, <2>5, <3>1
    <3> QED
      BY <3>2 DEF Unsold
  <2>8. b.paidIn = b.invested + b.leftover
    <3>1. m.paidIn + Amount = (m.invested + lot.invested) + lot.leftover
      BY <1>1, <2>3, <2>4
    <3> QED
      BY <2>5, <3>1
  <2> QED
    BY <1>3, <2>1, <2>5, <2>6, <2>7, <2>8
<1> QED
  BY <1>2, <1>3

\* A dividend is credited apart.
LEMMA CreditAdds ==
    ASSUME AskedFits, NEW m \in Sheets, NEW since \in Int, NEW d \in Nat, Unsold(m)
    PROVE  /\ Credit(m, since, d) \in Sheets /\ Unsold(Credit(m, since, d))
           /\ Credit(m, since, d).paidIn = m.paidIn
           /\ Credit(m, since, d).invested = m.invested /\ Credit(m, since, d).leftover = m.leftover
<1> DEFINE gross == m.quantity * PerShare
           net == gross - percentOf(gross, TaxPct)
           c == [m EXCEPT !.dividends = @ + net, !.flows = @ + net]
<1>1. /\ m.quantity \in Nat /\ m.dividends \in Nat /\ m.flows \in Int /\ m.paidIn \in Nat
  BY DEF Sheets
<1>2. PerShare \in Nat /\ TaxPct \in 0..100
  BY RoiAssumption
<1>3. gross \in Nat
  BY <1>1, <1>2
<1>4. net \in Nat
  <2> HIDE DEF gross
  <2>1. percentOf(gross, TaxPct) \in Nat /\ percentOf(gross, TaxPct) <= gross
    BY <1>2, <1>3, RoundedWithin
  <2> QED
    BY <1>3, <2>1
<1>5. Credit(m, since, d) = c \/ Credit(m, since, d) = m
  BY DEF Credit
<1> HIDE DEF net
<1>6. /\ c.dividends = m.dividends + net /\ c.flows = m.flows + net /\ c.paidIn = m.paidIn
      /\ c.invested = m.invested /\ c.leftover = m.leftover /\ c.sold = m.sold
  BY DEF Sheets
<1>7. c \in Sheets
  <2>1. m.dividends + net \in Nat /\ m.flows + net \in Int
    BY <1>1, <1>4
  <2> QED
    BY <2>1 DEF Sheets
<1> HIDE DEF c
<1>8. Unsold(c)
  BY <1>1, <1>4, <1>6 DEF Unsold
<1> QED
  BY <1>5, <1>6, <1>7, <1>8

\* The sale: the profit printed is the sum of the flows.
LEMMA SaleAdds ==
    ASSUME AskedFits, NEW m \in Sheets, NEW d \in dates, Unsold(m)
    PROVE  /\ Sell(m, d) \in Sheets /\ Sell(m, d).sold /\ Sell(m, d).profit = Sell(m, d).flows
           /\ Sell(m, d).paidIn = m.paidIn
           /\ Sell(m, d).invested = m.invested /\ Sell(m, d).leftover = m.leftover
<1> DEFINE gross == m.quantity * asked.close[d]
           fees == percentOf(gross, asked.fee) + FlatFee
           gain == gross - fees - m.invested
           tax == IF gain > 0 THEN percentOf(gain, TaxPct) ELSE 0
           net == gross - fees - tax
           s == [m EXCEPT !.sold = TRUE, !.flows = @ + net + m.leftover,
                          !.profit = net + m.leftover + m.dividends - m.paidIn]
<1>1. /\ m.quantity \in Nat /\ m.dividends \in Nat /\ m.flows \in Int /\ m.paidIn \in Nat
      /\ m.leftover \in Nat /\ m.invested \in Nat
  BY DEF Sheets
<1>2. FlatFee \in Nat /\ TaxPct \in 0..100 /\ asked.fee \in 0..100 /\ asked.close[d] \in Nat
  BY RoiAssumption DEF AskedFits, dates
<1>3. gross \in Nat
  BY <1>1, <1>2
<1>4. fees \in Nat
  <2> HIDE DEF gross
  <2>1. percentOf(gross, asked.fee) \in Nat
    BY <1>2, <1>3, RoundedWithin
  <2> QED
    BY <1>2, <2>1
<1>5. gain \in Int
  <2> HIDE DEF gross, fees
  <2> QED
    BY <1>1, <1>3, <1>4
<1>6. tax \in Nat
  <2> HIDE DEF gain
  <2>1. CASE gain > 0
    <3>1. gain \in Nat
      BY <1>5, <2>1
    <3>2. percentOf(gain, TaxPct) \in Nat
      BY <1>2, <3>1, RoundedWithin
    <3> QED
      BY <2>1, <3>2
  <2>2. CASE ~(gain > 0)
    BY <2>2
  <2> QED
    BY <2>1, <2>2
<1>7. net \in Int
  <2> HIDE DEF gross, fees, tax
  <2> QED
    BY <1>3, <1>4, <1>6
<1>8. Sell(m, d) = s
  BY DEF Sell
<1> HIDE DEF net
<1>9. /\ s.flows = m.flows + net + m.leftover /\ s.sold = TRUE /\ s.paidIn = m.paidIn
      /\ s.profit = net + m.leftover + m.dividends - m.paidIn
      /\ s.invested = m.invested /\ s.leftover = m.leftover
  BY DEF Sheets
<1>10. s \in Sheets
  <2>1. m.flows + net + m.leftover \in Int /\ net + m.leftover + m.dividends - m.paidIn \in Int
    BY <1>1, <1>7
  <2> QED
    BY <2>1 DEF Sheets
<1> HIDE DEF s
<1>11. s.profit = s.flows
  BY <1>1, <1>7, <1>9 DEF Unsold
<1> QED
  BY <1>8, <1>9, <1>10, <1>11

\* One session of the window.
LEMMA SessionAdds ==
    ASSUME RoiInv, simulate
    PROVE  RoiInv'
<1> DEFINE d == IF date = NoDay THEN firstBuy ELSE sessionOnOrAfter(dates, date + 1)
           since == IF date = NoDay THEN -1 ELSE date
           added == IF asked.dividend < d THEN Buy(Credit(money, since, d), d)
                    ELSE Credit(Buy(money, d), since, d)
<1>1. AskedFits
  BY DEF RoiInv
<1>2. /\ ~money.sold /\ date' = d /\ asked' = asked
      /\ money' = IF d = sellSession THEN Sell(added, d) ELSE added
  BY DEF simulate
<1>3. sellSession \in dates /\ \A e \in dates : e \in Nat /\ e # NoDay /\ e <= sellSession
  <2>1. \A e \in dates : e \in Days /\ e \in Nat
    BY SessionsAreDays
  <2>2. \A e \in dates : e # NoDay
    BY <2>1, DayFacts
  <2> QED
    BY <1>1, <2>1, <2>2, SaleIsLast
<1>4. date # sellSession /\ (date # NoDay => date \in dates /\ date < sellSession)
  <2>1. date # sellSession
    BY <1>2 DEF RoiInv
  <2> QED
    BY <1>3, <2>1 DEF RoiInv
<1>5. /\ d \in dates /\ firstBuy <= d /\ d <= sellSession /\ d \in Nat
      /\ date # NoDay => d > date /\ \A c \in dates : c > date => d <= c
  <2>1. CASE date = NoDay
    BY <1>1, <1>3, <2>1, FirstBuyIs
  <2>2. CASE date # NoDay
    <3>1. date \in Nat /\ date + 1 \in Nat /\ date < sellSession /\ sellSession \in Nat
      BY <1>3, <1>4, <2>2
    <3>2. dates \in SUBSET Days
      BY SessionsAreDays
    <3>3. \/ d = NoDay /\ \A e \in dates : e < date + 1
          \/ d \in dates /\ d >= date + 1 /\ \A e \in dates : e >= date + 1 => d <= e
      BY <2>2, <3>1, <3>2, AfterIs
    <3> HIDE DEF d
    <3>4. d \in dates /\ d >= date + 1 /\ \A e \in dates : e >= date + 1 => d <= e
      BY <1>3, <3>1, <3>3
    <3>5. firstBuy \in Nat /\ firstBuy <= date
      BY <1>1, <1>3, <2>2, FirstBuyIs DEF RoiInv
    <3>6. d \in Nat /\ d <= sellSession /\ d > date /\ firstBuy <= d
      BY <1>3, <3>1, <3>4, <3>5
    <3>7. \A c \in dates : c > date => d <= c
      <4>1. \A c \in dates : c > date => c >= date + 1
        BY <1>3, <3>1
      <4> QED
        BY <3>4, <4>1
    <3> QED
      BY <3>4, <3>6, <3>7
  <2> QED
    BY <2>1, <2>2
<1> DEFINE before == IF date = NoDay THEN {} ELSE paidBy(date)
<1>6. IsFiniteSet(before) /\ before \subseteq schedule /\ d \notin before
      /\ paidBy(d) = (IF d \in schedule THEN before \cup {d} ELSE before)
  <2> HIDE DEF d
  <2>1. schedule \subseteq dates /\ IsFiniteSet(schedule) /\ \A c \in schedule : c \in Nat
    BY <1>1, <1>3, ScheduleIs
  <2>2. before \subseteq schedule
    BY DEF paidBy
  <2>3. IsFiniteSet(before)
    <3> HIDE DEF before
    <3> QED
      BY <2>1, <2>2, FS_Subset
  <2>4. CASE date = NoDay
    <3>1. d = firstBuy
      BY <2>4 DEF d
    <3>2. d \in schedule /\ \A c \in schedule : d <= c
      BY <1>1, <3>1, FirstBuyIs
    <3>3. \A c \in schedule : c <= d <=> c = d
      BY <1>5, <2>1, <3>2
    <3>4. paidBy(d) = {d}
      BY <3>2, <3>3 DEF paidBy
    <3> QED
      BY <2>2, <2>3, <2>4, <3>2, <3>4
  <2>5. CASE date # NoDay
    <3>1. date \in Nat /\ d > date /\ \A c \in schedule : c > date => d <= c
      BY <1>3, <1>4, <1>5, <2>1, <2>5
    <3>2. \A c \in schedule : c <= d <=> c <= date \/ c = d
      BY <1>5, <2>1, <3>1
    <3>3. ~(d <= date)
      BY <1>5, <3>1
    <3>4. paidBy(d) = {c \in schedule : c <= date \/ c = d}
      BY <3>2 DEF paidBy
    <3>5. before = {c \in schedule : c <= date}
      BY <2>5 DEF paidBy
    <3>6. d \notin before
      BY <3>3, <3>5
    <3>7. paidBy(d) = IF d \in schedule THEN before \cup {d} ELSE before
      BY <3>4, <3>5
    <3> HIDE DEF before
    <3> QED
      BY <2>2, <2>3, <3>6, <3>7
  <2> QED
    BY <2>4, <2>5
<1>7. /\ money \in Sheets /\ Unsold(money) /\ money.paidIn = money.invested + money.leftover
      /\ money.paidIn = Amount * Cardinality(before)
  <2>1. CASE date = NoDay
    <3>1. money = Purse /\ before = {}
      BY <2>1 DEF RoiInv
    <3>2. Cardinality({}) = 0 /\ Amount * 0 = 0
      BY FS_EmptySet, RoiAssumption
    <3>3. Purse \in Sheets /\ Unsold(Purse) /\ Purse.paidIn = Purse.invested + Purse.leftover /\ Purse.paidIn = 0
      BY DEF Purse, Sheets, Unsold
    <3> QED
      BY <3>1, <3>2, <3>3
  <2>2. CASE date # NoDay
    BY <1>4, <2>2 DEF RoiInv, Adds
  <2> QED
    BY <2>1, <2>2
<1>8. since \in Int
  BY <1>3, <1>4
<1> HIDE DEF d, since, before
<1>9. /\ added \in Sheets /\ Unsold(added) /\ added.paidIn = added.invested + added.leftover
      /\ added.paidIn = money.paidIn + (IF d \in schedule THEN Amount ELSE 0)
  <2>1. CASE asked.dividend < d
    <3> DEFINE c == Credit(money, since, d)
    <3>1. c \in Sheets /\ Unsold(c) /\ c.paidIn = money.paidIn /\ c.invested = money.invested /\ c.leftover = money.leftover
      BY <1>1, <1>5, <1>7, <1>8, CreditAdds
    <3>2. added = Buy(c, d)
      BY <2>1
    <3> HIDE DEF c, added
    <3>3. c.paidIn = c.invested + c.leftover
      BY <1>7, <3>1
    <3> QED
      BY <1>1, <1>5, <3>1, <3>2, <3>3, BuyAdds
  <2>2. CASE ~(asked.dividend < d)
    <3> DEFINE b == Buy(money, d)
    <3>1. /\ b \in Sheets /\ Unsold(b) /\ b.paidIn = b.invested + b.leftover
          /\ b.paidIn = money.paidIn + (IF d \in schedule THEN Amount ELSE 0)
      BY <1>1, <1>5, <1>7, BuyAdds
    <3>2. added = Credit(b, since, d)
      BY <2>2
    <3> HIDE DEF b, added
    <3>3. added \in Sheets /\ Unsold(added) /\ added.paidIn = b.paidIn /\ added.invested = b.invested /\ added.leftover = b.leftover
      BY <1>1, <1>5, <1>8, <3>1, <3>2, CreditAdds
    <3> QED
      BY <3>1, <3>3
  <2> QED
    BY <2>1, <2>2
<1> HIDE DEF added
<1>10. added.paidIn = Amount * Cardinality(paidBy(d))
  <2>1. PICK n \in Nat : n = Cardinality(before)
    BY <1>6, FS_CardinalityType
  <2>2. Amount \in Nat
    BY RoiAssumption
  <2>3. CASE d \in schedule
    <3>1. Cardinality(paidBy(d)) = n + 1
      BY <1>6, <2>1, <2>3, FS_AddElement
    <3>2. Amount * (n + 1) = Amount * n + Amount
      BY <2>2
    <3> QED
      BY <1>7, <1>9, <2>1, <2>3, <3>1, <3>2
  <2>4. CASE d \notin schedule
    <3>1. Amount * n + 0 = Amount * n
      BY <2>2
    <3> QED
      BY <1>6, <1>7, <1>9, <2>1, <2>4, <3>1
  <2> QED
    BY <2>3, <2>4
<1>11. AskedFits' /\ dates' = dates /\ sellSession' = sellSession /\ firstBuy' = firstBuy /\ schedule' = schedule
  <2>1. dates' = dates
    BY <1>2 DEF dates
  <2>2. sellSession' = sellSession
    BY <1>2, <2>1 DEF sellSession
  <2>3. schedule' = schedule
    BY <1>2, <2>1, <2>2 DEF schedule, dcaSchedule, contribution
  <2>4. evaluate' <=> evaluate
    BY <1>2, <2>1, <2>2, <2>3 DEF evaluate
  <2>5. AskedFits'
    BY <1>1, <1>2, <2>4 DEF AskedFits
  <2> QED
    BY <2>1, <2>2, <2>3, <2>5 DEF firstBuy
<1>12. date' # NoDay /\ date' \in dates /\ date' = d
  BY <1>2, <1>3, <1>5
<1>13. \A m : Adds(m, d) <=> m \in Sheets /\ m.paidIn = m.invested + m.leftover /\ m.paidIn = Amount * Cardinality(paidBy(d))
  BY DEF Adds
<1>14. CASE d = sellSession
  <2> DEFINE s == Sell(added, d)
  <2>1. /\ s \in Sheets /\ s.sold /\ s.profit = s.flows /\ s.paidIn = added.paidIn
        /\ s.invested = added.invested /\ s.leftover = added.leftover
    BY <1>1, <1>5, <1>9, SaleAdds
  <2>2. money' = s
    BY <1>2, <1>14
  <2> HIDE DEF s
  <2>3. Adds(s, d)
    BY <1>9, <1>10, <1>13, <2>1
  <2>4. PICK e : e = d
    OBVIOUS
  <2>5. paidBy(e)' = paidBy(e)
    BY <1>11 DEF paidBy
  <2>6. Adds(money, date)'
    BY <1>12, <2>2, <2>3, <2>4, <2>5, <1>11 DEF Adds, paidBy
  <2> QED
    BY <1>5, <1>11, <1>12, <1>14, <2>1, <2>2, <2>6 DEF RoiInv
<1>15. CASE d # sellSession
  <2>1. money' = added
    BY <1>2, <1>15
  <2>2. Adds(added, d)
    BY <1>9, <1>10, <1>13
  <2>3. Adds(money, date)'
    BY <1>12, <2>1, <2>2, <1>11 DEF Adds, paidBy
  <2>4. Unsold(money)'
    BY <1>9, <2>1 DEF Unsold
  <2> QED
    BY <1>5, <1>11, <1>12, <1>15, <2>3, <2>4 DEF RoiInv
<1> QED
  BY <1>14, <1>15

LEMMA RoiStep == RoiInv /\ [NextRoi]_roiVars => RoiInv'
<1>1. ASSUME RoiInv, UNCHANGED roiVars PROVE RoiInv'
  <2>1. asked' = asked /\ date' = date /\ money' = money
    BY <1>1 DEF roiVars
  <2>2. dates' = dates
    BY <2>1 DEF dates
  <2>3. sellSession' = sellSession
    BY <2>1, <2>2 DEF sellSession
  <2>4. schedule' = schedule
    BY <2>1, <2>2, <2>3 DEF schedule, dcaSchedule, contribution
  <2>5. AskedFits'
    BY <1>1, <2>1, <2>2, <2>3, <2>4 DEF RoiInv, AskedFits, evaluate
  <2>6. firstBuy' = firstBuy
    BY <2>4 DEF firstBuy
  <2>7. Adds(money, date)' <=> Adds(money, date)
    BY <2>1, <2>4 DEF Adds, paidBy
  <2>8. Unsold(money)' <=> Unsold(money)
    BY <2>1 DEF Unsold
  <2> QED
    BY <1>1, <2>1, <2>2, <2>3, <2>5, <2>6, <2>7, <2>8 DEF RoiInv
<1> QED
  BY <1>1, SessionAdds DEF NextRoi

LEMMA RoiHolds == RoiInv => RoiTypeOK /\ RoiAddsUp
<1> SUFFICES ASSUME RoiInv PROVE RoiTypeOK /\ RoiAddsUp
  OBVIOUS
<1>1. AskedFits
  BY DEF RoiInv
<1>2. money \in Sheets /\ money.paidIn = money.invested + money.leftover
  <2>1. Purse \in Sheets /\ Purse.paidIn = Purse.invested + Purse.leftover
    BY DEF Purse, Sheets
  <2> QED
    BY <2>1 DEF RoiInv, Adds
<1>3. money.quantity \in Nat /\ money.paidIn \in Nat /\ money.invested \in Nat /\ money.leftover \in Nat /\ money.dividends \in Nat
  BY <1>2 DEF Sheets
<1>4. date \in Days \cup {NoDay}
  BY SessionsAreDays DEF RoiInv
<1>5. RoiTypeOK
  BY <1>3, <1>4 DEF RoiTypeOK
<1>6. ASSUME money.sold PROVE date = sellSession /\ date # NoDay
  <2>1. ~Purse.sold
    BY DEF Purse
  <2> QED
    BY <1>6, <2>1 DEF RoiInv, Unsold
<1>7. money.leftover >= 0 /\ (money.sold => money.profit = money.flows)
  BY <1>3, <1>6 DEF RoiInv
<1>8. ASSUME asked.mode = "dca", everyMonthTraded
      PROVE  /\ \A m \in monthsAsked \ {lastMonth} : Cardinality(paidIn(m)) = 1
             /\ Cardinality(paidIn(lastMonth)) <= 1
             /\ money.sold => money.paidIn = Amount * (Cardinality(monthsAsked) - 1 + Cardinality(paidIn(lastMonth)))
  <2>1. ASSUME money.sold PROVE money.paidIn = Amount * Cardinality(schedule)
    <3>1. date = sellSession /\ date # NoDay
      BY <1>6, <2>1
    <3>2. paidBy(date) = schedule
      BY <1>1, <3>1, ScheduleIs DEF paidBy
    <3> QED
      BY <3>1, <3>2 DEF RoiInv, Adds
  <2> QED
    BY <1>1, <1>8, <2>1, PaysOnce
<1>9. paysOnceAMonth
  BY <1>8 DEF paysOnceAMonth, everyMonthTraded, monthsAsked, lastMonth, paidIn
<1> QED
  BY <1>2, <1>5, <1>7, <1>9 DEF RoiAddsUp

\* The figures of a holding are whole paisa.
THEOREM RoiTypes == RoiSpec => []RoiTypeOK
BY RoiStarts, RoiStep, RoiHolds, PTL DEF RoiSpec

\* What the calculator says of a holding adds up to the paisa, whatever was traded, charged
\* and paid out in between: the money put in is what the lots cost and what is left over, a
\* sale's profit is the sum of its flows, and a monthly plan pays in once a month.
THEOREM RoiAlwaysAddsUp == RoiSpec => []RoiAddsUp
BY RoiStarts, RoiStep, RoiHolds, PTL DEF RoiSpec

\* Every symbol's closes are stored by the same days.
CompareInv ==
    /\ closesOf \in [Symbols -> Seq(SharePaisa \cup {0})] /\ lag \in 0..1
    /\ \A s, t \in Symbols : Len(closesOf[s]) = Len(closesOf[t])

LEMMA CompareStarts == InitCompare => CompareInv
<1> SUFFICES ASSUME InitCompare PROVE CompareInv
  OBVIOUS
<1>1. <<>> \in Seq(SharePaisa \cup {0})
  OBVIOUS
<1> QED
  BY <1>1 DEF InitCompare, CompareInv

LEMMA CompareStep == CompareInv /\ [NextCompare]_compareVars => CompareInv'
<1>1. ASSUME CompareInv, UNCHANGED compareVars PROVE CompareInv'
  BY <1>1 DEF compareVars, CompareInv
<1>2. ASSUME CompareInv, StoreDay PROVE CompareInv'
  <2>1. PICK traded \in [Symbols -> SharePaisa \cup {0}] :
          closesOf' = [s \in Symbols |-> Append(closesOf[s], traded[s])]
    BY <1>2 DEF StoreDay
  <2>2. \A s \in Symbols : closesOf[s] \in Seq(SharePaisa \cup {0}) /\ traded[s] \in SharePaisa \cup {0}
    BY <1>2 DEF CompareInv
  <2>3. \A s \in Symbols : /\ closesOf'[s] = Append(closesOf[s], traded[s])
                           /\ closesOf'[s] \in Seq(SharePaisa \cup {0})
                           /\ Len(closesOf'[s]) = Len(closesOf[s]) + 1
    BY <2>1, <2>2
  <2>4. closesOf' \in [Symbols -> Seq(SharePaisa \cup {0})]
    BY <2>1, <2>3
  <2>5. \A s, t \in Symbols : Len(closesOf'[s]) = Len(closesOf'[t])
    BY <1>2, <2>3 DEF CompareInv
  <2> QED
    BY <1>2, <2>4, <2>5 DEF StoreDay, CompareInv
<1> QED
  BY <1>1, <1>2 DEF NextCompare

\* A list of numbers has a bound.
LEMMA ListIsBounded ==
    ASSUME NEW n \in Nat, NEW f \in [1..n -> Nat]
    PROVE  \E b \in Nat : \A i \in 1..n : f[i] <= b
<1> DEFINE bounded(k) == \E b \in Nat : \A i \in 1..k : f[i] <= b
           T == {k \in 0..n : ~bounded(k)}
<1>1. SUFFICES ASSUME T # {} PROVE FALSE
  <2>1. n \in 0..n
    OBVIOUS
  <2> QED
    BY <2>1
<1>2. PICK k \in T : \A r \in T : k <= r
  <2>1. T \in SUBSET Nat
    OBVIOUS
  <2> HIDE DEF T
  <2> QED
    BY <1>1, <2>1, FirstOf
<1>3. bounded(0)
  <2>1. 0 \in Nat /\ 1..0 = {}
    OBVIOUS
  <2> QED
    BY <2>1
<1>4. k \in 1..n /\ k - 1 \in 0..n
  BY <1>2, <1>3
<1>5. PICK b \in Nat : \A i \in 1..(k - 1) : f[i] <= b
  <2>1. k - 1 \notin T
    <3>1. ~(k <= k - 1)
      BY <1>4
    <3> HIDE DEF T
    <3> QED
      BY <1>2, <3>1
  <2> QED
    BY <1>4, <2>1
<1>6. PICK c \in Nat : c >= b /\ c >= f[k]
  <2>1. f[k] \in Nat
    BY <1>4
  <2>2. b + f[k] \in Nat /\ b + f[k] >= b /\ b + f[k] >= f[k]
    BY <2>1
  <2> QED
    BY <2>2
<1>7. \A i \in 1..k : f[i] <= c
  <2>1. SUFFICES ASSUME NEW i \in 1..k PROVE f[i] <= c
    OBVIOUS
  <2>2. f[i] \in Nat
    BY <1>4
  <2>3. CASE i = k
    BY <1>6, <2>3
  <2>4. CASE i # k
    <3>1. i \in 1..(k - 1)
      BY <1>4, <2>4
    <3> QED
      BY <1>5, <1>6, <2>2, <3>1
  <2> QED
    BY <2>3, <2>4
<1> QED
  BY <1>2, <1>7

\* A set of numbers with 0 among them and a bound has a greatest one.
LEMMA GreatestWithZero ==
    ASSUME NEW S \in SUBSET Int, 0 \in S, NEW b \in Nat, \A x \in S : x <= b
    PROVE  Max(S) \in Int /\ \A x \in S : x <= Max(S)
<1> DEFINE T == {x \in S : x >= 0}
<1>1. T \in SUBSET (0..b) /\ T # {}
  <2>1. \A x \in T : x \in 0..b
    OBVIOUS
  <2>2. 0 \in T
    OBVIOUS
  <2> QED
    BY <2>1, <2>2
<1>2. Max(T) \in T /\ \A x \in T : x <= Max(T)
  <2> HIDE DEF T
  <2> QED
    BY <1>1, GreatestIs
<1>3. \A x \in S : x <= Max(T)
  <2>1. Max(T) \in Int /\ Max(T) >= 0
    BY <1>2
  <2>2. \A x \in S : x \in T \/ x < 0
    OBVIOUS
  <2> HIDE DEF T
  <2> QED
    BY <1>2, <2>1, <2>2
<1>4. \E y \in S : \A x \in S : y >= x
  <2>1. Max(T) \in S
    BY <1>2
  <2>2. \A x \in S : Max(T) >= x
    <3> HIDE DEF T
    <3> QED
      BY <1>3, <2>1
  <2> QED
    BY <2>1, <2>2
<1> QED
  BY <1>4 DEF Max

LEMMA ComparedFits == CompareInv => CompareTypeOK /\ ComparedAlike
<1> SUFFICES ASSUME CompareInv PROVE CompareTypeOK /\ ComparedAlike
  OBVIOUS
<1>1. CompareTypeOK
  <2>1. ASSUME NEW s \in Symbols, NEW d \in DOMAIN closesOf[s] PROVE closesOf[s][d] \in SharePaisa \cup {0}
    <3>1. closesOf[s] \in Seq(SharePaisa \cup {0})
      BY DEF CompareInv
    <3> QED
      BY <3>1
  <2> QED
    BY <2>1 DEF CompareInv, CompareTypeOK
<1>2. SUFFICES ASSUME ~refused PROVE ComparedAlike
  BY <1>1 DEF ComparedAlike
<1>3. prepared # {}
  <2>1. ~(Cardinality(prepared) < 2)
    BY <1>2 DEF refused
  <2>2. Cardinality({}) < 2
    BY FS_EmptySet
  <2> QED
    BY <2>1, <2>2
<1>4. PICK one \in prepared : TRUE
  BY <1>3
<1>5. PICK n \in Nat : n = Len(closesOf[one])
  <2>1. closesOf[one] \in Seq(SharePaisa \cup {0})
    BY <1>4 DEF prepared, CompareInv
  <2> QED
    BY <2>1
<1>6. ASSUME NEW s \in Symbols
      PROVE  /\ DOMAIN closesOf[s] = 1..n /\ closesOf[s] \in [1..n -> Nat]
             /\ datesOf(s) \in SUBSET (1..n)
  <2>1. closesOf[s] \in Seq(SharePaisa \cup {0}) /\ Len(closesOf[s]) = n
    BY <1>4, <1>5 DEF CompareInv, prepared
  <2>2. DOMAIN closesOf[s] = 1..n /\ closesOf[s] \in [1..n -> SharePaisa \cup {0}]
    BY <2>1
  <2>3. SharePaisa \cup {0} \subseteq Nat
    BY CompareAssumption
  <2> QED
    BY <2>2, <2>3 DEF datesOf
<1>7. ASSUME NEW s \in prepared
      PROVE  Min(datesOf(s)) \in datesOf(s) /\ Max(datesOf(s)) \in datesOf(s)
  <2>1. datesOf(s) \in SUBSET (0..n) /\ datesOf(s) \in SUBSET Nat /\ datesOf(s) # {}
    BY <1>6 DEF prepared
  <2> QED
    BY <2>1, LeastIs, GreatestIs
<1>8. \A s \in prepared : s \in Symbols
  BY DEF prepared
<1>9. \E s \in prepared : commonStart \in datesOf(s)
  <2> DEFINE M == {Min(datesOf(s)) : s \in prepared}
  <2>1. M \in SUBSET (0..n) /\ M # {}
    BY <1>3, <1>6, <1>7, <1>8
  <2>2. commonStart = Max(M)
    BY DEF commonStart
  <2>3. Max(M) \in M
    <3> HIDE DEF M
    <3> QED
      BY <2>1, GreatestIs
  <2> QED
    BY <1>7, <2>2, <2>3
<1>10. \E s \in prepared : commonEnd \in datesOf(s)
  <2> DEFINE M == {Max(datesOf(s)) : s \in prepared}
  <2>1. M \in SUBSET Nat /\ M # {}
    BY <1>3, <1>6, <1>7, <1>8
  <2>2. commonEnd = Min(M)
    BY DEF commonEnd
  <2>3. Min(M) \in M
    <3> HIDE DEF M
    <3> QED
      BY <2>1, LeastIs
  <2> QED
    BY <1>7, <2>2, <2>3
<1>11. commonStart \in 1..n /\ commonEnd \in 1..n /\ commonStart <= latestSession /\ commonEnd <= latestSession
  BY <1>6, <1>8, <1>9, <1>10 DEF datesOf
<1>12. commonStart < commonEnd
  <2>1. ~(commonStart >= commonEnd)
    BY <1>2 DEF refused
  <2> QED
    BY <1>11, <2>1
<1>13. ASSUME NEW s \in takesPart
       PROVE  /\ s \in Symbols /\ closesOf[s][commonStart] # 0 /\ closesOf[s][commonEnd] # 0
              /\ commonStart \in datesOf(s) /\ commonEnd \in datesOf(s)
  <2>1. s \in Symbols /\ closesOf[s][commonStart] # 0
    BY <1>8 DEF takesPart
  <2>2. closesOf[s][commonEnd] # 0
    BY <1>2, <1>13 DEF refused
  <2> QED
    BY <1>6, <1>11, <2>1, <2>2 DEF datesOf
<1>14. ASSUME NEW s \in takesPart
       PROVE  priceFrom(s, commonStart) = closesOf[s][commonStart]
  <2> DEFINE later == {d \in datesOf(s) : d >= commonStart}
  <2>1. later \in SUBSET Nat /\ commonStart \in later /\ \A d \in later : d >= commonStart
    BY <1>6, <1>11, <1>13
  <2>2. priceFrom(s, commonStart) = closesOf[s][Min(later)]
    BY DEF priceFrom
  <2> HIDE DEF later
  <2>3. Min(later) \in later /\ Min(later) <= commonStart
    BY <2>1, LeastIs
  <2>4. Min(later) = commonStart
    <3>1. PICK x \in Nat : x = Min(later)
      BY <2>1, <2>3
    <3>2. x >= commonStart /\ x <= commonStart
      BY <2>1, <2>3, <3>1
    <3> QED
      BY <1>11, <3>1, <3>2
  <2> QED
    BY <2>2, <2>4
<1>15. ASSUME NEW s \in takesPart
       PROVE  /\ maxDrawdown(s) \in Int
              /\ closesOf[s][commonStart] - closesOf[s][commonEnd] <= maxDrawdown(s)
  <2> DEFINE spans == {q \in datesOf(s) \X datesOf(s) :
                         commonStart <= q[1] /\ q[1] <= q[2] /\ q[2] <= commonEnd}
             falls == {0} \cup {closesOf[s][p[1]] - closesOf[s][p[2]] : p \in spans}
  <2>1. closesOf[s] \in [1..n -> Nat] /\ datesOf(s) \in SUBSET (1..n)
    BY <1>6, <1>13
  <2>2. PICK b \in Nat : \A i \in 1..n : closesOf[s][i] <= b
    BY <2>1, ListIsBounded
  <2>3. ASSUME NEW p \in spans
        PROVE  closesOf[s][p[1]] - closesOf[s][p[2]] \in Int /\ closesOf[s][p[1]] - closesOf[s][p[2]] <= b
    <3>1. p[1] \in 1..n /\ p[2] \in 1..n
      BY <2>1
    <3>2. closesOf[s][p[1]] \in Nat /\ closesOf[s][p[2]] \in Nat /\ closesOf[s][p[1]] <= b
      BY <2>1, <2>2, <3>1
    <3> QED
      BY <3>2
  <2>4. falls \in SUBSET Int /\ 0 \in falls /\ \A x \in falls : x <= b
    <3> HIDE DEF spans
    <3> QED
      BY <2>3
  <2>5. <<commonStart, commonEnd>> \in spans
    BY <1>11, <1>12, <1>13
  <2>6. closesOf[s][commonStart] - closesOf[s][commonEnd] \in falls
    <3>1. <<commonStart, commonEnd>>[1] = commonStart /\ <<commonStart, commonEnd>>[2] = commonEnd
      OBVIOUS
    <3> HIDE DEF spans
    <3> QED
      BY <2>5, <3>1
  <2>7. maxDrawdown(s) = Max(falls)
    BY DEF maxDrawdown
  <2> HIDE DEF falls
  <2> QED
    BY <2>4, <2>6, <2>7, GreatestWithZero
<1>16. ASSUME NEW r \in rows
       PROVE  LET from == closesOf[r.symbol][commonStart]
                  to == closesOf[r.symbol][commonEnd]
              IN /\ from # 0 /\ to # 0
                 /\ r.profit = (Stake \div from) * (to - from)
                 /\ -r.profit <= (Stake \div from) * r.drawdown
  <2>1. PICK s \in takesPart : r = rowOfSymbol(s)
    BY DEF rows
  <2>2. /\ r.symbol = s /\ r.drawdown = maxDrawdown(s)
        /\ r.profit = (Stake \div priceFrom(s, commonStart)) * (closesOf[s][commonEnd] - priceFrom(s, commonStart))
    BY <2>1 DEF rowOfSymbol
  <2>3. PICK from \in Nat : from = closesOf[s][commonStart] /\ from > 0
    <3>1. closesOf[s] \in [1..n -> Nat] /\ closesOf[s][commonStart] # 0
      BY <1>6, <1>13
    <3> QED
      BY <1>11, <3>1
  <2>4. PICK to \in Nat : to = closesOf[s][commonEnd]
    BY <1>6, <1>11, <1>13
  <2>5. PICK fall \in Int : fall = maxDrawdown(s) /\ from - to <= fall
    BY <1>15, <2>3, <2>4
  <2>6. PICK shares \in Nat : shares = Stake \div from
    <3>1. Stake \in Nat
      BY CompareAssumption
    <3> QED
      BY <2>3, <3>1
  <2>7. r.profit = shares * (to - from)
    BY <1>14, <2>2, <2>3, <2>4, <2>6
  <2>8. -(shares * (to - from)) = shares * (from - to)
    OBVIOUS
  <2>9. shares * (from - to) <= shares * fall
    BY <2>5
  <2>10. -r.profit <= shares * r.drawdown
    BY <2>2, <2>5, <2>7, <2>8, <2>9
  <2> QED
    BY <1>13, <2>2, <2>3, <2>4, <2>6, <2>7, <2>10
<1>17. ASSUME NEW s \in Symbols \ {r.symbol : r \in rows}
       PROVE  datesOf(s) = {} \/ closesOf[s][commonStart] = 0
  <2>1. SUFFICES ASSUME s \in takesPart PROVE FALSE
    BY DEF takesPart, prepared
  <2>2. rowOfSymbol(s) \in rows /\ rowOfSymbol(s).symbol = s
    BY <2>1 DEF rows, rowOfSymbol
  <2> QED
    BY <2>2
<1> QED
  BY <1>16, <1>17 DEF ComparedAlike

\* The stored closes of a comparison keep their types.
THEOREM CompareTypes == CompareSpec => []CompareTypeOK
BY CompareStarts, CompareStep, ComparedFits, PTL DEF CompareSpec

\* Whatever histories the compared symbols have, a row of the comparison is one purchase
\* and one sale on the two sessions all rows share (compareRoi).
THEOREM ComparedStayAlike == CompareSpec => []ComparedAlike
BY CompareStarts, CompareStep, ComparedFits, PTL DEF CompareSpec

\* A behaviour about compared purchases is one of Roi's comparison; no other becomes one.
LEMMA CompareRuns ==
    /\ Spec /\ part = "compare" => CompareSpec
    /\ Spec /\ part # "compare" => [](part # "compare")
<1>1. Init /\ part = "compare" => InitCompare
  BY DEF Init
<1>2. part = "compare" /\ [Next]_allVars => (part = "compare")' /\ [NextCompare]_compareVars
  BY DEF Next, Only, allVars
<1>3. part # "compare" /\ [Next]_allVars => (part # "compare")'
  BY DEF Next, Only, allVars
<1> QED
  BY <1>1, <1>2, <1>3, PTL DEF Spec, CompareSpec

\* PurchasesAreAlike, of all that readers are served: what is compared is one purchase and
\* one sale on the same two sessions.
THEOREM PurchasesStayAlike == Spec => []PurchasesAreAlike
<1>1. part = "compare" \/ part # "compare"
  OBVIOUS
<1>2. (part # "compare" \/ ComparedAlike) => PurchasesAreAlike
  BY DEF PurchasesAreAlike
<1> QED
  BY <1>1, <1>2, CompareRuns, ComparedStayAlike, PTL

---------------------------------------------------------------------------
(***************************************************************************)
(* The performance card (Performance).                                     *)
(***************************************************************************)
\* A power of two is doubled by the next: so many subsets has a set with one more member.
LEMMA PowersDouble ==
    ASSUME NEW n \in Nat PROVE 2^n \in Nat /\ 2^(n + 1) = 2 * 2^n
<1> DEFINE S == 1..n
           x == n + 1
           without == SUBSET S
           with == {T \cup {x} : T \in without}
           f == [T \in without |-> T \cup {x}]
<1>1. IsFiniteSet(S) /\ Cardinality(S) = n
  <2>1. 1 \in Int /\ n \in Int /\ (IF 1 > n THEN 0 ELSE n - 1 + 1) = n
    OBVIOUS
  <2> QED
    BY <2>1, FS_Interval
<1>2. x \notin S
  OBVIOUS
<1> HIDE DEF S, x
<1>3. IsFiniteSet(without) /\ Cardinality(without) = 2^n
  BY <1>1, FS_SUBSET
<1>4. IsFiniteSet(S \cup {x}) /\ Cardinality(S \cup {x}) = n + 1
  BY <1>1, <1>2, FS_AddElement
<1>5. IsFiniteSet(SUBSET (S \cup {x})) /\ Cardinality(SUBSET (S \cup {x})) = 2^(n + 1)
  BY <1>4, FS_SUBSET
<1>6. SUBSET (S \cup {x}) = without \cup with
  <2>1. ASSUME NEW T \in SUBSET (S \cup {x}) PROVE T \in without \cup with
    <3>1. CASE x \in T
      <4>1. T \ {x} \in without /\ T = (T \ {x}) \cup {x}
        BY <3>1
      <4> QED
        BY <4>1
    <3>2. CASE x \notin T
      BY <3>2
    <3> QED
      BY <3>1, <3>2
  <2> QED
    BY <2>1
<1>7. without \cap with = {}
  BY <1>2
<1>8. f \in Surjection(without, with) /\ f \in Injection(without, with)
  <2>1. \A T \in without : f[T] = T \cup {x} /\ f[T] \in with
    OBVIOUS
  <2>2. \A T, U \in without : f[T] = f[U] => T = U
    <3>1. \A T, U \in without : T \cup {x} = U \cup {x} => T = U
      BY <1>2
    <3> QED
      BY <2>1, <3>1
  <2>3. \A W \in with : \E T \in without : f[T] = W
    OBVIOUS
  <2>4. f \in [without -> with]
    BY <2>1
  <2> HIDE DEF f, with, without
  <2>5. f \in Surjection(without, with)
    BY <2>3, <2>4 DEF Surjection
  <2>6. f \in Injection(without, with)
    BY <2>2, <2>4 DEF Injection, IsInjective
  <2> QED
    BY <2>5, <2>6
<1> HIDE DEF f, with, without
<1>9. IsFiniteSet(with) /\ Cardinality(with) = Cardinality(without)
  BY <1>3, <1>8, FS_Surjection
<1>10. Cardinality(without \cup with) = Cardinality(without) + Cardinality(with) - Cardinality(without \cap with)
  BY <1>3, <1>9, FS_Union
<1>11. Cardinality(without \cap with) = 0
  BY <1>7, FS_EmptySet
<1>12. PICK k \in Nat : k = Cardinality(without)
  BY <1>3, FS_CardinalityType
<1>13. Cardinality(SUBSET (S \cup {x})) = k + k
  <2>1. Cardinality(SUBSET (S \cup {x})) = Cardinality(without \cup with)
    BY <1>6, Zenon
  <2>2. Cardinality(with) = k
    BY <1>9, <1>12
  <2>3. k + k - 0 = k + k
    OBVIOUS
  <2> QED
    BY <1>10, <1>11, <1>12, <2>1, <2>2, <2>3
<1>14. 2^n = k /\ 2^(n + 1) = k + k
  BY <1>3, <1>5, <1>12, <1>13
<1>15. k + k = 2 * k
  OBVIOUS
<1> QED
  BY <1>14, <1>15

\* What is left of a set of days after one of them, and after the one before.
After(S, c) == {e \in S : e > c}

LEMMA DaysAfter ==
    ASSUME NEW n \in Nat, NEW S \in SUBSET (0..n), NEW c \in Int
    PROVE  /\ IsFiniteSet(S) /\ Cardinality(S) \in Nat
           /\ Cardinality(After(S, c)) \in 0..Cardinality(S)
           /\ Cardinality(After(S, c - 1)) = Cardinality(After(S, c)) + (IF c \in S THEN 1 ELSE 0)
<1> DEFINE after == {e \in S : e > c}
           sooner == {e \in S : e > c - 1}
<1>1. IsFiniteSet(S)
  <2>1. IsFiniteSet(0..n)
    BY FS_Interval
  <2> QED
    BY <2>1, FS_Subset
<1>2. Cardinality(S) \in Nat
  BY <1>1, FS_CardinalityType
<1>3. IsFiniteSet(after) /\ Cardinality(after) <= Cardinality(S)
  <2>1. after \in SUBSET S
    OBVIOUS
  <2> HIDE DEF after
  <2> QED
    BY <1>1, <2>1, FS_Subset
<1>4. Cardinality(after) \in Nat
  BY <1>3, FS_CardinalityType
<1>5. sooner = IF c \in S THEN after \cup {c} ELSE after
  <2>1. \A e \in S : e > c - 1 <=> e > c \/ e = c
    OBVIOUS
  <2> QED
    BY <2>1
<1>6. c \notin after
  OBVIOUS
<1>7. after = After(S, c) /\ sooner = After(S, c - 1)
  BY DEF After
<1> HIDE DEF after, sooner, After
<1>8. Cardinality(after \cup {c}) = Cardinality(after) + 1
  BY <1>3, <1>6, FS_AddElement
<1>9. Cardinality(sooner) = Cardinality(after) + (IF c \in S THEN 1 ELSE 0)
  <2>1. CASE c \in S
    BY <1>5, <1>8, <2>1
  <2>2. CASE c \notin S
    BY <1>4, <1>5, <2>2
  <2> QED
    BY <2>1, <2>2
<1> QED
  BY <1>1, <1>2, <1>3, <1>4, <1>7, <1>9

\* A set with more days than a number has a day with that many after it.
LEMMA DayFromTheEnd ==
    ASSUME NEW n \in Nat, NEW S \in SUBSET (0..n), NEW k \in Nat, Cardinality(S) > k
    PROVE  \E d \in S : Cardinality({e \in S : e > d}) = k
<1> DEFINE later(c) == Cardinality(After(S, c))
           T == {c \in 0..n : later(c) <= k}
<1>1. \A c \in 0..n : c \in Int
  OBVIOUS
<1>2. \A c \in 0..n : later(c) \in Nat /\ later(c - 1) = later(c) + (IF c \in S THEN 1 ELSE 0)
  <2>1. SUFFICES ASSUME NEW c \in 0..n
                 PROVE  later(c) \in Nat /\ later(c - 1) = later(c) + (IF c \in S THEN 1 ELSE 0)
    OBVIOUS
  <2>2. /\ Cardinality(S) \in Nat /\ Cardinality(After(S, c)) \in 0..Cardinality(S)
        /\ Cardinality(After(S, c - 1)) = Cardinality(After(S, c)) + (IF c \in S THEN 1 ELSE 0)
    BY <1>1, DaysAfter
  <2> QED
    BY <2>2
<1>3. later(-1) = Cardinality(S)
  <2>1. After(S, -1) = S
    <3>1. \A e \in S : e > -1
      OBVIOUS
    <3> QED
      BY <3>1 DEF After
  <2> QED
    BY <2>1
<1>4. later(n) = 0
  <2>1. After(S, n) = {}
    <3>1. \A e \in S : ~(e > n)
      OBVIOUS
    <3> QED
      BY <3>1 DEF After
  <2> QED
    BY <2>1, FS_EmptySet
<1> HIDE DEF later
<1>5. n \in T
  BY <1>4
<1>6. PICK c \in T : \A r \in T : c <= r
  <2>1. T \in SUBSET Nat /\ T # {}
    BY <1>5
  <2> HIDE DEF T
  <2> QED
    BY <2>1, FirstOf
<1>7. c \in 0..n /\ later(c) <= k
  BY <1>6
<1>8. later(c - 1) > k
  <2>1. CASE c = 0
    <3>1. c - 1 = -1
      BY <2>1
    <3> QED
      BY <1>3, <3>1
  <2>2. CASE c # 0
    <3>1. c - 1 \in 0..n /\ ~(c <= c - 1)
      BY <1>7, <2>2
    <3>2. c - 1 \notin T
      <4> HIDE DEF T
      <4> QED
        BY <1>6, <3>1
    <3>3. later(c - 1) \in Nat
      BY <1>2, <3>1
    <3> QED
      BY <3>1, <3>2, <3>3
  <2> QED
    BY <2>1, <2>2
<1>9. c \in S /\ later(c) = k
  <2>1. later(c) \in Nat /\ later(c - 1) = later(c) + (IF c \in S THEN 1 ELSE 0)
    BY <1>2, <1>7
  <2> QED
    BY <1>7, <1>8, <2>1
<1> QED
  BY <1>9 DEF later, After

\* What is stored is a window of days with more sessions than the window asks back.
CardFits == stored \in Stored /\ Cardinality(recentSessions) > stored.back

LEMMA WindowIs ==
    ASSUME CardFits
    PROVE  /\ windowStart \in recentSessions /\ windowEnd \in recentSessions /\ windowStart <= windowEnd
           /\ windowStart \in 0..FinalDay /\ windowEnd \in 0..FinalDay
<1>1. FinalDay \in Nat /\ recentSessions \in SUBSET (0..FinalDay) /\ stored.back \in Nat
  BY PerformanceAssumption DEF CardFits, Stored, recentSessions, Calendar
<1>2. \E d \in recentSessions : Cardinality({e \in recentSessions : e > d}) = stored.back
  BY <1>1, DayFromTheEnd DEF CardFits
<1>3. windowStart \in recentSessions
  BY <1>2 DEF windowStart
<1>4. windowEnd \in recentSessions /\ \A d \in recentSessions : d <= windowEnd
  BY <1>1, <1>3, GreatestIs DEF windowEnd
<1> QED
  BY <1>1, <1>3, <1>4

LEMMA FactorIs ==
    ASSUME CardFits, NEW d \in 0..FinalDay
    PROVE  /\ factor(d) \in Nat
           /\ d - 1 \in 0..FinalDay => factor(d) = (IF d \in stored.splits THEN 2 * factor(d - 1) ELSE factor(d - 1))
<1>0. FinalDay \in Nat /\ stored.splits \in SUBSET (0..FinalDay)
  BY PerformanceAssumption DEF CardFits, Stored, Calendar
<1>1. PICK S \in SUBSET (0..FinalDay) : S = stored.splits
  BY <1>0
<1>a. Cardinality(S) \in Nat
  BY <1>0, DaysAfter
<1>b. \A c : Halvings(c) = Cardinality(After(S, c))
  BY <1>1 DEF Halvings, After
<1>2. PICK n \in Nat : n = Cardinality(stored.splits)
  BY <1>1, <1>a
<1>3. \A c \in 0..FinalDay : Halvings(c) \in 0..n
  <2>1. SUFFICES ASSUME NEW c \in 0..FinalDay PROVE Halvings(c) \in 0..n
    OBVIOUS
  <2>0. c \in Int
    OBVIOUS
  <2>2. Cardinality(After(S, c)) \in 0..Cardinality(S)
    BY <1>0, <2>0, DaysAfter
  <2> QED
    BY <1>1, <1>2, <1>b, <2>2
<1>4. PICK h \in 0..n : h = Halvings(d)
  BY <1>3
<1>5. factor(d) = 2^(n - h) /\ n - h \in Nat
  BY <1>2, <1>4 DEF factor
<1>6. factor(d) \in Nat
  BY <1>5, PowersDouble
<1>7. ASSUME d - 1 \in 0..FinalDay
      PROVE  factor(d) = (IF d \in stored.splits THEN 2 * factor(d - 1) ELSE factor(d - 1))
  <2>0. d \in Int
    OBVIOUS
  <2>1. Halvings(d - 1) = h + (IF d \in stored.splits THEN 1 ELSE 0)
    <3>1. Cardinality(After(S, d - 1)) = Cardinality(After(S, d)) + (IF d \in S THEN 1 ELSE 0)
      BY <1>0, <2>0, DaysAfter
    <3> QED
      BY <1>1, <1>4, <1>b, <3>1
  <2>2. factor(d - 1) = 2^(n - Halvings(d - 1)) /\ Halvings(d - 1) \in 0..n
    BY <1>2, <1>3, <1>7 DEF factor
  <2>3. CASE d \in stored.splits
    <3>1. PICK k \in Nat : k = n - Halvings(d - 1)
      BY <2>2
    <3>2. n - h = k + 1
      BY <2>1, <2>3, <3>1
    <3>3. 2^(k + 1) = 2 * 2^k
      BY PowersDouble
    <3> QED
      BY <1>5, <2>2, <2>3, <3>1, <3>2, <3>3
  <2>4. CASE d \notin stored.splits
    <3>1. Halvings(d - 1) = h
      BY <2>1, <2>4
    <3> QED
      BY <1>5, <2>2, <2>4, <3>1
  <2> QED
    BY <2>3, <2>4
<1> QED
  BY <1>6, <1>7

\* From the first session of the window on, the shares held are those the splits made of
\* one, and the cash is that of a dividend gone ex since.
HeldOn(d, h) ==
    /\ d \in (-1)..windowEnd
    /\ d < windowStart => h = NoHolder
    /\ d >= windowStart =>
          /\ h.shares \in Nat /\ h.cash \in Nat
          /\ factor(d) = factor(windowStart) * h.shares
          /\ factor(windowStart) * h.cash =
                IF stored.exDate > windowStart /\ stored.exDate <= d THEN Cash * factor(stored.exDate) ELSE 0

CardInv == CardFits /\ HeldOn(day, holder)

LEMMA SharesAndCash ==
    ASSUME NEW F \in Nat, NEW s \in Nat, NEW c \in Nat, NEW p \in Nat
    PROVE  F * (2 * s) = 2 * (F * s) /\ F * (c + p * s) = F * c + p * (F * s)
OBVIOUS

LEMMA CardDay ==
    ASSUME CardInv, day < windowEnd, NEW e, e = day + 1
    PROVE  HeldOn(e, Hold(e))
<1> DEFINE split == e \in stored.splits
<1>1. /\ FinalDay \in Nat /\ Cash \in Nat /\ stored.exDate \in Int
      /\ windowStart \in 0..FinalDay /\ windowEnd \in 0..FinalDay
      /\ day \in (-1)..windowEnd
  BY PerformanceAssumption, WindowIs DEF CardInv, CardFits, Stored, Calendar, HeldOn
<1>2. day \in Int /\ e \in Int /\ e \in (-1)..windowEnd
  BY <1>1
<1>3. CASE e < windowStart
  <2>1. holder = NoHolder
    BY <1>1, <1>3 DEF CardInv, HeldOn
  <2>2. holder.shares = 0 /\ holder.cash = 0
    BY <2>1 DEF NoHolder
  <2>3. \A p \in Nat : p * 0 = 0 /\ 0 + 0 = 0
    OBVIOUS
  <2>4. Hold(e) = NoHolder
    BY <1>1, <1>3, <2>2, <2>3 DEF Hold, NoHolder
  <2> QED
    BY <1>1, <1>2, <1>3, <2>4 DEF HeldOn
<1>4. CASE e = windowStart
  <2>1. Hold(e).shares = 1 /\ Hold(e).cash = 0
    BY <1>4 DEF Hold
  <2>2. factor(windowStart) \in Nat
    BY <1>1, FactorIs DEF CardInv
  <2>3. factor(windowStart) = factor(windowStart) * 1 /\ factor(windowStart) * 0 = 0
    BY <2>2
  <2> QED
    BY <1>1, <1>2, <1>4, <2>1, <2>3 DEF HeldOn
<1>5. CASE e > windowStart
  <2>1. day >= windowStart /\ day \in 0..FinalDay /\ e \in 0..FinalDay /\ e - 1 = day
    BY <1>1, <1>2, <1>5
  <2>2. PICK F \in Nat : F = factor(windowStart)
    BY <1>1, FactorIs DEF CardInv
  <2>3. PICK s \in Nat, c \in Nat : s = holder.shares /\ c = holder.cash
    BY <1>1, <2>1 DEF CardInv, HeldOn
  <2>4. /\ factor(day) = F * s
        /\ F * c = IF stored.exDate > windowStart /\ stored.exDate <= day
                   THEN Cash * factor(stored.exDate) ELSE 0
    BY <1>1, <2>1, <2>2, <2>3 DEF CardInv, HeldOn
  <2>5. PICK t \in Nat : t = IF split THEN 2 * s ELSE s
    BY <2>3
  <2>6. factor(e) = IF split THEN 2 * factor(day) ELSE factor(day)
    <3>1. e \in 0..FinalDay => (e - 1 \in 0..FinalDay =>
             factor(e) = (IF e \in stored.splits THEN 2 * factor(e - 1) ELSE factor(e - 1)))
      <4> QED
        BY FactorIs DEF CardInv
    <3> QED
      BY <2>1, <3>1
  <2>7. factor(e) = F * t
    <3>1. CASE split
      <4>1. t = 2 * s /\ factor(e) = 2 * (F * s)
        BY <2>4, <2>5, <2>6, <3>1
      <4>2. F * (2 * s) = 2 * (F * s)
        BY SharesAndCash
      <4> QED
        BY <4>1, <4>2
    <3>2. CASE ~split
      BY <2>4, <2>5, <2>6, <3>2
    <3> QED
      BY <3>1, <3>2
  <2>8. /\ Hold(e).shares = t
        /\ Hold(e).cash = c + (IF e = stored.exDate THEN Cash * t ELSE 0)
    BY <1>1, <1>5, <2>3, <2>5 DEF Hold
  <2>9. PICK g \in Nat : g = IF e = stored.exDate THEN Cash * t ELSE 0
    BY <1>1
  <2>10. c + g \in Nat
    OBVIOUS
  <2>11. F * (c + g) = IF stored.exDate > windowStart /\ stored.exDate <= e
                       THEN Cash * factor(stored.exDate) ELSE 0
    <3>1. CASE e = stored.exDate
      <4>1. F * c = 0 /\ g = Cash * t
        BY <1>1, <2>1, <2>4, <2>9, <3>1
      <4>2. F * (c + Cash * t) = F * c + Cash * (F * t)
        BY <1>1, SharesAndCash
      <4>3. F * (c + g) = Cash * factor(e)
        <5>1. Cash * (F * t) \in Nat
          BY <1>1
        <5> QED
          BY <2>7, <4>1, <4>2, <5>1
      <4>4. stored.exDate > windowStart /\ stored.exDate <= e
        BY <1>1, <1>2, <1>5, <3>1
      <4> QED
        BY <3>1, <4>3, <4>4
    <3>2. CASE e # stored.exDate
      <4>1. g = 0 /\ c + g = c
        BY <2>9, <3>2
      <4>2. stored.exDate <= e <=> stored.exDate <= day
        BY <1>1, <1>2, <3>2
      <4> QED
        BY <2>4, <4>1, <4>2
    <3> QED
      BY <3>1, <3>2
  <2>12. Hold(e).cash = c + g
    BY <2>8, <2>9
  <2> QED
    BY <1>1, <1>2, <1>5, <2>2, <2>7, <2>8, <2>10, <2>11, <2>12 DEF HeldOn
<1> QED
  BY <1>1, <1>2, <1>3, <1>4, <1>5

LEMMA CardStays ==
    ASSUME stored' = stored
    PROVE  \A d, h : HeldOn(d, h)' <=> HeldOn(d, h)
<1>1. windowStart' = windowStart /\ windowEnd' = windowEnd
  BY DEF windowStart, windowEnd, recentSessions
<1>2. \A d : factor(d)' = factor(d)
  BY DEF factor, Halvings
<1>3. PICK F : F = factor(windowStart)
  OBVIOUS
<1>4. factor(windowStart)' = factor(windowStart)
  <2>1. PICK w : w = windowStart
    OBVIOUS
  <2> QED
    BY <1>1, <1>2, <2>1
<1>5. factor(stored.exDate)' = factor(stored.exDate)
  <2>1. PICK w : w = stored.exDate
    OBVIOUS
  <2> QED
    BY <1>2, <2>1
<1> QED
  BY <1>1, <1>2, <1>4, <1>5 DEF HeldOn

LEMMA CardStep == CardInv /\ [NextPerformance]_performanceVars => CardInv'
<1> SUFFICES ASSUME CardInv, [NextPerformance]_performanceVars PROVE CardInv'
  OBVIOUS
<1>1. stored' = stored
  BY DEF NextPerformance, Walk, performanceVars
<1>2. CardFits'
  BY <1>1 DEF CardInv, CardFits, Stored, recentSessions
<1>3. HeldOn(day', holder')
  <2>1. CASE Walk
    <3>1. day < windowEnd /\ day' = day + 1 /\ holder' = Hold(day + 1)
      BY <2>1 DEF Walk
    <3> QED
      BY <3>1, CardDay
  <2>2. CASE UNCHANGED performanceVars
    BY <2>2 DEF performanceVars, CardInv
  <2> QED
    BY <2>1, <2>2 DEF NextPerformance
<1>4. PICK d, h : d = day' /\ h = holder'
  OBVIOUS
<1>5. HeldOn(day, holder)'
  <2>1. HeldOn(d, h)'
    BY <1>1, <1>3, <1>4, CardStays
  <2> QED
    BY <1>4, <2>1 DEF HeldOn
<1> QED
  BY <1>2, <1>5 DEF CardInv

LEMMA CardStarts == InitPerformance => CardInv
<1> SUFFICES ASSUME InitPerformance PROVE CardInv
  OBVIOUS
<1>1. CardFits
  BY DEF InitPerformance, CardFits
<1>2. HeldOn(day, holder)
  BY <1>1, WindowIs DEF InitPerformance, HeldOn
<1> QED
  BY <1>1, <1>2 DEF CardInv

LEMMA CardIsRight == CardInv => PerformanceTypeOK /\ ReturnIsTheHolders
<1> SUFFICES ASSUME CardInv PROVE PerformanceTypeOK /\ ReturnIsTheHolders
  OBVIOUS
<1>1. /\ FinalDay \in Nat /\ Cash \in Nat /\ stored.exDate \in 0..FinalDay
      /\ windowStart \in 0..FinalDay /\ windowEnd \in 0..FinalDay /\ windowStart <= windowEnd
      /\ day \in (-1)..windowEnd
  BY PerformanceAssumption, WindowIs DEF CardInv, CardFits, Stored, Calendar, HeldOn
<1>2. PerformanceTypeOK
  <2>1. holder.shares \in Nat /\ holder.cash \in Nat
    BY <1>1 DEF CardInv, HeldOn, NoHolder
  <2>2. day \in (0..FinalDay) \cup {-1}
    BY <1>1
  <2> QED
    BY <2>1, <2>2 DEF PerformanceTypeOK, Calendar
<1>3. ASSUME day = windowEnd
      PROVE  totalReturn.over =
                factor(windowStart) * (holder.shares * stored.close[windowEnd] + holder.cash)
  <2>1. day >= windowStart
    BY <1>1, <1>3
  <2>2. PICK F \in Nat : F = factor(windowStart)
    BY <1>1, FactorIs DEF CardInv
  <2>3. PICK s \in Nat, c \in Nat : s = holder.shares /\ c = holder.cash
    BY <1>1, <2>1 DEF CardInv, HeldOn
  <2>4. /\ factor(windowEnd) = F * s
        /\ F * c = cashOfWindow
    BY <1>1, <1>3, <2>1, <2>2, <2>3 DEF CardInv, HeldOn, cashOfWindow
  <2>5. PICK p \in Nat : p = stored.close[windowEnd]
    <3>1. stored.close \in [0..FinalDay -> ClosesSeen \cup {0}]
      BY DEF CardInv, CardFits, Stored, Calendar, Missing
    <3>2. ClosesSeen \cup {0} \subseteq Nat
      BY PerformanceAssumption
    <3>3. stored.close[windowEnd] \in ClosesSeen \cup {0}
      BY <1>1, <3>1
    <3> QED
      BY <3>2, <3>3
  <2>6. totalReturn.over = p * (F * s) + F * c
    BY <2>4, <2>5 DEF totalReturn
  <2>7. p * (F * s) + F * c = F * (s * p + c)
    OBVIOUS
  <2> QED
    BY <2>2, <2>3, <2>5, <2>6, <2>7
<1> QED
  BY <1>2, <1>3 DEF ReturnIsTheHolders

\* The walk over the days and the shares and the cash of the holder keep their types.
THEOREM CardTypes == PerformanceSpec => []PerformanceTypeOK
<1> QED
  BY CardStarts, CardStep, CardIsRight, PTL DEF PerformanceSpec

\* ReturnIsTheHolders, for every calendar, every set of splits and any ex-date: the total
\* return of the card is what one share bought at the start of its window became.
THEOREM ReturnIsEarned == PerformanceSpec => []ReturnIsTheHolders
<1> QED
  BY CardStarts, CardStep, CardIsRight, PTL DEF PerformanceSpec

\* A behaviour about the card is one of Performance; no other becomes one.
LEMMA CardRuns ==
    /\ Spec /\ part = "card" => PerformanceSpec
    /\ Spec /\ part # "card" => [](part # "card")
<1>1. Init /\ part = "card" => InitPerformance
  BY DEF Init
<1>2. part = "card" /\ [Next]_allVars => (part = "card")' /\ [NextPerformance]_performanceVars
  BY DEF Next, Only, allVars
<1>3. part # "card" /\ [Next]_allVars => (part # "card")'
  BY DEF Next, Only, allVars
<1> QED
  BY <1>1, <1>2, <1>3, PTL DEF Spec, PerformanceSpec

\* CardHolds, of all that readers are served: the card's return is a holder's.
THEOREM CardStaysEarned == Spec => []CardHolds
<1>1. part = "card" \/ part # "card"
  OBVIOUS
<1>2. (part # "card" \/ ReturnIsTheHolders) => CardHolds
  BY DEF CardHolds
<1> QED
  BY <1>1, <1>2, CardRuns, ReturnIsEarned, PTL

---------------------------------------------------------------------------
(***************************************************************************)
(* The fundamentals score (Insights).                                      *)
(***************************************************************************)
\* A mean of scores up to a bound is one.
LEMMA MeanWithin ==
    ASSUME NEW d \in Nat \ {0}, NEW s \in Int, NEW q \in Int, q = s \div d, 0 <= s, s <= 10000 * d
    PROVE  q \in 0..10000
<1>1. q * d <= s /\ s < (q + 1) * d
  OBVIOUS
<1>2. q >= 0
  <2>1. q < 0 => (q + 1) * d <= 0
    OBVIOUS
  <2> QED
    BY <1>1, <2>1
<1>3. q <= 10000
  <2>1. q > 10000 => q * d > 10000 * d
    OBVIOUS
  <2> QED
    BY <1>1, <2>1
<1> QED
  BY <1>2, <1>3

FullScore == 10000

\* A standing among finitely many is a number, and one of 0 to 100 points when the
\* share's own figure is one of theirs.
LEMMA StandingIs ==
    ASSUME NEW sheet, IsFiniteSet(DOMAIN sheet), NEW m \in Metrics, NEW v
    PROVE  /\ percentileOf(m, v, sheet) \in Int
           /\ ("own" \in DOMAIN sheet /\ sheet["own"][m] = v /\ v \in Int /\ v # Unstated) =>
                 percentileOf(m, v, sheet) \in {Unstated} \cup (0..FullScore)
<1> DEFINE stated == {s \in DOMAIN sheet : sheet[s][m] # Unstated}
           below == {s \in stated : sheet[s][m] < v}
<1>1. IsFiniteSet(stated)
  <2>1. stated \in SUBSET DOMAIN sheet
    OBVIOUS
  <2> HIDE DEF stated
  <2> QED
    BY <2>1, FS_Subset
<1>2. IsFiniteSet(below) /\ Cardinality(below) <= Cardinality(stated)
  <2>1. below \in SUBSET stated
    OBVIOUS
  <2> HIDE DEF below, stated
  <2> QED
    BY <1>1, <2>1, FS_Subset
<1>3. ASSUME "own" \in DOMAIN sheet, sheet["own"][m] = v, v \in Int, v # Unstated
      PROVE  Cardinality(below) < Cardinality(stated)
  <2>1. "own" \in stated /\ "own" \notin below /\ below \in SUBSET stated
    BY <1>3
  <2> HIDE DEF below, stated
  <2>2. below # stated
    BY <2>1
  <2>3. Cardinality(below) \in Nat /\ Cardinality(stated) \in Nat
    BY <1>1, <1>2, FS_CardinalityType
  <2>4. Cardinality(below) # Cardinality(stated)
    BY <1>1, <2>1, <2>2, FS_Subset
  <2> QED
    BY <1>2, <2>3, <2>4
<1>4. PICK n \in Nat, k \in Nat : n = Cardinality(stated) /\ k = Cardinality(below)
  BY <1>1, <1>2, FS_CardinalityType
<1>5. k \in 0..n
  BY <1>2, <1>4
<1>6. percentileOf(m, v, sheet) = IF n < MinPeers THEN Unstated ELSE (10000 * k) \div (n - 1)
  BY <1>4 DEF percentileOf
<1> HIDE DEF below, stated
<1>7. PICK p : p = percentileOf(m, v, sheet)
  OBVIOUS
<1>8. (n < MinPeers => p = Unstated) /\ (n >= MinPeers => p = (10000 * k) \div (n - 1))
  BY <1>6, <1>7, InsightAssumption
<1>9. ASSUME n >= MinPeers
      PROVE  /\ p \in Int
             /\ k < n => p \in 0..FullScore
  <2>1. n > 1
    BY <1>9, InsightAssumption
  <2>2. PICK d \in Nat \ {0} : d = n - 1
    BY <2>1
  <2>3. PICK q \in Int : q = (10000 * k) \div d
    OBVIOUS
  <2>4. p = q
    BY <1>8, <1>9, <2>2, <2>3, SMTT(30)
  <2>5. ASSUME k <= d PROVE q \in 0..FullScore
    <3>1. PICK s \in Int : s = 10000 * k
      OBVIOUS
    <3>2. q = s \div d /\ 0 <= s /\ s <= 10000 * d
      BY <2>3, <2>5, <3>1, SMTT(30)
    <3>3. q \in 0..10000
      BY <3>2, MeanWithin
    <3> QED
      BY <3>3 DEF FullScore
  <2>6. k < n => k <= d
    BY <2>2
  <2> QED
    BY <2>4, <2>5, <2>6
<1>10. n < MinPeers \/ n >= MinPeers
  BY InsightAssumption
<1>11. p \in Int
  BY <1>8, <1>9, <1>10 DEF Unstated
<1>12. k < n => p = Unstated \/ p \in 0..FullScore
  BY <1>8, <1>9, <1>10
<1> QED
  BY <1>3, <1>4, <1>7, <1>11, <1>12

\* A curve has 0 to 100 points.
LEMMA CurveWithin ==
    ASSUME NEW v \in 1..3, NEW m PROVE metricCurve(m, v) \in 0..FullScore
<1>1. PICK x \in Int, y \in Int : x = (3 - v) * 5000 /\ y = (v - 1) * 5000
  BY SMTT(30)
<1>2. x \in 0..FullScore /\ y \in 0..FullScore
  <2>1. v = 1 \/ v = 2 \/ v = 3
    OBVIOUS
  <2>2. x >= 0 /\ x <= FullScore /\ y >= 0 /\ y <= FullScore
    BY <1>1, <2>1, SMTT(30) DEF FullScore
  <2>3. FullScore \in Int
    BY DEF FullScore
  <2> QED
    BY <2>2, <2>3
<1>3. metricCurve(m, v) = IF m = "peRatio" THEN x ELSE y
  BY <1>1 DEF metricCurve
<1> QED
  BY <1>2, <1>3

\* A metric's score is a number, and one of 0 to 100 points beside the share's own rows.
LEMMA MetricIs ==
    ASSUME NEW row \in RatioMaps, NEW sheet, IsFiniteSet(DOMAIN sheet), NEW m \in scored(row)
    PROVE  /\ metricScore(m, row, sheet) \in Int
           /\ ("own" \in DOMAIN sheet /\ sheet["own"] = row) => metricScore(m, row, sheet) \in 0..FullScore
<1>1. m \in Metrics /\ row[m] # Unstated
  BY DEF scored
<1>2. PICK v \in 1..3 : v = row[m]
  <2>1. row[m] \in RatioFigures \cup {Unstated}
    BY <1>1 DEF RatioMaps
  <2> QED
    BY <1>1, <2>1, InsightAssumption
<1>3. PICK c \in 0..FullScore : c = metricCurve(m, v)
  BY CurveWithin
<1>4. PICK p \in Int : p = percentileOf(m, v, sheet)
  BY <1>1, StandingIs
<1>5. PICK h \in Int : h = (c + p) \div 2
  BY SMTT(30)
<1>6. metricScore(m, row, sheet) = IF p = Unstated THEN c ELSE h
  BY <1>2, <1>3, <1>4, <1>5, SMTT(30) DEF metricScore
<1>7. p \in 0..FullScore => h \in 0..FullScore
  BY <1>5, SMTT(30) DEF FullScore
<1>8. c \in Int /\ Unstated \in Int
  BY DEF Unstated, FullScore
<1>9. ASSUME "own" \in DOMAIN sheet, sheet["own"] = row PROVE p = Unstated \/ p \in 0..FullScore
  <2>1. v \in Int /\ v # Unstated /\ sheet["own"][m] = v
    BY <1>2, <1>9 DEF Unstated
  <2> QED
    BY <1>1, <1>4, <1>9, <2>1, StandingIs
<1> QED
  BY <1>6, <1>7, <1>8, <1>9, SMTT(30)

\* A set has its member and the others.
LEMMA Counted ==
    ASSUME NEW T, IsFiniteSet(T), NEW x
    PROVE  /\ IsFiniteSet(T \ {x}) /\ Cardinality(T \ {x}) \in Nat
           /\ Cardinality(T) = Cardinality(T \ {x}) + (IF x \in T THEN 1 ELSE 0)
<1>1. IsFiniteSet(T \ {x})
  <2>1. T \ {x} \in SUBSET T
    OBVIOUS
  <2> QED
    BY <2>1, FS_Subset
<1>2. Cardinality(T \ {x}) \in Nat
  BY <1>1, FS_CardinalityType
<1>3. x \in T => (T \ {x}) \cup {x} = T
  OBVIOUS
<1>4. x \notin T => T \ {x} = T
  OBVIOUS
<1>5. PICK U : U = T \ {x}
  OBVIOUS
<1>6. Cardinality(U \cup {x}) = Cardinality(U) + 1
  <2>1. x \notin U /\ IsFiniteSet(U)
    BY <1>1, <1>5
  <2> QED
    BY <2>1, FS_AddElement
<1>7. Cardinality(U) \in Nat /\ Cardinality(U) + 0 = Cardinality(U)
  BY <1>2, <1>5
<1>8. Cardinality(T) = Cardinality(U) + (IF x \in T THEN 1 ELSE 0)
  <2>1. CASE x \in T
    <3>1. U \cup {x} = T
      BY <1>3, <1>5, <2>1
    <3> QED
      BY <1>6, <2>1, <3>1
  <2>2. CASE x \notin T
    <3>1. U = T
      BY <1>4, <1>5, <2>2
    <3> QED
      BY <1>7, <2>2, <3>1
  <2> QED
    BY <2>1, <2>2
<1> QED
  BY <1>1, <1>5, <1>7, <1>8

\* The number of the three pillars a set of them has.
LEMMA PillarsCounted ==
    ASSUME NEW D \in SUBSET {"profitability", "valuation", "growth"}
    PROVE  IsFiniteSet(D) /\
           Cardinality(D) = (IF "profitability" \in D THEN 1 ELSE 0) + (IF "valuation" \in D THEN 1 ELSE 0)
                            + (IF "growth" \in D THEN 1 ELSE 0)
<1> DEFINE A == D \ {"profitability"}
           B == A \ {"valuation"}
           C == B \ {"growth"}
<1>1. IsFiniteSet(D)
  <2>1. IsFiniteSet({"profitability"}) /\ IsFiniteSet({"valuation"}) /\ IsFiniteSet({"growth"})
    BY FS_Singleton
  <2>2. IsFiniteSet({"profitability"} \cup {"valuation"} \cup {"growth"})
    BY <2>1, FS_Union
  <2>3. D \in SUBSET ({"profitability"} \cup {"valuation"} \cup {"growth"})
    OBVIOUS
  <2> QED
    BY <2>2, <2>3, FS_Subset
<1>2. C = {} /\ ("valuation" \in A <=> "valuation" \in D) /\ ("growth" \in B <=> "growth" \in D)
  OBVIOUS
<1> HIDE DEF A, B, C
<1>3. /\ IsFiniteSet(A) /\ Cardinality(A) \in Nat
      /\ Cardinality(D) = Cardinality(A) + (IF "profitability" \in D THEN 1 ELSE 0)
  BY <1>1, Counted DEF A
<1>4. /\ IsFiniteSet(B) /\ Cardinality(B) \in Nat
      /\ Cardinality(A) = Cardinality(B) + (IF "valuation" \in A THEN 1 ELSE 0)
  BY <1>3, Counted DEF B
<1>5. Cardinality(B) = Cardinality(C) + (IF "growth" \in B THEN 1 ELSE 0)
  BY <1>4, Counted DEF C
<1>6. Cardinality(C) = 0
  BY <1>2, FS_EmptySet
<1> QED
  BY <1>1, <1>2, <1>3, <1>4, <1>5, <1>6

\* The number of the four metrics a set of them has.
LEMMA MetricsCounted ==
    ASSUME NEW T \in SUBSET {"roe", "roic", "peRatio", "epsGrowth"}
    PROVE  Cardinality(T) = (IF "roe" \in T THEN 1 ELSE 0) + (IF "roic" \in T THEN 1 ELSE 0)
                            + (IF "peRatio" \in T THEN 1 ELSE 0) + (IF "epsGrowth" \in T THEN 1 ELSE 0)
<1> DEFINE A == T \ {"roe"}
           B == A \ {"roic"}
           C == B \ {"peRatio"}
           E == C \ {"epsGrowth"}
<1>1. IsFiniteSet(T)
  <2>1. IsFiniteSet({"roe"}) /\ IsFiniteSet({"roic"}) /\ IsFiniteSet({"peRatio"}) /\ IsFiniteSet({"epsGrowth"})
    BY FS_Singleton
  <2>2. IsFiniteSet({"roe"} \cup {"roic"})
    BY <2>1, FS_Union
  <2>3. IsFiniteSet({"roe"} \cup {"roic"} \cup {"peRatio"})
    BY <2>1, <2>2, FS_Union
  <2>4. IsFiniteSet({"roe"} \cup {"roic"} \cup {"peRatio"} \cup {"epsGrowth"})
    BY <2>1, <2>3, FS_Union
  <2>5. T \in SUBSET ({"roe"} \cup {"roic"} \cup {"peRatio"} \cup {"epsGrowth"})
    OBVIOUS
  <2> QED
    BY <2>4, <2>5, FS_Subset
<1>2. /\ E = {} /\ ("roic" \in A <=> "roic" \in T) /\ ("peRatio" \in B <=> "peRatio" \in T)
      /\ ("epsGrowth" \in C <=> "epsGrowth" \in T)
  OBVIOUS
<1> HIDE DEF A, B, C, E
<1>3. /\ IsFiniteSet(A) /\ Cardinality(A) \in Nat
      /\ Cardinality(T) = Cardinality(A) + (IF "roe" \in T THEN 1 ELSE 0)
  BY <1>1, Counted DEF A
<1>4. /\ IsFiniteSet(B) /\ Cardinality(B) \in Nat
      /\ Cardinality(A) = Cardinality(B) + (IF "roic" \in A THEN 1 ELSE 0)
  BY <1>3, Counted DEF B
<1>5. /\ IsFiniteSet(C) /\ Cardinality(C) \in Nat
      /\ Cardinality(B) = Cardinality(C) + (IF "peRatio" \in B THEN 1 ELSE 0)
  BY <1>4, Counted DEF C
<1>6. Cardinality(C) = Cardinality(E) + (IF "epsGrowth" \in C THEN 1 ELSE 0)
  BY <1>5, Counted DEF E
<1>7. Cardinality(E) = 0
  BY <1>2, FS_EmptySet
<1> QED
  BY <1>2, <1>3, <1>4, <1>5, <1>6, <1>7

PillarsOf(row) == {pillarOf[m] : m \in scored(row)}

\* A pillar's score is a number, and one of 0 to 100 points beside the share's own rows.
LEMMA PillarIs ==
    ASSUME NEW row \in RatioMaps, NEW sheet, IsFiniteSet(DOMAIN sheet),
           NEW p \in PillarsOf(row)
    PROVE  /\ pillarScores(row, sheet)[p] \in Int
           /\ ("own" \in DOMAIN sheet /\ sheet["own"] = row) => pillarScores(row, sheet)[p] \in 0..FullScore
<1>1. PICK T : T = {m \in scored(row) : pillarOf[m] = p}
  OBVIOUS
<1> DEFINE points(m) == IF m \in T THEN metricScore(m, row, sheet) ELSE 0
<1>2. T \in SUBSET {"roe", "roic", "peRatio", "epsGrowth"} /\ T \subseteq scored(row)
  <2>1. Metrics = {"roe", "roic", "peRatio", "epsGrowth"}
    BY DEF Metrics, pillarOf
  <2>2. scored(row) \subseteq Metrics
    BY DEF scored
  <2> QED
    BY <1>1, <2>1, <2>2
<1>3. T # {}
  BY <1>1 DEF PillarsOf
<1>4. pillarScores(row, sheet)[p] =
         (points("roe") + points("roic") + points("peRatio") + points("epsGrowth")) \div Cardinality(T)
  BY <1>1 DEF pillarScores, PillarsOf
<1>5. \A m : points(m) \in Int
  <2>1. \A m \in T : metricScore(m, row, sheet) \in Int
    BY <1>2, MetricIs
  <2> QED
    BY <2>1
<1>6. ASSUME "own" \in DOMAIN sheet, sheet["own"] = row
      PROVE  \A m : points(m) >= 0 /\ points(m) <= (IF m \in T THEN FullScore ELSE 0)
  <2>1. \A m \in T : metricScore(m, row, sheet) \in 0..FullScore
    BY <1>2, <1>6, MetricIs
  <2>2. ASSUME NEW m PROVE points(m) >= 0 /\ points(m) <= (IF m \in T THEN FullScore ELSE 0)
    <3>1. PICK z \in Int : z = points(m)
      BY <1>5
    <3>2. m \in T => z \in 0..FullScore
      BY <2>1, <3>1
    <3>3. m \notin T => z = 0
      BY <3>1
    <3>4. z >= 0 /\ z <= (IF m \in T THEN FullScore ELSE 0)
      BY <3>2, <3>3 DEF FullScore
    <3> QED
      BY <3>1, <3>4
  <2> HIDE DEF points
  <2> QED
    BY <2>2
<1>7. PICK i \in 0..1, j \in 0..1, k \in 0..1, l \in 0..1 :
         /\ i = (IF "roe" \in T THEN 1 ELSE 0) /\ j = (IF "roic" \in T THEN 1 ELSE 0)
         /\ k = (IF "peRatio" \in T THEN 1 ELSE 0) /\ l = (IF "epsGrowth" \in T THEN 1 ELSE 0)
  <2>1. /\ (IF "roe" \in T THEN 1 ELSE 0) \in 0..1 /\ (IF "roic" \in T THEN 1 ELSE 0) \in 0..1
        /\ (IF "peRatio" \in T THEN 1 ELSE 0) \in 0..1 /\ (IF "epsGrowth" \in T THEN 1 ELSE 0) \in 0..1
    OBVIOUS
  <2> QED
    BY <2>1, Zenon
<1>8. PICK n \in 1..4 : n = Cardinality(T) /\ n = i + j + k + l
  <2>1. Cardinality(T) = i + j + k + l
    BY <1>2, <1>7, MetricsCounted
  <2>2. i = 1 \/ j = 1 \/ k = 1 \/ l = 1
    BY <1>2, <1>3, <1>7
  <2>3. i + j + k + l \in 1..4
    BY <2>2
  <2> QED
    BY <2>1, <2>3
<1> HIDE DEF points
<1>9. PICK a \in Int, b \in Int, c \in Int, d \in Int :
         a = points("roe") /\ b = points("roic") /\ c = points("peRatio") /\ d = points("epsGrowth")
  BY <1>5
<1>10. PICK s \in Int, q \in Int : s = a + b + c + d /\ q = s \div n
  OBVIOUS
<1>11. pillarScores(row, sheet)[p] = q
  BY <1>4, <1>8, <1>9, <1>10
<1>12. ASSUME "own" \in DOMAIN sheet, sheet["own"] = row PROVE q \in 0..FullScore
  <2>1. /\ 0 <= a /\ a <= (IF "roe" \in T THEN FullScore ELSE 0)
        /\ 0 <= b /\ b <= (IF "roic" \in T THEN FullScore ELSE 0)
        /\ 0 <= c /\ c <= (IF "peRatio" \in T THEN FullScore ELSE 0)
        /\ 0 <= d /\ d <= (IF "epsGrowth" \in T THEN FullScore ELSE 0)
    BY <1>6, <1>9, <1>12
  <2>2. a <= FullScore * i /\ b <= FullScore * j /\ c <= FullScore * k /\ d <= FullScore * l
    BY <1>7, <2>1 DEF FullScore
  <2>3. 0 <= s /\ s <= FullScore * n
    <3>1. FullScore * n = FullScore * i + FullScore * j + FullScore * k + FullScore * l
      BY <1>8 DEF FullScore
    <3> QED
      BY <1>10, <2>1, <2>2, <3>1, SMTT(30) DEF FullScore
  <2>4. n \in Nat \ {0} /\ q = s \div n
    BY <1>10
  <2>5. q \in 0..10000
    BY <2>3, <2>4, MeanWithin DEF FullScore
  <2> QED
    BY <2>5 DEF FullScore
<1> QED
  BY <1>11, <1>12

\* A weighted mean of the pillars there are is between any bounds of them, as long as one
\* of them weighs something.
LEMMA WeightedWithin ==
    ASSUME NEW scores, DOMAIN scores \subseteq {"profitability", "valuation", "growth"},
           NEW weights,
           weights["profitability"] \in Nat, weights["valuation"] \in Nat, weights["growth"] \in Nat,
           \E p \in DOMAIN scores : weights[p] > 0,
           NEW lo \in Int, NEW hi \in Int, \A p \in DOMAIN scores : scores[p] \in lo..hi
    PROVE  weighted(scores, weights) \in lo..hi
<1> DEFINE weight(p) == IF p \in DOMAIN scores THEN weights[p] ELSE 0
           points(p) == IF p \in DOMAIN scores THEN scores[p] * weights[p] ELSE 0
           all == weight("profitability") + weight("valuation") + weight("growth")
           sum == points("profitability") + points("valuation") + points("growth")
<1>1. weighted(scores, weights) = IF all = 0 THEN Unstated ELSE sum \div all
  BY DEF weighted
<1>2. PICK i \in Nat, j \in Nat, k \in Nat :
         /\ i = weight("profitability") /\ j = weight("valuation") /\ k = weight("growth")
  OBVIOUS
<1>3. PICK d \in Nat : d = all
  BY <1>2
<1>4. d = i + j + k /\ d > 0
  <2>1. PICK p \in {"profitability", "valuation", "growth"} : weight(p) > 0
    OBVIOUS
  <2>2. i > 0 \/ j > 0 \/ k > 0
    <3> HIDE DEF weight
    <3> QED
      BY <1>2, <2>1
  <2> QED
    BY <1>2, <1>3, <2>2
<1>5. \A p \in {"profitability", "valuation", "growth"} :
         points(p) \in Int /\ lo * weight(p) <= points(p) /\ points(p) <= hi * weight(p)
  <2>1. SUFFICES ASSUME NEW p \in {"profitability", "valuation", "growth"}
                 PROVE  points(p) \in Int /\ lo * weight(p) <= points(p) /\ points(p) <= hi * weight(p)
    OBVIOUS
  <2>2. CASE p \in DOMAIN scores
    <3>1. PICK x \in lo..hi, y \in Nat : x = scores[p] /\ y = weights[p]
      BY <2>1, <2>2
    <3>2. x * y \in Int /\ lo * y <= x * y /\ x * y <= hi * y
      OBVIOUS
    <3>3. weight(p) = y /\ points(p) = x * y
      BY <2>2, <3>1
    <3> HIDE DEF weight, points
    <3> QED
      BY <3>2, <3>3
  <2>3. CASE p \notin DOMAIN scores
    <3>1. weight(p) = 0 /\ points(p) = 0
      BY <2>3
    <3>2. lo * 0 = 0 /\ hi * 0 = 0
      OBVIOUS
    <3> HIDE DEF weight, points
    <3> QED
      BY <3>1, <3>2
  <2> HIDE DEF weight, points
  <2> QED
    BY <2>2, <2>3
<1> HIDE DEF weight, points
<1>6. PICK a \in Int, b \in Int, c \in Int :
         a = points("profitability") /\ b = points("valuation") /\ c = points("growth")
  BY <1>5
<1>7. /\ lo * i <= a /\ a <= hi * i
      /\ lo * j <= b /\ b <= hi * j
      /\ lo * k <= c /\ c <= hi * k
  BY <1>2, <1>5, <1>6
<1>8. PICK s \in Int, q \in Int : s = a + b + c /\ q = s \div d
  BY <1>4
<1>9. weighted(scores, weights) = q
  BY <1>1, <1>3, <1>4, <1>6, <1>8
<1>10. lo * d <= s /\ s <= hi * d
  <2>1. lo * d = lo * i + lo * j + lo * k /\ hi * d = hi * i + hi * j + hi * k
    BY <1>4
  <2> QED
    BY <1>7, <1>8, <2>1
<1>11. q * d <= s /\ s < (q + 1) * d
  BY <1>4, <1>8
<1>12. q <= hi
  <2>1. q > hi => q * d > hi * d
    BY <1>4
  <2> QED
    BY <1>10, <1>11, <2>1
<1>13. q >= lo
  <2>1. q < lo => (q + 1) * d <= lo * d
    BY <1>4
  <2> QED
    BY <1>10, <1>11, <2>1
<1> QED
  BY <1>9, <1>12, <1>13

\* The smaller of two numbers.
LEMMA SmallerOf ==
    ASSUME NEW x \in Int, NEW y \in Int
    PROVE  Min({x, y}) \in Int /\ Min({x, y}) <= y
<1>1. \E z \in {x, y} : \A t \in {x, y} : z <= t
  <2>1. x <= y \/ y <= x
    OBVIOUS
  <2> QED
    BY <2>1
<1>2. Min({x, y}) \in {x, y} /\ \A t \in {x, y} : Min({x, y}) <= t
  BY <1>1 DEF Min
<1> QED
  BY <1>2

\* What two views round to.
LEMMA RoundedFrom ==
    ASSUME NEW c \in Int, NEW f \in Int, NEW lo \in Int, NEW hi \in Int,
           lo <= c, c <= hi, lo <= f, f <= hi
    PROVE  /\ round(c) \in Int /\ round(f) \in Int
           /\ (round(c) + round(f) + 1) \div 2 \in (lo \div 100)..(hi \div 100 + 1)
<1>1. PICK x \in Int, y \in Int : x = (c + 50) \div 100 /\ y = (f + 50) \div 100
  OBVIOUS
<1>2. PICK l \in Int, h \in Int : l = lo \div 100 /\ h = hi \div 100
  OBVIOUS
<1>3. l <= x /\ x <= h + 1 /\ l <= y /\ y <= h + 1
  BY <1>1, <1>2
<1>4. PICK m \in Int : m = (x + y + 1) \div 2
  OBVIOUS
<1>5. l <= m /\ m <= h + 1
  BY <1>3, <1>4
<1> QED
  BY <1>1, <1>2, <1>4, <1>5 DEF round

LEMMA RoundedTo ==
    ASSUME NEW c \in Int, NEW f \in Int, NEW top \in Nat, c <= 100 * top + 49, f <= 100 * top + 49
    PROVE  /\ round(c) \in Int /\ round(f) \in Int /\ round(c) <= top /\ round(f) <= top
           /\ (round(c) + round(f) + 1) \div 2 \in Int /\ (round(c) + round(f) + 1) \div 2 <= top
<1>1. PICK x \in Int, y \in Int : x = (c + 50) \div 100 /\ y = (f + 50) \div 100
  OBVIOUS
<1>2. x <= top /\ y <= top
  BY <1>1
<1>3. PICK m \in Int : m = (x + y + 1) \div 2
  OBVIOUS
<1>4. m <= top
  BY <1>2, <1>3
<1> QED
  BY <1>1, <1>2, <1>3, <1>4 DEF round

\* What is scored: the share's own ratios, and rows of finitely many companies of which it
\* is one, whether they are cached or read.
InsightInv ==
    /\ own \in RatioMaps /\ sign \in {"profit", "loss", "deficit"}
    /\ financial \in BOOLEAN /\ sector \in SectorRows /\ written \in 0..MaxRatioRows
    /\ peerStats # <<>> => "own" \in DOMAIN peerStats /\ IsFiniteSet(DOMAIN peerStats)

LEMMA SectorIs ==
    ASSUME sector \in SectorRows
    PROVE  IsFiniteSet(DOMAIN sectorNow) /\ "own" \in DOMAIN sectorNow
<1>1. DOMAIN sectorNow = DOMAIN sector \cup {"own"}
  BY DEF sectorNow
<1>2. IsFiniteSet(DOMAIN sector)
  BY SectorAssumption
<1>3. IsFiniteSet(DOMAIN sector \cup {"own"})
  BY <1>2, FS_AddElement
<1> QED
  BY <1>1, <1>3

LEMMA InsightStarts == InitInsights => InsightInv
<1> SUFFICES ASSUME InitInsights PROVE InsightInv
  OBVIOUS
<1>1. own \in RatioMaps /\ written \in 0..MaxRatioRows
  BY SectorAssumption, InsightAssumption DEF InitInsights
<1> QED
  BY <1>1 DEF InitInsights, InsightInv

LEMMA InsightStep == InsightInv /\ [NextInsights]_insightVars => InsightInv'
<1> SUFFICES ASSUME InsightInv, [NextInsights]_insightVars PROVE InsightInv'
  OBVIOUS
<1>1. CASE SyncRatios
  <2>1. written' \in 0..MaxRatioRows
    BY <1>1, InsightAssumption DEF SyncRatios, InsightInv
  <2> QED
    BY <1>1, <2>1 DEF SyncRatios, InsightInv
<1>2. CASE SyncSector
  BY <1>2 DEF SyncSector, InsightInv
<1>3. CASE getCachedSectorPeerStats
  <2>1. IsFiniteSet(DOMAIN sectorNow) /\ "own" \in DOMAIN sectorNow
    BY SectorIs DEF InsightInv
  <2> QED
    BY <1>3, <2>1 DEF getCachedSectorPeerStats, InsightInv
<1>4. CASE PeerStatsExpire
  BY <1>4 DEF PeerStatsExpire, InsightInv
<1>5. CASE UNCHANGED insightVars
  BY <1>5 DEF insightVars, InsightInv
<1> QED
  BY <1>1, <1>2, <1>3, <1>4, <1>5 DEF NextInsights

LEMMA InsightTyped == InsightInv => InsightsTypeOK
BY DEF InsightInv, InsightsTypeOK

LEMMA InsightEarned == InsightInv => ScoreIsEarned
<1> SUFFICES ASSUME InsightInv PROVE ScoreIsEarned
  OBVIOUS
<1>1. PICK sheet : sheet = peerRows
  OBVIOUS
<1>2. IsFiniteSet(DOMAIN sheet) /\ "own" \in DOMAIN sheet
  BY <1>1, SectorIs DEF InsightInv, peerRows
<1>3. own \in RatioMaps
  BY DEF InsightInv
<1>4. PICK P : P = pillarScores(own, sheet)
  OBVIOUS
<1>5. PICK D : D = PillarsOf(own)
  OBVIOUS
<1>6. DOMAIN P = D /\ D \in SUBSET {"profitability", "valuation", "growth"}
  <2>1. \A m \in Metrics : pillarOf[m] \in {"profitability", "valuation", "growth"}
    BY DEF Metrics, pillarOf
  <2>2. scored(own) \subseteq Metrics
    BY DEF scored
  <2>3. DOMAIN pillarScores(own, sheet) = {pillarOf[m] : m \in scored(own)}
    BY DEF pillarScores
  <2> QED
    BY <1>4, <1>5, <2>1, <2>2, <2>3 DEF PillarsOf
<1>7. \A p \in D : P[p] \in Int
  BY <1>2, <1>3, <1>4, <1>5, PillarIs
<1>8. ASSUME sheet["own"] = own, NEW p \in D PROVE P[p] \in 0..FullScore
  <2>1. pillarScores(own, sheet)[p] \in 0..FullScore
    BY <1>2, <1>3, <1>5, <1>8, PillarIs
  <2> QED
    BY <1>4, <2>1
<1>9. SUFFICES ASSUME enough(own) PROVE ScoreIsEarned
  <2>1. ~enough(own) => insights.overall = Unstated
    BY DEF insights, scoreFundamentals
  <2> QED
    BY <2>1 DEF ScoreIsEarned
<1>10. \/ "profitability" \in D
       \/ "valuation" \in D /\ "growth" \in D
  <2>1. Cardinality(D) >= MinPillars
    BY <1>5, <1>9 DEF enough, PillarsOf
  <2>2. PICK i \in 0..1, j \in 0..1, k \in 0..1 :
           /\ i = (IF "profitability" \in D THEN 1 ELSE 0)
           /\ j = (IF "valuation" \in D THEN 1 ELSE 0) /\ k = (IF "growth" \in D THEN 1 ELSE 0)
    <3>1. /\ (IF "profitability" \in D THEN 1 ELSE 0) \in 0..1
          /\ (IF "valuation" \in D THEN 1 ELSE 0) \in 0..1 /\ (IF "growth" \in D THEN 1 ELSE 0) \in 0..1
      OBVIOUS
    <3> QED
      BY <3>1, Zenon
  <2>3. Cardinality(D) = i + j + k
    BY <1>6, <2>2, PillarsCounted
  <2>4. i + j + k >= 2
    BY <2>1, <2>3, InsightAssumption
  <2>5. i = 1 \/ (j = 1 /\ k = 1)
    BY <2>4
  <2> QED
    BY <2>2, <2>5
<1>11. D # {} /\ \A lo, hi \in Int : (\A p \in D : P[p] \in lo..hi) =>
          /\ weighted(P, CURRENT_WEIGHTS) \in lo..hi
          /\ "growth" \in D => weighted(P, FUTURE_WEIGHTS) \in lo..hi
  <2>1. D # {}
    BY <1>10
  <2>2. SUFFICES ASSUME NEW lo \in Int, NEW hi \in Int, \A p \in D : P[p] \in lo..hi
                 PROVE  /\ weighted(P, CURRENT_WEIGHTS) \in lo..hi
                        /\ "growth" \in D => weighted(P, FUTURE_WEIGHTS) \in lo..hi
    BY <2>1
  <2>3. weighted(P, CURRENT_WEIGHTS) \in lo..hi
    <3>1. /\ CURRENT_WEIGHTS["profitability"] = 45 /\ CURRENT_WEIGHTS["valuation"] = 30
          /\ CURRENT_WEIGHTS["growth"] = 0
      BY DEF CURRENT_WEIGHTS
    <3>2. \E p \in D : CURRENT_WEIGHTS[p] > 0
      BY <1>10, <3>1
    <3>3. /\ CURRENT_WEIGHTS["profitability"] \in Nat /\ CURRENT_WEIGHTS["valuation"] \in Nat
          /\ CURRENT_WEIGHTS["growth"] \in Nat
      BY <3>1
    <3> QED
      BY <1>6, <2>2, <3>2, <3>3, WeightedWithin
  <2>4. ASSUME "growth" \in D PROVE weighted(P, FUTURE_WEIGHTS) \in lo..hi
    <3>1. /\ FUTURE_WEIGHTS["profitability"] = 40 /\ FUTURE_WEIGHTS["valuation"] = 0
          /\ FUTURE_WEIGHTS["growth"] = 60
      BY DEF FUTURE_WEIGHTS
    <3>2. \E p \in D : FUTURE_WEIGHTS[p] > 0
      BY <2>4, <3>1
    <3>3. /\ FUTURE_WEIGHTS["profitability"] \in Nat /\ FUTURE_WEIGHTS["valuation"] \in Nat
          /\ FUTURE_WEIGHTS["growth"] \in Nat
      BY <3>1
    <3> QED
      BY <1>6, <2>2, <3>2, <3>3, WeightedWithin
  <2> QED
    BY <2>3, <2>4
<1>12. PICK least \in Int, most \in Int : \A p \in D : P[p] \in least..most
  <2>1. PICK x \in Int, y \in Int, z \in Int :
           /\ "profitability" \in D => x = P["profitability"]
           /\ "valuation" \in D => y = P["valuation"]
           /\ "growth" \in D => z = P["growth"]
    <3>1. /\ \E x \in Int : "profitability" \in D => x = P["profitability"]
          /\ \E y \in Int : "valuation" \in D => y = P["valuation"]
          /\ \E z \in Int : "growth" \in D => z = P["growth"]
      <4>1. 0 \in Int
        OBVIOUS
      <4> QED
        BY <1>7, <4>1, Zenon
    <3> QED
      BY <3>1
  <2>2. PICK l \in Int, h \in Int : x \in l..h /\ y \in l..h /\ z \in l..h
    <3>1. \E l \in Int : l <= x /\ l <= y /\ l <= z
      <4>1. x <= y \/ y <= x
        OBVIOUS
      <4>2. \E l \in Int : l <= x /\ l <= y
        BY <4>1
      <4>3. PICK l \in Int : l <= x /\ l <= y
        BY <4>2
      <4>4. l <= z \/ z <= l
        OBVIOUS
      <4> QED
        BY <4>3, <4>4
    <3>2. \E h \in Int : x <= h /\ y <= h /\ z <= h
      <4>1. x <= y \/ y <= x
        OBVIOUS
      <4>2. \E h \in Int : x <= h /\ y <= h
        BY <4>1
      <4>3. PICK h \in Int : x <= h /\ y <= h
        BY <4>2
      <4>4. h <= z \/ z <= h
        OBVIOUS
      <4> QED
        BY <4>3, <4>4
    <3> QED
      BY <3>1, <3>2
  <2>3. \A p \in D : P[p] \in l..h
    BY <1>6, <2>1, <2>2
  <2> QED
    BY <2>3
<1>13. PICK c \in Int : c = weighted(P, CURRENT_WEIGHTS)
  BY <1>11, <1>12
<1>14. PICK f \in Int : f = IF "growth" \notin D THEN c ELSE weighted(P, FUTURE_WEIGHTS)
  BY <1>11, <1>12, <1>13
<1>15. /\ insights.overall = (round(applyCap(c)) + round(applyCap(f)) + 1) \div 2
       /\ insights.future = round(applyCap(f))
  <2>1. insights = scoreFundamentals(own, sheet)
    BY <1>1 DEF insights
  <2> QED
    BY <1>4, <1>6, <1>9, <1>13, <1>14, <2>1 DEF scoreFundamentals
<1>16. ASSUME sign = "loss"
       PROVE  /\ insights.overall \in Int /\ insights.future \in Int
              /\ insights.overall <= 49 /\ insights.future <= 49
  <2>1. applyCap(c) = Min({c, 4900}) /\ applyCap(f) = Min({f, 4900})
    BY <1>16 DEF applyCap
  <2>2. PICK x \in Int, y \in Int : x = applyCap(c) /\ y = applyCap(f) /\ x <= 4900 /\ y <= 4900
    <3>1. /\ Min({c, 4900}) \in Int /\ Min({c, 4900}) <= 4900
          /\ Min({f, 4900}) \in Int /\ Min({f, 4900}) <= 4900
      BY SmallerOf
    <3> QED
      BY <2>1, <3>1
  <2>3. PICK top \in Nat : top = 49
    OBVIOUS
  <2>4. x <= 100 * top + 49 /\ y <= 100 * top + 49
    BY <2>2, <2>3
  <2>5. /\ round(x) \in Int /\ round(y) \in Int /\ round(x) <= top /\ round(y) <= top
        /\ (round(x) + round(y) + 1) \div 2 \in Int /\ (round(x) + round(y) + 1) \div 2 <= top
    BY <2>4, RoundedTo
  <2> QED
    BY <1>15, <2>2, <2>3, <2>5
<1>17. ASSUME sign = "deficit"
       PROVE  /\ insights.overall \in Int /\ insights.future \in Int
              /\ insights.overall <= 34 /\ insights.future <= 34
  <2>1. applyCap(c) = Min({c, 3400}) /\ applyCap(f) = Min({f, 3400})
    BY <1>17 DEF applyCap
  <2>2. PICK x \in Int, y \in Int : x = applyCap(c) /\ y = applyCap(f) /\ x <= 3400 /\ y <= 3400
    <3>1. /\ Min({c, 3400}) \in Int /\ Min({c, 3400}) <= 3400
          /\ Min({f, 3400}) \in Int /\ Min({f, 3400}) <= 3400
      BY SmallerOf
    <3> QED
      BY <2>1, <3>1
  <2>3. PICK top \in Nat : top = 34
    OBVIOUS
  <2>4. x <= 100 * top + 49 /\ y <= 100 * top + 49
    BY <2>2, <2>3
  <2>5. /\ round(x) \in Int /\ round(y) \in Int /\ round(x) <= top /\ round(y) <= top
        /\ (round(x) + round(y) + 1) \div 2 \in Int /\ (round(x) + round(y) + 1) \div 2 <= top
    BY <2>4, RoundedTo
  <2> QED
    BY <1>15, <2>2, <2>3, <2>5
<1>18. ASSUME sign # "profit"
       PROVE  verdictOf(insights.overall) # "strong" /\ verdictOf(insights.future) # "strong"
  <2>1. sign = "loss" \/ sign = "deficit"
    BY <1>18 DEF InsightInv
  <2>2. PICK x \in Int, y \in Int : x = insights.overall /\ y = insights.future /\ x <= 49 /\ y <= 49
    BY <1>16, <1>17, <2>1
  <2>3. ~(x >= 67) /\ ~(y >= 67)
    BY <2>2
  <2> QED
    BY <2>2, <2>3 DEF verdictOf
<1>19. ASSUME sign = "profit", sheet["own"] = own
       PROVE  LET means == {P[p] : p \in D}
              IN /\ insights.overall \in (Min(means) \div 100)..(Max(means) \div 100 + 1)
                 /\ insights.overall <= 100
  <2>1. PICK means : means = {P[p] : p \in D}
    OBVIOUS
  <2>11. PICK top \in Nat : top = FullScore
    BY DEF FullScore
  <2>12. ASSUME NEW p \in D PROVE P[p] \in 0..top
    <3>1. P[p] \in 0..FullScore
      BY <1>8, <1>19, <2>12
    <3> QED
      BY <2>11, <3>1
  <2>2. means \in SUBSET (0..top) /\ means # {}
    BY <1>11, <2>1, <2>12
  <2>3. PICK lo \in 0..top, hi \in 0..top :
           lo = Min(means) /\ hi = Max(means) /\ \A x \in means : lo <= x /\ x <= hi
    <3>1. Min(means) \in means /\ \A x \in means : Min(means) <= x
      <4>1. means \in SUBSET Nat
        BY <2>2
      <4> QED
        BY <2>2, <4>1, LeastIs
    <3>2. Max(means) \in means /\ \A x \in means : x <= Max(means)
      BY <2>2, GreatestIs
    <3>3. Min(means) \in 0..top /\ Max(means) \in 0..top
      BY <2>2, <3>1, <3>2
    <3> QED
      BY <3>1, <3>2, <3>3, Zenon
  <2>4. \A p \in D : P[p] \in lo..hi
    <3>1. \A p \in D : P[p] \in means /\ P[p] \in Int
      BY <1>7, <2>1
    <3> QED
      BY <2>3, <3>1
  <2>5. c \in lo..hi /\ f \in lo..hi
    BY <1>11, <1>13, <1>14, <2>4
  <2>6. applyCap(c) = c /\ applyCap(f) = f
    BY <1>19 DEF applyCap
  <2>7. (round(c) + round(f) + 1) \div 2 \in (lo \div 100)..(hi \div 100 + 1)
    <3>1. lo \in Int /\ hi \in Int /\ lo <= c /\ c <= hi /\ lo <= f /\ f <= hi
      BY <2>5
    <3> QED
      BY <3>1, RoundedFrom
  <2>8. (round(c) + round(f) + 1) \div 2 <= 100
    <3>1. PICK most100 \in Nat : most100 = 100
      OBVIOUS
    <3>4. c <= top /\ f <= top
      BY <2>5
    <3>2. c <= 100 * most100 + 49 /\ f <= 100 * most100 + 49
      BY <2>11, <3>1, <3>4 DEF FullScore
    <3>3. (round(c) + round(f) + 1) \div 2 \in Int /\ (round(c) + round(f) + 1) \div 2 <= most100
      BY <3>2, RoundedTo
    <3> QED
      BY <3>1, <3>3
  <2>9. /\ insights.overall \in (Min(means) \div 100)..(Max(means) \div 100 + 1)
        /\ insights.overall <= 100
    BY <1>15, <2>3, <2>6, <2>7, <2>8
  <2> QED
    BY <2>1, <2>9
<1>20. D = DOMAIN pillarScores(own, peerRows) /\ P = pillarScores(own, peerRows)
  BY <1>1, <1>4, <1>6
<1> QED
  BY <1>1, <1>16, <1>17, <1>18, <1>19, <1>20 DEF ScoreIsEarned

\* The ratios, the cached rows and the sign keep their types.
THEOREM InsightTypes == InsightSpec => []InsightsTypeOK
BY InsightStarts, InsightStep, InsightTyped, PTL DEF InsightSpec

\* Whatever the sector's ratios and its cached rows, a company that lost money is not rated
\* strong and a score lies between the lowest and the highest of its pillars (getInsights).
THEOREM ScoresAreEarned == InsightSpec => []ScoreIsEarned
BY InsightStarts, InsightStep, InsightEarned, PTL DEF InsightSpec

\* A behaviour about the score is one of Insights; no other becomes one.
LEMMA InsightRuns ==
    /\ Spec /\ part = "insights" => InsightSpec
    /\ Spec /\ part # "insights" => [](part # "insights")
<1>1. Init /\ part = "insights" => InitInsights
  BY DEF Init
<1>2. part = "insights" /\ [Next]_allVars => (part = "insights")' /\ [NextInsights]_insightVars
  BY DEF Next, Only, allVars
<1>3. part # "insights" /\ [Next]_allVars => (part # "insights")'
  BY DEF Next, Only, allVars
<1> QED
  BY <1>1, <1>2, <1>3, PTL DEF Spec, InsightSpec

\* ScoreHolds, of all that readers are served: no loss is rated strong, and a score is
\* between the pillars it is of.
THEOREM ScoreStaysEarned == Spec => []ScoreHolds
<1>1. part = "insights" \/ part # "insights"
  OBVIOUS
<1>2. (part # "insights" \/ ScoreIsEarned) => ScoreHolds
  BY DEF ScoreHolds
<1> QED
  BY <1>1, <1>2, InsightRuns, ScoresAreEarned, PTL

---------------------------------------------------------------------------
(***************************************************************************)
(* Beta.  A sum is written as a running total, a function of the days that *)
(* refers to itself: that there is one, and that it doubles with what it   *)
(* sums, go by the first day that would break it.                          *)
(***************************************************************************)
\* A running total of n terms.
IsTotal(g, n, term) == g[0] = 0 /\ \A d \in 1..n : g[d] = g[d - 1] + term[d]

LEMMA TotalExists ==
    ASSUME NEW n \in Nat, NEW term \in [1..n -> Int]
    PROVE  \E g \in [0..n -> Int] : IsTotal(g, n, term)
<1> DEFINE totals(m) == \E g \in [0..m -> Int] : IsTotal(g, m, term)
           T == {m \in 0..n : ~totals(m)}
<1>1. totals(0)
  <2> DEFINE g == [d \in 0..0 |-> 0]
  <2>1. g \in [0..0 -> Int] /\ IsTotal(g, 0, term)
    BY DEF IsTotal
  <2> QED
    BY <2>1
<1>2. ASSUME NEW m \in 1..n, totals(m - 1) PROVE totals(m)
  <2>1. PICK g \in [0..(m - 1) -> Int] : IsTotal(g, m - 1, term)
    BY <1>2
  <2> DEFINE h == [d \in 0..m |-> IF d = m THEN g[m - 1] + term[m] ELSE g[d]]
  <2>2. g[m - 1] \in Int /\ term[m] \in Int
    OBVIOUS
  <2>3. h \in [0..m -> Int]
    BY <2>2
  <2>4. h[0] = 0 /\ h[m] = g[m - 1] + term[m] /\ \A d \in 0..(m - 1) : h[d] = g[d]
    BY <2>1 DEF IsTotal
  <2>5. \A d \in 1..m : h[d] = h[d - 1] + term[d]
    <3> TAKE d \in 1..m
    <3>1. CASE d = m
      BY <2>4, <3>1
    <3>2. CASE d # m
      <4>1. d \in 1..(m - 1) /\ d - 1 \in 0..(m - 1) /\ d \in 0..(m - 1)
        BY <3>2
      <4> QED
        BY <2>1, <2>4, <4>1 DEF IsTotal
    <3> QED
      BY <3>1, <3>2
  <2> QED
    BY <2>3, <2>4, <2>5 DEF IsTotal
<1> HIDE DEF totals
<1>3. T = {}
  <2> SUFFICES ASSUME T # {} PROVE FALSE
    OBVIOUS
  <2>1. T \in SUBSET Nat
    OBVIOUS
  <2>2. PICK m \in T : \A r \in T : m <= r
    BY <2>1, FirstOf
  <2>3. m # 0 /\ m \in 1..n /\ m - 1 \in 0..n
    BY <1>1
  <2>4. m - 1 \notin T
    BY <2>2, <2>3
  <2> QED
    BY <1>2, <2>3, <2>4
<1>4. totals(n)
  BY <1>3
<1> QED
  BY <1>4 DEF totals

\* What sumOver comes to is the last of the running totals.
LEMMA SumIs ==
    ASSUME NEW n \in Nat, n = Len(indexClose), NEW days \in SUBSET (1..n), NEW amounts \in [days -> Int]
    PROVE  \E g \in [0..n -> Int] :
              /\ IsTotal(g, n, [d \in 1..n |-> IF d \in days THEN amounts[d] ELSE 0])
              /\ sumOver(days, amounts) = g[n]
<1> DEFINE term == [d \in 1..n |-> IF d \in days THEN amounts[d] ELSE 0]
           Runs(g) == g = [d \in 0..n |-> IF d = 0 THEN 0
                              ELSE g[d - 1] + (IF d \in days THEN amounts[d] ELSE 0)]
           upTo == CHOOSE g : Runs(g)
<1>1. term \in [1..n -> Int]
  OBVIOUS
<1>2. PICK h \in [0..n -> Int] : IsTotal(h, n, term)
  BY <1>1, TotalExists
<1>3. Runs(h)
  <2>1. \A d \in 0..n : h[d] = IF d = 0 THEN 0 ELSE h[d - 1] + (IF d \in days THEN amounts[d] ELSE 0)
    BY <1>2 DEF IsTotal
  <2>2. h = [d \in 0..n |-> h[d]]
    OBVIOUS
  <2> QED
    BY <2>1, <2>2
<1>4. Runs(upTo)
  BY <1>3
<1>5. sumOver(days, amounts) = upTo[n]
  BY DEF sumOver
<1> HIDE DEF upTo
<1>6. DOMAIN upTo = 0..n /\ upTo[0] = 0
      /\ \A d \in 1..n : upTo[d] = upTo[d - 1] + term[d]
  BY <1>4
<1>7. \A d \in 0..n : upTo[d] = h[d]
  <2> DEFINE T == {d \in 0..n : upTo[d] # h[d]}
  <2> SUFFICES ASSUME T # {} PROVE FALSE
    OBVIOUS
  <2>1. T \in SUBSET Nat
    OBVIOUS
  <2>2. PICK m \in T : \A r \in T : m <= r
    BY <2>1, FirstOf
  <2>3. h[0] = 0 /\ \A d \in 1..n : h[d] = h[d - 1] + term[d]
    BY <1>2 DEF IsTotal
  <2>4. m # 0 /\ m \in 1..n /\ m - 1 \in 0..n
    BY <1>6, <2>3
  <2>5. upTo[m - 1] = h[m - 1]
    BY <2>2, <2>4
  <2> QED
    BY <1>6, <2>2, <2>3, <2>4, <2>5
<1>8. sumOver(days, amounts) = h[n]
  BY <1>5, <1>7
<1> QED
  BY <1>2, <1>8

\* A sum of whole numbers is one, and doubles with them.
LEMMA SumDoubles ==
    ASSUME Len(indexClose) \in Nat, NEW days \in SUBSET (1..Len(indexClose)), NEW a \in [days -> Int]
    PROVE  /\ sumOver(days, a) \in Int
           /\ sumOver(days, [d \in days |-> 2 * a[d]]) = 2 * sumOver(days, a)
<1> DEFINE n == Len(indexClose)
           twice == [d \in days |-> 2 * a[d]]
           ofA == [d \in 1..n |-> IF d \in days THEN a[d] ELSE 0]
           ofTwice == [d \in 1..n |-> IF d \in days THEN twice[d] ELSE 0]
<1>1. twice \in [days -> Int]
  OBVIOUS
<1>2. PICK g \in [0..n -> Int] : IsTotal(g, n, ofA) /\ sumOver(days, a) = g[n]
  BY SumIs
<1>3. PICK h \in [0..n -> Int] : IsTotal(h, n, ofTwice) /\ sumOver(days, twice) = h[n]
  BY <1>1, SumIs
<1>4. \A d \in 1..n : ofA[d] \in Int /\ ofTwice[d] = 2 * ofA[d]
  OBVIOUS
<1>5. g[0] = 0 /\ h[0] = 0 /\ \A d \in 1..n : g[d] = g[d - 1] + ofA[d] /\ h[d] = h[d - 1] + ofTwice[d]
  BY <1>2, <1>3 DEF IsTotal
<1> HIDE DEF ofA, ofTwice, twice
<1>6. \A d \in 0..n : h[d] = 2 * g[d]
  <2> DEFINE T == {d \in 0..n : h[d] # 2 * g[d]}
  <2> SUFFICES ASSUME T # {} PROVE FALSE
    OBVIOUS
  <2>1. T \in SUBSET Nat
    OBVIOUS
  <2>2. PICK m \in T : \A r \in T : m <= r
    BY <2>1, FirstOf
  <2>3. m # 0 /\ m \in 1..n /\ m - 1 \in 0..n
    BY <1>5
  <2>4. h[m - 1] = 2 * g[m - 1]
    BY <2>2, <2>3
  <2>5. m - 1 \in 0..n /\ g[m - 1] \in Int
    BY <2>3
  <2>6. ofA[m] \in Int /\ ofTwice[m] = 2 * ofA[m]
    BY <1>4, <2>3
  <2>7. g[m] = g[m - 1] + ofA[m] /\ h[m] = h[m - 1] + ofTwice[m] /\ h[m] # 2 * g[m]
    BY <1>5, <2>3
  <2> QED
    BY <2>4, <2>5, <2>6, <2>7
<1>7. g[n] \in Int /\ h[n] = 2 * g[n]
  BY <1>6
<1> QED
  BY <1>2, <1>3, <1>7 DEF twice

\* The closes of both legs, as many of the one as of the other.
BothLegs ==
    /\ indexClose \in Seq(Levels) /\ shareClose \in Seq(Levels \cup {NoClose})
    /\ Len(indexClose) = Len(shareClose)

BetaInv ==
    /\ BothLegs
    /\ betaStored \in Seq(Int) /\ Len(betaStored) <= 1
    /\ \/ pendingBeta = [pc |-> "idle"]
       \/ \E v \in Seq(Int) : Len(v) <= 1 /\ pendingBeta = [pc |-> "record", value |-> v]

\* A share with the gaps of the stored one, and closes wherever that has them.
GapsOf(share) ==
    \A d \in 1..Len(indexClose) :
        /\ share[d] = NoClose <=> shareClose[d] = NoClose
        /\ share[d] # NoClose => share[d] \in Nat

LEMMA DaysAre ==
    ASSUME BothLegs, NEW share, GapsOf(share)
    PROVE  /\ Len(indexClose) \in Nat
           /\ returnDays(share) = returnDays(shareClose)
           /\ returnDays(share) \in SUBSET (1..Len(indexClose))
           /\ Cardinality(returnDays(share)) \in Nat
           /\ \A d \in returnDays(share) :
                 /\ d - 1 \in 1..Len(indexClose)
                 /\ shareClose[d] # NoClose /\ shareClose[d - 1] # NoClose
                 /\ share[d] \in Nat /\ share[d - 1] \in Nat
                 /\ indexClose[d] \in Nat /\ indexClose[d - 1] \in Nat
<1> DEFINE n == Len(indexClose)
<1>1. n \in Nat /\ DOMAIN indexClose = 1..n /\ \A d \in 1..n : indexClose[d] \in Nat
  <2>1. indexClose \in Seq(Levels) /\ Levels \subseteq Nat
    BY BetaAssumption DEF BothLegs
  <2>2. n \in Nat /\ DOMAIN indexClose = 1..n /\ \A d \in 1..n : indexClose[d] \in Levels
    BY <2>1
  <2> QED
    BY <2>1, <2>2
<1>2. windowDays \in SUBSET (1..n)
  BY <1>1 DEF windowDays
<1>3. \A d \in 1..n : share[d] = NoClose <=> shareClose[d] = NoClose
  BY DEF GapsOf
<1>4. \A d \in windowDays : d - 1 \in windowDays =>
          (NoClose \notin {share[d], share[d - 1]} <=> NoClose \notin {shareClose[d], shareClose[d - 1]})
  BY <1>2, <1>3
<1>5. returnDays(share) = returnDays(shareClose)
  BY <1>4 DEF returnDays, closeOn
<1>6. returnDays(share) \in SUBSET (1..n) /\ \A d \in returnDays(share) : d - 1 \in 1..n
  BY <1>2 DEF returnDays
<1>7. IsFiniteSet(1..n)
  <2>1. 1 \in Int /\ n \in Int
    BY <1>1
  <2> QED
    BY <2>1, FS_Interval
<1>8. Cardinality(returnDays(share)) \in Nat
  BY <1>6, <1>7, FS_Subset, FS_CardinalityType
<1>9. \A d \in returnDays(share) : share[d] # NoClose /\ share[d - 1] # NoClose
  BY DEF returnDays, closeOn
<1>10. \A d \in 1..n : share[d] # NoClose => share[d] \in Nat /\ shareClose[d] # NoClose
  BY DEF GapsOf
<1>11. ASSUME NEW d \in returnDays(share)
       PROVE  /\ d - 1 \in 1..n /\ shareClose[d] # NoClose /\ shareClose[d - 1] # NoClose
              /\ share[d] \in Nat /\ share[d - 1] \in Nat
              /\ indexClose[d] \in Nat /\ indexClose[d - 1] \in Nat
  <2>1. d \in 1..n /\ d - 1 \in 1..n
    BY <1>6
  <2>2. share[d] # NoClose /\ share[d - 1] # NoClose
    BY <1>9
  <2> QED
    BY <1>1, <1>10, <2>1, <2>2
<1> QED
  BY <1>1, <1>5, <1>6, <1>8, <1>11

LEMMA CovarianceIs ==
    ASSUME BothLegs, NEW days \in SUBSET (1..Len(indexClose)), Cardinality(days) \in Nat,
           NEW a \in [days -> Int], NEW b \in [days -> Int]
    PROVE  /\ covariance(days, a, b) \in Int
           /\ covariance(days, [d \in days |-> 2 * a[d]], b) = 2 * covariance(days, a, b)
<1> DEFINE ab == [d \in days |-> a[d] * b[d]]
           twice == [d \in days |-> 2 * a[d]]
           twiceAb == [d \in days |-> twice[d] * b[d]]
<1>0. Len(indexClose) \in Nat
  BY DEF BothLegs
<1>1. \A d \in days : a[d] * b[d] \in Int
  OBVIOUS
<1>2. ab \in [days -> Int]
  BY <1>1
<1>3. twiceAb = [d \in days |-> 2 * ab[d]]
  <2>1. \A x \in Int, y \in Int : (2 * x) * y = 2 * (x * y)
    OBVIOUS
  <2>2. \A d \in days : twice[d] * b[d] = 2 * ab[d]
    <3> TAKE d \in days
    <3>1. a[d] \in Int /\ b[d] \in Int /\ twice[d] = 2 * a[d] /\ ab[d] = a[d] * b[d]
      OBVIOUS
    <3> QED
      BY <2>1, <3>1
  <2> QED
    BY <2>2
<1> HIDE DEF ab
<1>4. sumOver(days, ab) \in Int /\ sumOver(days, [d \in days |-> 2 * ab[d]]) = 2 * sumOver(days, ab)
  BY <1>0, <1>2, SumDoubles
<1>5. sumOver(days, a) \in Int /\ sumOver(days, twice) = 2 * sumOver(days, a)
  BY <1>0, SumDoubles
<1>6. sumOver(days, b) \in Int
  BY <1>0, SumDoubles
<1>7. covariance(days, a, b) = Cardinality(days) * sumOver(days, ab) - sumOver(days, a) * sumOver(days, b)
  BY DEF covariance, ab
<1>8. covariance(days, twice, b)
        = Cardinality(days) * (2 * sumOver(days, ab)) - (2 * sumOver(days, a)) * sumOver(days, b)
  <2>1. covariance(days, twice, b)
          = Cardinality(days) * sumOver(days, twiceAb) - sumOver(days, twice) * sumOver(days, b)
    BY DEF covariance
  <2> QED
    BY <1>3, <1>4, <1>5, <2>1
<1>9. \A n \in Int, x \in Int, y \in Int, z \in Int :
          /\ n * x - y * z \in Int
          /\ n * (2 * x) - (2 * y) * z = 2 * (n * x - y * z)
  BY Z3
<1> QED
  BY <1>4, <1>5, <1>6, <1>7, <1>8, <1>9

LEMMA Percents == ASSUME NEW v \in Int, v > 0
                  PROVE  (100 * v) \div v = 100 /\ (100 * (2 * v)) \div v = 200
BY Z3

\* Beta of a share with the gaps of the stored one, from its moves.
LEMMA BetaIs ==
    ASSUME BothLegs, NEW share, GapsOf(share),
           NEW days, days = returnDays(shareClose),
           NEW ix, ix = [d \in days |-> indexClose[d] - indexClose[d - 1]],
           NEW moves, moves = [d \in days |-> share[d] - share[d - 1]]
    PROVE  /\ ix \in [days -> Int] /\ moves \in [days -> Int] /\ covariance(days, ix, ix) \in Int
           /\ computeBeta(share) =
                 IF Cardinality(days) < MinObservations \/ covariance(days, ix, ix) <= 0 THEN NoBeta
                 ELSE <<(100 * covariance(days, moves, ix)) \div covariance(days, ix, ix)>>
<1>1. /\ days = returnDays(share) /\ days \in SUBSET (1..Len(indexClose)) /\ Cardinality(days) \in Nat
      /\ \A d \in days : /\ share[d] \in Nat /\ share[d - 1] \in Nat
                         /\ indexClose[d] \in Nat /\ indexClose[d - 1] \in Nat
  BY DaysAre
<1>2. ix \in [days -> Int] /\ moves \in [days -> Int]
  BY <1>1
<1>3. covariance(days, ix, ix) \in Int
  BY <1>1, <1>2, CovarianceIs
<1>4. computeBeta(share) =
                 IF Cardinality(days) < MinObservations \/ covariance(days, ix, ix) <= 0 THEN NoBeta
                 ELSE <<(100 * covariance(days, moves, ix)) \div covariance(days, ix, ix)>>
  BY <1>1, Zenon DEF computeBeta, closeOn
<1> QED
  BY <1>2, <1>3, <1>4

LEMMA BetaTyped ==
    ASSUME BothLegs PROVE computeBeta(shareClose) \in Seq(Int) /\ Len(computeBeta(shareClose)) <= 1
<1> DEFINE days == returnDays(shareClose)
           ix == [d \in days |-> indexClose[d] - indexClose[d - 1]]
           moves == [d \in days |-> shareClose[d] - shareClose[d - 1]]
           v == covariance(days, ix, ix)
           c == covariance(days, moves, ix)
<1>1. GapsOf(shareClose)
  <2>1. shareClose \in Seq(Levels \cup {NoClose}) /\ Len(indexClose) = Len(shareClose) /\ Levels \subseteq Nat
    BY BetaAssumption DEF BothLegs
  <2>2. \A d \in 1..Len(indexClose) : shareClose[d] \in Levels \cup {NoClose}
    BY <2>1
  <2> QED
    BY <2>1, <2>2 DEF GapsOf
<1>2. days \in SUBSET (1..Len(indexClose)) /\ Cardinality(days) \in Nat
  BY <1>1, DaysAre
<1>3. /\ ix \in [days -> Int] /\ moves \in [days -> Int] /\ v \in Int
      /\ computeBeta(shareClose) = IF Cardinality(days) < MinObservations \/ v <= 0 THEN NoBeta ELSE <<(100 * c) \div v>>
  <2> HIDE DEF days
  <2> QED
    BY <1>1, BetaIs DEF days
<1>4. c \in Int
  BY <1>2, <1>3, CovarianceIs
<1> HIDE DEF days, ix, moves, v, c
<1>5. v > 0 => (100 * c) \div v \in Int
  BY <1>3, <1>4
<1>6. computeBeta(shareClose) = NoBeta \/ (v > 0 /\ computeBeta(shareClose) = <<(100 * c) \div v>>)
  BY <1>3
<1>7. NoBeta \in Seq(Int) /\ Len(NoBeta) = 0 /\ \A x \in Int : <<x>> \in Seq(Int) /\ Len(<<x>>) = 1
  BY DEF NoBeta
<1>8. CASE computeBeta(shareClose) = NoBeta
  BY <1>7, <1>8
<1>9. CASE v > 0 /\ computeBeta(shareClose) = <<(100 * c) \div v>>
  <2> DEFINE x == (100 * c) \div v
  <2>1. x \in Int
    BY <1>5, <1>9
  <2>2. computeBeta(shareClose) = <<x>>
    BY <1>9
  <2> HIDE DEF x
  <2> QED
    BY <1>7, <2>1, <2>2
<1> QED
  BY <1>6, <1>8, <1>9

LEMMA BetaStarts == InitBeta => BetaInv
BY DEF InitBeta, BetaInv, BothLegs, NoBeta

LEMMA BetaStep == BetaInv /\ [NextBeta]_betaVars => BetaInv'
<1>1. ASSUME BetaInv, UNCHANGED betaVars PROVE BetaInv'
  BY <1>1 DEF betaVars, BetaInv, BothLegs
<1>2. ASSUME BetaInv, EndSession PROVE BetaInv'
  <2>1. PICK i \in Levels, s \in Levels \cup {NoClose} :
            indexClose' = Append(indexClose, i) /\ shareClose' = Append(shareClose, s)
    BY <1>2 DEF EndSession
  <2>2. BothLegs'
    BY <1>2, <2>1 DEF BetaInv, BothLegs
  <2> QED
    BY <1>2, <2>2 DEF BetaInv, EndSession
<1>3. ASSUME BetaInv, forSymbol PROVE BetaInv'
  <2>1. computeBeta(shareClose) \in Seq(Int) /\ Len(computeBeta(shareClose)) <= 1
    BY <1>3, BetaTyped DEF BetaInv
  <2> QED
    BY <1>3, <2>1 DEF BetaInv, BothLegs, forSymbol
<1>4. ASSUME BetaInv, recordBeta PROVE BetaInv'
  <2>1. PICK v \in Seq(Int) : Len(v) <= 1 /\ pendingBeta = [pc |-> "record", value |-> v]
    BY <1>4 DEF BetaInv, recordBeta
  <2> QED
    BY <1>4, <2>1 DEF BetaInv, BothLegs, recordBeta
<1> QED
  BY <1>1, <1>2, <1>3, <1>4 DEF NextBeta

\* The same moves give one, doubled ones two.
LEMMA BetaIsRight == BetaInv => BetaTypeOK /\ BetaIgnoresGaps
<1> SUFFICES ASSUME BetaInv PROVE BetaTypeOK /\ BetaIgnoresGaps
  OBVIOUS
<1>1. BetaTypeOK
  BY DEF BetaInv, BothLegs, BetaTypeOK
<1> DEFINE n == Len(indexClose)
           follower == [d \in DOMAIN shareClose |->
                           IF shareClose[d] = NoClose THEN NoClose ELSE indexClose[d]]
           doubled == [d \in DOMAIN shareClose |->
                           IF shareClose[d] = NoClose THEN NoClose ELSE 2 * indexClose[d]]
           days == returnDays(shareClose)
           ix == [d \in days |-> indexClose[d] - indexClose[d - 1]]
           v == covariance(days, ix, ix)
           twice == [d \in days |-> 2 * ix[d]]
<1>2. BothLegs
  BY DEF BetaInv
<1>3. n \in Nat /\ DOMAIN shareClose = 1..n /\ \A d \in 1..n : indexClose[d] \in Nat /\ shareClose[d] \in Nat \cup {NoClose}
  <2>1. /\ indexClose \in Seq(Levels) /\ shareClose \in Seq(Levels \cup {NoClose})
        /\ Len(indexClose) = Len(shareClose) /\ Levels \subseteq Nat
    BY <1>2, BetaAssumption DEF BothLegs
  <2>2. /\ n \in Nat /\ DOMAIN shareClose = 1..n
        /\ \A d \in 1..n : indexClose[d] \in Levels /\ shareClose[d] \in Levels \cup {NoClose}
    BY <2>1
  <2> QED
    BY <2>1, <2>2
<1>4. GapsOf(shareClose) /\ GapsOf(follower) /\ GapsOf(doubled)
  BY <1>3 DEF GapsOf, NoClose
<1>5. /\ days \in SUBSET (1..n) /\ Cardinality(days) \in Nat
      /\ \A d \in days : d - 1 \in 1..n /\ shareClose[d] # NoClose /\ shareClose[d - 1] # NoClose
                         /\ indexClose[d] \in Nat /\ indexClose[d - 1] \in Nat
  BY <1>2, <1>4, DaysAre
<1>6. [d \in days |-> follower[d] - follower[d - 1]] = ix
  <2>1. \A d \in days : follower[d] = indexClose[d] /\ follower[d - 1] = indexClose[d - 1]
    BY <1>3, <1>5
  <2> QED
    BY <2>1
<1>7. [d \in days |-> doubled[d] - doubled[d - 1]] = twice
  <2>1. \A d \in days : doubled[d] = 2 * indexClose[d] /\ doubled[d - 1] = 2 * indexClose[d - 1]
    BY <1>3, <1>5
  <2>2. \A d \in days : doubled[d] - doubled[d - 1] = 2 * ix[d]
    <3> TAKE d \in days
    <3>1. indexClose[d] \in Nat /\ indexClose[d - 1] \in Nat /\ ix[d] = indexClose[d] - indexClose[d - 1]
      BY <1>5
    <3>2. doubled[d] = 2 * indexClose[d] /\ doubled[d - 1] = 2 * indexClose[d - 1]
      BY <2>1
    <3> HIDE DEF doubled, ix
    <3> QED
      BY <3>1, <3>2
  <2> QED
    BY <2>2
<1> HIDE DEF follower, doubled, days, ix
<1>8. PICK beta : /\ ix \in [days -> Int] /\ v \in Int
                  /\ computeBeta(shareClose) =
                       IF Cardinality(days) < MinObservations \/ v <= 0 THEN NoBeta ELSE <<beta>>
  <2> DEFINE moves == [d \in days |-> shareClose[d] - shareClose[d - 1]]
  <2>1. /\ ix \in [days -> Int] /\ v \in Int
        /\ computeBeta(shareClose) =
              IF Cardinality(days) < MinObservations \/ v <= 0 THEN NoBeta
              ELSE <<(100 * covariance(days, moves, ix)) \div v>>
    BY <1>2, <1>4, BetaIs DEF days, ix
  <2> HIDE DEF v
  <2> QED
    BY <2>1
<1>9. computeBeta(follower) =
          IF Cardinality(days) < MinObservations \/ v <= 0 THEN NoBeta ELSE <<(100 * v) \div v>>
  BY <1>2, <1>4, <1>6, BetaIs DEF days, ix
<1>10. computeBeta(doubled) =
          IF Cardinality(days) < MinObservations \/ v <= 0 THEN NoBeta
          ELSE <<(100 * covariance(days, twice, ix)) \div v>>
  BY <1>2, <1>4, <1>7, BetaIs DEF days, ix
<1>11. covariance(days, twice, ix) = 2 * v
  BY <1>2, <1>5, <1>8, CovarianceIs
<1> HIDE DEF v, twice
<1>12. computeBeta(follower) \in {<<100>>, NoBeta} /\ computeBeta(doubled) \in {<<200>>, NoBeta}
  BY <1>8, <1>9, <1>10, <1>11, Percents
<1>13. computeBeta(follower) = NoBeta <=> computeBeta(shareClose) = NoBeta
  BY <1>8, <1>9 DEF NoBeta
<1> QED
  BY <1>1, <1>12, <1>13 DEF BetaIgnoresGaps, follower, doubled

\* The closes and the beta stored of them keep their types.
THEOREM BetaTypes == BetaSpec => []BetaTypeOK
<1> QED
  BY BetaStarts, BetaStep, BetaIsRight, PTL DEF BetaSpec

\* For any closes of the share and of the index, whatever sessions the share misses: a share
\* that moves with the index has a beta of one, and doubled moves double it.
THEOREM BetaStaysItself == BetaSpec => []BetaIgnoresGaps
<1> QED
  BY BetaStarts, BetaStep, BetaIsRight, PTL DEF BetaSpec

---------------------------------------------------------------------------
\* A behaviour about beta is one of BetaSpec; no other becomes one.
LEMMA BetaRuns ==
    /\ Spec /\ part = "beta" => BetaSpec
    /\ Spec /\ part # "beta" => [](part # "beta")
<1>1. Init /\ part = "beta" => InitBeta
  BY DEF Init
<1>2. part = "beta" /\ [Next]_allVars => (part = "beta")' /\ [NextBeta]_betaVars
  BY DEF Next, Only, allVars
<1>3. part # "beta" /\ [Next]_allVars => (part # "beta")'
  BY DEF Next, Only, allVars
<1> QED
  BY <1>1, <1>2, <1>3, PTL DEF Spec, BetaSpec

\* BetaHolds, of all that readers are served: a share's gaps do not move its beta.
THEOREM BetaAlwaysHolds == Spec => []BetaHolds
<1>1. part = "beta" \/ part # "beta"
  OBVIOUS
<1>2. (part # "beta" \/ BetaIgnoresGaps) => BetaHolds
  BY DEF BetaHolds
<1> QED
  BY <1>1, <1>2, BetaRuns, BetaStaysItself, PTL

=============================================================================
