----------------------------- MODULE AlertDesk -----------------------------
(***************************************************************************)
(* The alerts page.  The alerts of a browser belong to the token it keeps; *)
(* the page lists them, creates, pauses and deletes them, and has them     *)
(* evaluated on arrival and every minute.  Requests overlap: the server    *)
(* takes them, and answers come back, in any order, or never; the list is  *)
(* asked anew after every change the page is told of.                      *)
(***************************************************************************)
EXTENDS Integers, FiniteSets

CONSTANTS
    MaxAlerts,      \* bound on the alerts created
    MaxCalls        \* bound on the changes and evaluations asked for

ASSUME AlertDeskAssumption == MaxAlerts \in Nat \ {0} /\ MaxCalls \in Nat

Ids == 1..MaxAlerts
NotLoaded == [loaded |-> FALSE]

\* The request of the list: none, sent, read and on its way back; the last one failed.
Unasked == [at |-> "none"]
Sent == [at |-> "sent"]
ListFailed == [at |-> "failed"]

VARIABLES
    alerts,     \* what the server holds, by id: whose it is, paused, fired
    deviceToken,\* the token the browser keeps; another one once its data is cleared
    shown,      \* the list as it last came
    listAsk,    \* the request of the list
    calls,      \* changes and evaluations under way: what, of which alert, how far
    deleting,   \* the alert the dialog asks about, or 0
    count,      \* calls so far
    unsure      \* a change the page was not told of, or a list that joined an older request

alertDeskVars == <<alerts, deviceToken, shown, listAsk, calls, deleting, count, unsure>>

Held == DOMAIN alerts
ownAlerts == [loaded |-> TRUE, rows |-> [i \in {j \in Held : alerts[j].owner = deviceToken} |-> alerts[i]]]

AlertDeskTypeOK ==
    /\ Held \subseteq Ids /\ deviceToken \in 1..2 /\ count \in 0..MaxCalls /\ unsure \in BOOLEAN
    /\ \A c \in calls : c.at \in {"sent", "done", "fired"} /\ c.what \in {"evaluate", "create", "pause", "resume", "delete"}

\* An alert of an earlier visit, and the page opens: the list and an evaluation are asked.
InitAlertDesk ==
    /\ \E ids \in {{}, {1}} :
          alerts = [i \in ids |-> [owner |-> 1, paused |-> FALSE, fired |-> FALSE]]
    /\ deviceToken = 1 /\ shown = NotLoaded /\ listAsk = Sent /\ deleting = 0
    /\ calls = {[what |-> "evaluate", id |-> 0, at |-> "sent", n |-> 0]} /\ count = 0 /\ unsure = FALSE

---------------------------------------------------------------------------
(***************************************************************************)
(* The server.                                                             *)
(***************************************************************************)
Becomes(c, at) == calls' = (calls \ {c}) \cup {[c EXCEPT !.at = at]}
server == <<deviceToken, shown, listAsk, deleting, count, unsure>>

\* A new alert under an id of its own.
createTaken(c) ==
    /\ c.what = "create" /\ c.at = "sent" /\ Becomes(c, "done")
    /\ \E i \in Ids \ Held :
          /\ \A j \in 1..(i - 1) : j \in Held
          /\ alerts' = [j \in Held \cup {i} |->
                IF j = i THEN [owner |-> deviceToken, paused |-> FALSE, fired |-> FALSE] ELSE alerts[j]]
    /\ UNCHANGED server

\* An alert that is gone is not found, and nothing changes.
toggleTaken(c) ==
    /\ c.what \in {"pause", "resume"} /\ c.id \in Held /\ c.at = "sent" /\ Becomes(c, "done")
    /\ alerts' = [alerts EXCEPT ![c.id].paused = (c.what = "pause")]
    /\ UNCHANGED server

deleteTaken(c) ==
    /\ c.what = "delete" /\ c.id \in Held /\ c.at = "sent" /\ Becomes(c, "done")
    /\ alerts' = [j \in Held \ {c.id} |-> alerts[j]]
    /\ UNCHANGED server

\* Any of the browser's alerts that are not paused and not in their cooldown may fire.
evaluateTaken(c) ==
    /\ c.what = "evaluate" /\ c.at = "sent"
    /\ \E some \in SUBSET {i \in Held : alerts[i].owner = deviceToken /\ ~alerts[i].paused /\ ~alerts[i].fired} :
          /\ alerts' = [i \in Held |-> [alerts[i] EXCEPT !.fired = i \in some \/ alerts[i].fired]]
          /\ Becomes(c, IF some = {} THEN "done" ELSE "fired")
    /\ UNCHANGED server

listRead ==
    /\ listAsk = Sent /\ listAsk' = [at |-> "read", list |-> ownAlerts]
    /\ UNCHANGED <<alerts, deviceToken, shown, calls, deleting, count, unsure>>

---------------------------------------------------------------------------
(***************************************************************************)
(* The page.                                                               *)
(***************************************************************************)
\* A change, or an evaluation that fired something.
refreshes(c) == c.what # "evaluate" \/ c.at = "fired"

\* The list is asked anew, dropping the request under way; a first one is joined.
invalidateList ==
    IF shown.loaded \/ listAsk \in {Unasked, ListFailed}
    THEN listAsk' = Sent /\ unsure' = FALSE
    ELSE listAsk' = listAsk /\ unsure' = TRUE

Call(what, id) ==
    /\ count < MaxCalls /\ count' = count + 1
    /\ calls' = calls \cup {[what |-> what, id |-> id, at |-> "sent", n |-> count + 1]}

\* On arrival and each minute.
evaluateAll ==
    /\ Call("evaluate", 0)
    /\ UNCHANGED <<alerts, deviceToken, shown, listAsk, deleting, unsure>>

\* One at a time.
create ==
    /\ (\A c \in calls : c.what # "create") /\ Cardinality(Held) < MaxAlerts
    /\ Call("create", 0)
    /\ UNCHANGED <<alerts, deviceToken, shown, listAsk, deleting, unsure>>

\* The button does the opposite of what the list shows.
toggleAlert(i) ==
    /\ shown.loaded /\ i \in DOMAIN shown.rows
    /\ Call(IF shown.rows[i].paused THEN "resume" ELSE "pause", i)
    /\ UNCHANGED <<alerts, deviceToken, shown, listAsk, deleting, unsure>>

\* The dialog does not close while its delete is under way.
openDelete(i) ==
    /\ shown.loaded /\ i \in DOMAIN shown.rows /\ deleting = 0 /\ deleting' = i
    /\ UNCHANGED <<alerts, deviceToken, shown, listAsk, calls, count, unsure>>

closeDelete ==
    /\ deleting # 0 /\ (\A c \in calls : c.what # "delete") /\ deleting' = 0
    /\ UNCHANGED <<alerts, deviceToken, shown, listAsk, calls, count, unsure>>

confirmDelete ==
    /\ deleting # 0 /\ (\A c \in calls : c.what # "delete") /\ Call("delete", deleting)
    /\ UNCHANGED <<alerts, deviceToken, shown, listAsk, deleting, unsure>>

\* Told of a change: the list is asked anew; a new alert is evaluated at once.  The form,
\* left out here, is emptied with it.
onSuccess(c) ==
    /\ c.at \in {"done", "fired"}
    /\ calls' = (calls \ {c}) \cup
          (IF c.what = "create" THEN {[what |-> "evaluate", id |-> 0, at |-> "sent", n |-> c.n]} ELSE {})
    /\ deleting' = IF c.what = "delete" THEN 0 ELSE deleting
    /\ IF refreshes(c) THEN invalidateList ELSE UNCHANGED <<listAsk, unsure>>
    /\ UNCHANGED <<alerts, deviceToken, shown, count>>

\* The answer is lost, or the request never came; what it did on the server stays.
onError(c) ==
    /\ calls' = calls \ {c} /\ unsure' = (unsure \/ c.at # "sent")
    /\ UNCHANGED <<alerts, deviceToken, shown, listAsk, deleting, count>>

listArrives ==
    /\ listAsk.at = "read" /\ shown' = listAsk.list /\ listAsk' = Unasked
    /\ UNCHANGED <<alerts, deviceToken, calls, deleting, count, unsure>>

listFails ==
    /\ listAsk.at \in {"sent", "read"} /\ listAsk' = ListFailed
    /\ UNCHANGED <<alerts, deviceToken, shown, calls, deleting, count, unsure>>

\* The page opens anew, nothing of the old one under way; with the browser's data
\* cleared, under another token.
arrive(token) ==
    /\ (\A c \in calls : c.at # "sent") /\ count < MaxCalls /\ count' = count + 1 /\ deviceToken' = token
    /\ shown' = NotLoaded /\ listAsk' = Sent /\ deleting' = 0 /\ unsure' = FALSE
    /\ calls' = {[what |-> "evaluate", id |-> 0, at |-> "sent", n |-> count + 1]}
    /\ UNCHANGED alerts

NextAlertDesk ==
    \/ evaluateAll \/ create \/ closeDelete \/ confirmDelete
    \/ listRead \/ listArrives \/ listFails
    \/ \E i \in Ids : toggleAlert(i) \/ openDelete(i)
    \/ \E c \in calls :
          \/ createTaken(c) \/ toggleTaken(c) \/ deleteTaken(c) \/ evaluateTaken(c)
          \/ onSuccess(c) \/ onError(c)
    \/ \E token \in deviceToken..2 : arrive(token)

AlertDeskSpec == InitAlertDesk /\ [][NextAlertDesk]_alertDeskVars

---------------------------------------------------------------------------
\* Once every answer is in and the list with them, the page shows exactly the alerts of
\* this browser: what it was told is created and not what it was told is deleted, paused
\* and resumed as the server took the requests, and with every firing an evaluation of
\* this page reported; unless an answer was lost, or the first list was still on its way.
ListIsHeld ==
    shown.loaded /\ listAsk = Unasked /\ ~unsure /\ (\A c \in calls : c.at = "sent") =>
        shown = ownAlerts

=============================================================================
