------------------------------- MODULE SyncDesk -------------------------------
(***************************************************************************)
(* The dashboard's desk: the state of the sync queue, asked every three    *)
(* seconds; the button that syncs every stock, by a job of a second queue  *)
(* that a worker spreads over the first stock by stock; the word that says *)
(* it is done and the last refresh of the table; the failures and the      *)
(* button that clears them.  Each answer is asked, read on the server and  *)
(* delivered at three moments; a request asked anew drops the one under    *)
(* way, once there is an answer to show meanwhile.                         *)
(*                                                                         *)
(* The failures of one queue, down to its keys, are below it.              *)
(***************************************************************************)
EXTENDS Integers, FiniteSets, SequencesExt

CONSTANTS
    Stocks,         \* tracked symbols
    MaxStored,      \* bound on the syncs that end
    MaxRuns         \* bound on what anybody adds to the queue

ASSUME SyncDeskAssumption == MaxStored \in Nat /\ MaxRuns \in Nat

\* A request: none, sent, or read on the server and on its way back; the last one failed.
Idle == [at |-> "none"]
Failed == [at |-> "failed"]
Sent == [at |-> "sent"]
Read(answer) == [at |-> "read", answer |-> answer]

VARIABLES
    queue,      \* stock-sync: symbols with a sync waiting, delayed or running
    dead,       \* stock-sync: symbols in the failed set
    fanouts,    \* stock-sync-all: jobs waiting
    toEnqueue,  \* stock-sync-all: symbols its running job has still to enqueue
    stores,     \* syncs that wrote their figures
    runs,       \* fan-outs and single syncs asked for
    board,      \* the page is open: its state; its component's refs with it
    statusData, statusAsk,      \* the queue's state: the answer shown, the request
    stocksData, stocksAsk,      \* the table: as of which write, the request
    syncAll,    \* the request that syncs everything: idle, sent, accepted
    clearing,   \* the request that clears the failures: idle, sent, cleared
    due,        \* history: writes the table must show since the page said a sync is complete
    rid         \* history: failures a clear the page was told of has removed

syncDeskVars == <<queue, dead, fanouts, toEnqueue, stores, runs, board, statusData, statusAsk,
              stocksData, stocksAsk, syncAll, clearing, due, rid>>
spread == <<fanouts, toEnqueue>>
server == <<queue, dead, spread, stores, runs>>
ghosts == <<due, rid>>
requests == <<statusAsk, stocksAsk, syncAll, clearing>>

NoData == [busy |-> FALSE, failed |-> {}, known |-> FALSE]
Away == [open |-> FALSE, justTriggered |-> FALSE, wasSyncing |-> FALSE, confirm |-> "none", said |-> "none"]
Fresh == [Away EXCEPT !.open = TRUE]

SyncDeskTypeOK ==
    /\ queue \subseteq Stocks /\ dead \subseteq Stocks /\ toEnqueue \subseteq Stocks
    /\ fanouts \in 0..MaxRuns /\ stores \in 0..MaxStored /\ runs \in 0..MaxRuns
    /\ board.confirm \in {"none", "all", "clear"} /\ due \in 0..MaxStored
    /\ board.said \in {"none", "started", "complete", "cleared", "failed"}

InitSyncDesk ==
    /\ queue \in {{}, Stocks} /\ dead = {} /\ fanouts = 0 /\ toEnqueue = {} /\ stores = 0 /\ runs = 0
    /\ board = Fresh /\ statusData = NoData /\ statusAsk = Sent
    /\ stocksData = -1 /\ stocksAsk = Sent /\ syncAll = "idle" /\ clearing = "idle"
    /\ due = 0 /\ rid = {}

---------------------------------------------------------------------------
(***************************************************************************)
(* The server.                                                             *)
(***************************************************************************)
\* A sync writes its figures and leaves the queue, or fails for good.
SyncEnds(s, ok) ==
    /\ s \in queue /\ queue' = queue \ {s}
    /\ stores < MaxStored /\ stores' = IF ok THEN stores + 1 ELSE stores
    /\ dead' = IF ok THEN dead ELSE dead \cup {s}
    /\ rid' = IF ok THEN rid ELSE rid \ {s}
    /\ UNCHANGED <<spread, runs, board, statusData, stocksData, requests, due>>

\* A job under way absorbs the request; a finished one is removed first, a failure too.
enqueueSync(s) == queue' = queue \cup {s} /\ dead' = dead \ {s}

\* Another reader has one stock synced.
OthersSync(s) ==
    /\ s \notin queue /\ runs < MaxRuns /\ runs' = runs + 1 /\ enqueueSync(s)
    /\ UNCHANGED <<spread, stores, board, statusData, stocksData, requests, ghosts>>

\* A job of the second queue, the reader's or the schedule's.
enqueueSyncAll == runs < MaxRuns /\ runs' = runs + 1 /\ fanouts' = fanouts + 1

CronSyncAll ==
    /\ enqueueSyncAll
    /\ UNCHANGED <<queue, dead, toEnqueue, stores, board, statusData, stocksData, requests, ghosts>>

\* Its worker takes one at a time, reads the tracked symbols and enqueues them one by one.
processSyncAllJob ==
    /\ toEnqueue = {} /\ fanouts > 0 /\ fanouts' = fanouts - 1 /\ toEnqueue' = Stocks
    /\ UNCHANGED <<queue, dead, stores, runs, board, statusData, stocksData, requests, ghosts>>

FanOut(s) ==
    /\ s \in toEnqueue /\ toEnqueue' = toEnqueue \ {s} /\ enqueueSync(s)
    /\ UNCHANGED <<fanouts, stores, runs, board, statusData, stocksData, requests, ghosts>>

\* It has one attempt; what it had enqueued stays.
FanOutFails ==
    /\ toEnqueue # {} /\ toEnqueue' = {}
    /\ UNCHANGED <<queue, dead, fanouts, stores, runs, board, statusData, stocksData, requests, ghosts>>

getSyncStatus ==
    /\ statusAsk = Sent
    /\ statusAsk' = Read([busy |-> queue # {}, failed |-> dead, known |-> TRUE, of |-> stores])
    /\ UNCHANGED <<server, board, statusData, stocksData, stocksAsk, syncAll, clearing, ghosts>>

listStocks ==
    /\ stocksAsk = Sent /\ stocksAsk' = Read(stores)
    /\ UNCHANGED <<server, board, statusData, stocksData, statusAsk, syncAll, clearing, ghosts>>

syncAllAccepted ==
    /\ syncAll = "sent" /\ syncAll' = "accepted"
    /\ enqueueSyncAll
    /\ UNCHANGED <<queue, dead, toEnqueue, stores, board, statusData, stocksData, statusAsk, stocksAsk, clearing, ghosts>>

clearFailed ==
    /\ clearing = "sent" /\ clearing' = "cleared" /\ dead' = {} /\ rid' = dead
    /\ UNCHANGED <<queue, spread, stores, runs, board, statusData, stocksData, statusAsk, stocksAsk, syncAll, due>>

---------------------------------------------------------------------------
(***************************************************************************)
(* The page.                                                               *)
(***************************************************************************)
syncingAll(b, data) == b.justTriggered \/ data.busy

\* A poll joins a request under way; a query that is invalidated drops it, if it has
\* an answer already.
poll(ask) == IF ask \in {Idle, Failed} THEN Sent ELSE ask
invalidate(ask, shown) == IF shown THEN Sent ELSE poll(ask)

\* Kept until the fan-out shows up in the queue.
stillTriggered(b, data) == b.justTriggered /\ ~data.busy

\* The two effects after the page has rendered: when the syncing it saw is over, it
\* refreshes the table a last time and says so.
effects(b, data, asOf) ==
    LET over == b.wasSyncing /\ ~syncingAll(b, data)
    IN /\ board' = [b EXCEPT !.justTriggered = stillTriggered(b, data),
                             !.wasSyncing = syncingAll(b, data),
                             !.said = IF over THEN "complete" ELSE b.said]
       /\ stocksAsk' = IF over THEN invalidate(stocksAsk, stocksData # -1) ELSE stocksAsk
       /\ due' = IF over /\ stocksData # -1 THEN asOf ELSE due

\* Every three seconds; the table while something syncs, or while the exchange is open.
pollStatus ==
    /\ board.open /\ statusAsk # poll(statusAsk) /\ statusAsk' = poll(statusAsk)
    /\ UNCHANGED <<server, board, statusData, stocksData, stocksAsk, syncAll, clearing, ghosts>>

pollStocks ==
    /\ board.open /\ stocksAsk # poll(stocksAsk) /\ stocksAsk' = poll(stocksAsk)
    /\ UNCHANGED <<server, board, statusData, stocksData, statusAsk, syncAll, clearing, ghosts>>

statusArrives ==
    /\ statusAsk.at = "read" /\ statusAsk' = Idle
    /\ LET seen == statusAsk.answer
           data == [busy |-> seen.busy, failed |-> seen.failed, known |-> TRUE]
       IN /\ statusData' = data
          /\ IF board.open THEN effects(board, data, seen.of) ELSE UNCHANGED <<board, stocksAsk, due>>
    /\ UNCHANGED <<server, stocksData, syncAll, clearing, rid>>

\* A request that fails twice leaves what is shown; the table then says so instead.
statusFails ==
    /\ statusAsk \notin {Idle, Failed} /\ statusAsk' = Failed
    /\ UNCHANGED <<server, board, statusData, stocksData, stocksAsk, syncAll, clearing, ghosts>>

stocksFail ==
    /\ stocksAsk \notin {Idle, Failed} /\ stocksAsk' = Failed
    /\ UNCHANGED <<server, board, statusData, stocksData, statusAsk, syncAll, clearing, ghosts>>

stocksArrive ==
    /\ stocksAsk.at = "read" /\ stocksAsk' = Idle /\ stocksData' = stocksAsk.answer
    /\ UNCHANGED <<server, board, statusData, statusAsk, syncAll, clearing, ghosts>>

\* The dialogs: neither closes while its request is under way.
openConfirm ==
    /\ board.open /\ board.confirm = "none" /\ ~syncingAll(board, statusData) /\ syncAll = "idle"
    /\ board' = [board EXCEPT !.confirm = "all"]
    /\ UNCHANGED <<server, statusData, stocksData, requests, ghosts>>

\* The failures the panel lists, none while the state of the queue is not known.
failuresShown == statusData.failed

openClear ==
    /\ board.open /\ board.confirm = "none" /\ failuresShown # {} /\ clearing = "idle"
    /\ board' = [board EXCEPT !.confirm = "clear"]
    /\ UNCHANGED <<server, statusData, stocksData, requests, ghosts>>

closeConfirm ==
    /\ board.confirm # "none" /\ board' = [board EXCEPT !.confirm = "none"]
    /\ UNCHANGED <<server, statusData, stocksData, requests, ghosts>>

runSyncAll ==
    /\ board.confirm = "all" /\ syncAll = "idle" /\ syncAll' = "sent"
    /\ board' = [board EXCEPT !.confirm = "none"]
    /\ UNCHANGED <<server, statusData, stocksData, statusAsk, stocksAsk, clearing, ghosts>>

\* The answer: the queue is asked anew, and the page syncs until it sees it in the queue.
syncAllStarted ==
    /\ syncAll = "accepted" /\ syncAll' = "idle"
    /\ statusAsk' = IF board.open THEN invalidate(statusAsk, statusData.known) ELSE statusAsk
    /\ IF board.open
       THEN effects([board EXCEPT !.justTriggered = TRUE, !.said = "started"], statusData, due)
       ELSE UNCHANGED <<board, stocksAsk, due>>
    /\ UNCHANGED <<server, statusData, stocksData, clearing, rid>>

\* It failed, before or after the server had taken it.
syncAllFailed ==
    /\ syncAll # "idle" /\ syncAll' = "idle"
    /\ board' = IF board.open THEN [board EXCEPT !.said = "failed"] ELSE board
    /\ UNCHANGED <<server, statusData, stocksData, statusAsk, stocksAsk, clearing, ghosts>>

runClear ==
    /\ board.confirm = "clear" /\ clearing = "idle" /\ clearing' = "sent"
    /\ board' = [board EXCEPT !.confirm = "none"]
    /\ UNCHANGED <<server, statusData, stocksData, statusAsk, stocksAsk, syncAll, ghosts>>

clearAnswered ==
    /\ clearing = "cleared" /\ clearing' = "idle"
    /\ statusAsk' = IF board.open THEN invalidate(statusAsk, statusData.known) ELSE statusAsk
    /\ board' = IF board.open THEN [board EXCEPT !.said = "cleared"] ELSE board
    /\ UNCHANGED <<server, statusData, stocksData, stocksAsk, syncAll, ghosts>>

clearFails ==
    /\ clearing # "idle" /\ clearing' = "idle"
    /\ board' = IF board.open THEN [board EXCEPT !.said = "failed"] ELSE board
    /\ UNCHANGED <<server, statusData, stocksData, statusAsk, stocksAsk, syncAll, ghosts>>

\* Another page, and back: the answers are kept, the page's own state is not, and
\* answers older than half a minute are asked anew.
Leave ==
    /\ board.open /\ board' = Away /\ due' = 0
    /\ UNCHANGED <<server, statusData, stocksData, requests, rid>>

Return(stale) ==
    /\ ~board.open
    /\ board' = [Fresh EXCEPT !.wasSyncing = syncingAll(Fresh, statusData)]
    /\ statusAsk' = IF stale \/ ~statusData.known THEN poll(statusAsk) ELSE statusAsk
    /\ stocksAsk' = IF stale \/ stocksData = -1 THEN poll(stocksAsk) ELSE stocksAsk
    /\ UNCHANGED <<server, statusData, stocksData, syncAll, clearing, ghosts>>

NextSyncDesk ==
    \/ \E s \in Stocks : SyncEnds(s, TRUE) \/ SyncEnds(s, FALSE) \/ OthersSync(s) \/ FanOut(s)
    \/ CronSyncAll \/ processSyncAllJob \/ FanOutFails
    \/ getSyncStatus \/ listStocks \/ syncAllAccepted \/ clearFailed
    \/ pollStatus \/ pollStocks \/ statusArrives \/ statusFails \/ stocksArrive \/ stocksFail
    \/ openConfirm \/ openClear \/ closeConfirm \/ runSyncAll \/ syncAllStarted \/ syncAllFailed
    \/ runClear \/ clearAnswered \/ clearFails \/ Leave \/ \E stale \in BOOLEAN : Return(stale)

SyncDeskSpec == InitSyncDesk /\ [][NextSyncDesk]_syncDeskVars

---------------------------------------------------------------------------
\* What the table shows: the last request's error, its first rows on their way, or rows.
tableShows ==
    IF stocksAsk = Failed THEN "error" ELSE IF stocksData = -1 THEN "skeleton" ELSE "rows"

\* What the page says of the figures and of the failures is so.  Once the refresh it makes
\* as it says that a sync is complete has come, the table shows every figure stored before
\* the queue was read dry, unless its first answer was on its way and was joined; and once
\* it has said that failures were cleared and the next answer has come, it shows none of
\* them, unless they failed again.
RefreshShowsIt ==
    /\ board.open /\ stocksAsk = Idle /\ tableShows = "rows" => stocksData >= due
    /\ board.open /\ board.said = "cleared" /\ clearing = "idle" /\ statusAsk = Idle =>
          failuresShown \cap rid = {}

---------------------------------------------------------------------------
(***************************************************************************)
(* The failures of a queue as the dashboard counts and clears them, beside *)
(* the requests that fill the queue: history syncs, one job per symbol,    *)
(* whose finished job keeps the symbol's id until it is removed.           *)
(*                                                                         *)
(* BullMQ keeps a job's payload and the list of failed ids apart, and an   *)
(* id can outlive its payload.  Nothing here holds the two together but    *)
(* BullMQ's own scripts, each of them one step.                            *)
(***************************************************************************)
CONSTANTS
    Syncable,      \* the symbols, and so the ids of jobs
    Askers,          \* who asks for a sync
    Ranges,        \* what of the history is asked for
    Attempts,      \* attempts of a job
    Recent,        \* DEFAULT_RECENT
    MaxAsks,       \* bound on the requests
    MaxGhosts,     \* bound on the payloads that go missing
    MaxClears      \* bound on the looks and clears of the desk

ASSUME DeskAssumption ==
    /\ Attempts \in Nat \ {0} /\ Recent \in Nat \ {0}
    /\ MaxAsks \in Nat /\ MaxGhosts \in Nat /\ MaxClears \in Nat

VARIABLES
    jobs,      \* per id: its payload's state, range and failed attempts
    failedIds, \* BullMQ's list of failed ids, the newest last
    asks,      \* per tab: where its request stands
    accepted,  \* ids asked for and not taken by the worker since
    desk,      \* where the clear stands, what it has read, what it has told
    ghosted,   \* ids that have lost a payload
    counts     \* requests, lost payloads and clears so far

deskVars == <<jobs, failedIds, asks, accepted, desk, ghosted, counts>>

NoJob == [state |-> "none", range |-> "-", tries |-> 0]
Pending == {"waiting", "active"}
Finished == {"completed", "failed"}
IdleDesk == [at |-> "idle", members |-> <<>>, existing |-> <<>>, survivors |-> {}, since |-> {},
             told |-> <<>>]
NoAsk == [at |-> "idle", id |-> "-", range |-> "-"]

DeskTypeOK ==
    /\ \A i \in Syncable : jobs[i].state \in {"none"} \cup Pending \cup Finished
    /\ ToSet(failedIds) \subseteq Syncable /\ accepted \in SUBSET Syncable
    /\ desk.at \in {"idle", "members", "clean", "again", "drop", "cleared"}
    /\ \A t \in Askers : asks[t].at \in {"idle", "remove", "add"}

InitDesk ==
    /\ jobs = [i \in Syncable |-> NoJob] /\ failedIds = <<>> /\ accepted = {} /\ ghosted = {}
    /\ asks = [t \in Askers |-> NoAsk] /\ desk = IdleDesk
    /\ counts = [asks |-> 0, ghosts |-> 0, clears |-> 0]

\* A list with no more than the ids that are kept, in its order.
Keeping(ids, kept) ==
    LET places == {k \in DOMAIN ids : ids[k] \in kept}
        nth(n) == CHOOSE k \in places : Cardinality({j \in places : j <= k}) = n
    IN [n \in 1..Cardinality(places) |-> ids[nth(n)]]

Without(ids, gone) == Keeping(ids, Syncable \ gone)
Payload(i) == jobs[i].state # "none"
Owning == {i \in Syncable : Payload(i)}
Since(i) == desk' = [desk EXCEPT !.since = @ \cup {i}]

---------------------------------------------------------------------------
(***************************************************************************)
(* syncHistory: the job of the symbol is looked for; one under way is      *)
(* reused, whatever its range; a finished one is removed and one is added. *)
(***************************************************************************)
findExistingHistoryJob(t, i, range) ==
    /\ asks[t].at = "idle" /\ counts.asks < MaxAsks
    /\ counts' = [counts EXCEPT !.asks = @ + 1]
    /\ IF jobs[i].state \in Pending
       THEN UNCHANGED asks
       ELSE asks' = [asks EXCEPT ![t] =
               [at |-> IF jobs[i].state = "none" THEN "add" ELSE "remove", id |-> i, range |-> range]]
    /\ UNCHANGED <<jobs, failedIds, accepted, desk, ghosted>>

\* The id's job is removed, whatever has become of it; one the worker holds cannot be.
removeFinished(t) ==
    /\ asks[t].at = "remove"
    /\ LET i == asks[t].id IN
       IF jobs[i].state \in {"none", "active"} THEN UNCHANGED <<jobs, failedIds>>
       ELSE /\ jobs' = [jobs EXCEPT ![i] = NoJob]
            /\ failedIds' = IF jobs[i].state = "failed" THEN Without(failedIds, {i}) ELSE failedIds
    /\ asks' = [asks EXCEPT ![t].at = "add"]
    /\ UNCHANGED <<accepted, desk, ghosted, counts>>

\* An id that has a payload absorbs the request.
enqueueHistorySync(t) ==
    /\ asks[t].at = "add"
    /\ LET i == asks[t].id IN
       /\ jobs' = IF Payload(i) THEN jobs
                  ELSE [jobs EXCEPT ![i] = [state |-> "waiting", range |-> asks[t].range, tries |-> 0]]
       /\ accepted' = IF Payload(i) THEN accepted ELSE accepted \cup {i}
       /\ IF Payload(i) THEN UNCHANGED desk ELSE Since(i)
    /\ asks' = [asks EXCEPT ![t] = NoAsk]
    /\ UNCHANGED <<failedIds, ghosted, counts>>

---------------------------------------------------------------------------
\* The worker takes a job.
TakeJob(i) ==
    /\ jobs[i].state = "waiting"
    /\ jobs' = [jobs EXCEPT ![i].state = "active"]
    /\ accepted' = accepted \ {i}
    /\ UNCHANGED <<failedIds, asks, desk, ghosted, counts>>

\* processHistoryJob: the job ends, skipped while the source cools down included; it
\* throws and is tried again; it throws for the last time, or what no attempt will mend,
\* and is listed as failed.
runHistorySync(i, end) ==
    /\ jobs[i].state = "active"
    /\ end \in {"done", "unrecoverable"}
          \/ end = (IF jobs[i].tries + 1 < Attempts THEN "again" ELSE "exhausted")
    /\ jobs' = [jobs EXCEPT ![i].state = CASE end = "done" -> "completed"
                                           [] end = "again" -> "waiting"
                                           [] OTHER -> "failed",
                            ![i].tries = IF end = "done" THEN @ ELSE @ + 1]
    /\ IF end \in {"done", "again"} THEN UNCHANGED <<failedIds, desk>>
       ELSE failedIds' = Append(Without(failedIds, {i}), i) /\ Since(i)
    /\ UNCHANGED <<asks, accepted, ghosted, counts>>

\* removeOnComplete, removeOnFail: a finished job's time is up.
RetentionEnds(i) ==
    /\ jobs[i].state \in Finished
    /\ jobs' = [jobs EXCEPT ![i] = NoJob]
    /\ failedIds' = IF jobs[i].state = "failed" THEN Without(failedIds, {i}) ELSE failedIds
    /\ UNCHANGED <<asks, accepted, desk, ghosted, counts>>

\* The payload of a failed job is gone, its id stays.
LosePayload(i) ==
    /\ jobs[i].state = "failed" /\ counts.ghosts < MaxGhosts
    /\ counts' = [counts EXCEPT !.ghosts = @ + 1]
    /\ jobs' = [jobs EXCEPT ![i] = NoJob]
    /\ ghosted' = ghosted \cup {i}
    /\ UNCHANGED <<failedIds, asks, accepted, desk>>

---------------------------------------------------------------------------
(***************************************************************************)
(* The desk.                                                               *)
(***************************************************************************)
\* The ids that own a payload, and the leftovers.
splitFailedMembers(members) ==
    [existing |-> Keeping(members, Owning), orphans |-> Without(members, Owning)]

\* The newest failures that can be handed back, the newest first.
inspectQueueFailures(members) ==
    LET existing == splitFailedMembers(members).existing
    IN Reverse(SubSeq(existing, IF Len(existing) > Recent THEN Len(existing) - Recent + 1 ELSE 1,
                      Len(existing)))

\* clearFailed: the list, then the payloads.
ReadMembers ==
    /\ desk.at \in {"idle", "cleared"} /\ counts.clears < MaxClears
    /\ counts' = [counts EXCEPT !.clears = @ + 1]
    /\ desk' = [IdleDesk EXCEPT !.at = "members", !.members = failedIds]
    /\ UNCHANGED <<jobs, failedIds, asks, accepted, ghosted>>

ReadPayloads ==
    /\ desk.at = "members"
    /\ LET split == splitFailedMembers(desk.members) IN
       desk' = [desk EXCEPT !.existing = split.existing,
                  !.told = <<Len(split.existing), Len(split.orphans),
                             inspectQueueFailures(desk.members)>>,
                  !.at = IF split.existing = <<>> THEN "again" ELSE "clean"]
    /\ UNCHANGED <<jobs, failedIds, asks, accepted, ghosted, counts>>

\* BullMQ's clean takes every listed id that has a payload, and may leave the others.
CleanFailed ==
    /\ desk.at = "clean"
    /\ \E left \in SUBSET (ToSet(failedIds) \ Owning) : failedIds' = Keeping(failedIds, left)
    /\ jobs' = [i \in Syncable |->
                  IF i \in ToSet(failedIds) /\ jobs[i].state # "active" THEN NoJob ELSE jobs[i]]
    /\ desk' = [desk EXCEPT !.at = "again"]
    /\ UNCHANGED <<asks, accepted, ghosted, counts>>

\* What still stands is read again.
ReadAgain ==
    /\ desk.at = "again"
    /\ LET survivors == ToSet(splitFailedMembers(failedIds).orphans) IN
       desk' = [desk EXCEPT !.survivors = survivors,
                  !.at = IF survivors = {} THEN "cleared" ELSE "drop"]
    /\ UNCHANGED <<jobs, failedIds, asks, accepted, ghosted, counts>>

\* Deviation: the leftovers that were read are dropped, whatever they are by now.
AsTheyWereRead == Without(failedIds, desk.survivors)

\* The script asks for each listed id whether its payload exists.
DROP_ORPHANS_SCRIPT == Keeping(failedIds, Owning)

DropOrphans ==
    /\ desk.at = "drop"
    /\ failedIds' = DROP_ORPHANS_SCRIPT
    /\ desk' = [desk EXCEPT !.at = "cleared"]
    /\ UNCHANGED <<jobs, asks, accepted, ghosted, counts>>

NextDesk ==
    \/ \E t \in Askers :
          \/ \E i \in Syncable, range \in Ranges : findExistingHistoryJob(t, i, range)
          \/ removeFinished(t) \/ enqueueHistorySync(t)
    \/ \E i \in Syncable :
          \/ TakeJob(i) \/ RetentionEnds(i) \/ LosePayload(i)
          \/ \E end \in {"done", "again", "exhausted", "unrecoverable"} : runHistorySync(i, end)
    \/ ReadMembers \/ ReadPayloads \/ CleanFailed \/ ReadAgain \/ DropOrphans

DeskSpec == InitDesk /\ [][NextDesk]_deskVars

---------------------------------------------------------------------------
\* A failed job is on the list, once; a clear leaves nothing on it that was there when
\* it began, but what was queued or failed again meanwhile; and a job that was queued
\* is there until a worker takes it, unless a request is just replacing it or its id
\* was a leftover of the list.
FailuresAreCounted ==
    /\ \A i \in Syncable : jobs[i].state = "failed" => i \in ToSet(failedIds)
    /\ IsInjective(failedIds)
    /\ desk.at = "cleared" => ToSet(failedIds) \cap ToSet(desk.members) \subseteq desk.since
    /\ \A i \in accepted \ ghosted :
          jobs[i].state \in Pending \/ \E t \in Askers : asks[t].at = "add" /\ asks[t].id = i

=============================================================================
