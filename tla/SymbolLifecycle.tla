-------------------------- MODULE SymbolLifecycle --------------------------
(***************************************************************************)
(* How a tracked symbol is added, synced and removed.                      *)
(*                                                                         *)
(* Three stores and three kinds of actor.  PostgreSQL holds the `stocks'   *)
(* rows and the `deleted_symbols' tombstones; Redis (BullMQ) holds at most *)
(* one `stock-sync' job per symbol, because its id is derived from the     *)
(* symbol, and any number of `universe-symbol' jobs.  The callers are the  *)
(* API's request handlers, the cron fan-out and the daily-board script:    *)
(* each is a chain of awaited reads and writes, one action per await.  The *)
(* workers are the lanes of the sync worker and the single lane of the     *)
(* universe worker.  Callers and workers interleave at every await, and    *)
(* either process may die at any of them.                                  *)
(***************************************************************************)
EXTENDS Naturals, FiniteSets

CONSTANTS
    Symbols,        \* the symbols somebody may name
    Callers,        \* concurrent request handlers, fan-outs and scripts
    SyncWorkers,    \* lanes of the sync worker (WORKER_CONCURRENCY)
    Walkers,        \* lanes of the universe worker (the code runs one)
    NoSymbol,       \* an actor that is not working on a symbol
    MaxAttempts,    \* `attempts' of the sync queue
    MaxCrashes      \* bound on the process deaths explored

ASSUME MaxAttemptsAssumption == MaxAttempts \in Nat \ {0}
ASSUME MaxCrashesAssumption == MaxCrashes \in Nat
ASSUME WalkersAssumption == Walkers \cap SyncWorkers = {}
ASSUME FiniteWorkersAssumption == IsFiniteSet(SyncWorkers) /\ IsFiniteSet(Walkers)
ASSUME NoSymbolAssumption == NoSymbol \notin Symbols

VARIABLES
    stocks,     \* symbols with a row in `stocks'
    tombstones, \* symbols with a row in `deleted_symbols'
    job,        \* state of the symbol's sync job in Redis
    tries,      \* attemptsMade of that job
    walk,       \* symbols with a pending universe-symbol job
    cpc,        \* caller: the await it is about to perform
    csym,       \* caller: the symbol it is working on
    seen,       \* caller: the job state enqueueSync last observed
    fresh,      \* daily board: symbols still to register
    todo,       \* fan-out and daily board: symbols still to enqueue
    wpc,        \* worker: the await it is about to perform
    wsym,       \* worker: the symbol of the job it holds
    abandoned,  \* sync_logs rows left RUNNING by a dead process
    crashes,    \* process deaths so far
    torn        \* history: symbols whose removal overlapped another writer

redis == <<job, tries, walk>>
callers == <<cpc, csym, seen, fresh, todo>>
workers == <<wpc, wsym, abandoned>>
vars == <<stocks, tombstones, redis, callers, workers, crashes, torn>>

Workers == SyncWorkers \cup Walkers

Pending == {"waiting", "active", "delayed"}
Finished == {"completed", "failed"}
JobStates == {"none"} \cup Pending \cup Finished

EnqueuePcs == {"enqueueGet", "enqueueClear", "enqueueAdd"}
AddPcs == {"addCheckTombstone", "addCreate", "addForget"}
RemovePcs == {"removeCancel", "removeWait", "removeDrop", "removeDelete", "removeRecord"}
CallerPcs == {"idle", "syncExisting", "boardRemoved", "boardCreate"}
                 \cup EnqueuePcs \cup AddPcs \cup RemovePcs

\* A run is past its tombstone check from "start" on, and owns a RUNNING
\* sync_logs row from "scrape" on.
Logged == {"scrape", "persist", "finish"}
PastCheck == {"start"} \cup Logged
WorkerPcs == {"idle", "check"} \cup PastCheck

TypeOK ==
    /\ stocks \subseteq Symbols
    /\ tombstones \subseteq Symbols
    /\ job \in [Symbols -> JobStates]
    /\ tries \in [Symbols -> 0..MaxAttempts]
    /\ walk \subseteq Symbols
    /\ cpc \in [Callers -> CallerPcs]
    /\ csym \in [Callers -> Symbols \cup {NoSymbol}]
    /\ seen \in [Callers -> JobStates]
    /\ fresh \in [Callers -> SUBSET Symbols]
    /\ todo \in [Callers -> SUBSET Symbols]
    /\ wpc \in [Workers -> WorkerPcs]
    /\ wsym \in [Workers -> Symbols \cup {NoSymbol}]
    /\ abandoned \in Nat
    /\ crashes \in 0..MaxCrashes
    /\ torn \subseteq Symbols

Init ==
    /\ stocks \in SUBSET Symbols
    /\ tombstones = {}
    /\ job = [s \in Symbols |-> "none"]
    /\ tries = [s \in Symbols |-> 0]
    /\ walk = {}
    /\ cpc = [c \in Callers |-> "idle"]
    /\ csym = [c \in Callers |-> NoSymbol]
    /\ seen = [c \in Callers |-> "none"]
    /\ fresh = [c \in Callers |-> {}]
    /\ todo = [c \in Callers |-> {}]
    /\ wpc = [w \in Workers |-> "idle"]
    /\ wsym = [w \in Workers |-> NoSymbol]
    /\ abandoned = 0
    /\ crashes = 0
    /\ torn = {}

(***************************************************************************)
(* History.  A symbol is torn when a removal and another writer of the     *)
(* same symbol overlapped so that the two tables can end up disagreeing.   *)
(***************************************************************************)

\* Actors that read "not removed" and have not written yet: runs past their
\* isDeleted check, and boards that still mean to register the symbol.
Overtaken(s) ==
    \/ \E w \in Workers : wsym[w] = s /\ wpc[w] \in PastCheck
    \/ \E c \in Callers : cpc[c] = "boardCreate" /\ s \in fresh[c]

\* A removal that has dropped the row and not yet recorded the tombstone.
Recording(s) == \E c \in Callers : cpc[c] = "removeRecord" /\ csym[c] = s

\* A row for s appears: torn if a removal of s is between its two writes.
CreateRow(s) ==
    /\ stocks' = stocks \cup {s}
    /\ torn' = IF s \notin stocks /\ Recording(s) THEN torn \cup {s} ELSE torn

---------------------------------------------------------------------------
(***************************************************************************)
(* The queue library, as the code uses it.                                 *)
(***************************************************************************)

\* job.remove(): a job a worker holds is locked and cannot be removed; the
\* callers swallow that error.
RemoveJob(s) ==
    /\ job' = [job EXCEPT ![s] = IF @ = "active" THEN @ ELSE "none"]
    /\ tries' = [tries EXCEPT ![s] = IF job[s] = "active" THEN @ ELSE 0]

\* Deviation: a job id that is not derived from the symbol de-duplicates nothing.
AddJobFreshId(s) ==
    /\ job' = [job EXCEPT ![s] = "waiting"]
    /\ UNCHANGED tries

\* queue.add() under the symbol's own job id: any job that already holds the
\* id, finished or not, absorbs the request.
AddJob(s) ==
    /\ job' = [job EXCEPT ![s] = IF @ = "none" THEN "waiting" ELSE @]
    /\ UNCHANGED tries

\* The backoff timer of a delayed job fires.
BackoffElapses(s) ==
    /\ job[s] = "delayed"
    /\ job' = [job EXCEPT ![s] = "waiting"]
    /\ UNCHANGED <<stocks, tombstones, tries, walk, callers, workers, crashes, torn>>

\* removeOnComplete / removeOnFail: a finished job ages out.
RetentionElapses(s) ==
    /\ job[s] \in Finished
    /\ job' = [job EXCEPT ![s] = "none"]
    /\ tries' = [tries EXCEPT ![s] = 0]
    /\ UNCHANGED <<stocks, tombstones, walk, callers, workers, crashes, torn>>

\* The stalled check finds an active job nobody holds: the first time it is
\* queued again, past maxStalledCount it fails.
StalledCheck(s) ==
    /\ job[s] = "active"
    /\ \A w \in SyncWorkers : wsym[w] # s
    /\ \E st \in {"waiting", "failed"} : job' = [job EXCEPT ![s] = st]
    /\ UNCHANGED <<stocks, tombstones, tries, walk, callers, workers, crashes, torn>>

---------------------------------------------------------------------------
(***************************************************************************)
(* Callers.                                                                *)
(***************************************************************************)

Goto(c, pc) == cpc' = [cpc EXCEPT ![c] = pc]

Begin(c, s, pc) ==
    /\ cpc' = [cpc EXCEPT ![c] = pc]
    /\ csym' = [csym EXCEPT ![c] = s]

\* Take the next symbol of a fan-out, or return.
NextSymbol(c, rest) ==
    \/ /\ rest = {}
       /\ Begin(c, NoSymbol, "idle")
       /\ todo' = [todo EXCEPT ![c] = {}]
    \/ \E s \in rest :
       /\ Begin(c, s, "enqueueGet")
       /\ todo' = [todo EXCEPT ![c] = rest \ {s}]

Return(c) == Begin(c, NoSymbol, "idle")

\* stockService.add: refused when tracked; a plain add goes on to the
\* tombstone check, a forced one straight to the create.
AddFind(c, s, force) ==
    /\ cpc[c] = "idle"
    /\ s \notin stocks
    /\ Begin(c, s, IF force THEN "addCreate" ELSE "addCheckTombstone")
    /\ UNCHANGED <<stocks, tombstones, redis, seen, fresh, todo, workers, crashes, torn>>

AddCheckTombstone(c) ==
    /\ cpc[c] = "addCheckTombstone"
    /\ IF csym[c] \in tombstones THEN Return(c) ELSE Begin(c, csym[c], "addCreate")
    /\ UNCHANGED <<stocks, tombstones, redis, seen, fresh, todo, workers, crashes, torn>>

\* create() throws on the unique symbol when somebody else made the row first.
AddCreate(c) ==
    /\ cpc[c] = "addCreate"
    /\ CreateRow(csym[c])
    /\ IF csym[c] \in stocks THEN Return(c) ELSE Begin(c, csym[c], "addForget")
    /\ UNCHANGED <<tombstones, redis, seen, fresh, todo, workers, crashes>>

AddForget(c) ==
    /\ cpc[c] = "addForget"
    /\ tombstones' = tombstones \ {csym[c]}
    /\ Goto(c, "enqueueGet")
    /\ UNCHANGED <<stocks, redis, csym, seen, fresh, todo, workers, crashes, torn>>

\* Deviation: a finished job is left holding the id.
EnqueueGetNoClear(c) ==
    /\ cpc[c] = "enqueueGet"
    /\ seen' = [seen EXCEPT ![c] = job[csym[c]]]
    /\ Goto(c, "enqueueAdd")
    /\ UNCHANGED <<stocks, tombstones, redis, csym, fresh, todo, workers, crashes, torn>>

\* enqueueSync: read the job and its state; clear it if it has finished; add.
EnqueueGet(c) ==
    /\ cpc[c] = "enqueueGet"
    /\ seen' = [seen EXCEPT ![c] = job[csym[c]]]
    /\ Goto(c, IF job[csym[c]] \in Finished THEN "enqueueClear" ELSE "enqueueAdd")
    /\ UNCHANGED <<stocks, tombstones, redis, csym, fresh, todo, workers, crashes, torn>>

EnqueueClear(c) ==
    /\ cpc[c] = "enqueueClear"
    /\ RemoveJob(csym[c])
    /\ seen' = [seen EXCEPT ![c] = "none"]
    /\ Goto(c, "enqueueAdd")
    /\ UNCHANGED <<stocks, tombstones, walk, csym, fresh, todo, workers, crashes, torn>>

EnqueueAdd(c) ==
    /\ cpc[c] = "enqueueAdd"
    /\ AddJob(csym[c])
    /\ NextSymbol(c, todo[c])
    /\ seen' = [seen EXCEPT ![c] = "none"]
    /\ UNCHANGED <<stocks, tombstones, walk, fresh, workers, crashes, torn>>

\* syncService.syncOne: refused when untracked; a pending job is reused.
SyncOneFind(c, s) ==
    /\ cpc[c] = "idle"
    /\ s \in stocks
    /\ Begin(c, s, "syncExisting")
    /\ UNCHANGED <<stocks, tombstones, redis, seen, fresh, todo, workers, crashes, torn>>

SyncOneExisting(c) ==
    /\ cpc[c] = "syncExisting"
    /\ IF job[csym[c]] \in Pending THEN Return(c) ELSE Begin(c, csym[c], "enqueueGet")
    /\ UNCHANGED <<stocks, tombstones, redis, seen, fresh, todo, workers, crashes, torn>>

\* processSyncAllJob: one read of the tracked symbols, then enqueueSync each.
FanOut(c) ==
    /\ cpc[c] = "idle"
    /\ stocks # {}
    /\ NextSymbol(c, stocks)
    /\ UNCHANGED <<stocks, tombstones, redis, seen, fresh, workers, crashes, torn>>

\* runDailyBoard: the tracked symbols, then the tombstones, are read once;
\* every board symbol in neither is registered, and every board symbol that
\* was not a tombstone is enqueued.
BoardTracked(c, board) ==
    /\ cpc[c] = "idle"
    /\ fresh' = [fresh EXCEPT ![c] = board \ stocks]
    /\ todo' = [todo EXCEPT ![c] = board]
    /\ Goto(c, "boardRemoved")
    /\ UNCHANGED <<stocks, tombstones, redis, csym, seen, workers, crashes, torn>>

BoardRemoved(c) ==
    /\ cpc[c] = "boardRemoved"
    /\ fresh' = [fresh EXCEPT ![c] = @ \ tombstones]
    /\ todo' = [todo EXCEPT ![c] = @ \ tombstones]
    /\ Goto(c, "boardCreate")
    /\ UNCHANGED <<stocks, tombstones, redis, csym, seen, workers, crashes, torn>>

BoardCreate(c) ==
    /\ cpc[c] = "boardCreate"
    /\ \E s \in fresh[c] :
       /\ CreateRow(s)
       /\ fresh' = [fresh EXCEPT ![c] = @ \ {s}]
    /\ UNCHANGED <<tombstones, redis, cpc, csym, seen, todo, workers, crashes>>

BoardEnqueue(c) ==
    /\ cpc[c] = "boardCreate"
    /\ fresh[c] = {}
    /\ NextSymbol(c, todo[c])
    /\ UNCHANGED <<stocks, tombstones, redis, seen, fresh, workers, crashes, torn>>

\* stockService.remove: cancelSyncJob, then the row, then the tombstone.
RemoveFind(c, s) ==
    /\ cpc[c] = "idle"
    /\ s \in stocks
    /\ Begin(c, s, "removeCancel")
    /\ UNCHANGED <<stocks, tombstones, redis, seen, fresh, todo, workers, crashes, torn>>

RemoveCancel(c) ==
    /\ cpc[c] = "removeCancel"
    /\ Goto(c, CASE job[csym[c]] = "none" -> "removeDelete"
                 [] job[csym[c]] = "active" -> "removeWait"
                 [] OTHER -> "removeDrop")
    /\ UNCHANGED <<stocks, tombstones, redis, csym, seen, fresh, todo, workers, crashes, torn>>

\* A poll of the bounded wait finds the job no longer active.
RemovePoll(c) ==
    /\ cpc[c] = "removeWait"
    /\ job[csym[c]] # "active"
    /\ Goto(c, "removeDrop")
    /\ UNCHANGED <<stocks, tombstones, redis, csym, seen, fresh, todo, workers, crashes, torn>>

\* Deviation: the wait has no deadline.
RemoveDeadlineNever(c) == cpc[c] = "removeWait" /\ FALSE

\* The wait's deadline passes: the removal goes ahead beside the running job.
RemoveDeadline(c) ==
    /\ cpc[c] = "removeWait"
    /\ Goto(c, "removeDelete")
    /\ UNCHANGED <<stocks, tombstones, redis, csym, seen, fresh, todo, workers, crashes, torn>>

RemoveDrop(c) ==
    /\ cpc[c] = "removeDrop"
    /\ RemoveJob(csym[c])
    /\ Goto(c, "removeDelete")
    /\ UNCHANGED <<stocks, tombstones, walk, csym, seen, fresh, todo, workers, crashes, torn>>

\* delete() throws when another removal was first: no tombstone is recorded.
RemoveDelete(c) ==
    /\ cpc[c] = "removeDelete"
    /\ stocks' = stocks \ {csym[c]}
    /\ IF csym[c] \in stocks THEN Begin(c, csym[c], "removeRecord") ELSE Return(c)
    /\ UNCHANGED <<tombstones, redis, seen, fresh, todo, workers, crashes, torn>>

RemoveRecord(c) ==
    /\ cpc[c] = "removeRecord"
    /\ tombstones' = tombstones \cup {csym[c]}
    /\ torn' = IF Overtaken(csym[c]) THEN torn \cup {csym[c]} ELSE torn
    /\ Return(c)
    /\ UNCHANGED <<stocks, redis, seen, fresh, todo, workers, crashes>>

\* The process of a caller dies between two awaits.
CallerDies(c) ==
    /\ cpc[c] # "idle"
    /\ crashes < MaxCrashes
    /\ crashes' = crashes + 1
    /\ torn' = IF cpc[c] = "addForget" THEN torn \cup {csym[c]} ELSE torn
    /\ Return(c)
    /\ seen' = [seen EXCEPT ![c] = "none"]
    /\ fresh' = [fresh EXCEPT ![c] = {}]
    /\ todo' = [todo EXCEPT ![c] = {}]
    /\ UNCHANGED <<stocks, tombstones, redis, workers>>

---------------------------------------------------------------------------
(***************************************************************************)
(* Workers.                                                                *)
(***************************************************************************)

WGoto(w, pc) == wpc' = [wpc EXCEPT ![w] = pc]

Hold(w, s, pc) ==
    /\ wpc' = [wpc EXCEPT ![w] = pc]
    /\ wsym' = [wsym EXCEPT ![w] = s]

Release(w) == Hold(w, NoSymbol, "idle")

\* The job's processor returned.
Completed(w) ==
    /\ job' = IF w \in Walkers THEN job ELSE [job EXCEPT ![wsym[w]] = "completed"]
    /\ UNCHANGED <<tries, walk>>
    /\ Release(w)

\* The job's processor threw something permanent.
Unrecoverable(w) ==
    /\ job' = [job EXCEPT ![wsym[w]] = "failed"]
    /\ UNCHANGED <<tries, walk>>
    /\ Release(w)

\* Deviation: a failing job is retried without counting the attempt.
FailedUncounted(w) ==
    /\ \/ /\ w \notin Walkers
          /\ job' = [job EXCEPT ![wsym[w]] = "delayed"]
          /\ UNCHANGED <<tries, walk>>
       \/ /\ w \in Walkers
          /\ walk' \in {walk, walk \cup {wsym[w]}}
          /\ UNCHANGED <<job, tries>>
    /\ Release(w)

\* The job's processor threw: delayed while attempts are left, else failed.
\* A universe-symbol job is retried once or dropped.
Failed(w) ==
    /\ \/ /\ w \notin Walkers
          /\ LET n == tries[wsym[w]] + 1
             IN  /\ job' = [job EXCEPT ![wsym[w]] =
                                IF n < MaxAttempts THEN "delayed" ELSE "failed"]
                 /\ tries' = [tries EXCEPT ![wsym[w]] = n]
          /\ UNCHANGED walk
       \/ /\ w \in Walkers
          /\ walk' \in {walk, walk \cup {wsym[w]}}
          /\ UNCHANGED <<job, tries>>
    /\ Release(w)

PickUp(w, s) ==
    /\ wpc[w] = "idle"
    /\ job[s] = "waiting"
    /\ job' = [job EXCEPT ![s] = "active"]
    /\ Hold(w, s, "check")
    /\ UNCHANGED <<stocks, tombstones, tries, walk, callers, abandoned, crashes, torn>>

\* A pass hands out one job per symbol of the listing, removed ones included.
HandOut(w, board) ==
    /\ wpc[w] = "idle"
    /\ walk' = walk \cup board
    /\ UNCHANGED <<stocks, tombstones, job, tries, callers, workers, crashes, torn>>

WalkerPickUp(w, s) ==
    /\ wpc[w] = "idle"
    /\ s \in walk
    /\ walk' = walk \ {s}
    /\ Hold(w, s, "check")
    /\ UNCHANGED <<stocks, tombstones, job, tries, callers, abandoned, crashes, torn>>

\* Deviation: the universe processor does not ask for the tombstone.
CheckDeletedSyncOnly(w) ==
    /\ wpc[w] = "check"
    /\ \/ /\ wsym[w] \in tombstones /\ w \in SyncWorkers
          /\ Completed(w)
       \/ /\ wsym[w] \notin tombstones \/ w \in Walkers
          /\ WGoto(w, "start")
          /\ UNCHANGED <<redis, wsym>>
    /\ UNCHANGED <<stocks, tombstones, callers, abandoned, crashes, torn>>

\* Both processors refuse a tombstoned symbol; the skip is a success.
CheckDeleted(w) ==
    /\ wpc[w] = "check"
    /\ \/ /\ wsym[w] \in tombstones
          /\ Completed(w)
       \/ /\ wsym[w] \notin tombstones
          /\ WGoto(w, "start")
          /\ UNCHANGED <<redis, wsym>>
    /\ UNCHANGED <<stocks, tombstones, callers, abandoned, crashes, torn>>

\* findBySymbol, then a RUNNING log row that references the stock found: the
\* insert throws, before the try block, if that row has gone in between.
Start(w) ==
    /\ wpc[w] = "start"
    /\ \/ /\ WGoto(w, "scrape")
          /\ UNCHANGED <<redis, wsym>>
       \/ /\ wsym[w] \notin stocks
          /\ Failed(w)
    /\ UNCHANGED <<stocks, tombstones, callers, abandoned, crashes, torn>>

\* scrapeSymbol answers, every source refuses, or all say the symbol is
\* invalid (permanent for a sync); a failure closes the log before it throws.
Scrape(w) ==
    /\ wpc[w] = "scrape"
    /\ \/ /\ WGoto(w, "persist")
          /\ UNCHANGED <<redis, wsym>>
       \/ Failed(w)
       \/ /\ w \notin Walkers
          /\ Unrecoverable(w)
    /\ UNCHANGED <<stocks, tombstones, callers, abandoned, crashes, torn>>

\* verifyAndPersist: not listed writes nothing; a listed symbol is upserted in
\* one transaction, which may fail.
Persist(w) ==
    /\ wpc[w] = "persist"
    /\ \/ /\ CreateRow(wsym[w])
          /\ WGoto(w, "finish")
          /\ UNCHANGED <<redis, wsym>>
       \/ /\ WGoto(w, "finish")
          /\ UNCHANGED <<stocks, torn, redis, wsym>>
       \/ /\ Failed(w)
          /\ UNCHANGED <<stocks, torn>>
    /\ UNCHANGED <<tombstones, callers, abandoned, crashes>>

Finish(w) ==
    /\ wpc[w] = "finish"
    /\ Completed(w)
    /\ UNCHANGED <<stocks, tombstones, callers, abandoned, crashes, torn>>

\* The worker process dies: every run is lost, its job stays active in Redis
\* and its log stays RUNNING.  A walker's job is re-queued or given up.
WorkersDie ==
    /\ \E w \in Workers : wpc[w] # "idle"
    /\ crashes < MaxCrashes
    /\ crashes' = crashes + 1
    /\ abandoned' = abandoned + Cardinality({w \in Workers : wpc[w] \in Logged})
    /\ walk' \in {walk, walk \cup ({wsym[w] : w \in Walkers} \cap Symbols)}
    /\ wpc' = [w \in Workers |-> "idle"]
    /\ wsym' = [w \in Workers |-> NoSymbol]
    /\ UNCHANGED <<stocks, tombstones, job, tries, callers, torn>>

---------------------------------------------------------------------------

\* What a caller does once called.
CallerStep(c) ==
    \/ AddCheckTombstone(c) \/ AddCreate(c) \/ AddForget(c)
    \/ EnqueueGet(c) \/ EnqueueClear(c) \/ EnqueueAdd(c)
    \/ SyncOneExisting(c)
    \/ BoardRemoved(c) \/ BoardCreate(c) \/ BoardEnqueue(c)
    \/ RemoveCancel(c) \/ RemovePoll(c) \/ RemoveDeadline(c)
    \/ RemoveDrop(c) \/ RemoveDelete(c) \/ RemoveRecord(c)

\* Calls that arrive.
Call(c) ==
    \/ \E s \in Symbols :
       \/ \E force \in BOOLEAN : AddFind(c, s, force)
       \/ SyncOneFind(c, s)
       \/ RemoveFind(c, s)
    \/ FanOut(c)
    \/ \E board \in SUBSET Symbols \ {{}} : BoardTracked(c, board)

\* What a worker does with the job it holds.
WorkerStep(w) == CheckDeleted(w) \/ Start(w) \/ Scrape(w) \/ Persist(w) \/ Finish(w)

SyncPickUp(s) == \E w \in SyncWorkers : PickUp(w, s)

QueueStep(s) == BackoffElapses(s) \/ RetentionElapses(s) \/ StalledCheck(s)

Next ==
    \/ \E c \in Callers : Call(c) \/ CallerStep(c) \/ CallerDies(c)
    \/ \E w \in Workers : WorkerStep(w)
    \/ \E s \in Symbols : SyncPickUp(s) \/ QueueStep(s)
    \/ \E w \in Walkers :
       \/ \E board \in SUBSET Symbols \ {{}} : HandOut(w, board)
       \/ \E s \in Symbols : WalkerPickUp(w, s)
    \/ WorkersDie

Spec == Init /\ [][Next]_vars

(***************************************************************************)
(* Fairness: a caller that is running and a worker that holds a job keep   *)
(* running (every request to a source has a timeout); Redis fires backoff  *)
(* timers and the stalled check; a queue is first in, first out, so a job  *)
(* that is waiting is picked up although other symbols keep queueing.      *)
(* Nobody has to call, and no process has to die.                          *)
(***************************************************************************)
Fairness ==
    /\ \A c \in Callers : WF_vars(CallerStep(c))
    /\ \A w \in Workers : WF_vars(WorkerStep(w))
    /\ \A s \in Symbols : SF_vars(SyncPickUp(s))
    /\ \A s \in Symbols : WF_vars(BackoffElapses(s)) /\ WF_vars(StalledCheck(s))

FairSpec == Spec /\ Fairness

---------------------------------------------------------------------------
(***************************************************************************)
(* Properties.                                                             *)
(***************************************************************************)

\* De-duplication by job id (queues.ts syncJobId): no two lanes of the sync
\* worker ever scrape the same symbol at once, whatever is added, cleared,
\* cancelled, retried or recovered meanwhile.
OneRunPerSymbol ==
    \A v, w \in SyncWorkers : v # w /\ wsym[v] = wsym[w] => wsym[v] = NoSymbol

\* stockService.add and remove keep the two tables disjoint: a symbol is both
\* tracked and tombstoned (and so refused by every later sync) only while an
\* add is about to forget the tombstone, or after a removal overlapped another
\* writer of the same symbol.
BuriedOrTracked ==
    \A s \in stocks \cap tombstones :
        s \in torn \/ \E c \in Callers : cpc[c] = "addForget" /\ csym[c] = s

\* enqueueSync clears a finished job so that the id can be used again: if the
\* job has not moved since the caller looked, its add leaves a job that will run.
UndisturbedAddIsQueued ==
    [][\A c \in Callers :
          cpc[c] = "enqueueAdd" /\ cpc'[c] \in {"idle", "enqueueGet"}
              /\ crashes' = crashes /\ job[csym[c]] = seen[c]
          => job'[csym[c]] \in Pending]_vars

\* cancelSyncJob bounds its wait: a removal returns although the symbol is
\* being synced again and again.
RemovalReturns ==
    \A c \in Callers : cpc[c] \in RemovePcs ~> cpc[c] \notin RemovePcs

\* Attempts, backoff and stalled recovery bring every queued sync to an end,
\* through worker deaths and failing scrapes.
QueuedSyncSettles ==
    \A s \in Symbols : job[s] \in Pending ~> job[s] \notin Pending

\* "A symbol a human removed stays removed" (syncProcessor.ts): once the
\* tombstone is recorded no row comes back unless somebody adds the symbol.
RemovedStaysRemoved ==
    [][\A s \in tombstones \ stocks :
          s \in stocks' => \E c \in Callers : cpc[c] = "addCreate" /\ csym[c] = s]_vars
=============================================================================
