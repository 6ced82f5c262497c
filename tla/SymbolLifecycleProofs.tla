----------------------- MODULE SymbolLifecycleProofs -----------------------
(***************************************************************************)
(* Proofs about SymbolLifecycle, for any number of symbols, callers and    *)
(* workers, any retry limit and any number of process deaths: the types,   *)
(* one run per symbol, and that a symbol is both tracked and tombstoned    *)
(* only after a removal overlapped another writer.                         *)
(***************************************************************************)
EXTENDS SymbolLifecycle, FiniteSetTheorems, TLAPS

(***************************************************************************)
(* The inductive invariant, in three parts.                                *)
(***************************************************************************)

\* Who holds what: a busy actor names a symbol, a run of the sync worker holds
\* the active job of its symbol, and no two lanes hold the same one.
HoldInv ==
    /\ \A c \in Callers :
          cpc[c] \in {"syncExisting"} \cup EnqueuePcs \cup AddPcs \cup RemovePcs
              => csym[c] \in Symbols
    /\ \A w \in Workers : wpc[w] # "idle" => wsym[w] \in Symbols
    /\ \A w \in Workers : wpc[w] = "idle" => wsym[w] = NoSymbol
    /\ \A w \in SyncWorkers : wpc[w] # "idle" => job[wsym[w]] = "active"
    /\ OneRunPerSymbol

\* The queue: a job that can still run has an attempt left, and a caller about
\* to add last saw the id free or its job still to run.
QueueInv ==
    /\ \A s \in Symbols : job[s] = "none" => tries[s] = 0
    /\ \A s \in Symbols : job[s] \in Pending => tries[s] < MaxAttempts
    /\ \A c \in Callers : cpc[c] = "enqueueAdd" => seen[c] \notin Finished

\* Whoever read "not removed" before the tombstone was recorded is on record
\* as overlapping, and a removal finds its row gone unless it was recreated.
TearInv ==
    /\ \A w \in Workers :
          wpc[w] \in PastCheck /\ wsym[w] \in tombstones => wsym[w] \in torn
    /\ \A c \in Callers : \A s \in fresh[c] :
          cpc[c] = "boardCreate" /\ s \in tombstones => s \in torn
    /\ \A c \in Callers :
          cpc[c] = "removeRecord" /\ csym[c] \in stocks => csym[c] \in torn
    /\ BuriedOrTracked

IInv == TypeOK /\ HoldInv /\ QueueInv /\ TearInv

---------------------------------------------------------------------------

\* Every step keeps the types; that a failing job still has an attempt to spend
\* comes from QueueInv.
LEMMA TypeStep == TypeOK /\ HoldInv /\ QueueInv /\ [Next]_vars => TypeOK'
<1> SUFFICES ASSUME TypeOK /\ HoldInv /\ QueueInv, [Next]_vars
             PROVE  TypeOK'
  OBVIOUS
<1> USE MaxAttemptsAssumption, MaxCrashesAssumption
<1> USE DEF TypeOK, HoldInv, QueueInv, JobStates, CallerPcs, WorkerPcs,
     EnqueuePcs, AddPcs, RemovePcs, PastCheck, Logged, Pending, Finished,
     Workers
<1>1. ASSUME NEW c \in Callers, NEW s \in Symbols, NEW force \in BOOLEAN, AddFind(c, s, force)
      PROVE  TypeOK'
  BY <1>1 DEF AddFind, Begin, redis, callers, workers
<1>2. ASSUME NEW c \in Callers, AddCheckTombstone(c)
      PROVE  TypeOK'
  BY <1>2 DEF AddCheckTombstone, Begin, Return, redis, callers, workers
<1>3. ASSUME NEW c \in Callers, AddCreate(c)
      PROVE  TypeOK'
  BY <1>3 DEF AddCreate, Begin, Return, CreateRow, Recording, redis, callers,
       workers
<1>4. ASSUME NEW c \in Callers, AddForget(c)
      PROVE  TypeOK'
  BY <1>4 DEF AddForget, Goto, redis, callers, workers
<1>5. ASSUME NEW c \in Callers, EnqueueGet(c)
      PROVE  TypeOK'
  BY <1>5 DEF EnqueueGet, Goto, redis, callers, workers
<1>6. ASSUME NEW c \in Callers, EnqueueClear(c)
      PROVE  TypeOK'
  BY <1>6 DEF EnqueueClear, Goto, RemoveJob, redis, callers, workers
<1>7. ASSUME NEW c \in Callers, EnqueueAdd(c)
      PROVE  TypeOK'
  BY <1>7 DEF EnqueueAdd, AddJob, NextSymbol, Begin, redis, callers, workers
<1>8. ASSUME NEW c \in Callers, NEW s \in Symbols, SyncOneFind(c, s)
      PROVE  TypeOK'
  BY <1>8 DEF SyncOneFind, Begin, redis, callers, workers
<1>9. ASSUME NEW c \in Callers, SyncOneExisting(c)
      PROVE  TypeOK'
  BY <1>9 DEF SyncOneExisting, Begin, Return, redis, callers, workers
<1>10. ASSUME NEW c \in Callers, FanOut(c)
       PROVE  TypeOK'
  BY <1>10 DEF FanOut, NextSymbol, Begin, redis, callers, workers
<1>11. ASSUME NEW c \in Callers, NEW board \in SUBSET Symbols, BoardTracked(c, board)
       PROVE  TypeOK'
  BY <1>11 DEF BoardTracked, Goto, redis, callers, workers
<1>12. ASSUME NEW c \in Callers, BoardRemoved(c)
       PROVE  TypeOK'
  BY <1>12 DEF BoardRemoved, Goto, redis, callers, workers
<1>13. ASSUME NEW c \in Callers, BoardCreate(c)
       PROVE  TypeOK'
  BY <1>13 DEF BoardCreate, CreateRow, Recording, redis, callers, workers
<1>14. ASSUME NEW c \in Callers, BoardEnqueue(c)
       PROVE  TypeOK'
  BY <1>14 DEF BoardEnqueue, NextSymbol, Begin, redis, callers, workers
<1>15. ASSUME NEW c \in Callers, NEW s \in Symbols, RemoveFind(c, s)
       PROVE  TypeOK'
  BY <1>15 DEF RemoveFind, Begin, redis, callers, workers
<1>16. ASSUME NEW c \in Callers, RemoveCancel(c)
       PROVE  TypeOK'
  BY <1>16 DEF RemoveCancel, Goto, redis, callers, workers
<1>17. ASSUME NEW c \in Callers, RemovePoll(c)
       PROVE  TypeOK'
  BY <1>17 DEF RemovePoll, Goto, redis, callers, workers
<1>18. ASSUME NEW c \in Callers, RemoveDeadline(c)
       PROVE  TypeOK'
  BY <1>18 DEF RemoveDeadline, Goto, redis, callers, workers
<1>19. ASSUME NEW c \in Callers, RemoveDrop(c)
       PROVE  TypeOK'
  BY <1>19 DEF RemoveDrop, Goto, RemoveJob, redis, callers, workers
<1>20. ASSUME NEW c \in Callers, RemoveDelete(c)
       PROVE  TypeOK'
  BY <1>20 DEF RemoveDelete, Begin, Return, redis, callers, workers
<1>21. ASSUME NEW c \in Callers, RemoveRecord(c)
       PROVE  TypeOK'
  BY <1>21 DEF RemoveRecord, Begin, Return, Overtaken, redis, callers, workers
<1>22. ASSUME NEW c \in Callers, CallerDies(c)
       PROVE  TypeOK'
  BY <1>22 DEF CallerDies, Begin, Return, redis, callers, workers
<1>23. ASSUME NEW w \in Workers, CheckDeleted(w)
       PROVE  TypeOK'
  BY <1>23 DEF CheckDeleted, Completed, Release, Hold, WGoto, redis, callers,
       workers
<1>24. ASSUME NEW w \in Workers, Start(w)
       PROVE  TypeOK'
  BY <1>24 DEF Start, Failed, Release, Hold, WGoto, redis, callers, workers
<1>25. ASSUME NEW w \in Workers, Scrape(w)
       PROVE  TypeOK'
  BY <1>25 DEF Scrape, Failed, Unrecoverable, Release, Hold, WGoto, redis,
       callers, workers
<1>26. ASSUME NEW w \in Workers, Persist(w)
       PROVE  TypeOK'
  BY <1>26 DEF Persist, CreateRow, Recording, Failed, Release, Hold, WGoto,
       redis, callers, workers
<1>27. ASSUME NEW w \in Workers, Finish(w)
       PROVE  TypeOK'
  BY <1>27 DEF Finish, Completed, Release, Hold, redis, callers, workers
<1>28. ASSUME NEW w \in SyncWorkers, NEW s \in Symbols, PickUp(w, s)
       PROVE  TypeOK'
  BY <1>28 DEF PickUp, Hold, redis, callers, workers
<1>29. ASSUME NEW w \in Walkers, NEW s \in Symbols, WalkerPickUp(w, s)
       PROVE  TypeOK'
  BY <1>29 DEF WalkerPickUp, Hold, redis, callers, workers
<1>30. ASSUME NEW w \in Walkers, NEW board \in SUBSET Symbols, HandOut(w, board)
       PROVE  TypeOK'
  BY <1>30 DEF HandOut, redis, callers, workers
<1>31. ASSUME NEW s \in Symbols, BackoffElapses(s)
       PROVE  TypeOK'
  BY <1>31 DEF BackoffElapses, redis, callers, workers
<1>32. ASSUME NEW s \in Symbols, RetentionElapses(s)
       PROVE  TypeOK'
  BY <1>32 DEF RetentionElapses, redis, callers, workers
<1>33. ASSUME NEW s \in Symbols, StalledCheck(s)
       PROVE  TypeOK'
  BY <1>33 DEF StalledCheck, redis, callers, workers
<1>34. ASSUME WorkersDie
       PROVE  TypeOK'
  <2>1. IsFiniteSet({w \in Workers : wpc[w] \in Logged})
    BY FiniteWorkersAssumption, FS_Union, FS_Subset DEF Workers
  <2>2. Cardinality({w \in Workers : wpc[w] \in Logged}) \in Nat
    BY <2>1, FS_CardinalityType
  <2>3. QED
    BY <1>34, <2>2 DEF WorkersDie, redis, callers, workers
<1>35. CASE UNCHANGED vars
  BY <1>35 DEF vars, redis, callers, workers
<1> HIDE DEF TypeOK, HoldInv, QueueInv, JobStates, CallerPcs, WorkerPcs,
     EnqueuePcs, AddPcs, RemovePcs, PastCheck, Logged, Pending, Finished,
     Workers
<1>36. QED
  BY <1>1, <1>2, <1>3, <1>4, <1>5, <1>6, <1>7, <1>8, <1>9, <1>10, <1>11,
       <1>12, <1>13, <1>14, <1>15, <1>16, <1>17, <1>18, <1>19, <1>20, <1>21,
       <1>22, <1>23, <1>24, <1>25, <1>26, <1>27, <1>28, <1>29, <1>30, <1>31,
       <1>32, <1>33, <1>34, <1>35 DEF Next, Call, CallerStep, WorkerStep,
       SyncPickUp, QueueStep

\* Every step keeps who holds what: a job is handed to a lane only while it
\* waits, and neither remove() nor the stalled check touches a job that is held.
LEMMA HoldStep == TypeOK /\ HoldInv /\ [Next]_vars => HoldInv'
<1> SUFFICES ASSUME TypeOK /\ HoldInv, [Next]_vars
             PROVE  HoldInv'
  OBVIOUS
<1> USE NoSymbolAssumption, WalkersAssumption
<1> USE DEF TypeOK, HoldInv, OneRunPerSymbol, JobStates, CallerPcs, WorkerPcs,
     EnqueuePcs, AddPcs, RemovePcs, PastCheck, Logged, Pending, Finished,
     Workers
<1>1. ASSUME NEW c \in Callers, NEW s \in Symbols, NEW force \in BOOLEAN, AddFind(c, s, force)
      PROVE  HoldInv'
  BY <1>1 DEF AddFind, Begin, redis, callers, workers
<1>2. ASSUME NEW c \in Callers, AddCheckTombstone(c)
      PROVE  HoldInv'
  BY <1>2 DEF AddCheckTombstone, Begin, Return, redis, callers, workers
<1>3. ASSUME NEW c \in Callers, AddCreate(c)
      PROVE  HoldInv'
  BY <1>3 DEF AddCreate, Begin, Return, CreateRow, Recording, redis, callers,
       workers
<1>4. ASSUME NEW c \in Callers, AddForget(c)
      PROVE  HoldInv'
  BY <1>4 DEF AddForget, Goto, redis, callers, workers
<1>5. ASSUME NEW c \in Callers, EnqueueGet(c)
      PROVE  HoldInv'
  BY <1>5 DEF EnqueueGet, Goto, redis, callers, workers
<1>6. ASSUME NEW c \in Callers, EnqueueClear(c)
      PROVE  HoldInv'
  BY <1>6 DEF EnqueueClear, Goto, RemoveJob, redis, callers, workers
<1>7. ASSUME NEW c \in Callers, EnqueueAdd(c)
      PROVE  HoldInv'
  BY <1>7 DEF EnqueueAdd, AddJob, NextSymbol, Begin, redis, callers, workers
<1>8. ASSUME NEW c \in Callers, NEW s \in Symbols, SyncOneFind(c, s)
      PROVE  HoldInv'
  BY <1>8 DEF SyncOneFind, Begin, redis, callers, workers
<1>9. ASSUME NEW c \in Callers, SyncOneExisting(c)
      PROVE  HoldInv'
  BY <1>9 DEF SyncOneExisting, Begin, Return, redis, callers, workers
<1>10. ASSUME NEW c \in Callers, FanOut(c)
       PROVE  HoldInv'
  BY <1>10 DEF FanOut, NextSymbol, Begin, redis, callers, workers
<1>11. ASSUME NEW c \in Callers, NEW board \in SUBSET Symbols, BoardTracked(c, board)
       PROVE  HoldInv'
  BY <1>11 DEF BoardTracked, Goto, redis, callers, workers
<1>12. ASSUME NEW c \in Callers, BoardRemoved(c)
       PROVE  HoldInv'
  BY <1>12 DEF BoardRemoved, Goto, redis, callers, workers
<1>13. ASSUME NEW c \in Callers, BoardCreate(c)
       PROVE  HoldInv'
  BY <1>13 DEF BoardCreate, CreateRow, Recording, redis, callers, workers
<1>14. ASSUME NEW c \in Callers, BoardEnqueue(c)
       PROVE  HoldInv'
  BY <1>14 DEF BoardEnqueue, NextSymbol, Begin, redis, callers, workers
<1>15. ASSUME NEW c \in Callers, NEW s \in Symbols, RemoveFind(c, s)
       PROVE  HoldInv'
  BY <1>15 DEF RemoveFind, Begin, redis, callers, workers
<1>16. ASSUME NEW c \in Callers, RemoveCancel(c)
       PROVE  HoldInv'
  BY <1>16 DEF RemoveCancel, Goto, redis, callers, workers
<1>17. ASSUME NEW c \in Callers, RemovePoll(c)
       PROVE  HoldInv'
  BY <1>17 DEF RemovePoll, Goto, redis, callers, workers
<1>18. ASSUME NEW c \in Callers, RemoveDeadline(c)
       PROVE  HoldInv'
  BY <1>18 DEF RemoveDeadline, Goto, redis, callers, workers
<1>19. ASSUME NEW c \in Callers, RemoveDrop(c)
       PROVE  HoldInv'
  BY <1>19 DEF RemoveDrop, Goto, RemoveJob, redis, callers, workers
<1>20. ASSUME NEW c \in Callers, RemoveDelete(c)
       PROVE  HoldInv'
  BY <1>20 DEF RemoveDelete, Begin, Return, redis, callers, workers
<1>21. ASSUME NEW c \in Callers, RemoveRecord(c)
       PROVE  HoldInv'
  BY <1>21 DEF RemoveRecord, Begin, Return, Overtaken, redis, callers, workers
<1>22. ASSUME NEW c \in Callers, CallerDies(c)
       PROVE  HoldInv'
  BY <1>22 DEF CallerDies, Begin, Return, redis, callers, workers
<1>23. ASSUME NEW w \in Workers, CheckDeleted(w)
       PROVE  HoldInv'
  BY <1>23 DEF CheckDeleted, Completed, Release, Hold, WGoto, redis, callers,
       workers
<1>24. ASSUME NEW w \in Workers, Start(w)
       PROVE  HoldInv'
  BY <1>24 DEF Start, Failed, Release, Hold, WGoto, redis, callers, workers
<1>25. ASSUME NEW w \in Workers, Scrape(w)
       PROVE  HoldInv'
  BY <1>25 DEF Scrape, Failed, Unrecoverable, Release, Hold, WGoto, redis,
       callers, workers
<1>26. ASSUME NEW w \in Workers, Persist(w)
       PROVE  HoldInv'
  BY <1>26 DEF Persist, CreateRow, Recording, Failed, Release, Hold, WGoto,
       redis, callers, workers
<1>27. ASSUME NEW w \in Workers, Finish(w)
       PROVE  HoldInv'
  BY <1>27 DEF Finish, Completed, Release, Hold, redis, callers, workers
<1>28. ASSUME NEW w \in SyncWorkers, NEW s \in Symbols, PickUp(w, s)
       PROVE  HoldInv'
  BY <1>28 DEF PickUp, Hold, redis, callers, workers
<1>29. ASSUME NEW w \in Walkers, NEW s \in Symbols, WalkerPickUp(w, s)
       PROVE  HoldInv'
  BY <1>29 DEF WalkerPickUp, Hold, redis, callers, workers
<1>30. ASSUME NEW w \in Walkers, NEW board \in SUBSET Symbols, HandOut(w, board)
       PROVE  HoldInv'
  BY <1>30 DEF HandOut, redis, callers, workers
<1>31. ASSUME NEW s \in Symbols, BackoffElapses(s)
       PROVE  HoldInv'
  BY <1>31 DEF BackoffElapses, redis, callers, workers
<1>32. ASSUME NEW s \in Symbols, RetentionElapses(s)
       PROVE  HoldInv'
  BY <1>32 DEF RetentionElapses, redis, callers, workers
<1>33. ASSUME NEW s \in Symbols, StalledCheck(s)
       PROVE  HoldInv'
  BY <1>33 DEF StalledCheck, redis, callers, workers
<1>34. ASSUME WorkersDie
       PROVE  HoldInv'
  BY <1>34 DEF WorkersDie, redis, callers, workers
<1>35. CASE UNCHANGED vars
  BY <1>35 DEF vars, redis, callers, workers
<1> HIDE DEF TypeOK, HoldInv, OneRunPerSymbol, JobStates, CallerPcs,
     WorkerPcs, EnqueuePcs, AddPcs, RemovePcs, PastCheck, Logged, Pending,
     Finished, Workers
<1>36. QED
  BY <1>1, <1>2, <1>3, <1>4, <1>5, <1>6, <1>7, <1>8, <1>9, <1>10, <1>11,
       <1>12, <1>13, <1>14, <1>15, <1>16, <1>17, <1>18, <1>19, <1>20, <1>21,
       <1>22, <1>23, <1>24, <1>25, <1>26, <1>27, <1>28, <1>29, <1>30, <1>31,
       <1>32, <1>33, <1>34, <1>35 DEF Next, Call, CallerStep, WorkerStep,
       SyncPickUp, QueueStep

\* Every step keeps the queue consistent with its counters and with what
\* enqueueSync observed.
LEMMA QueueStepInv == TypeOK /\ HoldInv /\ QueueInv /\ [Next]_vars => QueueInv'
<1> SUFFICES ASSUME TypeOK /\ HoldInv /\ QueueInv, [Next]_vars
             PROVE  QueueInv'
  OBVIOUS
<1> USE MaxAttemptsAssumption, NoSymbolAssumption, WalkersAssumption
<1> USE DEF TypeOK, HoldInv, QueueInv, JobStates, CallerPcs, WorkerPcs,
     EnqueuePcs, AddPcs, RemovePcs, PastCheck, Logged, Pending, Finished,
     Workers
<1>1. ASSUME NEW c \in Callers, NEW s \in Symbols, NEW force \in BOOLEAN, AddFind(c, s, force)
      PROVE  QueueInv'
  BY <1>1 DEF AddFind, Begin, redis, callers, workers
<1>2. ASSUME NEW c \in Callers, AddCheckTombstone(c)
      PROVE  QueueInv'
  BY <1>2 DEF AddCheckTombstone, Begin, Return, redis, callers, workers
<1>3. ASSUME NEW c \in Callers, AddCreate(c)
      PROVE  QueueInv'
  BY <1>3 DEF AddCreate, Begin, Return, CreateRow, Recording, redis, callers,
       workers
<1>4. ASSUME NEW c \in Callers, AddForget(c)
      PROVE  QueueInv'
  BY <1>4 DEF AddForget, Goto, redis, callers, workers
<1>5. ASSUME NEW c \in Callers, EnqueueGet(c)
      PROVE  QueueInv'
  BY <1>5 DEF EnqueueGet, Goto, redis, callers, workers
<1>6. ASSUME NEW c \in Callers, EnqueueClear(c)
      PROVE  QueueInv'
  BY <1>6 DEF EnqueueClear, Goto, RemoveJob, redis, callers, workers
<1>7. ASSUME NEW c \in Callers, EnqueueAdd(c)
      PROVE  QueueInv'
  BY <1>7 DEF EnqueueAdd, AddJob, NextSymbol, Begin, redis, callers, workers
<1>8. ASSUME NEW c \in Callers, NEW s \in Symbols, SyncOneFind(c, s)
      PROVE  QueueInv'
  BY <1>8 DEF SyncOneFind, Begin, redis, callers, workers
<1>9. ASSUME NEW c \in Callers, SyncOneExisting(c)
      PROVE  QueueInv'
  BY <1>9 DEF SyncOneExisting, Begin, Return, redis, callers, workers
<1>10. ASSUME NEW c \in Callers, FanOut(c)
       PROVE  QueueInv'
  BY <1>10 DEF FanOut, NextSymbol, Begin, redis, callers, workers
<1>11. ASSUME NEW c \in Callers, NEW board \in SUBSET Symbols, BoardTracked(c, board)
       PROVE  QueueInv'
  BY <1>11 DEF BoardTracked, Goto, redis, callers, workers
<1>12. ASSUME NEW c \in Callers, BoardRemoved(c)
       PROVE  QueueInv'
  BY <1>12 DEF BoardRemoved, Goto, redis, callers, workers
<1>13. ASSUME NEW c \in Callers, BoardCreate(c)
       PROVE  QueueInv'
  BY <1>13 DEF BoardCreate, CreateRow, Recording, redis, callers, workers
<1>14. ASSUME NEW c \in Callers, BoardEnqueue(c)
       PROVE  QueueInv'
  BY <1>14 DEF BoardEnqueue, NextSymbol, Begin, redis, callers, workers
<1>15. ASSUME NEW c \in Callers, NEW s \in Symbols, RemoveFind(c, s)
       PROVE  QueueInv'
  BY <1>15 DEF RemoveFind, Begin, redis, callers, workers
<1>16. ASSUME NEW c \in Callers, RemoveCancel(c)
       PROVE  QueueInv'
  BY <1>16 DEF RemoveCancel, Goto, redis, callers, workers
<1>17. ASSUME NEW c \in Callers, RemovePoll(c)
       PROVE  QueueInv'
  BY <1>17 DEF RemovePoll, Goto, redis, callers, workers
<1>18. ASSUME NEW c \in Callers, RemoveDeadline(c)
       PROVE  QueueInv'
  BY <1>18 DEF RemoveDeadline, Goto, redis, callers, workers
<1>19. ASSUME NEW c \in Callers, RemoveDrop(c)
       PROVE  QueueInv'
  BY <1>19 DEF RemoveDrop, Goto, RemoveJob, redis, callers, workers
<1>20. ASSUME NEW c \in Callers, RemoveDelete(c)
       PROVE  QueueInv'
  BY <1>20 DEF RemoveDelete, Begin, Return, redis, callers, workers
<1>21. ASSUME NEW c \in Callers, RemoveRecord(c)
       PROVE  QueueInv'
  BY <1>21 DEF RemoveRecord, Begin, Return, Overtaken, redis, callers, workers
<1>22. ASSUME NEW c \in Callers, CallerDies(c)
       PROVE  QueueInv'
  BY <1>22 DEF CallerDies, Begin, Return, redis, callers, workers
<1>23. ASSUME NEW w \in Workers, CheckDeleted(w)
       PROVE  QueueInv'
  BY <1>23 DEF CheckDeleted, Completed, Release, Hold, WGoto, redis, callers,
       workers
<1>24. ASSUME NEW w \in Workers, Start(w)
       PROVE  QueueInv'
  BY <1>24 DEF Start, Failed, Release, Hold, WGoto, redis, callers, workers
<1>25. ASSUME NEW w \in Workers, Scrape(w)
       PROVE  QueueInv'
  BY <1>25 DEF Scrape, Failed, Unrecoverable, Release, Hold, WGoto, redis,
       callers, workers
<1>26. ASSUME NEW w \in Workers, Persist(w)
       PROVE  QueueInv'
  BY <1>26 DEF Persist, CreateRow, Recording, Failed, Release, Hold, WGoto,
       redis, callers, workers
<1>27. ASSUME NEW w \in Workers, Finish(w)
       PROVE  QueueInv'
  BY <1>27 DEF Finish, Completed, Release, Hold, redis, callers, workers
<1>28. ASSUME NEW w \in SyncWorkers, NEW s \in Symbols, PickUp(w, s)
       PROVE  QueueInv'
  BY <1>28 DEF PickUp, Hold, redis, callers, workers
<1>29. ASSUME NEW w \in Walkers, NEW s \in Symbols, WalkerPickUp(w, s)
       PROVE  QueueInv'
  BY <1>29 DEF WalkerPickUp, Hold, redis, callers, workers
<1>30. ASSUME NEW w \in Walkers, NEW board \in SUBSET Symbols, HandOut(w, board)
       PROVE  QueueInv'
  BY <1>30 DEF HandOut, redis, callers, workers
<1>31. ASSUME NEW s \in Symbols, BackoffElapses(s)
       PROVE  QueueInv'
  BY <1>31 DEF BackoffElapses, redis, callers, workers
<1>32. ASSUME NEW s \in Symbols, RetentionElapses(s)
       PROVE  QueueInv'
  BY <1>32 DEF RetentionElapses, redis, callers, workers
<1>33. ASSUME NEW s \in Symbols, StalledCheck(s)
       PROVE  QueueInv'
  BY <1>33 DEF StalledCheck, redis, callers, workers
<1>34. ASSUME WorkersDie
       PROVE  QueueInv'
  BY <1>34 DEF WorkersDie, redis, callers, workers
<1>35. CASE UNCHANGED vars
  BY <1>35 DEF vars, redis, callers, workers
<1> HIDE DEF TypeOK, HoldInv, QueueInv, JobStates, CallerPcs, WorkerPcs,
     EnqueuePcs, AddPcs, RemovePcs, PastCheck, Logged, Pending, Finished,
     Workers
<1>36. QED
  BY <1>1, <1>2, <1>3, <1>4, <1>5, <1>6, <1>7, <1>8, <1>9, <1>10, <1>11,
       <1>12, <1>13, <1>14, <1>15, <1>16, <1>17, <1>18, <1>19, <1>20, <1>21,
       <1>22, <1>23, <1>24, <1>25, <1>26, <1>27, <1>28, <1>29, <1>30, <1>31,
       <1>32, <1>33, <1>34, <1>35 DEF Next, Call, CallerStep, WorkerStep,
       SyncPickUp, QueueStep

\* Every step keeps the record of overlapping removals complete.
LEMMA TearStep == TypeOK /\ HoldInv /\ TearInv /\ [Next]_vars => TearInv'
<1> SUFFICES ASSUME TypeOK /\ HoldInv /\ TearInv, [Next]_vars
             PROVE  TearInv'
  OBVIOUS
<1> USE NoSymbolAssumption
<1> USE DEF TypeOK, HoldInv, TearInv, BuriedOrTracked, JobStates, CallerPcs,
     WorkerPcs, EnqueuePcs, AddPcs, RemovePcs, PastCheck, Logged, Pending,
     Finished, Workers
<1>1. ASSUME NEW c \in Callers, NEW s \in Symbols, NEW force \in BOOLEAN, AddFind(c, s, force)
      PROVE  TearInv'
  BY <1>1 DEF AddFind, Begin, redis, callers, workers
<1>2. ASSUME NEW c \in Callers, AddCheckTombstone(c)
      PROVE  TearInv'
  BY <1>2 DEF AddCheckTombstone, Begin, Return, redis, callers, workers
<1>3. ASSUME NEW c \in Callers, AddCreate(c)
      PROVE  TearInv'
  BY <1>3 DEF AddCreate, Begin, Return, CreateRow, Recording, redis, callers,
       workers
<1>4. ASSUME NEW c \in Callers, AddForget(c)
      PROVE  TearInv'
  BY <1>4 DEF AddForget, Goto, redis, callers, workers
<1>5. ASSUME NEW c \in Callers, EnqueueGet(c)
      PROVE  TearInv'
  BY <1>5 DEF EnqueueGet, Goto, redis, callers, workers
<1>6. ASSUME NEW c \in Callers, EnqueueClear(c)
      PROVE  TearInv'
  BY <1>6 DEF EnqueueClear, Goto, RemoveJob, redis, callers, workers
<1>7. ASSUME NEW c \in Callers, EnqueueAdd(c)
      PROVE  TearInv'
  BY <1>7 DEF EnqueueAdd, AddJob, NextSymbol, Begin, redis, callers, workers
<1>8. ASSUME NEW c \in Callers, NEW s \in Symbols, SyncOneFind(c, s)
      PROVE  TearInv'
  BY <1>8 DEF SyncOneFind, Begin, redis, callers, workers
<1>9. ASSUME NEW c \in Callers, SyncOneExisting(c)
      PROVE  TearInv'
  BY <1>9 DEF SyncOneExisting, Begin, Return, redis, callers, workers
<1>10. ASSUME NEW c \in Callers, FanOut(c)
       PROVE  TearInv'
  BY <1>10 DEF FanOut, NextSymbol, Begin, redis, callers, workers
<1>11. ASSUME NEW c \in Callers, NEW board \in SUBSET Symbols, BoardTracked(c, board)
       PROVE  TearInv'
  BY <1>11 DEF BoardTracked, Goto, redis, callers, workers
<1>12. ASSUME NEW c \in Callers, BoardRemoved(c)
       PROVE  TearInv'
  BY <1>12 DEF BoardRemoved, Goto, redis, callers, workers
<1>13. ASSUME NEW c \in Callers, BoardCreate(c)
       PROVE  TearInv'
  BY <1>13 DEF BoardCreate, CreateRow, Recording, redis, callers, workers
<1>14. ASSUME NEW c \in Callers, BoardEnqueue(c)
       PROVE  TearInv'
  BY <1>14 DEF BoardEnqueue, NextSymbol, Begin, redis, callers, workers
<1>15. ASSUME NEW c \in Callers, NEW s \in Symbols, RemoveFind(c, s)
       PROVE  TearInv'
  BY <1>15 DEF RemoveFind, Begin, redis, callers, workers
<1>16. ASSUME NEW c \in Callers, RemoveCancel(c)
       PROVE  TearInv'
  BY <1>16 DEF RemoveCancel, Goto, redis, callers, workers
<1>17. ASSUME NEW c \in Callers, RemovePoll(c)
       PROVE  TearInv'
  BY <1>17 DEF RemovePoll, Goto, redis, callers, workers
<1>18. ASSUME NEW c \in Callers, RemoveDeadline(c)
       PROVE  TearInv'
  BY <1>18 DEF RemoveDeadline, Goto, redis, callers, workers
<1>19. ASSUME NEW c \in Callers, RemoveDrop(c)
       PROVE  TearInv'
  BY <1>19 DEF RemoveDrop, Goto, RemoveJob, redis, callers, workers
<1>20. ASSUME NEW c \in Callers, RemoveDelete(c)
       PROVE  TearInv'
  BY <1>20 DEF RemoveDelete, Begin, Return, redis, callers, workers
<1>21. ASSUME NEW c \in Callers, RemoveRecord(c)
       PROVE  TearInv'
  BY <1>21 DEF RemoveRecord, Begin, Return, Overtaken, redis, callers, workers
<1>22. ASSUME NEW c \in Callers, CallerDies(c)
       PROVE  TearInv'
  BY <1>22 DEF CallerDies, Begin, Return, redis, callers, workers
<1>23. ASSUME NEW w \in Workers, CheckDeleted(w)
       PROVE  TearInv'
  BY <1>23 DEF CheckDeleted, Completed, Release, Hold, WGoto, redis, callers,
       workers
<1>24. ASSUME NEW w \in Workers, Start(w)
       PROVE  TearInv'
  BY <1>24 DEF Start, Failed, Release, Hold, WGoto, redis, callers, workers
<1>25. ASSUME NEW w \in Workers, Scrape(w)
       PROVE  TearInv'
  BY <1>25 DEF Scrape, Failed, Unrecoverable, Release, Hold, WGoto, redis,
       callers, workers
<1>26. ASSUME NEW w \in Workers, Persist(w)
       PROVE  TearInv'
  BY <1>26 DEF Persist, CreateRow, Recording, Failed, Release, Hold, WGoto,
       redis, callers, workers
<1>27. ASSUME NEW w \in Workers, Finish(w)
       PROVE  TearInv'
  BY <1>27 DEF Finish, Completed, Release, Hold, redis, callers, workers
<1>28. ASSUME NEW w \in SyncWorkers, NEW s \in Symbols, PickUp(w, s)
       PROVE  TearInv'
  BY <1>28 DEF PickUp, Hold, redis, callers, workers
<1>29. ASSUME NEW w \in Walkers, NEW s \in Symbols, WalkerPickUp(w, s)
       PROVE  TearInv'
  BY <1>29 DEF WalkerPickUp, Hold, redis, callers, workers
<1>30. ASSUME NEW w \in Walkers, NEW board \in SUBSET Symbols, HandOut(w, board)
       PROVE  TearInv'
  BY <1>30 DEF HandOut, redis, callers, workers
<1>31. ASSUME NEW s \in Symbols, BackoffElapses(s)
       PROVE  TearInv'
  BY <1>31 DEF BackoffElapses, redis, callers, workers
<1>32. ASSUME NEW s \in Symbols, RetentionElapses(s)
       PROVE  TearInv'
  BY <1>32 DEF RetentionElapses, redis, callers, workers
<1>33. ASSUME NEW s \in Symbols, StalledCheck(s)
       PROVE  TearInv'
  BY <1>33 DEF StalledCheck, redis, callers, workers
<1>34. ASSUME WorkersDie
       PROVE  TearInv'
  BY <1>34 DEF WorkersDie, redis, callers, workers
<1>35. CASE UNCHANGED vars
  BY <1>35 DEF vars, redis, callers, workers
<1> HIDE DEF TypeOK, HoldInv, TearInv, BuriedOrTracked, JobStates, CallerPcs,
     WorkerPcs, EnqueuePcs, AddPcs, RemovePcs, PastCheck, Logged, Pending,
     Finished, Workers
<1>36. QED
  BY <1>1, <1>2, <1>3, <1>4, <1>5, <1>6, <1>7, <1>8, <1>9, <1>10, <1>11,
       <1>12, <1>13, <1>14, <1>15, <1>16, <1>17, <1>18, <1>19, <1>20, <1>21,
       <1>22, <1>23, <1>24, <1>25, <1>26, <1>27, <1>28, <1>29, <1>30, <1>31,
       <1>32, <1>33, <1>34, <1>35 DEF Next, Call, CallerStep, WorkerStep,
       SyncPickUp, QueueStep


LEMMA InitIInv == Init => IInv
  BY MaxAttemptsAssumption, MaxCrashesAssumption
     DEF Init, IInv, TypeOK, HoldInv, QueueInv, TearInv, OneRunPerSymbol, BuriedOrTracked,
         JobStates, CallerPcs, WorkerPcs, EnqueuePcs, AddPcs, RemovePcs, PastCheck, Logged,
         Pending, Finished, Workers

\* The inductive invariant holds in every reachable state.
THEOREM Invariance == Spec => []IInv
<1>1. Init => IInv
  BY InitIInv
<1>2. IInv /\ [Next]_vars => IInv'
  BY TypeStep, HoldStep, QueueStepInv, TearStep DEF IInv
<1>3. QED
  BY <1>1, <1>2, PTL DEF Spec

---------------------------------------------------------------------------

\* Every variable keeps its type, in particular the attempts counter its bound.
THEOREM TypeCorrect == Spec => []TypeOK
<1>1. IInv => TypeOK
  BY DEF IInv
<1>2. QED
  BY <1>1, Invariance, PTL

\* No two lanes of the sync worker ever scrape the same symbol (syncJobId).
THEOREM RunsAreExclusive == Spec => []OneRunPerSymbol
<1>1. IInv => OneRunPerSymbol
  BY DEF IInv, HoldInv
<1>2. QED
  BY <1>1, Invariance, PTL

\* A symbol is tracked and tombstoned at once only while an add is forgetting
\* the tombstone, or after its removal overlapped another writer.
THEOREM TablesStayDisjoint == Spec => []BuriedOrTracked
<1>1. IInv => BuriedOrTracked
  BY DEF IInv, TearInv
<1>2. QED
  BY <1>1, Invariance, PTL

\* An enqueueSync that nobody disturbs between its read and its add leaves a
\* job that will run.
THEOREM UndisturbedAddWorks == Spec => UndisturbedAddIsQueued
<1> DEFINE Queued(c) ==
       cpc[c] = "enqueueAdd" /\ cpc'[c] \in {"idle", "enqueueGet"}
           /\ crashes' = crashes /\ job[csym[c]] = seen[c]
       => job'[csym[c]] \in Pending
<1>1. IInv /\ [Next]_vars => [\A c \in Callers : Queued(c)]_vars
  <2> SUFFICES ASSUME IInv, Next, NEW c \in Callers,
                      cpc[c] = "enqueueAdd", cpc'[c] \in {"idle", "enqueueGet"},
                      crashes' = crashes, job[csym[c]] = seen[c]
               PROVE  job'[csym[c]] \in Pending
    BY Zenon
  <2> USE DEF IInv, TypeOK
  <2>1. ASSUME NEW d \in Callers, Call(d) PROVE FALSE
    BY <2>1 DEF Call, AddFind, SyncOneFind, RemoveFind, FanOut, BoardTracked,
       Begin, Goto, NextSymbol
  <2>2. ASSUME NEW d \in Callers, CallerStep(d) PROVE EnqueueAdd(c)
    <3>1. CASE d # c
      BY <2>2, <3>1 DEF CallerStep, AddCheckTombstone, AddCreate, AddForget,
         EnqueueGet, EnqueueClear, EnqueueAdd, SyncOneExisting, BoardRemoved,
         BoardCreate, BoardEnqueue, RemoveCancel, RemovePoll, RemoveDeadline,
         RemoveDrop, RemoveDelete, RemoveRecord, Begin, Goto, Return, NextSymbol
    <3>2. CASE d = c
      BY <2>2, <3>2 DEF CallerStep, AddCheckTombstone, AddCreate, AddForget,
         EnqueueGet, EnqueueClear, SyncOneExisting, BoardRemoved,
         BoardCreate, BoardEnqueue, RemoveCancel, RemovePoll, RemoveDeadline,
         RemoveDrop, RemoveDelete, RemoveRecord
    <3>3. QED
      BY <3>1, <3>2
  <2>3. ASSUME NEW d \in Callers, CallerDies(d) PROVE FALSE
    BY <2>3, MaxCrashesAssumption DEF CallerDies
  <2>4. CASE \E w \in Workers : WorkerStep(w)
    BY <2>4 DEF WorkerStep, CheckDeleted, Start, Scrape, Persist, Finish, callers
  <2>5. CASE \E s \in Symbols : SyncPickUp(s) \/ QueueStep(s)
    BY <2>5 DEF SyncPickUp, PickUp, QueueStep, BackoffElapses, RetentionElapses,
       StalledCheck, callers
  <2>6. CASE \E w \in Walkers :
               \/ \E board \in SUBSET Symbols \ {{}} : HandOut(w, board)
               \/ \E s \in Symbols : WalkerPickUp(w, s)
    BY <2>6 DEF HandOut, WalkerPickUp, callers
  <2>7. CASE WorkersDie
    BY <2>7 DEF WorkersDie, callers
  <2>8. CASE EnqueueAdd(c)
    <3>1. csym[c] \in Symbols /\ job[csym[c]] \notin Finished
      BY DEF HoldInv, QueueInv, EnqueuePcs
    <3>2. QED
      BY <2>8, <3>1 DEF EnqueueAdd, AddJob, JobStates, Pending, Finished
  <2>9. QED
    BY <2>1, <2>2, <2>3, <2>4, <2>5, <2>6, <2>7, <2>8 DEF Next
<1>2. QED
  BY <1>1, Invariance, PTL DEF Spec, UndisturbedAddIsQueued

=============================================================================
