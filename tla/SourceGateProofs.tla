-------------------------- MODULE SourceGateProofs --------------------------
(***************************************************************************)
(* Proofs about SourceGate, for any number of lanes, slots and sources and *)
(* any threshold and cooldowns: the types, that no slot is idle while a    *)
(* lane waits, that each reader leaks at most one request per cooldown,    *)
(* and that a cooldown is never extended.                                  *)
(***************************************************************************)
EXTENDS SourceGate, FiniteSetTheorems, SequenceTheorems, TLAPS

\* The pool counts the slots really held, and its queue lists lanes that wait,
\* each of them once.
SlotInv ==
    /\ active = Cardinality(Holders)
    /\ \A i \in 1..Len(queue) : pc[queue[i]] = "waiting"
    /\ \A i, j \in 1..Len(queue) : queue[i] = queue[j] => i = j
    /\ NobodyWaitsForAnIdleSlot

\* The readers of s that ask the breaker before they wait for a page, and
\* those of them that have asked and not navigated yet.
Readers(s) == {l \in Pooled \cap Guarded : SourceOf[l] = s}
BeforeRequest == {"waiting", "granted", "browser", "launching", "page"}
OnTheWay(s) == {l \in Readers(s) : pc[l] \in BeforeRequest}

\* In a cooldown nobody sets out, so each reader has leaked, may still leak,
\* or does neither; the count starts from zero in each cooldown.
LeakAt(s) ==
    /\ isCoolingDown(s) => leaked[s] + Cardinality(OnTheWay(s)) <= Cardinality(Readers(s))
    /\ ~ isCoolingDown(s) => leaked[s] = 0

LeakInv == \A s \in Sources : LeakAt(s)

IInv == TypeOK /\ SlotInv /\ LeakInv

---------------------------------------------------------------------------

\* The sets of lanes that the invariants count are finite.
LEMMA CountType ==
    /\ IsFiniteSet(Holders) /\ Cardinality(Holders) \in 0..Cardinality(Pooled)
    /\ IsFiniteSet(Granted) /\ IsFiniteSet(Holders \cup Granted)
    /\ \A s : IsFiniteSet(Readers(s)) /\ Cardinality(Readers(s)) \in Nat
    /\ \A s : IsFiniteSet(OnTheWay(s)) /\ Cardinality(OnTheWay(s)) \in Nat
    /\ \A s : Cardinality(OnTheWay(s)) <= Cardinality(Readers(s))
<1>1. IsFiniteSet(Pooled) /\ Cardinality(Pooled) \in Nat
  BY LaneAssumption, FS_CardinalityType
<1>2. ASSUME NEW S \in SUBSET Pooled
      PROVE IsFiniteSet(S) /\ Cardinality(S) \in Nat /\ Cardinality(S) <= Cardinality(Pooled)
  BY <1>1, FS_Subset, FS_CardinalityType
<1>3. Holders \in SUBSET Pooled /\ Granted \in SUBSET Pooled
      /\ Holders \cup Granted \in SUBSET Pooled
  BY DEF Holders, Granted
<1>4. ASSUME NEW s
      PROVE /\ IsFiniteSet(Readers(s)) /\ Cardinality(Readers(s)) \in Nat
            /\ IsFiniteSet(OnTheWay(s)) /\ Cardinality(OnTheWay(s)) \in Nat
            /\ Cardinality(OnTheWay(s)) <= Cardinality(Readers(s))
  <2>1. Readers(s) \in SUBSET Pooled /\ OnTheWay(s) \in SUBSET Pooled
    BY DEF Readers, OnTheWay
  <2>2. OnTheWay(s) \in SUBSET Readers(s)
    BY DEF OnTheWay
  <2>3. Cardinality(OnTheWay(s)) <= Cardinality(Readers(s))
    BY <1>2, <2>1, <2>2, FS_Subset
  <2>4. QED
    BY <1>2, <2>1, <2>3
<1>5. QED
  BY <1>1, <1>2, <1>3, <1>4

\* The cooldown after any number of trips is one the type allows.
LEMMA CooldownType ==
    ASSUME NEW trips \in 1..OpensCap
    PROVE  CooldownAfter(trips) \in 0..MaxCooldown
<1>1. BaseCooldown * 2^(trips - 1) \in Nat
  BY BreakerAssumption
<1>2. MaxCooldown \in Nat
  BY BreakerAssumption
<1>3. QED
  BY <1>1, <1>2 DEF CooldownAfter, Lesser

\* A lane that moves to a place of its own kind leaves the places well typed.
LEMMA GotoType ==
    ASSUME TypeOK, NEW l \in Lanes, NEW p \in PcsOf(l), Goto(l, p)
    PROVE  /\ pc' \in [Lanes -> UNION {PcsOf(k) : k \in Lanes}]
           /\ \A k \in Lanes : pc'[k] \in PcsOf(k)
<1>1. pc' = [pc EXCEPT ![l] = p]
  BY DEF Goto
<1>2. p \in UNION {PcsOf(k) : k \in Lanes}
  OBVIOUS
<1>3. QED
  BY <1>1, <1>2 DEF TypeOK

---------------------------------------------------------------------------

LEMMA InitIInv == Init => IInv
<1>1. ASSUME Init PROVE TypeOK
  <2>1. active \in 0..Cardinality(Pooled)
    BY <1>1, LaneAssumption, FS_CardinalityType DEF Init
  <2>2. pc \in [Lanes -> UNION {PcsOf(l) : l \in Lanes}] /\ \A l \in Lanes : pc[l] \in PcsOf(l)
    BY <1>1 DEF Init, PcsOf
  <2>3. queue \in Seq(Pooled)
    BY <1>1 DEF Init
  <2>4. /\ failures \in [Sources -> 0..Threshold]
        /\ opens \in [Sources -> 0..OpensCap]
        /\ cooldown \in [Sources -> 0..MaxCooldown]
        /\ leaked \in [Sources -> Nat]
    BY <1>1, BreakerAssumption DEF Init
  <2>5. QED
    BY <1>1, <2>1, <2>2, <2>3, <2>4 DEF Init, TypeOK
<1>2. ASSUME Init PROVE SlotInv
  <2>1. Holders = {}
    BY <1>2 DEF Init, Holders, Holding, Lanes
  <2>2. Cardinality(Holders) = 0
    BY <2>1, FS_EmptySet
  <2>3. queue = <<>> /\ Len(queue) = 0
    BY <1>2 DEF Init
  <2>4. QED
    BY <1>2, <2>2, <2>3 DEF Init, SlotInv, NobodyWaitsForAnIdleSlot
<1>3. ASSUME Init PROVE LeakInv
  BY <1>3 DEF Init, LeakInv, LeakAt, isCoolingDown
<1>4. QED
  BY <1>1, <1>2, <1>3 DEF IInv

---------------------------------------------------------------------------

\* What a lane tells the breaker keeps its counters in range.
LEMMA BreakerType ==
    ASSUME TypeOK, NEW s \in Sources, RecordFailure(s) \/ RecordSuccess(s)
    PROVE  /\ failures' \in [Sources -> 0..Threshold]
           /\ opens' \in [Sources -> 0..OpensCap]
           /\ cooldown' \in [Sources -> 0..MaxCooldown]
           /\ leaked' \in [Sources -> Nat]
<1>1. Threshold \in Nat \ {0} /\ OpensCap \in Nat \ {0} /\ MaxCooldown \in Nat
  BY BreakerAssumption
<1>2. CASE RecordSuccess(s)
  BY <1>1, <1>2 DEF RecordSuccess, TypeOK
<1>3. CASE RecordFailure(s)
  <2> DEFINE run == Lesser(failures[s] + 1, Threshold)
             trips == Lesser(opens[s] + 1, OpensCap)
  <2>1. run \in 0..Threshold
    BY <1>1 DEF Lesser, TypeOK
  <2>2. trips \in 1..OpensCap
    BY <1>1 DEF Lesser, TypeOK
  <2>3. CooldownAfter(trips) \in 0..MaxCooldown
    BY <2>2, CooldownType
  <2>4. failures' = [failures EXCEPT ![s] = run] /\ UNCHANGED leaked
    BY <1>3 DEF RecordFailure
  <2>5. \/ UNCHANGED <<opens, cooldown>>
        \/ /\ opens' = [opens EXCEPT ![s] = trips]
           /\ cooldown' = [cooldown EXCEPT ![s] = CooldownAfter(trips)]
    BY <1>3 DEF RecordFailure
  <2> HIDE DEF run, trips
  <2>6. opens' \in [Sources -> 0..OpensCap]
    BY <1>1, <2>2, <2>5 DEF TypeOK
  <2>7. cooldown' \in [Sources -> 0..MaxCooldown]
    BY <2>3, <2>5 DEF TypeOK
  <2>8. QED
    BY <2>1, <2>4, <2>6, <2>7 DEF TypeOK
<1>4. QED
  BY <1>2, <1>3

\* Sending a request keeps the history well typed.
LEMMA AskType ==
    ASSUME TypeOK, NEW l \in Lanes, Ask(l)
    PROVE  leaked' \in [Sources -> Nat]
BY LaneAssumption DEF Ask, TypeOK, Lanes

---------------------------------------------------------------------------
(***************************************************************************)
(* The slots.                                                              *)
(***************************************************************************)

\* A step that moves no lane into or out of a slot or the queue.
LEMMA SamePlaces ==
    ASSUME SlotInv, Holders' = Holders, Granted' = Granted, UNCHANGED <<active, queue>>,
           \A i \in 1..Len(queue) : pc'[queue[i]] = "waiting"
    PROVE  SlotInv'
BY DEF SlotInv, NobodyWaitsForAnIdleSlot

\* A pooled lane that goes from one place of a slot to another.
LEMMA MoveInSlot ==
    ASSUME TypeOK, SlotInv, NEW l \in Pooled, NEW p \in Holding, pc[l] \in Holding, Goto(l, p),
           UNCHANGED <<active, queue>>
    PROVE  SlotInv'
<1>1. pc' = [pc EXCEPT ![l] = p] /\ l \in Lanes
  BY DEF Goto, Lanes
<1>2. Holders' = Holders /\ Granted' = Granted
  BY <1>1 DEF Holders, Granted, Holding, TypeOK, Lanes
<1>3. \A i \in 1..Len(queue) : pc'[queue[i]] = "waiting"
  BY <1>1 DEF SlotInv, Holding, TypeOK, Lanes
<1>4. QED
  BY <1>2, <1>3, SamePlaces

\* A direct lane is in no slot and in no queue.
LEMMA MoveDirect ==
    ASSUME TypeOK, SlotInv, NEW l \in Direct, NEW p, Goto(l, p), UNCHANGED <<active, queue>>
    PROVE  SlotInv'
<1>1. pc' = [pc EXCEPT ![l] = p] /\ l \in Lanes /\ l \notin Pooled
  BY LaneAssumption DEF Goto, Lanes
<1>2. Holders' = Holders /\ Granted' = Granted
  BY <1>1 DEF Holders, Granted, TypeOK, Lanes
<1>3. \A i \in 1..Len(queue) : queue[i] \in Pooled
  BY ElementOfSeq DEF TypeOK
<1>4. \A i \in 1..Len(queue) : pc'[queue[i]] = "waiting"
  BY <1>1, <1>3 DEF SlotInv, TypeOK, Lanes
<1>5. QED
  BY <1>2, <1>4, SamePlaces

\* A lane that finds a slot free takes it; one that does not goes to the end of
\* the queue while the pool is full.
LEMMA BeginSlot ==
    ASSUME TypeOK, SlotInv, NEW l \in Pooled, Begin(l)
    PROVE  SlotInv'
<1>1. pc[l] = "idle" /\ l \in Lanes
  BY DEF Begin, Lanes
<1>2. queue \in Seq(Pooled) /\ Len(queue) \in Nat
  BY DEF TypeOK
<1>3. Slots \in Nat
  BY PoolAssumption
<1>4. CASE active < Slots
  <2>1. pc' = [pc EXCEPT ![l] = "browser"] /\ active' = active + 1 /\ UNCHANGED queue
    BY <1>4 DEF Begin, Goto
  <2>2. Holders' = Holders \cup {l} /\ l \notin Holders
    BY <1>1, <2>1 DEF Holders, Holding, TypeOK, Lanes
  <2>3. Granted' = Granted
    BY <1>1, <2>1 DEF Granted, TypeOK, Lanes
  <2>4. active' = Cardinality(Holders')
    BY <2>1, <2>2, CountType, FS_AddElement DEF SlotInv
  <2>5. \A i \in 1..Len(queue) : pc'[queue[i]] = "waiting"
    BY <1>1, <2>1 DEF SlotInv, TypeOK, Lanes
  <2>6. Cardinality((Holders \cup Granted)') >= Cardinality(Holders \cup Granted)
    <3>1. (Holders \cup Granted)' = (Holders \cup Granted) \cup {l}
      BY <2>2, <2>3
    <3>2. IsFiniteSet(Holders \cup Granted) /\ Cardinality(Holders \cup Granted) \in Nat
      BY CountType, FS_CardinalityType
    <3>3. QED
      BY <3>1, <3>2, FS_AddElement
  <2>7. (Cardinality(Holders \cup Granted))' \in Nat /\ Cardinality(Holders \cup Granted) \in Nat
    <3>1. (Holders \cup Granted)' = (Holders \cup Granted) \cup {l}
      BY <2>2, <2>3
    <3>2. QED
      BY <3>1, CountType, FS_AddElement, FS_CardinalityType
  <2>8. NobodyWaitsForAnIdleSlot'
    BY <1>3, <2>1, <2>6, <2>7 DEF SlotInv, NobodyWaitsForAnIdleSlot
  <2>9. QED
    BY <2>1, <2>4, <2>5, <2>8 DEF SlotInv
<1>5. CASE ~ (active < Slots)
  <2>1. pc' = [pc EXCEPT ![l] = "waiting"] /\ UNCHANGED active /\ queue' = Append(queue, l)
    BY <1>5 DEF Begin, Goto
  <2>2. Holders' = Holders /\ Granted' = Granted
    BY <1>1, <2>1 DEF Holders, Granted, Holding, TypeOK, Lanes
  <2>3. /\ Len(queue') = Len(queue) + 1
        /\ \A i \in 1..Len(queue) : queue'[i] = queue[i]
        /\ queue'[Len(queue) + 1] = l
    BY <1>2, <2>1, AppendProperties
  <2>4. \A i \in 1..Len(queue) : queue[i] # l /\ queue[i] \in Lanes
    BY <1>1, <1>2, ElementOfSeq DEF SlotInv, Lanes
  <2>5. \A i \in 1..Len(queue') : pc'[queue'[i]] = "waiting"
    BY <1>1, <1>2, <2>1, <2>3, <2>4 DEF SlotInv, TypeOK
  <2>6. \A i, j \in 1..Len(queue') : queue'[i] = queue'[j] => i = j
    BY <1>2, <2>3, <2>4 DEF SlotInv
  <2>7. Cardinality(Holders \cup Granted) >= Cardinality(Holders)
    BY CountType, FS_Subset, FS_CardinalityType
  <2>8. Cardinality(Holders) \in Nat /\ Cardinality(Holders \cup Granted) \in Nat
    BY CountType, FS_CardinalityType
  <2>9. NobodyWaitsForAnIdleSlot'
    BY <1>3, <1>5, <2>2, <2>7, <2>8 DEF SlotInv, NobodyWaitsForAnIdleSlot
  <2>10. QED
    BY <2>1, <2>2, <2>5, <2>6, <2>9 DEF SlotInv
<1>6. QED
  BY <1>4, <1>5

\* The woken lane takes the slot it was granted.
LEMMA TakeSlot ==
    ASSUME TypeOK, SlotInv, NEW l \in Pooled, TakeGrantedSlot(l)
    PROVE  SlotInv'
<1>1. /\ pc[l] = "granted" /\ l \in Lanes
      /\ pc' = [pc EXCEPT ![l] = "browser"] /\ active' = active + 1 /\ UNCHANGED queue
  BY DEF TakeGrantedSlot, Goto, Lanes
<1>2. Holders' = Holders \cup {l} /\ l \notin Holders
  BY <1>1 DEF Holders, Holding, TypeOK, Lanes
<1>3. Granted' = Granted \ {l} /\ l \in Granted
  BY <1>1 DEF Granted, TypeOK, Lanes
<1>4. (Holders \cup Granted)' = Holders \cup Granted
  BY <1>2, <1>3
<1>5. active' = Cardinality(Holders')
  BY <1>1, <1>2, CountType, FS_AddElement DEF SlotInv
<1>6. \A i \in 1..Len(queue) : pc'[queue[i]] = "waiting"
  BY <1>1 DEF SlotInv, TypeOK, Lanes
<1>7. NobodyWaitsForAnIdleSlot'
  BY <1>1, <1>4 DEF SlotInv, NobodyWaitsForAnIdleSlot
<1>8. QED
  BY <1>1, <1>5, <1>6, <1>7 DEF SlotInv

\* A slot given back goes to the first in the queue, if there is one.
LEMMA ReturnSlot ==
    ASSUME TypeOK, SlotInv, NEW l \in Pooled, ReleaseSlot(l)
    PROVE  SlotInv'
<1>1. pc[l] = "release" /\ l \in Lanes /\ active' = active - 1
  BY DEF ReleaseSlot, Lanes
<1>2. queue \in Seq(Pooled) /\ Len(queue) \in Nat
  BY DEF TypeOK
<1>3. l \in Holders /\ l \notin Granted
  BY <1>1 DEF Holders, Granted, Holding
<1>4. CASE queue = <<>>
  <2>1. pc' = [pc EXCEPT ![l] = "idle"] /\ UNCHANGED queue
    BY <1>4 DEF ReleaseSlot, Goto
  <2>2. Holders' = Holders \ {l}
    BY <1>1, <2>1 DEF Holders, Holding, TypeOK, Lanes
  <2>3. active' = Cardinality(Holders')
    BY <1>1, <1>3, <2>2, CountType, FS_RemoveElement DEF SlotInv
  <2>4. Len(queue') = 0 /\ queue' = <<>>
    BY <1>4, <2>1
  <2>5. QED
    BY <2>3, <2>4 DEF SlotInv, NobodyWaitsForAnIdleSlot
<1>5. CASE queue # <<>>
  <2> DEFINE h == Head(queue)
  <2>1. queue' = Tail(queue) /\ pc' = [pc EXCEPT ![l] = "idle", ![h] = "granted"]
    BY <1>5 DEF ReleaseSlot
  <2>2. /\ Len(queue) \in Nat \ {0} /\ h = queue[1]
        /\ Len(queue') = Len(queue) - 1
        /\ \A i \in 1..Len(queue') : queue'[i] = queue[i + 1]
    BY <1>2, <1>5, <2>1, HeadTailProperties, EmptySeq
  <2>3. h \in Pooled /\ h \in Lanes /\ pc[h] = "waiting" /\ h # l
    BY <1>1, <1>2, <2>2, ElementOfSeq DEF SlotInv, Lanes
  <2> HIDE DEF h
  <2>4. \A k \in Lanes : pc'[k] = IF k = h THEN "granted" ELSE IF k = l THEN "idle" ELSE pc[k]
    BY <1>1, <2>1, <2>3 DEF TypeOK
  <2>5. Holders' = Holders \ {l}
    BY <2>3, <2>4 DEF Holders, Holding, Lanes
  <2>6. Granted' = Granted \cup {h}
    BY <1>3, <2>3, <2>4 DEF Granted, Lanes
  <2>7. active' = Cardinality(Holders')
    BY <1>1, <1>3, <2>5, CountType, FS_RemoveElement DEF SlotInv
  <2>8. \A i \in 1..Len(queue') : queue'[i] # h /\ queue'[i] # l /\ queue'[i] \in Lanes
                                  /\ pc[queue'[i]] = "waiting"
    <3> SUFFICES ASSUME NEW i \in 1..Len(queue')
                 PROVE queue'[i] # h /\ queue'[i] # l /\ queue'[i] \in Lanes
                       /\ pc[queue'[i]] = "waiting"
      OBVIOUS
    <3>1. i + 1 \in 1..Len(queue) /\ 1 \in 1..Len(queue) /\ i + 1 # 1
      BY <2>2
    <3>2. queue'[i] = queue[i + 1] /\ queue[i + 1] \in Pooled
      BY <1>2, <2>2, <3>1, ElementOfSeq
    <3>3. QED
      BY <1>1, <2>2, <3>1, <3>2 DEF SlotInv, Lanes
  <2>9. \A i \in 1..Len(queue') : pc'[queue'[i]] = "waiting"
    BY <2>4, <2>8
  <2>10. \A i, j \in 1..Len(queue') : queue'[i] = queue'[j] => i = j
    <3> SUFFICES ASSUME NEW i \in 1..Len(queue'), NEW j \in 1..Len(queue'), queue'[i] = queue'[j]
                 PROVE i = j
      OBVIOUS
    <3>1. i + 1 \in 1..Len(queue) /\ j + 1 \in 1..Len(queue)
      BY <2>2
    <3>2. i + 1 = j + 1
      BY <2>2, <3>1 DEF SlotInv
    <3>3. QED
      BY <3>2
  <2>11. Cardinality((Holders \cup Granted)') = Cardinality(Holders \cup Granted)
    <3> DEFINE T == Holders \cup Granted
    <3>1. (Holders \cup Granted)' = (T \ {l}) \cup {h}
      BY <1>3, <2>3, <2>5, <2>6
    <3>2. l \in T /\ h \notin T
      BY <1>3, <2>3 DEF Holders, Granted, Holding
    <3>3. IsFiniteSet(T) /\ Cardinality(T) \in Nat
      BY CountType, FS_CardinalityType
    <3> HIDE DEF T
    <3>4. IsFiniteSet(T \ {l}) /\ Cardinality(T \ {l}) = Cardinality(T) - 1
      BY <3>2, <3>3, FS_RemoveElement
    <3>5. Cardinality((T \ {l}) \cup {h}) = Cardinality(T \ {l}) + 1
      BY <3>2, <3>4, FS_AddElement
    <3>6. Cardinality((T \ {l}) \cup {h}) = Cardinality(T)
      BY <3>3, <3>4, <3>5
    <3>7. QED
      BY <3>1, <3>6 DEF T
  <2>12. NobodyWaitsForAnIdleSlot'
    BY <1>5, <2>11 DEF SlotInv, NobodyWaitsForAnIdleSlot
  <2>13. QED
    BY <2>7, <2>9, <2>10, <2>12 DEF SlotInv
<1>6. QED
  BY <1>4, <1>5

\* The end of a launch moves everyone who waited for it, within their slots.
LEMMA LaunchSlot ==
    ASSUME TypeOK, SlotInv, NEW p \in Holding, LaunchEnds(p)
    PROVE  SlotInv'
<1>1. pc' = [l \in Lanes |-> IF pc[l] = "launching" THEN p ELSE pc[l]] /\ UNCHANGED <<active, queue>>
  BY DEF LaunchEnds
<1>2. Holders' = Holders /\ Granted' = Granted
  BY <1>1 DEF Holders, Granted, Holding, Lanes
<1>3. \A i \in 1..Len(queue) : queue[i] \in Pooled
  BY ElementOfSeq DEF TypeOK
<1>4. \A i \in 1..Len(queue) : pc'[queue[i]] = "waiting"
  BY <1>1, <1>3 DEF SlotInv, Lanes
<1>5. QED
  BY <1>1, <1>2, <1>4, SamePlaces

\* No step loses a slot, or forgets a lane that waits.
LEMMA SlotStep == TypeOK /\ SlotInv /\ [Next]_vars => SlotInv'
<1> SUFFICES ASSUME TypeOK, SlotInv, [Next]_vars PROVE SlotInv'
  OBVIOUS
<1>1. ASSUME NEW l \in Pooled, Begin(l) PROVE SlotInv'
  BY <1>1, BeginSlot
<1>2. ASSUME NEW l \in Pooled, PoolStep(l) PROVE SlotInv'
  <2>1. CASE TakeGrantedSlot(l)
    BY <2>1, TakeSlot
  <2>2. CASE GetBrowser(l)
    <3>1. pc[l] \in Holding /\ UNCHANGED <<active, queue>>
          /\ (Goto(l, "page") \/ Goto(l, "launching"))
      BY <2>2 DEF GetBrowser, Holding
    <3>2. QED
      BY <3>1, MoveInSlot DEF Holding
  <2>3. CASE PageFailed(l)
    BY <2>3, MoveInSlot DEF PageFailed, Holding, pool
  <2>4. CASE Navigate(l)
    BY <2>4, MoveInSlot DEF Navigate, Holding, pool
  <2>5. CASE ReleaseSlot(l)
    BY <2>5, ReturnSlot
  <2>6. QED
    BY <1>2, <2>1, <2>2, <2>3, <2>4, <2>5 DEF PoolStep
<1>3. ASSUME NEW l \in Direct, Fetch(l) PROVE SlotInv'
  BY <1>3, MoveDirect DEF Fetch, pool
<1>4. ASSUME NEW l \in Lanes, Answer(l) PROVE SlotInv'
  <2>1. pc[l] = "request" /\ Answered(l)
    BY <1>4 DEF Answer, Served, Refused, Uncounted
  <2>2. CASE l \in Direct
    BY <2>1, <2>2, MoveDirect DEF Answered, pool
  <2>3. CASE l \notin Direct
    <3>1. l \in Pooled /\ Goto(l, "release") /\ UNCHANGED <<active, queue>>
      BY <2>1, <2>3 DEF Answered, pool, Lanes
    <3>2. QED
      BY <2>1, <3>1, MoveInSlot DEF Holding
  <2>4. QED
    BY <2>2, <2>3
<1>5. CASE LaunchDone
  BY <1>5, LaunchSlot DEF LaunchDone, Holding
<1>6. CASE LaunchFailed
  BY <1>6, LaunchSlot DEF LaunchFailed, Holding
<1>7. CASE Disconnected
  BY <1>7 DEF Disconnected, SlotInv, NobodyWaitsForAnIdleSlot, Holders, Granted
<1>8. CASE Tick
  BY <1>8 DEF Tick, pool, SlotInv, NobodyWaitsForAnIdleSlot, Holders, Granted
<1>9. CASE UNCHANGED vars
  BY <1>9 DEF vars, pool, SlotInv, NobodyWaitsForAnIdleSlot, Holders, Granted
<1>10. QED
  BY <1>1, <1>2, <1>3, <1>4, <1>5, <1>6, <1>7, <1>8, <1>9 DEF Next

---------------------------------------------------------------------------
(***************************************************************************)
(* The types.                                                              *)
(***************************************************************************)

\* Every step keeps the types; that the slots counted are no more than the
\* lanes comes from SlotInv.
LEMMA TypeStep == TypeOK /\ SlotInv /\ SlotInv' /\ [Next]_vars => TypeOK'
<1> SUFFICES ASSUME TypeOK, SlotInv, SlotInv', [Next]_vars PROVE TypeOK'
  OBVIOUS
<1> DEFINE PcType == /\ pc \in [Lanes -> UNION {PcsOf(l) : l \in Lanes}]
                     /\ \A l \in Lanes : pc[l] \in PcsOf(l)
           Counters == /\ failures \in [Sources -> 0..Threshold]
                       /\ opens \in [Sources -> 0..OpensCap]
                       /\ cooldown \in [Sources -> 0..MaxCooldown]
                       /\ leaked \in [Sources -> Nat]
           Pages == queue \in Seq(Pooled) /\ browser \in BOOLEAN /\ launching \in BOOLEAN
<1>a. active' \in 0..Cardinality(Pooled)
  <2>1. Holders' \in SUBSET Pooled
    BY DEF Holders
  <2>2. Cardinality(Holders') \in 0..Cardinality(Pooled)
    BY <2>1, LaneAssumption, FS_Subset, FS_CardinalityType
  <2>3. active' = Cardinality(Holders')
    BY DEF SlotInv
  <2>4. QED
    BY <2>2, <2>3
<1>b. PcType /\ Counters /\ Pages
  BY DEF TypeOK
<1>c. \A l \in Pooled : PcsOf(l) = {"idle", "waiting", "granted"} \cup Holding
  BY LaneAssumption DEF PcsOf
<1>d. \A l \in Direct : PcsOf(l) = {"idle", "request"}
  BY DEF PcsOf
<1>e. ASSUME NEW l \in Lanes, NEW p \in PcsOf(l), Goto(l, p) PROVE PcType'
  BY <1>e, GotoType
<1>f. SUFFICES PcType' /\ Counters' /\ Pages'
  BY <1>a DEF TypeOK
<1> HIDE DEF PcType
<1>1. ASSUME NEW l \in Pooled, Begin(l) PROVE PcType' /\ Counters' /\ Pages'
  <2>1. l \in Lanes /\ (Goto(l, "browser") \/ Goto(l, "waiting"))
    BY <1>1 DEF Begin, Lanes
  <2>2. PcType'
    BY <2>1, <1>c, <1>e DEF Holding
  <2>3. queue' \in Seq(Pooled)
    <3>1. queue' = queue \/ queue' = Append(queue, l)
      BY <1>1 DEF Begin
    <3>2. queue \in Seq(Pooled)
      BY <1>b
    <3>3. Append(queue, l) \in Seq(Pooled)
      BY <3>2, AppendProperties
    <3>4. QED
      BY <3>1, <3>2, <3>3
  <2>4. UNCHANGED <<browser, launching, failures, opens, cooldown, leaked>>
    BY <1>1 DEF Begin, breaker
  <2>5. QED
    BY <1>b, <2>2, <2>3, <2>4
<1>2. ASSUME NEW l \in Pooled, PoolStep(l) PROVE PcType' /\ Counters' /\ Pages'
  <2>0. l \in Lanes
    BY DEF Lanes
  <2>1. CASE TakeGrantedSlot(l)
    <3>1. PcType'
      BY <2>0, <2>1, <1>c, <1>e DEF TakeGrantedSlot, Holding
    <3>2. QED
      BY <2>1, <1>b, <3>1 DEF TakeGrantedSlot, breaker
  <2>2. CASE GetBrowser(l)
    <3>1. Goto(l, "page") \/ Goto(l, "launching")
      BY <2>2 DEF GetBrowser
    <3>2. PcType'
      BY <2>0, <3>1, <1>c, <1>e DEF Holding
    <3>3. launching' \in BOOLEAN
      BY <2>2, Zenon DEF GetBrowser
    <3>4. QED
      BY <2>2, <1>b, <3>2, <3>3 DEF GetBrowser, breaker
  <2>3. CASE PageFailed(l)
    <3>1. PcType'
      BY <2>0, <2>3, <1>c, <1>e DEF PageFailed, Holding
    <3>2. QED
      BY <2>3, <1>b, <3>1 DEF PageFailed, pool, breaker
  <2>4. CASE Navigate(l)
    <3>1. PcType'
      BY <2>0, <2>4, <1>c, <1>e DEF Navigate, Holding
    <3>2. leaked' \in [Sources -> Nat]
      BY <2>0, <2>4, AskType DEF Navigate
    <3>3. QED
      BY <2>4, <1>b, <3>1, <3>2 DEF Navigate, pool, breaker
  <2>5. CASE ReleaseSlot(l)
    <3>1. CASE queue = <<>>
      <4>1. PcType'
        BY <2>0, <2>5, <3>1, <1>c, <1>e DEF ReleaseSlot
      <4>2. QED
        BY <2>5, <3>1, <1>b, <4>1 DEF ReleaseSlot, breaker
    <3>2. CASE queue # <<>>
      <4>1. /\ queue' = Tail(queue)
            /\ pc' = [pc EXCEPT ![l] = "idle", ![Head(queue)] = "granted"]
        BY <2>5, <3>2 DEF ReleaseSlot
      <4>2. Head(queue) \in Pooled /\ Tail(queue) \in Seq(Pooled)
        BY <3>2, HeadTailProperties DEF TypeOK
      <4>3. Head(queue) \in Lanes /\ "granted" \in PcsOf(Head(queue)) /\ "idle" \in PcsOf(l)
        BY <4>2, <1>c DEF Lanes
      <4>4. PcType'
        <5> DEFINE mid == [pc EXCEPT ![l] = "idle"]
        <5>1. /\ mid \in [Lanes -> UNION {PcsOf(k) : k \in Lanes}]
              /\ \A k \in Lanes : mid[k] \in PcsOf(k)
          BY <1>b, <2>0, <4>3 DEF PcType
        <5>2. pc' = [mid EXCEPT ![Head(queue)] = "granted"]
          BY <4>1
        <5> HIDE DEF mid
        <5>3. QED
          BY <4>3, <5>1, <5>2 DEF PcType
      <4>5. QED
        BY <2>5, <1>b, <4>1, <4>2, <4>4 DEF ReleaseSlot, breaker
    <3>3. QED
      BY <3>1, <3>2
  <2>6. QED
    BY <1>2, <2>1, <2>2, <2>3, <2>4, <2>5 DEF PoolStep
<1>3. ASSUME NEW l \in Direct, Fetch(l) PROVE PcType' /\ Counters' /\ Pages'
  <2>1. l \in Lanes
    BY DEF Lanes
  <2>2. PcType'
    BY <1>3, <2>1, <1>d, <1>e DEF Fetch
  <2>3. leaked' \in [Sources -> Nat]
    BY <1>3, <2>1, AskType DEF Fetch
  <2>4. QED
    BY <1>3, <1>b, <2>2, <2>3 DEF Fetch, pool, breaker
<1>4. ASSUME NEW l \in Lanes, Answer(l) PROVE PcType' /\ Counters' /\ Pages'
  <2>1. Answered(l)
    BY <1>4 DEF Answer, Served, Refused, Uncounted
  <2>2. PcType'
    BY <2>1, <1>c, <1>d, <1>e DEF Answered, Lanes, Holding
  <2>3. Pages'
    BY <2>1, <1>b DEF Answered, pool
  <2>4. Counters'
    <3>1. CASE Uncounted(l)
      BY <3>1, <1>b DEF Uncounted, breaker
    <3>2. CASE Served(l) \/ Refused(l)
      <4>1. SourceOf[l] \in Sources
        BY LaneAssumption DEF Lanes
      <4>2. RecordFailure(SourceOf[l]) \/ RecordSuccess(SourceOf[l])
        BY <3>2 DEF Served, Refused
      <4>3. QED
        BY <4>1, <4>2, BreakerType
    <3>3. QED
      BY <1>4, <3>1, <3>2 DEF Answer
  <2>5. QED
    BY <2>2, <2>3, <2>4
<1>5. ASSUME NEW p \in {"page", "release"}, LaunchEnds(p)
      PROVE PcType' /\ Counters' /\ queue' \in Seq(Pooled) /\ launching' \in BOOLEAN
  <2>1. pc' = [l \in Lanes |-> IF pc[l] = "launching" THEN p ELSE pc[l]]
    BY <1>5 DEF LaunchEnds
  <2>2. \A l \in Lanes : pc[l] \in PcsOf(l)
    BY <1>b DEF PcType
  <2>3. \A l \in Lanes : pc'[l] \in PcsOf(l)
    <3> SUFFICES ASSUME NEW l \in Lanes PROVE pc'[l] \in PcsOf(l)
      OBVIOUS
    <3>1. CASE pc[l] = "launching"
      <4>1. l \in Pooled
        BY <2>2, <3>1, <1>d DEF Lanes
      <4>2. QED
        BY <2>1, <3>1, <4>1, <1>c DEF Holding
    <3>2. CASE pc[l] # "launching"
      BY <2>1, <2>2, <3>2
    <3>3. QED
      BY <3>1, <3>2
  <2>4. PcType'
    BY <2>1, <2>3 DEF PcType
  <2>5. QED
    BY <1>5, <1>b, <2>4 DEF LaunchEnds, breaker
<1>6. CASE LaunchDone
  BY <1>5, <1>6 DEF LaunchDone
<1>7. CASE LaunchFailed
  BY <1>5, <1>7, <1>b DEF LaunchFailed
<1>8. CASE Disconnected
  BY <1>8, <1>b DEF Disconnected, breaker, PcType
<1>9. CASE Tick
  <2>1. UNCHANGED <<pc, pool, failures, opens>>
    BY <1>9 DEF Tick
  <2>2. cooldown' \in [Sources -> 0..MaxCooldown] /\ leaked' \in [Sources -> Nat]
    BY <1>9, <1>b, BreakerAssumption DEF Tick, isCoolingDown
  <2>3. QED
    BY <2>1, <2>2, <1>b DEF pool, PcType
<1>10. CASE UNCHANGED vars
  BY <1>10, <1>b DEF vars, pool, breaker, PcType
<1>11. QED
  BY <1>1, <1>2, <1>3, <1>4, <1>6, <1>7, <1>8, <1>9, <1>10 DEF Next

---------------------------------------------------------------------------
(***************************************************************************)
(* The leaks.                                                              *)
(***************************************************************************)

\* A source nobody new sets out for, and whose breaker is left alone.
LEMMA LeakKept ==
    ASSUME TypeOK, NEW s \in Sources, LeakAt(s),
           \A k \in Readers(s) : pc'[k] \in BeforeRequest => pc[k] \in BeforeRequest,
           leaked'[s] = leaked[s], cooldown'[s] = cooldown[s]
    PROVE  LeakAt(s)'
<1>1. OnTheWay(s)' \in SUBSET OnTheWay(s)
  BY DEF OnTheWay, Readers
<1>2. /\ IsFiniteSet(OnTheWay(s)) /\ Cardinality(OnTheWay(s)) \in Nat
      /\ Cardinality(Readers(s)) \in Nat
  BY CountType
<1>3. /\ Cardinality(OnTheWay(s)') \in Nat
      /\ Cardinality(OnTheWay(s)') <= Cardinality(OnTheWay(s))
  BY <1>1, <1>2, FS_Subset, FS_CardinalityType
<1>4. leaked[s] \in Nat
  BY DEF TypeOK
<1>5. Readers(s)' = Readers(s)
  BY DEF Readers
<1>6. isCoolingDown(s)' = isCoolingDown(s)
  BY DEF isCoolingDown
<1>7. isCoolingDown(s) =>
          leaked'[s] + Cardinality(OnTheWay(s)') <= Cardinality(Readers(s))
  BY <1>2, <1>3, <1>4 DEF LeakAt
<1>8. QED
  BY <1>5, <1>6, <1>7 DEF LeakAt

\* A source that nothing leaked to yet: those on their way are its readers.
LEMMA LeakFresh ==
    ASSUME NEW s \in Sources, leaked'[s] = 0
    PROVE  LeakAt(s)'
<1>1. OnTheWay(s)' \in SUBSET Readers(s)
  BY DEF OnTheWay, Readers
<1>2. IsFiniteSet(Readers(s)) /\ Cardinality(Readers(s)) \in Nat
  BY CountType
<1>3. /\ Cardinality(OnTheWay(s)') \in Nat
      /\ Cardinality(OnTheWay(s)') <= Cardinality(Readers(s))
  BY <1>1, <1>2, FS_Subset, FS_CardinalityType
<1>4. Readers(s)' = Readers(s)
  BY DEF Readers
<1>5. QED
  BY <1>2, <1>3, <1>4 DEF LeakAt

\* A lane that moves on, or past its request, sets nobody out.
LEMMA MoveOn ==
    ASSUME TypeOK, NEW s \in Sources, LeakAt(s), NEW l \in Lanes, NEW p, Goto(l, p),
           pc[l] \in BeforeRequest \/ p \notin BeforeRequest \/ l \notin Readers(s),
           leaked'[s] = leaked[s], cooldown'[s] = cooldown[s]
    PROVE  LeakAt(s)'
<1>1. \A k \in Readers(s) : pc'[k] \in BeforeRequest => pc[k] \in BeforeRequest
  BY DEF Goto, TypeOK, Readers, Lanes
<1>2. QED
  BY <1>1, LeakKept

\* A reader that navigates in the cooldown is no longer on its way.
LEMMA NavigateLeak ==
    ASSUME TypeOK, NEW s \in Sources, LeakAt(s), NEW l \in Pooled, Navigate(l)
    PROVE  LeakAt(s)'
<1>1. pc[l] = "page" /\ pc' = [pc EXCEPT ![l] = "request"] /\ Ask(l) /\ cooldown' = cooldown
  BY DEF Navigate, Goto, breaker
<1>2. l \in Lanes /\ SourceOf[l] \in Sources
  BY LaneAssumption DEF Lanes
<1>3. CASE leaked'[s] = leaked[s]
  BY <1>1, <1>2, <1>3, MoveOn DEF Goto, BeforeRequest
<1>4. CASE leaked'[s] # leaked[s]
  <2>1. /\ l \in Guarded /\ SourceOf[l] = s /\ isCoolingDown(s)
        /\ leaked'[s] = leaked[s] + 1
    BY <1>1, <1>2, <1>4 DEF Ask, TypeOK
  <2>2. l \in OnTheWay(s)
    BY <1>1, <2>1 DEF OnTheWay, Readers, BeforeRequest
  <2>3. OnTheWay(s)' = OnTheWay(s) \ {l}
    BY <1>1, <1>2 DEF OnTheWay, Readers, BeforeRequest, TypeOK, Lanes
  <2>4. /\ IsFiniteSet(OnTheWay(s)) /\ Cardinality(OnTheWay(s)) \in Nat
        /\ Cardinality(Readers(s)) \in Nat
    BY CountType
  <2>5. Cardinality(OnTheWay(s)') = Cardinality(OnTheWay(s)) - 1
    BY <2>2, <2>3, <2>4, FS_RemoveElement
  <2>6. leaked[s] \in Nat
    BY DEF TypeOK
  <2>7. leaked'[s] + Cardinality(OnTheWay(s)') <= Cardinality(Readers(s))
    BY <2>1, <2>4, <2>5, <2>6 DEF LeakAt
  <2>8. Readers(s)' = Readers(s) /\ isCoolingDown(s)'
    BY <1>1, <2>1 DEF Readers, isCoolingDown
  <2>9. QED
    BY <2>7, <2>8 DEF LeakAt
<1>5. QED
  BY <1>3, <1>4

\* Every answer: the source it names starts afresh, opens, or is left alone.
LEMMA AnswerLeak ==
    ASSUME TypeOK, NEW s \in Sources, LeakAt(s), NEW l \in Lanes, Answer(l)
    PROVE  LeakAt(s)'
<1>1. pc[l] = "request" /\ (Goto(l, "idle") \/ Goto(l, "release"))
  BY DEF Answer, Served, Refused, Uncounted, Answered
<1>2. CASE leaked'[s] = leaked[s] /\ cooldown'[s] = cooldown[s]
  BY <1>1, <1>2, MoveOn DEF BeforeRequest
<1>3. CASE ~ (leaked'[s] = leaked[s] /\ cooldown'[s] = cooldown[s])
  <2>1. SourceOf[l] \in Sources
    BY LaneAssumption DEF Lanes
  <2>2. ~ Uncounted(l)
    BY <1>3 DEF Uncounted, breaker
  <2>3. CASE Served(l)
    <3>1. SourceOf[l] = s
      BY <1>3, <2>1, <2>3 DEF Served, RecordSuccess, TypeOK
    <3>2. leaked'[s] = 0
      BY <2>3, <3>1 DEF Served, RecordSuccess, TypeOK
    <3>3. QED
      BY <3>2, LeakFresh
  <2>4. CASE Refused(l)
    <3>1. leaked' = leaked /\ RecordFailure(SourceOf[l])
      BY <2>4 DEF Refused, RecordFailure
    <3>2. cooldown'[s] # cooldown[s]
      BY <1>3, <3>1
    <3>3. SourceOf[l] = s /\ ~ isCoolingDown(s)
      BY <2>1, <3>1, <3>2 DEF RecordFailure, TypeOK
    <3>4. leaked'[s] = 0
      BY <3>1, <3>3 DEF LeakAt
    <3>5. QED
      BY <3>4, LeakFresh
  <2>5. QED
    BY <2>2, <2>3, <2>4 DEF Answer
<1>4. QED
  BY <1>2, <1>3

\* Time ends a cooldown, and its count with it.
LEMMA TickLeak ==
    ASSUME TypeOK, NEW s \in Sources, LeakAt(s), Tick
    PROVE  LeakAt(s)'
<1>1. /\ pc' = pc /\ cooldown[s] \in Nat
      /\ cooldown'[s] = IF cooldown[s] > 0 THEN cooldown[s] - 1 ELSE 0
      /\ leaked'[s] = IF cooldown[s] > 1 THEN leaked[s] ELSE 0
  BY DEF Tick, isCoolingDown, TypeOK
<1>2. CASE cooldown[s] > 1
  <2>1. leaked'[s] = leaked[s] /\ isCoolingDown(s) /\ isCoolingDown(s)'
    BY <1>1, <1>2 DEF isCoolingDown
  <2>2. OnTheWay(s)' = OnTheWay(s) /\ Readers(s)' = Readers(s)
    BY <1>1 DEF OnTheWay, Readers
  <2>3. QED
    BY <2>1, <2>2 DEF LeakAt
<1>3. CASE ~ (cooldown[s] > 1)
  BY <1>1, <1>3, LeakFresh
<1>4. QED
  BY <1>2, <1>3

LEMMA LeakStep == TypeOK /\ SlotInv /\ LeakInv /\ [Next]_vars => LeakInv'
<1> SUFFICES ASSUME TypeOK, SlotInv, [Next]_vars, NEW s \in Sources, LeakAt(s)
             PROVE  LeakAt(s)'
  BY DEF LeakInv
<1>1. ASSUME NEW l \in Pooled, Begin(l) PROVE LeakAt(s)'
  <2>1. /\ AssertAvailable(l) /\ leaked' = leaked /\ cooldown' = cooldown
        /\ (Goto(l, "browser") \/ Goto(l, "waiting"))
    BY <1>1 DEF Begin, breaker
  <2>2. l \in Lanes
    BY DEF Lanes
  <2>3. CASE l \in Readers(s)
    <3>1. ~ isCoolingDown(s)
      BY <2>1, <2>3 DEF AssertAvailable, Readers
    <3>2. leaked'[s] = 0
      BY <2>1, <3>1 DEF LeakAt
    <3>3. QED
      BY <3>2, LeakFresh
  <2>4. CASE l \notin Readers(s)
    BY <2>1, <2>2, <2>4, MoveOn
  <2>5. QED
    BY <2>3, <2>4
<1>2. ASSUME NEW l \in Pooled, PoolStep(l) PROVE LeakAt(s)'
  <2>1. l \in Lanes
    BY DEF Lanes
  <2>2. CASE Navigate(l)
    BY <2>2, NavigateLeak
  <2>3. CASE TakeGrantedSlot(l) \/ GetBrowser(l) \/ PageFailed(l)
    <3>1. /\ pc[l] \in BeforeRequest /\ leaked' = leaked /\ cooldown' = cooldown
          /\ \E p \in Holding : Goto(l, p)
      BY <2>3 DEF TakeGrantedSlot, GetBrowser, PageFailed, breaker, BeforeRequest, Holding
    <3>2. QED
      BY <2>1, <3>1, MoveOn
  <2>4. CASE ReleaseSlot(l)
    <3>1. pc[l] = "release" /\ leaked' = leaked /\ cooldown' = cooldown
      BY <2>4 DEF ReleaseSlot, breaker
    <3>2. CASE queue = <<>>
      <4>1. Goto(l, "idle")
        BY <2>4, <3>2 DEF ReleaseSlot
      <4>2. QED
        BY <2>1, <3>1, <4>1, MoveOn DEF BeforeRequest
    <3>3. CASE queue # <<>>
      <4>1. pc' = [pc EXCEPT ![l] = "idle", ![Head(queue)] = "granted"]
        BY <2>4, <3>3 DEF ReleaseSlot
      <4>2. Head(queue) = queue[1] /\ 1 \in 1..Len(queue)
        BY <3>3 DEF TypeOK
      <4>3. pc[Head(queue)] = "waiting"
        BY <4>2 DEF SlotInv
      <4>4. \A k \in Readers(s) : pc'[k] \in BeforeRequest => pc[k] \in BeforeRequest
        BY <2>1, <4>1, <4>3 DEF Readers, BeforeRequest, TypeOK, Lanes
      <4>5. QED
        BY <3>1, <4>4, LeakKept
    <3>4. QED
      BY <3>2, <3>3
  <2>5. QED
    BY <1>2, <2>2, <2>3, <2>4 DEF PoolStep
<1>3. ASSUME NEW l \in Direct, Fetch(l) PROVE LeakAt(s)'
  <2>1. l \in Guarded /\ l \in Lanes /\ l \notin Readers(s)
    BY LaneAssumption DEF Lanes, Readers
  <2>2. Goto(l, "request") /\ leaked' = leaked /\ cooldown' = cooldown
    BY <1>3, <2>1 DEF Fetch, AssertAvailable, Ask, breaker
  <2>3. QED
    BY <2>1, <2>2, MoveOn
<1>4. ASSUME NEW l \in Lanes, Answer(l) PROVE LeakAt(s)'
  BY <1>4, AnswerLeak
<1>5. ASSUME NEW p \in {"page", "release"}, LaunchEnds(p) PROVE LeakAt(s)'
  <2>1. /\ pc' = [l \in Lanes |-> IF pc[l] = "launching" THEN p ELSE pc[l]]
        /\ leaked' = leaked /\ cooldown' = cooldown
    BY <1>5 DEF LaunchEnds, breaker
  <2>2. \A k \in Readers(s) : pc'[k] \in BeforeRequest => pc[k] \in BeforeRequest
    BY <2>1 DEF Readers, BeforeRequest, Lanes
  <2>3. QED
    BY <2>1, <2>2, LeakKept
<1>6. CASE LaunchDone \/ LaunchFailed
  BY <1>5, <1>6 DEF LaunchDone, LaunchFailed
<1>7. CASE Disconnected \/ UNCHANGED vars
  <2>1. pc' = pc /\ leaked' = leaked /\ cooldown' = cooldown
    BY <1>7 DEF Disconnected, vars, breaker
  <2>2. QED
    BY <2>1, LeakKept
<1>8. CASE Tick
  BY <1>8, TickLeak
<1>9. QED
  BY <1>1, <1>2, <1>3, <1>4, <1>6, <1>7, <1>8 DEF Next

---------------------------------------------------------------------------
(***************************************************************************)
(* The theorems.                                                           *)
(***************************************************************************)

\* The invariant from which the rest follows: types, slots and leaks, over
\* every interleaving of the lanes, the launches, the answers and the clock.
THEOREM Invariance == Spec => []IInv
<1>1. Init => IInv
  BY InitIInv
<1>2. IInv /\ [Next]_vars => IInv'
  BY SlotStep, TypeStep, LeakStep DEF IInv
<1>3. QED
  BY <1>1, <1>2, PTL DEF Spec

\* The variables of the pool and the breaker keep their types; in particular
\* the count of slots taken stays between zero and the number of lanes.
THEOREM TypeCorrect == Spec => []TypeOK
<1>1. IInv => TypeOK
  BY DEF IInv
<1>2. QED
  BY <1>1, Invariance, PTL

\* acquireSlot and releaseSlot: a lane waits only while the slots held, with
\* those handed to lanes that have not run yet, fill the pool.
THEOREM SlotsAreShared == Spec => []NobodyWaitsForAnIdleSlot
<1>1. IInv => NobodyWaitsForAnIdleSlot
  BY DEF IInv, SlotInv
<1>2. QED
  BY <1>1, Invariance, PTL

\* assertAvailable before the wait for a page: in one cooldown a source gets
\* no more requests than it has readers that wait for pages.
THEOREM OneLeakPerLane == Spec => []LeakIsOnePerLane
<1>1. IInv => LeakIsOnePerLane
  <2> SUFFICES ASSUME IInv, NEW s \in Sources
               PROVE  leaked[s] <= Cardinality(Readers(s))
    BY DEF LeakIsOnePerLane, Readers
  <2>1. Cardinality(OnTheWay(s)) \in Nat /\ Cardinality(Readers(s)) \in Nat
    BY CountType
  <2>2. leaked[s] \in Nat /\ LeakAt(s)
    BY DEF IInv, TypeOK, LeakInv
  <2>3. QED
    BY <2>1, <2>2 DEF LeakAt
<1>2. QED
  BY <1>1, Invariance, PTL

\* recordFailure of requests that were in flight when the breaker opened:
\* none lengthens the cooldown or counts as another trip.
THEOREM CooldownsStand == Spec => CooldownIsNotExtended
<1> DEFINE Stands == \A s \in Sources : isCoolingDown(s) =>
                        cooldown'[s] <= cooldown[s] /\ opens'[s] = opens[s]
<1>1. TypeOK /\ [Next]_vars => [Stands]_vars
  <2> SUFFICES ASSUME TypeOK, Next, NEW s \in Sources, isCoolingDown(s)
               PROVE  cooldown'[s] <= cooldown[s] /\ opens'[s] = opens[s]
    OBVIOUS
  <2>1. cooldown[s] \in Nat
    BY DEF TypeOK
  <2>2. CASE cooldown' = cooldown /\ opens' = opens
    BY <2>1, <2>2
  <2>3. ASSUME NEW l \in Lanes, Answer(l)
        PROVE  cooldown'[s] <= cooldown[s] /\ opens'[s] = opens[s]
    <3>1. SourceOf[l] \in Sources
      BY LaneAssumption DEF Lanes
    <3>2. CASE Served(l)
      BY <2>1, <3>1, <3>2 DEF Served, RecordSuccess, TypeOK
    <3>3. CASE Refused(l)
      BY <2>1, <3>1, <3>3 DEF Refused, RecordFailure, TypeOK
    <3>4. CASE Uncounted(l)
      BY <2>1, <3>4 DEF Uncounted, breaker
    <3>5. QED
      BY <2>3, <3>2, <3>3, <3>4 DEF Answer
  <2>4. CASE Tick
    BY <2>1, <2>4 DEF Tick, TypeOK, isCoolingDown
  <2>5. CASE \E l \in Pooled : Begin(l) \/ PoolStep(l)
    BY <2>2, <2>5 DEF Begin, PoolStep, TakeGrantedSlot, GetBrowser, PageFailed,
                      Navigate, ReleaseSlot, breaker
  <2>6. CASE LaunchDone \/ LaunchFailed \/ Disconnected \/ \E l \in Direct : Fetch(l)
    BY <2>2, <2>6 DEF LaunchDone, LaunchFailed, LaunchEnds, Disconnected, Fetch, breaker
  <2>7. QED
    BY <2>3, <2>4, <2>5, <2>6 DEF Next
<1>2. QED
  BY <1>1, TypeCorrect, PTL DEF Spec, CooldownIsNotExtended

=============================================================================
