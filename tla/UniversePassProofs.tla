------------------------- MODULE UniversePassProofs -------------------------
(***************************************************************************)
(* Proofs about UniversePass, for any board, pacing, cron, session hours   *)
(* and number of faults: the types, that a session is walked for the close *)
(* at most once, and that two walks share the queue only where the lane is *)
(* later than the slack of the lock allows for.                            *)
(***************************************************************************)
EXTENDS UniversePass, FiniteSetTheorems, TLAPS

\* A closing pass for session d that has taken the claim.
ClosingInHand(d) ==
    lane \in {"fetch", "lock", "enqueue"} /\ kind = "close" /\ Day(asOf) = d

\* The claim is spent once: by the pass in hand or by the walk on the queue,
\* never by both.
ClaimInv ==
    \A d \in Days :
        /\ closings[d] <= 1
        /\ closings[d] = 1 => d \in claimed /\ ~ ClosingInHand(d)
        /\ ClosingInHand(d) => d \in claimed

IInv == PassTypeOK /\ ClaimInv

---------------------------------------------------------------------------

\* The next slot of the cron is an instant of the clock.
LEMMA SlotType == ASSUME NEW t \in Nat PROVE NextSlot(t) \in Nat
<1>1. t \div CronEvery \in Nat
  BY ClockAssumption, SMT
<1>2. ((t \div CronEvery) + 1) * CronEvery \in Nat
  <2> DEFINE q == (t \div CronEvery) + 1
  <2>1. q \in Nat
    BY <1>1
  <2> HIDE DEF q
  <2>2. q * CronEvery \in Nat
    BY <2>1, ClockAssumption, SMT
  <2>3. QED
    BY <2>2 DEF q
<1>3. QED
  BY <1>2 DEF NextSlot

\* Counting symbols of the board gives a number: positions, and the size of
\* what a fetch found.
LEMMA CountType ==
    ASSUME NEW S \in SUBSET Board
    PROVE  /\ Cardinality(S) \in Nat
           /\ \A s : Position(s, S) \in Nat
<1>1. \A T \in SUBSET Board : Cardinality(T) \in Nat
  <2>1. IsFiniteSet(Board)
    <3>1. BoardSize \in Int /\ 1 \in Int
      BY SizeAssumption
    <3>2. QED
      BY <3>1, FS_Interval DEF Board
  <2>2. \A T \in SUBSET Board : IsFiniteSet(T)
    BY <2>1, FS_Subset
  <2>3. QED
    BY <2>2, FS_CardinalityType
<1>2. \A s : {r \in S : r < s} \in SUBSET Board
  OBVIOUS
<1>3. QED
  BY <1>1, <1>2 DEF Position

\* Every job of a walk is a well-formed symbol job.
LEMMA WalkJobsType ==
    ASSUME PassTypeOK PROVE WalkJobs(found) \subseteq SymbolJobs
<1> SUFFICES ASSUME NEW s \in found
             PROVE  SymbolJob(lockedAt, s, now + Position(s, found) * Pacing, 1, 0) \in SymbolJobs
  BY DEF WalkJobs
<1>1. Position(s, found) \in Nat
  BY CountType DEF PassTypeOK
<1>2. Position(s, found) * Pacing \in Nat
  <2> DEFINE p == Position(s, found)
  <2>1. p \in Nat
    BY <1>1
  <2> HIDE DEF p
  <2>2. p * Pacing \in Nat
    BY <2>1, DelayAssumption, SMT
  <2>3. QED
    BY <2>2 DEF p
<1>3. now + Position(s, found) * Pacing \in Nat
  BY <1>2 DEF PassTypeOK
<1>4. s \in Board /\ lockedAt \in Nat
  BY DEF PassTypeOK
<1>5. QED
  BY <1>3, <1>4 DEF SymbolJob, SymbolJobs

\* How long the lock is held is a number of ticks.
LEMMA TtlType ==
    ASSUME NEW S \in SUBSET Board PROVE passLockTtl(Cardinality(S)) \in Nat
<1> DEFINE n == Cardinality(S)
<1>1. n \in Nat
  BY CountType
<1> HIDE DEF n
<1>2. n * Pacing \in Nat
  BY <1>1, DelayAssumption, SMT
<1>3. n * Pacing + Slack \in Nat
  BY <1>2, DelayAssumption, SMT
<1>4. QED
  BY <1>3 DEF passLockTtl, n

---------------------------------------------------------------------------

LEMMA InitIInv == InitPass => IInv
<1> SUFFICES ASSUME InitPass PROVE IInv
  OBVIOUS
<1> USE DEF InitPass
<1>1. NextSlot(0) \in Nat
  BY SlotType
<1>2. PassTypeOK
  BY <1>1, SizeAssumption, ClockAssumption
     DEF PassTypeOK, PassJob, PassJobs, Lanes, Kinds, Board
<1>3. ClaimInv
  BY DEF ClaimInv, ClosingInHand
<1>4. QED
  BY <1>2, <1>3 DEF IInv

\* Every step keeps the types: jobs stay well formed, and the lane holds a job
\* of the sort it works on.
LEMMA TypeStep == PassTypeOK /\ [NextPass]_passVars => PassTypeOK'
<1> SUFFICES ASSUME PassTypeOK, [NextPass]_passVars PROVE PassTypeOK'
  OBVIOUS
<1> USE SizeAssumption, ClockAssumption DEF PassTypeOK, Lanes, Kinds
<1>1. ASSUME NEW j \in passes, StartPass(j) PROVE PassTypeOK'
  <2>1. PassJob(NextSlot(now), 0) \in PassJobs
    BY SlotType DEF PassJob, PassJobs
  <2>2. QED
    BY <1>1, <2>1 DEF StartPass, resolvePassKind, Settle, EmptyHand, LaneTo, keys
<1>2. ASSUME ClaimClosingPass PROVE PassTypeOK'
  <2>1. Day(asOf) \in Days
    BY DEF Days
  <2>2. QED
    BY <1>2, <2>1 DEF ClaimClosingPass, Settle, GoOn, EmptyHand, LaneTo, queue, hand
<1>3. ASSUME FetchUniverse PROVE PassTypeOK'
  BY <1>3 DEF FetchUniverse, LaneTo, queue, keys
<1>4. ASSUME FetchFailed PROVE PassTypeOK'
  BY <1>4 DEF FetchFailed, Settle, EmptyHand, LaneTo, queue, keys
<1>5. ASSUME ClaimPassLock PROVE PassTypeOK'
  <2>1. now + passLockTtl(Cardinality(found)) \in Nat
    BY TtlType
  <2>2. QED
    BY <1>5, <2>1 DEF ClaimPassLock, Settle, GoOn, EmptyHand, LaneTo, queue, hand
<1>6. ASSUME EnqueueUniverseSymbols PROVE PassTypeOK'
  <2>1. closings' \in [Days -> Nat]
    <3>1. Day(asOf) \in Days
      BY DEF Days
    <3>2. closings[Day(asOf)] + 1 \in Nat
      BY <3>1
    <3>3. QED
      BY <1>6, <3>1, <3>2 DEF EnqueueUniverseSymbols, CountClosing
  <2>2. QED
    BY <1>6, <2>1, WalkJobsType
       DEF EnqueueUniverseSymbols, Settle, EmptyHand, LaneTo, keys
<1>7. ASSUME NEW j \in jobs, StartSymbol(j) PROVE PassTypeOK'
  BY <1>7 DEF StartSymbol, LaneTo, hand, keys
<1>8. ASSUME Scraped PROVE PassTypeOK'
  BY <1>8 DEF Scraped, Settle, EmptyHand, LaneTo, queue, keys
<1>9. ASSUME ScrapeFailed PROVE PassTypeOK'
  <2>1. [laneJob EXCEPT !.attempt = 2, !.due = now + Backoff] \in SymbolJobs
    <3>1. laneJob \in SymbolJobs
      BY <1>9 DEF ScrapeFailed
    <3>2. now + Backoff \in Nat
      BY DelayAssumption
    <3> DEFINE due == now + Backoff
    <3> HIDE DEF due
    <3>3. [laneJob EXCEPT !.attempt = 2, !.due = due] \in SymbolJobs
      BY <3>1, <3>2 DEF SymbolJobs, due
    <3>4. QED
      BY <3>3 DEF due
  <2>2. QED
    BY <1>9, <2>1 DEF ScrapeFailed, Settle, EmptyHand, LaneTo, keys
<1>10. ASSUME Crash PROVE PassTypeOK'
  <2>1. laneJob \in PassJobs => Stalled(laneJob) \subseteq PassJobs
    BY DEF Stalled, PassJobs
  <2>2. laneJob \in SymbolJobs => Stalled(laneJob) \subseteq SymbolJobs
    BY DEF Stalled, SymbolJobs
  <2>3. laneJob = NoJob \/ laneJob \in PassJobs \/ laneJob \in SymbolJobs
    OBVIOUS
  <2>4. /\ laneJob.type = "pass" => Stalled(laneJob) \subseteq PassJobs
        /\ laneJob.type = "symbol" => Stalled(laneJob) \subseteq SymbolJobs
    BY <2>1, <2>2, <2>3 DEF NoJob, PassJobs, SymbolJobs
  <2>5. passes' \subseteq PassJobs
    BY <1>10, <2>4 DEF Crash
  <2>6. jobs' \subseteq SymbolJobs /\ closings' \in [Days -> Nat]
    BY <1>10, <2>4, WalkJobsType DEF Crash, CountClosing
  <2>7. QED
    BY <1>10, <2>5, <2>6 DEF Crash, EmptyHand, LaneTo, keys
<1>11. ASSUME Restart PROVE PassTypeOK'
  <2>1. PassJob(NextSlot(now), 0) \in PassJobs
    BY SlotType DEF PassJob, PassJobs
  <2>2. QED
    BY <1>11, <2>1 DEF Restart, LaneTo, hand, keys
<1>12. ASSUME Tick PROVE PassTypeOK'
  BY <1>12, ClockAssumption DEF Tick, queue, hand, keys
<1>13. CASE UNCHANGED passVars
  BY <1>13 DEF passVars, queue, hand, keys
<1>14. QED
  BY <1>1, <1>2, <1>3, <1>4, <1>5, <1>6, <1>7, <1>8, <1>9, <1>10, <1>11, <1>12,
     <1>13 DEF NextPass

---------------------------------------------------------------------------

\* Every step keeps the claim spent once.
LEMMA ClaimStep == PassTypeOK /\ ClaimInv /\ [NextPass]_passVars => ClaimInv'
<1> SUFFICES ASSUME PassTypeOK, ClaimInv, [NextPass]_passVars PROVE ClaimInv'
  OBVIOUS
<1> USE DEF ClaimInv, ClosingInHand
<1>1. ASSUME NEW j \in passes, StartPass(j) PROVE ClaimInv'
  BY <1>1 DEF StartPass, resolvePassKind, Settle, EmptyHand, LaneTo, keys
<1>2. ASSUME ClaimClosingPass PROVE ClaimInv'
  BY <1>2 DEF ClaimClosingPass, Settle, GoOn, EmptyHand, LaneTo, hand, PassTypeOK
<1>3. ASSUME FetchUniverse PROVE ClaimInv'
  BY <1>3 DEF FetchUniverse, LaneTo, keys
<1>4. ASSUME FetchFailed PROVE ClaimInv'
  BY <1>4 DEF FetchFailed, Settle, EmptyHand, LaneTo, keys
<1>5. ASSUME ClaimPassLock PROVE ClaimInv'
  BY <1>5 DEF ClaimPassLock, Settle, GoOn, EmptyHand, LaneTo, hand
<1>6. ASSUME EnqueueUniverseSymbols PROVE ClaimInv'
  BY <1>6 DEF EnqueueUniverseSymbols, CountClosing, Settle, EmptyHand, LaneTo, keys, PassTypeOK
<1>7. ASSUME NEW j \in jobs, StartSymbol(j) PROVE ClaimInv'
  BY <1>7 DEF StartSymbol, LaneTo, hand, keys
<1>8. ASSUME Scraped PROVE ClaimInv'
  BY <1>8 DEF Scraped, Settle, EmptyHand, LaneTo, keys
<1>9. ASSUME ScrapeFailed PROVE ClaimInv'
  BY <1>9 DEF ScrapeFailed, Settle, EmptyHand, LaneTo, keys
<1>10. ASSUME Crash PROVE ClaimInv'
  <2>1. lane' = "down" /\ claimed' = claimed
    BY <1>10 DEF Crash, LaneTo, keys
  <2>2. CASE closings' = closings
    BY <2>1, <2>2
  <2>3. CASE lane = "enqueue" /\ CountClosing
    BY <2>1, <2>3 DEF CountClosing, PassTypeOK
  <2>4. QED
    BY <1>10, <2>2, <2>3 DEF Crash
<1>11. ASSUME Restart PROVE ClaimInv'
  BY <1>11 DEF Restart, LaneTo, hand, keys
<1>12. ASSUME Tick PROVE ClaimInv'
  BY <1>12 DEF Tick, hand, keys
<1>13. CASE UNCHANGED passVars
  BY <1>13 DEF passVars, hand, keys
<1>14. QED
  BY <1>1, <1>2, <1>3, <1>4, <1>5, <1>6, <1>7, <1>8, <1>9, <1>10, <1>11, <1>12,
     <1>13 DEF NextPass

\* The inductive invariant holds throughout.
THEOREM Invariance == PassSpec => []IInv
<1>1. InitPass => IInv
  BY InitIInv
<1>2. IInv /\ [NextPass]_passVars => IInv'
  BY TypeStep, ClaimStep DEF IInv
<1>3. QED
  BY <1>1, <1>2, PTL DEF PassSpec

\* Every job in the queue stays well formed, whatever dies holding it.
THEOREM TypeCorrect == PassSpec => []PassTypeOK
<1>1. IInv => PassTypeOK
  BY DEF IInv
<1>2. QED
  BY <1>1, Invariance, PTL

\* claimClosingPass: however many ticks follow the close and however often the
\* worker dies, a session's closing walk is put on the queue at most once.
THEOREM OneClosingWalk == PassSpec => []ClosingWalkOnce
<1>1. IInv => ClosingWalkOnce
  BY DEF IInv, ClaimInv, ClosingWalkOnce
<1>2. QED
  BY <1>1, Invariance, PTL

---------------------------------------------------------------------------
(***************************************************************************)
(* What the lock keeps apart.  First attempts are due by the schedule of   *)
(* the walk they are of, and a walk is started only once the lock of the   *)
(* one before has expired: whatever a scrape takes, and whatever dies.     *)
(***************************************************************************)

\* The symbol jobs that are not done.
Live == {j \in jobs \cup {laneJob} : j.type = "symbol"}

\* A first attempt of the walk that was started last is due within its lock; of an older
\* walk, before the last one was started.
ScheduleInv ==
    /\ lockedAt <= now
    /\ lane = "enqueue" =>
          lockedAt = now /\ lockUntil = now + passLockTtl(Cardinality(found))
    /\ \A j \in Live : j.walk <= lockedAt
    /\ \A j \in Live : j.attempt = 1 =>
          j.due + Pacing + Slack <= IF j.walk = lockedAt THEN lockUntil ELSE lockedAt
    /\ OverlapIsLateness

---------------------------------------------------------------------------

LEMMA LiveAre ==
    ASSUME PassTypeOK
    PROVE  /\ Live = jobs \cup (IF lane = "scrape" THEN {laneJob} ELSE {})
           /\ Live \subseteq SymbolJobs
<1>1. \A j \in jobs : j.type = "symbol"
  BY DEF PassTypeOK, SymbolJobs
<1>2. lane # "scrape" => laneJob.type # "symbol"
  BY DEF PassTypeOK, Lanes, NoJob, PassJobs
<1>3. lane = "scrape" => laneJob \in SymbolJobs /\ laneJob.type = "symbol"
  BY DEF PassTypeOK, SymbolJobs
<1> QED
  BY <1>1, <1>2, <1>3 DEF Live, PassTypeOK

\* The same of the state after a step.
LiveIs ==
    /\ Live = jobs \cup (IF lane = "scrape" THEN {laneJob} ELSE {})
    /\ Live \subseteq SymbolJobs

LEMMA LiveNow == (PassTypeOK => LiveIs) /\ (PassTypeOK' => LiveIs')
<1>1. PassTypeOK => LiveIs
  BY LiveAre DEF LiveIs
<1> QED
  BY <1>1, PTL

\* The last symbol of a walk is due a pacing before the lock's share of the walk is over.
LEMMA WalkFitsItsLock ==
    ASSUME NEW S \in SUBSET Board, NEW s \in S, NEW t \in Nat
    PROVE  t + Position(s, S) * Pacing + Pacing + Slack <= t + passLockTtl(Cardinality(S))
<1> DEFINE A == {r \in S : r < s}
<1>1. \A r \in Board : r \in Int
  BY SizeAssumption DEF Board
<1>2. IsFiniteSet(Board)
  BY SizeAssumption, FS_Interval DEF Board
<1>3. IsFiniteSet(S) /\ A \subseteq S \ {s}
  BY <1>1, <1>2, FS_Subset
<1>4. IsFiniteSet(S \ {s}) /\ Cardinality(S \ {s}) = Cardinality(S) - 1
  BY <1>3, FS_RemoveElement
<1>5. IsFiniteSet(A) /\ Cardinality(A) <= Cardinality(S \ {s})
  BY <1>3, <1>4, FS_Subset
<1>6. PICK p \in Nat, n \in Nat : p = Position(s, S) /\ n = Cardinality(S) /\ p + 1 <= n
  <2>1. Cardinality(A) \in Nat /\ Cardinality(S) \in Nat
    BY <1>3, <1>5, FS_CardinalityType
  <2>2. Position(s, S) = Cardinality(A)
    BY DEF Position
  <2>3. Cardinality(A) + 1 <= Cardinality(S)
    BY <1>4, <1>5, <2>1
  <2> HIDE DEF A
  <2> QED
    BY <2>1, <2>2, <2>3
<1>7. p * Pacing + Pacing <= n * Pacing /\ p * Pacing \in Nat /\ n * Pacing \in Nat
  <2>1. PICK k \in Nat : n = p + 1 + k
    <3>1. n - (p + 1) \in Nat /\ n = p + 1 + (n - (p + 1))
      BY <1>6
    <3> QED
      BY <3>1
  <2>2. /\ p * Pacing \in Nat /\ k * Pacing \in Nat
        /\ (p + 1 + k) * Pacing = p * Pacing + Pacing + k * Pacing
    BY DelayAssumption, SMT
  <2> QED
    BY <2>1, <2>2, DelayAssumption
<1> QED
  BY <1>6, <1>7, DelayAssumption DEF passLockTtl

---------------------------------------------------------------------------

\* A live job after the step was one before, of the same walk, and has lost at most its
\* first attempt.
Stays(j) == \E i \in Live :
    i.walk = j.walk /\ (j.attempt = 1 => i.attempt = 1 /\ i.due = j.due)

\* Steps that start no walk.
LEMMA Carry ==
    ASSUME PassTypeOK, PassTypeOK', ScheduleInv, \A j \in Live' : Stays(j),
           UNCHANGED <<lockUntil, lockedAt>>, now <= now', lane' # "enqueue"
    PROVE  ScheduleInv'
<1>1. lockedAt' <= now' /\ lockedAt' = lockedAt /\ lockUntil' = lockUntil
  <2>1. now \in Nat /\ now' \in Nat /\ lockedAt \in Nat
    BY DEF PassTypeOK
  <2> QED
    BY <2>1 DEF ScheduleInv
<1>2. \A j \in Live' : j.walk <= lockedAt'
  BY DEF ScheduleInv, Stays
<1>3. \A j \in Live' : j.attempt = 1 =>
        j.due + Pacing + Slack <= IF j.walk = lockedAt' THEN lockUntil' ELSE lockedAt'
  BY DEF ScheduleInv, Stays
<1>4. OverlapIsLateness'
  <2> SUFFICES ASSUME NEW i \in Live', NEW k \in Live', i.walk < k.walk, i.attempt = 1
               PROVE  i.due + Pacing + Slack <= k.walk
    BY DEF OverlapIsLateness, Live
  <2>1. PICK a \in Live : a.walk = i.walk /\ a.attempt = 1 /\ a.due = i.due
    BY DEF Stays
  <2>2. PICK b \in Live : b.walk = k.walk
    BY DEF Stays
  <2>3. a.due + Pacing + Slack <= b.walk
    BY <2>1, <2>2 DEF ScheduleInv, OverlapIsLateness, Live
  <2> QED
    BY <2>1, <2>2, <2>3
<1> QED
  BY <1>1, <1>2, <1>3, <1>4 DEF ScheduleInv

\* The walk goes onto the queue, or what of it does before the worker dies: its jobs are
\* due within the lock it was started under, and the older ones were due before it.
LEMMA WalkStarts ==
    ASSUME PassTypeOK, PassTypeOK', ScheduleInv, lane = "enqueue", lane' # "enqueue",
           Live' \subseteq Live \cup WalkJobs(found), UNCHANGED <<now, lockUntil, lockedAt>>
    PROVE  ScheduleInv'
<1> DEFINE Late(j) == j.due + Pacing + Slack
<1>1. /\ now \in Nat /\ lockedAt = now /\ now' = now /\ lockedAt' = now
      /\ lockUntil' = lockUntil /\ lockUntil = now + passLockTtl(Cardinality(found))
  BY DEF ScheduleInv, PassTypeOK
<1>2. \A j \in WalkJobs(found) :
        j.walk = lockedAt /\ Late(j) <= lockUntil
  <2> SUFFICES ASSUME NEW s \in found
               PROVE  now + Position(s, found) * Pacing + Pacing + Slack <= lockUntil
    BY DEF WalkJobs, SymbolJob
  <2>1. found \in SUBSET Board
    BY DEF PassTypeOK
  <2> QED
    BY <1>1, <2>1, WalkFitsItsLock
<1>3. \A j \in Live : j \in SymbolJobs /\ j.walk <= lockedAt
  BY LiveAre DEF ScheduleInv
<1>4. \A j \in Live' : j.walk <= lockedAt'
  BY <1>1, <1>2, <1>3
<1>5. \A j \in Live' : j.attempt = 1 =>
        Late(j) <= IF j.walk = lockedAt' THEN lockUntil' ELSE lockedAt'
  BY <1>1, <1>2 DEF ScheduleInv
<1>6. OverlapIsLateness'
  <2> SUFFICES ASSUME NEW i \in Live', NEW k \in Live', i.walk < k.walk, i.attempt = 1
               PROVE  Late(i) <= k.walk
    BY DEF OverlapIsLateness, Live
  <2>1. i.walk \in Nat /\ k.walk \in Nat /\ k.walk <= lockedAt
    <3>1. i \in SymbolJobs /\ k \in SymbolJobs
      BY LiveNow DEF LiveIs
    <3> QED
      BY <3>1, <1>1, <1>4 DEF SymbolJobs
  <2>2. i \in Live
    BY <1>1, <1>2, <2>1
  <2>3. CASE k \in Live
    BY <2>2, <2>3 DEF ScheduleInv, OverlapIsLateness, Live
  <2>4. CASE k \in WalkJobs(found)
    BY <1>1, <1>2, <2>1, <2>2, <2>4 DEF ScheduleInv
  <2> QED
    BY <2>3, <2>4
<1> QED
  BY <1>1, <1>4, <1>5, <1>6 DEF ScheduleInv

\* The lock is free: whatever of the older walk is still waiting was due before it expired.
LEMMA LockStep ==
    ASSUME PassTypeOK, PassTypeOK', ScheduleInv, ClaimPassLock PROVE ScheduleInv'
<1>1. lane = "lock" /\ UNCHANGED <<now, jobs>>
  BY DEF ClaimPassLock, queue
<1>2. Live' = Live
  BY <1>1, LiveNow DEF LiveIs, ClaimPassLock, Settle, GoOn, LaneTo
<1>3. CASE now < lockUntil
  <2>1. UNCHANGED <<lockUntil, lockedAt>> /\ lane' # "enqueue"
    BY <1>3 DEF ClaimPassLock, Settle, LaneTo
  <2>2. \A j \in Live' : Stays(j)
    BY <1>2 DEF Stays
  <2> QED
    BY <1>1, <2>1, <2>2, Carry DEF PassTypeOK
<1>4. CASE ~(now < lockUntil)
  <2>1. /\ lockUntil' = now + passLockTtl(Cardinality(found)) /\ lockedAt' = now
        /\ lane' = "enqueue" /\ found' = found /\ now' = now
    BY <1>1, <1>4 DEF ClaimPassLock, GoOn, LaneTo, hand
  <2>2. /\ now \in Nat /\ lockUntil \in Nat /\ lockUntil <= now /\ lockedAt \in Nat
        /\ lockedAt <= now /\ passLockTtl(Cardinality(found)) \in Nat
    BY <1>4, TtlType DEF PassTypeOK, ScheduleInv
  <2>3. \A j \in Live : j \in SymbolJobs /\ j.walk \in Nat /\ j.due \in Nat
    BY LiveAre DEF SymbolJobs
  <2>4. \A j \in Live' : j.walk <= lockedAt'
    BY <1>2, <2>1, <2>2, <2>3 DEF ScheduleInv
  <2>5. \A j \in Live : j.attempt = 1 => j.due + Pacing + Slack <= now
    BY <2>2, <2>3, DelayAssumption DEF ScheduleInv
  <2>6. \A j \in Live' : j.attempt = 1 =>
          j.due + Pacing + Slack <= IF j.walk = lockedAt' THEN lockUntil' ELSE lockedAt'
    BY <1>2, <2>1, <2>2, <2>3, <2>5, DelayAssumption
  <2>7. OverlapIsLateness'
    BY <1>2 DEF ScheduleInv, OverlapIsLateness, Live
  <2>8. lane' = "enqueue" =>
          lockedAt' = now' /\ lockUntil' = now' + passLockTtl(Cardinality(found'))
    BY <2>1
  <2>9. lockedAt' <= now'
    BY <2>1, <2>2
  <2> QED
    BY <2>4, <2>6, <2>7, <2>8, <2>9 DEF ScheduleInv
<1> QED
  BY <1>3, <1>4

\* Every step keeps first attempts to the schedule they were given.
LEMMA ScheduleStep == PassTypeOK /\ PassTypeOK' /\ ScheduleInv /\ [NextPass]_passVars => ScheduleInv'
<1> SUFFICES ASSUME PassTypeOK, PassTypeOK', ScheduleInv, [NextPass]_passVars PROVE ScheduleInv'
  OBVIOUS
<1>0. now \in Nat /\ now' \in Nat
  BY DEF PassTypeOK
<1>1. /\ Live = jobs \cup (IF lane = "scrape" THEN {laneJob} ELSE {})
      /\ Live' = jobs' \cup (IF lane' = "scrape" THEN {laneJob'} ELSE {})
  BY LiveNow DEF LiveIs
<1>2. ASSUME Live' \subseteq Live, UNCHANGED <<lockUntil, lockedAt>>, now <= now',
             lane' # "enqueue"
      PROVE  ScheduleInv'
  <2>1. \A j \in Live' : Stays(j)
    BY <1>2 DEF Stays
  <2> QED
    BY <1>2, <2>1, Carry
<1>3. ASSUME NEW j \in passes, StartPass(j) PROVE ScheduleInv'
  BY <1>0, <1>1, <1>2, <1>3 DEF StartPass, Settle, LaneTo, keys
<1>4. ASSUME ClaimClosingPass \/ FetchUniverse \/ FetchFailed PROVE ScheduleInv'
  BY <1>0, <1>1, <1>2, <1>4
     DEF ClaimClosingPass, FetchUniverse, FetchFailed, Settle, GoOn, LaneTo, keys, queue
<1>5. ASSUME ClaimPassLock PROVE ScheduleInv'
  BY <1>5, LockStep
<1>6. ASSUME EnqueueUniverseSymbols PROVE ScheduleInv'
  BY <1>0, <1>1, <1>6, WalkStarts DEF EnqueueUniverseSymbols, Settle, LaneTo, keys
<1>7. ASSUME NEW j \in jobs, StartSymbol(j) PROVE ScheduleInv'
  BY <1>0, <1>1, <1>2, <1>7 DEF StartSymbol, LaneTo, keys
<1>8. ASSUME Scraped PROVE ScheduleInv'
  BY <1>0, <1>1, <1>2, <1>8 DEF Scraped, Settle, LaneTo, keys, queue
<1>9. ASSUME ScrapeFailed PROVE ScheduleInv'
  <2>1. /\ lane = "scrape" /\ lane' = "idle" /\ laneJob \in Live
        /\ UNCHANGED <<now, lockUntil, lockedAt>>
        /\ Live' \subseteq Live \cup {[laneJob EXCEPT !.attempt = 2, !.due = now + Backoff]}
    BY <1>1, <1>9 DEF ScrapeFailed, Settle, LaneTo, keys
  <2>2. Stays([laneJob EXCEPT !.attempt = 2, !.due = now + Backoff])
    <3>1. laneJob \in SymbolJobs
      BY <2>1 DEF PassTypeOK
    <3>2. /\ [laneJob EXCEPT !.attempt = 2, !.due = now + Backoff].walk = laneJob.walk
          /\ [laneJob EXCEPT !.attempt = 2, !.due = now + Backoff].attempt = 2
      BY <3>1 DEF SymbolJobs
    <3> QED
      BY <2>1, <3>2 DEF Stays
  <2>3. \A j \in Live' : Stays(j)
    BY <2>1, <2>2 DEF Stays
  <2> QED
    BY <1>0, <2>1, <2>3, Carry
<1>10. ASSUME Crash PROVE ScheduleInv'
  <2>1. /\ lane' = "down" /\ UNCHANGED <<now, lockUntil, lockedAt>>
    BY <1>10 DEF Crash, LaneTo, keys
  <2>2. CASE lane = "enqueue"
    <3>1. laneJob.type # "symbol"
      BY <2>2 DEF PassTypeOK, PassJobs
    <3>2. jobs' \subseteq jobs \cup WalkJobs(found)
      BY <1>10, <3>1 DEF Crash
    <3> QED
      BY <1>1, <2>1, <2>2, <3>2, WalkStarts
  <2>3. CASE lane # "enqueue"
    <3>1. jobs' \subseteq jobs \cup (IF lane = "scrape" THEN Stalled(laneJob) ELSE {})
      <4>1. laneJob.type = "symbol" => lane = "scrape"
        BY DEF PassTypeOK, Lanes, NoJob, PassJobs
      <4>2. WalkJobs({}) = {} /\ \A j \in WalkJobs(found) : j.symbol \notin {}
        BY DEF WalkJobs
      <4> QED
        BY <1>10, <2>3, <4>1, <4>2 DEF Crash
    <3>2. \A j \in Live' : Stays(j)
      <4> SUFFICES ASSUME NEW j \in Live', j \notin jobs PROVE Stays(j)
        BY <1>1 DEF Stays
      <4>1. lane = "scrape" /\ j \in Stalled(laneJob) /\ laneJob \in Live /\ laneJob \in SymbolJobs
        BY <1>1, <2>1, <3>1 DEF PassTypeOK
      <4>2. j = [laneJob EXCEPT !.stalls = 1]
        BY <4>1 DEF Stalled
      <4>3. j.walk = laneJob.walk /\ j.attempt = laneJob.attempt /\ j.due = laneJob.due
        BY <4>1, <4>2 DEF SymbolJobs
      <4> QED
        BY <4>1, <4>3 DEF Stays
    <3> QED
      BY <1>0, <2>1, <3>2, Carry
  <2> QED
    BY <2>2, <2>3
<1>11. ASSUME Restart PROVE ScheduleInv'
  BY <1>0, <1>1, <1>2, <1>11 DEF Restart, LaneTo, keys
<1>12. ASSUME Tick PROVE ScheduleInv'
  <2>1. lane # "enqueue" /\ UNCHANGED <<queue, lane, laneJob, keys>> /\ now' = now + 1
    BY <1>12 DEF Tick, Patience, PassTypeOK
  <2> QED
    BY <1>0, <1>1, <1>2, <2>1 DEF queue, keys
<1>13. CASE UNCHANGED passVars
  <2>1. UNCHANGED <<now, jobs, lane, laneJob, found, lockUntil, lockedAt>>
    BY <1>13 DEF passVars, queue, hand, keys
  <2> QED
    BY <1>1, <2>1 DEF ScheduleInv, OverlapIsLateness
<1> QED
  BY <1>3, <1>4, <1>5, <1>6, <1>7, <1>8, <1>9, <1>10, <1>11, <1>12, <1>13 DEF NextPass

\* claimPassLock and its expiry: whatever a scrape takes, whatever fails and whatever dies,
\* a walk joins one that is still in the queue only where the lane has fallen behind the
\* older one's schedule by more than the slack.
THEOREM OverlapsAreLate == PassSpec => []OverlapIsLateness
<1>1. InitPass => PassTypeOK
  BY InitIInv DEF IInv
<1>2. InitPass => ScheduleInv
  BY ClockAssumption DEF InitPass, ScheduleInv, OverlapIsLateness, Live, NoJob
<1>3. ScheduleInv => OverlapIsLateness
  BY DEF ScheduleInv
<1> QED
  BY <1>1, <1>2, <1>3, TypeStep, ScheduleStep, PTL DEF PassSpec

=============================================================================
