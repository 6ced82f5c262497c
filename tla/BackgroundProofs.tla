--------------------------- MODULE BackgroundProofs ---------------------------
(*************************************************************************)
(* Proofs about what runs by itself. Scheduler, for any workers, patterns*)
(* and number of deployments: workers which agree on the settings leave  *)
(* their schedule ticking and no other, wherever a registration died or  *)
(* crossed another one. Alerts, for any ticks, cooldowns and evaluations:*)
(* an evaluation heeds the firing stored last before it. CorporateActions,*)
(* for any calendar, holidays, closes and notices: a close is served as  *)
(* the tape stored it, or brought down by the one factor of the event's  *)
(* step. CompanyRecords, for any releases and batches: a write-up is     *)
(* whole whichever load read it, and the archive holds what was found.   *)
(* Backfill, for any published histories and payloads: a backfill writes *)
(* a day that had none and never a figure that stood.                    *)
(*************************************************************************)
EXTENDS Scheduler, Alerts, CorporateActions, CompanyRecords, Backfill, FiniteSetTheorems,
        WellFoundedInduction, TLAPS

(***************************************************************************)
(* The schedule.                                                           *)
(***************************************************************************)

\* The job ticks under these settings; the registrar removes what it finds.
Active(env) == job \notin Switched \/ env.on
Clean(env) == Active(env) \/ job \in SwitchedClean

\* A worker that has listed leaves this pattern alone for good.
Keeps(w, p) == ~Clean(boot[w].env) \/ (Active(boot[w].env) /\ p = boot[w].env.pattern)

\* Nothing ticks that every worker has finished with: some worker keeps it, is
\* about to remove it, or has yet to look.
SomebodyMinds ==
    \A p \in ticking : \E w \in Workers :
        boot[w].at = "list" \/ p \in boot[w].drop \/ Keeps(w, p)

\* What stands between a pattern and its ticking: a worker of other settings, one
\* that has yet to look, or one that has yet to add it.
TickPending(p) ==
    \E u \in Workers :
        \/ ~Active(boot[u].env) \/ boot[u].env.pattern # p
        \/ boot[u].at = "list" \/ p \in boot[u].add

\* A worker past its listing finds its pattern ticking, or something pending.
OursTicks ==
    \A w \in Workers :
        Active(boot[w].env) /\ boot[w].at # "list"
        => boot[w].env.pattern \in ticking \/ TickPending(boot[w].env.pattern)

\* A worker removes its own pattern only to add it again, and adds no other.
PlansAreOwn ==
    \A w \in Workers :
        /\ boot[w].at # "drop" => boot[w].drop = {} /\ boot[w].add = {}
        /\ boot[w].add \subseteq {boot[w].env.pattern}
        /\ ~Active(boot[w].env) => boot[w].add = {}
        /\ \A p \in boot[w].drop :
              p \in boot[w].add \/ ~Active(boot[w].env) \/ p # boot[w].env.pattern

\* The inductive invariant of the schedule.
ScheduleInv ==
    /\ SchedulerTypeOK
    /\ job \in Reconciled => SomebodyMinds /\ OursTicks /\ PlansAreOwn

---------------------------------------------------------------------------

\* Every registrar plans removals among what it listed, and at most its own
\* pattern to add.
LEMMA PlanTypes ==
    ASSUME job \in Jobs, NEW listing \in SUBSET Patterns, NEW env \in Settings
    PROVE  /\ Register(job, listing, env).drop \in SUBSET Patterns
           /\ Register(job, listing, env).add \in SUBSET Patterns
<1>1. env.pattern \in Patterns
  BY DEF Settings
<1>2. QED
  BY <1>1 DEF Register, Jobs, Reconciled, Switched, registerQuotePollSchedule,
      registerMarketCapCarrySchedule, registerLogoRefreshSchedule,
      registerKse100MembershipSchedule, registerMarketCapSchedule,
      registerCompanyProfileSchedule, registerSessionCandleSchedule,
      registerCorporateActionSchedule, registerUniversePassSchedule,
      registerIndexBoardSchedule, registerIndexContributionSchedule, registerSyncAll,
      reconcile, drain, dropAll, leave

\* What the registrars that reconcile have in common.
LEMMA PlanFacts ==
    ASSUME job \in Reconciled, NEW listing \in SUBSET Patterns, NEW env \in Settings
    PROVE  LET plan == Register(job, listing, env) IN
           /\ plan.add \subseteq {env.pattern}
           /\ ~Active(env) => plan.add = {}
           /\ \A p \in listing : p \in plan.drop \/ ~Clean(env) \/ (Active(env) /\ p = env.pattern)
           /\ Active(env) => env.pattern \in listing \/ env.pattern \in plan.add
           /\ \A p \in plan.drop : p \in plan.add \/ ~Active(env) \/ p # env.pattern
<1> USE DEF Active, Clean, Switched, SwitchedClean, Register
<1>1. CASE job \in {"quote-poll", "market-cap-carry", "logo-refresh"}
  BY <1>1 DEF registerQuotePollSchedule, registerMarketCapCarrySchedule,
      registerLogoRefreshSchedule, reconcile
<1>2. CASE job \in {"kse100-membership", "market-cap", "company-profile"}
  BY <1>2 DEF registerKse100MembershipSchedule, registerMarketCapSchedule,
      registerCompanyProfileSchedule, reconcile, dropAll
<1>3. CASE job = "session-candle"
  BY <1>3 DEF registerSessionCandleSchedule
<1>4. CASE job \in {"corporate-actions", "universe-pass"}
  BY <1>4 DEF registerCorporateActionSchedule, registerUniversePassSchedule,
      reconcile, drain, leave
<1>5. CASE job \in {"index-board", "index-contributions"}
  BY <1>5 DEF registerIndexBoardSchedule, registerIndexContributionSchedule, drain
<1>6. QED
  BY <1>1, <1>2, <1>3, <1>4, <1>5 DEF Reconciled

\* The schedule starts in the invariant.
LEMMA InitScheduleInv == InitScheduler => ScheduleInv
<1> SUFFICES ASSUME InitScheduler PROVE ScheduleInv
  OBVIOUS
<1>1. PICK env \in Settings : boot = [w \in Workers |-> Boot(env)]
  BY DEF InitScheduler
<1>2. SchedulerTypeOK
  BY <1>1, SchedulerAssumption DEF InitScheduler, SchedulerTypeOK, Boot, Steps
<1>3. QED
  BY <1>1, <1>2 DEF InitScheduler, ScheduleInv, SomebodyMinds, OursTicks, PlansAreOwn, Boot

---------------------------------------------------------------------------

\* A worker, at each step of its registration.
Boots == [env : Settings, at : Steps, drop : SUBSET Patterns, add : SUBSET Patterns]

\* A worker lists what ticks, and plans.
LEMMA ListStep ==
    ASSUME ScheduleInv, NEW w \in Workers, ListRepeatables(w)
    PROVE  ScheduleInv'
<1> DEFINE plan == Register(job, ticking, boot[w].env)
<1>1. /\ boot[w] \in Boots /\ boot[w].env \in Settings /\ ticking \in SUBSET Patterns
      /\ boot \in [Workers -> Boots] /\ job \in Jobs
  BY DEF ScheduleInv, SchedulerTypeOK, Boots
<1>2. plan.drop \in SUBSET Patterns /\ plan.add \in SUBSET Patterns
  BY <1>1, PlanTypes
<1> HIDE DEF plan
<1>3. boot' = [boot EXCEPT ![w].at = "drop", ![w].drop = plan.drop, ![w].add = plan.add]
      /\ UNCHANGED <<job, ticking, deploys>>
  BY DEF ListRepeatables, plan
<1>4. boot' \in [Workers -> Boots]
  BY <1>1, <1>2, <1>3 DEF Boots, Steps
<1>5. SchedulerTypeOK'
  BY <1>3, <1>4 DEF ScheduleInv, SchedulerTypeOK, Boots
<1>6. /\ boot'[w].env = boot[w].env /\ boot'[w].at = "drop"
      /\ boot'[w].drop = plan.drop /\ boot'[w].add = plan.add
      /\ \A u \in Workers : u # w => boot'[u] = boot[u]
  BY <1>1, <1>3 DEF Boots
<1>7. ASSUME job \in Reconciled PROVE SomebodyMinds' /\ OursTicks' /\ PlansAreOwn'
  <2>1. /\ plan.add \subseteq {boot[w].env.pattern}
        /\ ~Active(boot[w].env) => plan.add = {}
        /\ \A p \in ticking : p \in plan.drop \/ ~Clean(boot[w].env)
                              \/ (Active(boot[w].env) /\ p = boot[w].env.pattern)
        /\ Active(boot[w].env) =>
              boot[w].env.pattern \in ticking \/ boot[w].env.pattern \in plan.add
        /\ \A p \in plan.drop :
              p \in plan.add \/ ~Active(boot[w].env) \/ p # boot[w].env.pattern
    BY <1>1, <1>7, PlanFacts DEF plan
  <2>2. SomebodyMinds'
    <3>1. \A p \in ticking : p \in boot'[w].drop \/ Keeps(w, p)'
      BY <1>3, <1>6, <2>1 DEF Keeps, Active, Clean
    <3>2. QED
      BY <1>3, <3>1 DEF SomebodyMinds
  <2>3. PlansAreOwn'
    <3>1. \A u \in Workers : u # w =>
             /\ boot[u].at # "drop" => boot[u].drop = {} /\ boot[u].add = {}
             /\ boot[u].add \subseteq {boot[u].env.pattern}
             /\ ~Active(boot[u].env) => boot[u].add = {}
             /\ \A p \in boot[u].drop :
                   p \in boot[u].add \/ ~Active(boot[u].env) \/ p # boot[u].env.pattern
      BY <1>7 DEF ScheduleInv, PlansAreOwn
    <3>2. \A env : Active(env) <=> Active(env)'
      BY <1>3 DEF Active
    <3>3. SUFFICES ASSUME NEW u \in Workers
                   PROVE  /\ boot'[u].at # "drop" => boot'[u].drop = {} /\ boot'[u].add = {}
                          /\ boot'[u].add \subseteq {boot'[u].env.pattern}
                          /\ ~Active(boot'[u].env) => boot'[u].add = {}
                          /\ \A p \in boot'[u].drop :
                                p \in boot'[u].add \/ ~Active(boot'[u].env)
                                \/ p # boot'[u].env.pattern
      BY <3>2, <1>3 DEF PlansAreOwn, Active
    <3>4. CASE u = w
      BY <1>6, <2>1, <3>4
    <3>5. CASE u # w
      BY <1>6, <3>1, <3>5
    <3>6. QED
      BY <3>4, <3>5
  <2>4. OursTicks'
    <3>1. SUFFICES ASSUME NEW v \in Workers, Active(boot[v].env)', boot'[v].at # "list"
                   PROVE  boot'[v].env.pattern \in ticking \/ TickPending(boot[v].env.pattern)'
      BY <1>3 DEF OursTicks
    <3> DEFINE p == boot'[v].env.pattern
    <3>2. CASE v = w
      BY <1>3, <1>6, <2>1, <3>1, <3>2 DEF TickPending, Active
    <3>3. CASE v # w
      <4>1. p = boot[v].env.pattern /\ (p \in ticking \/ TickPending(p))
        BY <1>3, <1>6, <1>7, <3>1, <3>3 DEF ScheduleInv, OursTicks, Active
      <4>2. CASE p \in ticking
        BY <4>2
      <4>3. CASE TickPending(p)
        <5>1. PICK u \in Workers : \/ ~Active(boot[u].env) \/ boot[u].env.pattern # p
                                   \/ boot[u].at = "list" \/ p \in boot[u].add
          BY <4>3 DEF TickPending
        <5>2. CASE u # w
          BY <1>3, <1>6, <5>1, <5>2 DEF TickPending, Active
        <5>3. CASE u = w /\ (~Active(boot[u].env) \/ boot[u].env.pattern # p)
          BY <1>3, <1>6, <5>3 DEF TickPending, Active
        <5>4. CASE u = w /\ Active(boot[u].env) /\ boot[u].env.pattern = p
          BY <1>3, <1>6, <2>1, <5>4 DEF TickPending, Active
        <5>5. QED
          BY <5>2, <5>3, <5>4
      <4>4. QED
        BY <4>1, <4>2, <4>3
    <3>4. QED
      BY <3>2, <3>3
  <2>5. QED
    BY <2>2, <2>3, <2>4
<1>8. QED
  BY <1>3, <1>5, <1>7 DEF ScheduleInv

\* A worker removes a pattern of its plan.
LEMMA RemoveStep ==
    ASSUME ScheduleInv, NEW w \in Workers, RemoveRepeatable(w)
    PROVE  ScheduleInv'
<1>1. boot \in [Workers -> Boots] /\ boot[w] \in Boots
  BY DEF ScheduleInv, SchedulerTypeOK, Boots
<1>2. PICK q \in boot[w].drop :
         /\ ticking' = ticking \ {q}
         /\ boot' = [boot EXCEPT ![w].drop = boot[w].drop \ {q}]
  BY DEF RemoveRepeatable
<1> DEFINE new == [env |-> boot[w].env, at |-> "drop", drop |-> boot[w].drop \ {q}, add |-> boot[w].add]
<1>3. boot' = [boot EXCEPT ![w] = new]
  <2>1. boot[w].at = "drop"
    BY DEF RemoveRepeatable
  <2>2. [boot[w] EXCEPT !.drop = boot[w].drop \ {q}] = new
    BY <1>1, <2>1 DEF Boots
  <2>3. boot' = [boot EXCEPT ![w] = [boot[w] EXCEPT !.drop = boot[w].drop \ {q}]]
    BY <1>2
  <2>4. QED
    BY <2>2, <2>3
<1>4. new \in Boots /\ UNCHANGED <<job, deploys>>
  BY <1>1 DEF Boots, Steps, RemoveRepeatable
<1>5. boot'[w] = new /\ \A u \in Workers : u # w => boot'[u] = boot[u]
  BY <1>1, <1>3
<1>6. SchedulerTypeOK'
  BY <1>2, <1>3, <1>4 DEF ScheduleInv, SchedulerTypeOK, Boots
<1>7. ASSUME job \in Reconciled PROVE SomebodyMinds' /\ OursTicks' /\ PlansAreOwn'
  <2>1. \A u \in Workers : /\ boot'[u].env = boot[u].env /\ boot'[u].add = boot[u].add
                           /\ boot'[u].at = boot[u].at
    BY <1>5 DEF RemoveRepeatable
  <2>2. SomebodyMinds'
    <3>1. SUFFICES ASSUME NEW p \in ticking, p # q
                   PROVE  \E u \in Workers : boot'[u].at = "list" \/ p \in boot'[u].drop \/ Keeps(u, p)'
      BY <1>2 DEF SomebodyMinds
    <3>2. PICK u \in Workers : boot[u].at = "list" \/ p \in boot[u].drop \/ Keeps(u, p)
      BY <1>7 DEF ScheduleInv, SomebodyMinds
    <3>3. p \in boot[u].drop => p \in boot'[u].drop
      BY <1>5, <3>1
    <3>4. Keeps(u, p) => Keeps(u, p)'
      BY <1>4, <2>1 DEF Keeps, Active, Clean
    <3>5. QED
      BY <2>1, <3>2, <3>3, <3>4
  <2>3. PlansAreOwn'
    BY <1>4, <1>5, <1>7, <2>1 DEF ScheduleInv, PlansAreOwn, Active, RemoveRepeatable
  <2>4. OursTicks'
    <3>1. SUFFICES ASSUME NEW v \in Workers, Active(boot[v].env), boot[v].at # "list"
                   PROVE  LET p == boot[v].env.pattern IN p \in ticking' \/ TickPending(p)'
      BY <1>4, <2>1 DEF OursTicks, Active
    <3> DEFINE p == boot[v].env.pattern
    <3>2. TickPending(p) => TickPending(p)'
      BY <1>4, <2>1 DEF TickPending, Active
    <3>3. CASE p = q
      <4>1. q \in boot[w].add \/ ~Active(boot[w].env) \/ q # boot[w].env.pattern
        BY <1>7 DEF ScheduleInv, PlansAreOwn
      <4>2. TickPending(p)
        BY <3>3, <4>1 DEF TickPending
      <4>3. QED
        BY <3>2, <4>2
    <3>4. CASE p # q
      BY <1>2, <1>7, <3>1, <3>2, <3>4 DEF ScheduleInv, OursTicks
    <3>5. QED
      BY <3>3, <3>4
  <2>5. QED
    BY <2>2, <2>3, <2>4
<1>8. QED
  BY <1>4, <1>6, <1>7 DEF ScheduleInv

\* A worker adds its own pattern.
LEMMA AddStep ==
    ASSUME ScheduleInv, NEW w \in Workers, AddRepeatable(w)
    PROVE  ScheduleInv'
<1>1. boot \in [Workers -> Boots] /\ boot[w] \in Boots /\ boot[w].drop = {} /\ boot[w].at = "drop"
  BY DEF ScheduleInv, SchedulerTypeOK, Boots, AddRepeatable
<1>2. ticking' = ticking \cup boot[w].add /\ UNCHANGED <<job, deploys>>
  BY DEF AddRepeatable
<1>3. boot' = [boot EXCEPT ![w].at = "up", ![w].add = {}]
  BY DEF AddRepeatable
<1>4. boot' \in [Workers -> Boots]
  BY <1>1, <1>3 DEF Boots, Steps
<1>5. /\ boot'[w].env = boot[w].env /\ boot'[w].at = "up"
      /\ boot'[w].drop = {} /\ boot'[w].add = {}
      /\ \A u \in Workers : u # w => boot'[u] = boot[u]
  BY <1>1, <1>3 DEF Boots
<1>6. SchedulerTypeOK'
  BY <1>1, <1>2, <1>3, <1>4 DEF ScheduleInv, SchedulerTypeOK, Boots
<1>7. ASSUME job \in Reconciled PROVE SomebodyMinds' /\ OursTicks' /\ PlansAreOwn'
  <2>1. \A u \in Workers : boot'[u].env = boot[u].env /\ boot'[u].drop = boot[u].drop
    BY <1>1, <1>5
  <2>2. boot[w].add \subseteq {boot[w].env.pattern} /\ (~Active(boot[w].env) => boot[w].add = {})
    BY <1>7 DEF ScheduleInv, PlansAreOwn
  <2>3. SomebodyMinds'
    <3>1. SUFFICES ASSUME NEW p \in ticking'
                   PROVE  \E u \in Workers : boot'[u].at = "list" \/ p \in boot'[u].drop \/ Keeps(u, p)'
      BY DEF SomebodyMinds
    <3>2. CASE p \in boot[w].add
      BY <1>2, <2>1, <2>2, <3>2 DEF Keeps, Active, Clean
    <3>3. CASE p \in ticking
      <4>1. PICK u \in Workers : boot[u].at = "list" \/ p \in boot[u].drop \/ Keeps(u, p)
        BY <1>7, <3>3 DEF ScheduleInv, SomebodyMinds
      <4>2. boot[u].at = "list" => boot'[u].at = "list"
        BY <1>1, <1>5
      <4>3. Keeps(u, p) => Keeps(u, p)'
        BY <1>2, <2>1 DEF Keeps, Active, Clean
      <4>4. QED
        BY <2>1, <4>1, <4>2, <4>3
    <3>4. QED
      BY <1>2, <3>1, <3>2, <3>3
  <2>4. PlansAreOwn'
    BY <1>2, <1>5, <1>7, <2>1 DEF ScheduleInv, PlansAreOwn, Active
  <2>5. OursTicks'
    <3>1. SUFFICES ASSUME NEW v \in Workers, Active(boot[v].env), boot'[v].at # "list"
                   PROVE  LET p == boot[v].env.pattern IN p \in ticking' \/ TickPending(p)'
      BY <1>2, <2>1 DEF OursTicks, Active
    <3> DEFINE p == boot[v].env.pattern
    <3>2. boot[v].at # "list"
      BY <1>1, <1>5, <3>1
    <3>3. p \in ticking \/ TickPending(p)
      BY <1>7, <3>1, <3>2 DEF ScheduleInv, OursTicks
    <3>4. CASE p \in ticking
      BY <1>2, <3>4
    <3>5. CASE TickPending(p)
      <4>1. PICK u \in Workers : \/ ~Active(boot[u].env) \/ boot[u].env.pattern # p
                                 \/ boot[u].at = "list" \/ p \in boot[u].add
        BY <3>5 DEF TickPending
      <4>2. CASE u = w /\ p \in boot[u].add
        BY <1>2, <4>2
      <4>3. CASE u = w /\ p \notin boot[u].add
        BY <1>1, <1>2, <2>1, <4>1, <4>3 DEF TickPending, Active
      <4>4. CASE u # w
        BY <1>2, <1>5, <4>1, <4>4 DEF TickPending, Active
      <4>5. QED
        BY <4>2, <4>3, <4>4
    <3>6. QED
      BY <3>3, <3>4, <3>5
  <2>6. QED
    BY <2>3, <2>4, <2>5
<1>8. QED
  BY <1>2, <1>6, <1>7 DEF ScheduleInv

\* A worker is replaced by one of other settings.
LEMMA DeployStep ==
    ASSUME ScheduleInv, NEW w \in Workers, Deploy(w)
    PROVE  ScheduleInv'
<1>1. PICK env \in Settings : boot' = [boot EXCEPT ![w] = Boot(env)]
  BY DEF Deploy
<1>2. UNCHANGED <<job, ticking>> /\ deploys' \in 0..MaxDeploys
  BY SchedulerAssumption DEF Deploy, ScheduleInv, SchedulerTypeOK
<1>3. boot \in [Workers -> Boots] /\ Boot(env) \in Boots
  BY DEF ScheduleInv, SchedulerTypeOK, Boots, Boot, Steps
<1>4. /\ boot'[w] = [env |-> env, at |-> "list", drop |-> {}, add |-> {}]
      /\ \A u \in Workers : u # w => boot'[u] = boot[u]
  BY <1>1, <1>3 DEF Boot
<1>5. SchedulerTypeOK'
  BY <1>1, <1>2, <1>3 DEF ScheduleInv, SchedulerTypeOK, Boots
<1>6. SomebodyMinds'
  BY <1>4 DEF SomebodyMinds
<1>7. OursTicks'
  BY <1>4 DEF OursTicks, TickPending
<1>8. ASSUME job \in Reconciled PROVE PlansAreOwn'
  BY <1>2, <1>4, <1>8 DEF ScheduleInv, PlansAreOwn, Active
<1>9. QED
  BY <1>2, <1>5, <1>6, <1>7, <1>8 DEF ScheduleInv

\* Every step keeps the invariant.
LEMMA StepScheduleInv == ScheduleInv /\ [NextScheduler]_schedulerVars => ScheduleInv'
<1> SUFFICES ASSUME ScheduleInv, [NextScheduler]_schedulerVars PROVE ScheduleInv'
  OBVIOUS
<1>1. CASE UNCHANGED schedulerVars
  BY <1>1 DEF schedulerVars, ScheduleInv, SchedulerTypeOK, SomebodyMinds, Keeps, OursTicks,
              TickPending, PlansAreOwn, Active, Clean
<1>2. CASE NextScheduler
  BY <1>2, ListStep, RemoveStep, AddStep, DeployStep DEF NextScheduler
<1>3. QED
  BY <1>1, <1>2

\* The registrations and what ticks keep their types.
THEOREM SchedulerTypes == SchedulerSpec => []SchedulerTypeOK
<1>1. ScheduleInv => SchedulerTypeOK
  BY DEF ScheduleInv
<1>2. QED
  BY InitScheduleInv, StepScheduleInv, <1>1, PTL DEF SchedulerSpec

\* When all are up under the same settings, their pattern ticks and nothing else.
LEMMA SettledIsReconciled ==
    ASSUME ScheduleInv PROVE AgreedScheduleHolds
<1> SUFFICES ASSUME Settled, NEW w \in Workers, job \in Reconciled,
                    boot[w].env.on \/ job \in SwitchedClean \cup (Reconciled \ Switched)
             PROVE  ticking = Wanted(job, boot[w].env)
  BY DEF AgreedScheduleHolds
<1> DEFINE env == boot[w].env
<1>1. \A u \in Workers : boot[u].at = "up" /\ boot[u].env = env
  BY DEF Settled
<1>2. \A u \in Workers : boot[u].drop = {} /\ boot[u].add = {}
  BY <1>1 DEF ScheduleInv, PlansAreOwn
<1>3. Clean(env)
  BY DEF Clean, Active
<1>4. \A p \in ticking : Active(env) /\ p = env.pattern
  BY <1>1, <1>2, <1>3 DEF ScheduleInv, SomebodyMinds, Keeps
<1>5. Active(env) => env.pattern \in ticking
  BY <1>1, <1>2 DEF ScheduleInv, OursTicks, TickPending
<1>6. Wanted(job, env) = IF Active(env) THEN {env.pattern} ELSE {}
  BY DEF Wanted, Active
<1>7. QED
  BY <1>4, <1>5, <1>6

\* Workers that agree leave what their settings ask for ticking, and nothing
\* besides, for any number of workers, patterns, deployments and crashes.
THEOREM ScheduleAgreed == SchedulerSpec => []AgreedScheduleHolds
<1>1. ScheduleInv => AgreedScheduleHolds
  BY SettledIsReconciled
<1>2. QED
  BY InitScheduleInv, StepScheduleInv, <1>1, PTL DEF SchedulerSpec

---------------------------------------------------------------------------
(***************************************************************************)
(* The alerts.                                                             *)
(***************************************************************************)

\* The events are numbered in the order they were recorded.
EventsAreNumbered ==
    /\ IsFiniteSet(events) /\ Cardinality(events) <= MaxEvents
    /\ \A e \in events : e.nth <= Cardinality(events) /\ e.seen < e.nth
    /\ \A e, f \in events : e.nth = f.nth => e = f

\* The event of S that was stored last among the first n.
StoredLast(S, e, n) ==
    /\ e \in S /\ e.stored /\ e.nth <= n
    /\ \A g \in S : g.stored /\ g.nth <= n => g.nth <= e.nth

\* The alert remembers the time of the event that was stored last.
LastIsOfTheLast ==
    /\ alert.exists => \A e : StoredLast(events, e, Cardinality(events)) => alert.last = e.asOf
    /\ alert.exists /\ alert.last # None =>
          \E e : e.asOf = alert.last /\ StoredLast(events, e, Cardinality(events))
    /\ ~alert.exists => events = {}

\* An evaluation under way has read the time of the event that was stored last when it began.
EvaluationsKnow ==
    alert.exists => \A t \in Tabs : eval[t].pc # "idle" =>
        /\ eval[t].seen <= Cardinality(events)
        /\ \A e : StoredLast(events, e, eval[t].seen) => eval[t].last = e.asOf

\* A stored event is a cooldown after the one that was stored last before its evaluation.
FiringsHeed ==
    \A f \in events : \A e : f.stored /\ StoredLast(events, e, f.seen) => f.asOf - e.asOf >= Cooldown

\* The inductive invariant of the alert.
AlertInv == AlertsTypeOK /\ EventsAreNumbered /\ LastIsOfTheLast /\ EvaluationsKnow /\ FiringsHeed

\* The rows of the alert and of an evaluation.
Fired == 0..LastTick \cup {None}
\* The alert's row, and an evaluation at each of its steps.
AlertRow == [exists : BOOLEAN, paused : BOOLEAN, last : Fired]
EvalRow == [pc : {"idle", "market", "fire", "failed"}, paused : BOOLEAN, last : Fired,
            seen : 0..MaxEvents, met : BOOLEAN, asOf : 0..LastTick]

---------------------------------------------------------------------------
\* What the actions make of a row is a row.
LEMMA AlertRows ==
    /\ AtEase \in EvalRow /\ AtEase.pc = "idle"
    /\ \A last \in Fired, paused \in BOOLEAN, seen \in 0..MaxEvents :
          [AtEase EXCEPT !.pc = "market", !.paused = paused, !.last = last, !.seen = seen] \in EvalRow
    /\ \A e \in EvalRow, met \in BOOLEAN, asOf \in 0..LastTick :
          [e EXCEPT !.pc = "fire", !.met = met, !.asOf = asOf] \in EvalRow
    /\ \A e \in EvalRow : [e EXCEPT !.pc = "failed"] \in EvalRow
    /\ \A a \in AlertRow, last \in Fired : [a EXCEPT !.last = last] \in AlertRow
    /\ \A a \in AlertRow : [a EXCEPT !.paused = ~@] \in AlertRow /\ [a EXCEPT !.exists = FALSE] \in AlertRow
<1>0. 0 \in 0..MaxEvents /\ None \in Fired /\ 0 \in 0..LastTick
  BY AlertAssumption DEF Fired
<1>1. AtEase \in EvalRow /\ AtEase.pc = "idle"
  BY <1>0 DEF AtEase, EvalRow
<1>2. \A last \in Fired, paused \in BOOLEAN, seen \in 0..MaxEvents :
          [AtEase EXCEPT !.pc = "market", !.paused = paused, !.last = last, !.seen = seen] \in EvalRow
  BY <1>1 DEF EvalRow
<1>3. \A e \in EvalRow, met \in BOOLEAN, asOf \in 0..LastTick :
          [e EXCEPT !.pc = "fire", !.met = met, !.asOf = asOf] \in EvalRow
  BY DEF EvalRow
<1>4. \A e \in EvalRow : [e EXCEPT !.pc = "failed"] \in EvalRow
  BY DEF EvalRow
<1>5. \A a \in AlertRow, last \in Fired : [a EXCEPT !.last = last] \in AlertRow
  BY DEF AlertRow
<1>6. \A a \in AlertRow : [a EXCEPT !.paused = ~@] \in AlertRow /\ [a EXCEPT !.exists = FALSE] \in AlertRow
  BY DEF AlertRow
<1> QED
  BY <1>1, <1>2, <1>3, <1>4, <1>5, <1>6

\* The alert starts in the invariant.
LEMMA AlertStarts == InitAlerts => AlertInv
<1> SUFFICES ASSUME InitAlerts PROVE AlertInv
  OBVIOUS
<1>1. 0 \in 0..LastTick /\ 0 \in 0..MaxEvents /\ None \in Fired
  BY AlertAssumption DEF Fired
<1>2. IsFiniteSet({}) /\ Cardinality({}) = 0
  BY FS_EmptySet
<1>3. alert \in AlertRow /\ eval \in [Tabs -> EvalRow]
  BY <1>1, AlertRows DEF InitAlerts, AlertRow
<1>4. AlertsTypeOK
  BY <1>1, <1>3 DEF InitAlerts, AlertsTypeOK, AlertRow, EvalRow, Fired
<1>5. EvaluationsKnow
  BY DEF InitAlerts, EvaluationsKnow, AtEase
<1>6. events = {} /\ alert.last = None
  BY DEF InitAlerts
<1>7. EventsAreNumbered /\ FiringsHeed
  BY <1>2, <1>6, AlertAssumption DEF EventsAreNumbered, FiringsHeed
<1>8. LastIsOfTheLast
  BY <1>6 DEF LastIsOfTheLast, StoredLast
<1> QED
  BY <1>4, <1>5, <1>7, <1>8 DEF AlertInv

\* What recording an event does to the events: it is one more, numbered last.
LEMMA OneMoreEvent ==
    ASSUME AlertInv, NEW t \in Tabs, NEW stored \in BOOLEAN, alert.exists,
           eval[t].pc # "idle", Cardinality(events) < MaxEvents
    PROVE  LET more == events \cup {NewEvent(t, stored)}
           IN /\ IsFiniteSet(more) /\ more \subseteq Event
              /\ Cardinality(more) = Cardinality(events) + 1
              /\ NewEvent(t, stored).nth = Cardinality(events) + 1
              /\ NewEvent(t, stored).asOf = eval[t].asOf
              /\ NewEvent(t, stored).stored = stored
              /\ NewEvent(t, stored).seen = eval[t].seen
              /\ eval[t].seen <= Cardinality(events)
<1> DEFINE n == NewEvent(t, stored)
<1>1. IsFiniteSet(events) /\ Cardinality(events) \in Nat
  BY FS_CardinalityType DEF AlertInv, EventsAreNumbered
<1>2. /\ n.nth = Cardinality(events) + 1 /\ n.asOf = eval[t].asOf
      /\ n.stored = stored /\ n.seen = eval[t].seen
  BY DEF NewEvent
<1>3. eval[t].seen \in 0..MaxEvents /\ eval[t].asOf \in 0..LastTick /\ clock \in 0..LastTick
  BY DEF AlertInv, AlertsTypeOK
<1>4. n \in Event
  BY <1>1, <1>3, AlertAssumption DEF NewEvent, Event
<1>5. n \notin events
  BY <1>1, <1>2 DEF AlertInv, EventsAreNumbered
<1>6. IsFiniteSet(events \cup {n}) /\ Cardinality(events \cup {n}) = Cardinality(events) + 1
  BY <1>1, <1>5, FS_AddElement
<1> QED
  BY <1>2, <1>4, <1>6, <1>1 DEF AlertInv, EvaluationsKnow, AlertsTypeOK

\* An event numbered last does not change which was stored last before it.
LEMMA EarlierStays ==
    ASSUME NEW S \in SUBSET Event, NEW m \in Nat, NEW n, NEW k \in Nat, k <= m, n.nth = m + 1
    PROVE  \A e : StoredLast(S \cup {n}, e, k) <=> StoredLast(S, e, k)
BY DEF StoredLast

\* One more event, stored or not: what was known of the others still holds.
LEMMA EventsGrow ==
    ASSUME AlertInv, NEW t \in Tabs, NEW stored \in BOOLEAN, alert.exists, alert'.exists,
           eval[t].pc # "idle", Cardinality(events) < MaxEvents,
           events' = events \cup {NewEvent(t, stored)}, eval' = [eval EXCEPT ![t] = AtEase],
           stored => isCool(eval[t]),
           alert'.last = IF stored THEN eval[t].asOf ELSE alert.last
    PROVE  events' \subseteq Event /\ EventsAreNumbered' /\ LastIsOfTheLast' /\ EvaluationsKnow'
           /\ FiringsHeed'
<1> DEFINE m == Cardinality(events)
<1>1. PICK n : n = NewEvent(t, stored)
  OBVIOUS
<1>2. /\ IsFiniteSet(events') /\ events' \subseteq Event /\ events' = events \cup {n}
      /\ Cardinality(events') = m + 1
      /\ n.nth = m + 1 /\ n.asOf = eval[t].asOf /\ n.stored = stored
      /\ n.seen = eval[t].seen /\ eval[t].seen <= m
  BY <1>1, OneMoreEvent
<1>3. /\ m \in Nat /\ m + 1 <= MaxEvents /\ eval \in [Tabs -> EvalRow] /\ events \subseteq Event
      /\ \A e \in events : e.nth \in Nat /\ e.nth <= m /\ e.seen \in Nat /\ e.seen < e.nth
  <2>1. m \in Nat
    BY FS_CardinalityType DEF AlertInv, EventsAreNumbered
  <2>2. events \subseteq Event /\ eval \in [Tabs -> EvalRow]
    BY DEF AlertInv, AlertsTypeOK, EvalRow, Fired
  <2> QED
    BY <2>1, <2>2, AlertAssumption DEF AlertInv, EventsAreNumbered, Event
<1>4. \A u \in Tabs : eval[u].seen \in Nat
  BY <1>3 DEF EvalRow
<1> HIDE DEF m
<1>5. \A k \in Nat : k <= m => \A e : StoredLast(events', e, k) <=> StoredLast(events, e, k)
  BY <1>2, <1>3, EarlierStays
<1>6. EventsAreNumbered'
  <2>1. \A e \in events' : e.nth <= m + 1 /\ e.seen < e.nth
    BY <1>2, <1>3, <1>4
  <2>2. \A e, f \in events' : e.nth = f.nth => e = f
    <3>1. \A e \in events : e.nth # n.nth
      BY <1>2, <1>3
    <3>2. \A e, f \in events : e.nth = f.nth => e = f
      BY DEF AlertInv, EventsAreNumbered
    <3> QED
      BY <1>2, <3>1, <3>2
  <2> QED
    BY <1>2, <1>3, <2>1, <2>2 DEF EventsAreNumbered
<1>7. EvaluationsKnow'
  <2> SUFFICES ASSUME NEW u \in Tabs, eval'[u].pc # "idle"
               PROVE  /\ eval'[u].seen <= Cardinality(events')
                      /\ \A e : StoredLast(events', e, eval'[u].seen) => eval'[u].last = e.asOf
    BY DEF EvaluationsKnow
  <2>1. u # t /\ eval'[u] = eval[u]
    BY <1>3, AlertRows
  <2>2. eval[u].seen <= m /\ \A e : StoredLast(events, e, eval[u].seen) => eval[u].last = e.asOf
    BY <2>1 DEF AlertInv, EvaluationsKnow, m
  <2>3. \A e : StoredLast(events', e, eval[u].seen) <=> StoredLast(events, e, eval[u].seen)
    BY <1>4, <1>5, <2>2
  <2>4. eval[u].seen <= m + 1
    BY <1>3, <1>4, <2>2
  <2> QED
    BY <1>2, <2>1, <2>2, <2>3, <2>4
<1>8. FiringsHeed'
  <2> SUFFICES ASSUME NEW f \in events', NEW e, f.stored, StoredLast(events', e, f.seen)
               PROVE  f.asOf - e.asOf >= Cooldown
    BY DEF FiringsHeed
  <2>1. f.seen \in Nat /\ f.seen <= m
    BY <1>2, <1>3, <1>4
  <2>2. StoredLast(events, e, f.seen)
    BY <1>5, <2>1
  <2>3. CASE f \in events
    BY <2>2, <2>3 DEF AlertInv, FiringsHeed
  <2>4. CASE f = n
    <3>1. eval[t].last = e.asOf
      BY <1>2, <2>2, <2>4 DEF AlertInv, EvaluationsKnow
    <3>2. e.asOf \in Nat
      BY <1>3, <2>2 DEF StoredLast, Event
    <3> QED
      BY <1>2, <2>4, <3>1, <3>2 DEF isCool, None
  <2> QED
    BY <1>2, <2>3, <2>4
<1>9. LastIsOfTheLast'
  <2>1. CASE stored
    <3>1. \A e : StoredLast(events', e, m + 1) <=> e = n
      <4>1. \A g \in events' : g.nth <= m + 1
        BY <1>2, <1>3
      <4>2. StoredLast(events', n, m + 1)
        BY <1>2, <2>1, <4>1 DEF StoredLast
      <4>3. ASSUME NEW e, StoredLast(events', e, m + 1) PROVE e = n
        <5>1. e \in events' /\ n.nth <= e.nth
          BY <4>2, <4>3 DEF StoredLast
        <5>2. ~(n.nth <= e.nth) \/ e \notin events
          <6>1. \A g \in events : g.nth \in Nat /\ g.nth <= m
            BY <1>3
          <6> QED
            BY <1>2, <1>3, <6>1
        <5> QED
          BY <1>2, <5>1, <5>2
      <4> QED
        BY <4>2, <4>3
    <3> QED
      BY <1>2, <2>1, <3>1 DEF LastIsOfTheLast
  <2>2. CASE ~stored
    <3>1. \A e : StoredLast(events', e, m + 1) <=> StoredLast(events, e, m)
      BY <1>2, <1>3, <2>2 DEF StoredLast
    <3> QED
      BY <1>2, <2>2, <3>1 DEF AlertInv, LastIsOfTheLast, m
  <2> QED
    BY <2>1, <2>2
<1> QED
  BY <1>2, <1>6, <1>7, <1>8, <1>9

\* Steps that record nothing, and leave every evaluation what it was or at its ease.
LEMMA NothingStored ==
    ASSUME AlertInv, AlertsTypeOK', events' = events, alert'.exists = alert.exists,
           alert'.last = alert.last,
           \A t \in Tabs : eval'[t].pc # "idle" =>
               eval[t].pc # "idle" /\ eval'[t].seen = eval[t].seen /\ eval'[t].last = eval[t].last
    PROVE  AlertInv'
BY DEF AlertInv, EventsAreNumbered, LastIsOfTheLast, EvaluationsKnow, FiringsHeed

\* Every step keeps the invariant.
LEMMA AlertStep == AlertInv /\ [NextAlerts]_alertVars => AlertInv'
<1> SUFFICES ASSUME AlertInv, [NextAlerts]_alertVars PROVE AlertInv'
  OBVIOUS
<1>n. IsFiniteSet(events) /\ Cardinality(events) \in 0..MaxEvents
  BY AlertAssumption, FS_CardinalityType DEF AlertInv, EventsAreNumbered
<1>t. AlertsTypeOK
  BY DEF AlertInv
<1>r. /\ alert \in AlertRow /\ eval \in [Tabs -> EvalRow] /\ clock \in 0..LastTick
      /\ condition \in BOOLEAN
  BY <1>t DEF AlertsTypeOK, AlertRow, EvalRow, Fired
<1>o. AlertsTypeOK' <=> /\ clock' \in 0..LastTick /\ condition' \in BOOLEAN
                        /\ kind' \in {"price", "rsi", "cross"} /\ alert' \in AlertRow
                        /\ events' \subseteq Event /\ eval' \in [Tabs -> EvalRow]
  BY DEF AlertsTypeOK, AlertRow, EvalRow, Fired
<1>1. ASSUME NEW t \in Tabs, ReadAlerts(t) PROVE AlertInv'
  <2> DEFINE e == [AtEase EXCEPT !.pc = "market", !.paused = alert.paused, !.last = alert.last,
                                 !.seen = Cardinality(events)]
  <2>1. e \in EvalRow /\ e.seen = Cardinality(events) /\ e.last = alert.last
    <3>1. alert.last \in Fired /\ alert.paused \in BOOLEAN
      BY <1>r DEF AlertRow
    <3>2. e \in EvalRow
      BY <3>1, <1>n, AlertRows
    <3> QED
      BY <3>2 DEF EvalRow, AtEase
  <2>2. eval' = [eval EXCEPT ![t] = e] /\ UNCHANGED <<clock, kind, condition, alert, events>>
    BY <1>1 DEF ReadAlerts
  <2> HIDE DEF e
  <2>3. AlertsTypeOK'
    BY <2>1, <2>2, <1>o, <1>t, <1>r DEF AlertsTypeOK
  <2>4. EvaluationsKnow'
    BY <2>1, <2>2, <1>n, <1>r DEF AlertInv, EvaluationsKnow, LastIsOfTheLast
  <2> QED
    BY <2>2, <2>3, <2>4 DEF AlertInv, EventsAreNumbered, LastIsOfTheLast, FiringsHeed
<1>2. ASSUME NEW t \in Tabs, ReadMarket(t) PROVE AlertInv'
  <2> DEFINE e == [eval[t] EXCEPT !.pc = "fire", !.met = isTriggered, !.asOf = clock]
  <2>1. e \in EvalRow /\ e.seen = eval[t].seen /\ e.last = eval[t].last
    <3>1. isTriggered \in BOOLEAN
      BY <1>r DEF isTriggered, technicalUniverse
    <3>2. e \in EvalRow
      BY <3>1, <1>r, AlertRows
    <3> QED
      BY <3>2, <1>r DEF EvalRow
  <2>2. /\ eval' = [eval EXCEPT ![t] = e] /\ eval[t].pc # "idle"
        /\ UNCHANGED <<clock, kind, condition, alert, events>>
    BY <1>2, <1>r DEF ReadMarket
  <2> HIDE DEF e
  <2>3. AlertsTypeOK'
    BY <2>1, <2>2, <1>o, <1>t, <1>r DEF AlertsTypeOK
  <2> QED
    BY <2>1, <2>2, <2>3, <1>r, NothingStored
<1>3. ASSUME NEW t \in Tabs, evaluateAlert(t) PROVE AlertInv'
  <2>0. /\ eval[t].pc # "idle" /\ Cardinality(events) < MaxEvents
        /\ UNCHANGED <<clock, kind, condition>>
    BY <1>3 DEF evaluateAlert
  <2>1. CASE eval' = [eval EXCEPT ![t] = AtEase] /\ UNCHANGED <<alert, events>>
    <3>1. AlertsTypeOK'
      BY <2>0, <2>1, <1>o, <1>t, <1>r, AlertRows DEF AlertsTypeOK
    <3> QED
      BY <2>0, <2>1, <3>1, <1>r, AlertRows, NothingStored
  <2>2. CASE eval' = [eval EXCEPT ![t].pc = "failed"] /\ UNCHANGED <<alert, events>>
    <3> DEFINE e == [eval[t] EXCEPT !.pc = "failed"]
    <3>1. e \in EvalRow /\ e.seen = eval[t].seen /\ e.last = eval[t].last
      <4>1. eval[t] \in EvalRow
        BY <1>r
      <4>2. e \in EvalRow
        BY <4>1, AlertRows
      <4> QED
        BY <4>1, <4>2 DEF EvalRow
    <3>2. eval' = [eval EXCEPT ![t] = e]
      BY <2>2, <1>r
    <3> HIDE DEF e
    <3>3. AlertsTypeOK'
      BY <2>0, <2>2, <3>1, <3>2, <1>o, <1>t, <1>r DEF AlertsTypeOK
    <3> QED
      BY <2>0, <2>2, <3>1, <3>2, <3>3, <1>r, NothingStored
  <2>3. CASE /\ isCool(eval[t]) /\ alert.exists
             /\ events' = events \cup {NewEvent(t, TRUE)}
             /\ alert' = [alert EXCEPT !.last = eval[t].asOf]
             /\ eval' = [eval EXCEPT ![t] = AtEase]
    <3>1. eval[t].asOf \in Fired
      BY <1>r DEF EvalRow, Fired
    <3>2. alert' \in AlertRow /\ alert'.exists /\ alert'.last = eval[t].asOf
      BY <2>3, <3>1, <1>r, AlertRows DEF AlertRow
    <3>3. eval' \in [Tabs -> EvalRow]
      BY <2>3, <1>r, AlertRows
    <3>4. events' \subseteq Event /\ EventsAreNumbered' /\ LastIsOfTheLast' /\ EvaluationsKnow'
          /\ FiringsHeed'
      BY <2>0, <2>3, <3>2, EventsGrow
    <3>5. AlertsTypeOK'
      BY <2>0, <3>2, <3>3, <3>4, <1>o, <1>t, <1>r DEF AlertsTypeOK
    <3> QED
      BY <3>4, <3>5 DEF AlertInv
  <2> QED
    BY <1>3, <2>1, <2>2, <2>3 DEF evaluateAlert
<1>4. ASSUME NEW t \in Tabs, RecordFailure(t) PROVE AlertInv'
  <2>0. /\ eval[t].pc # "idle" /\ Cardinality(events) < MaxEvents
        /\ UNCHANGED <<clock, kind, condition, alert>> /\ eval' = [eval EXCEPT ![t] = AtEase]
        /\ eval' \in [Tabs -> EvalRow]
    BY <1>4, <1>r, AlertRows DEF RecordFailure
  <2>1. CASE events' = events
    <3>1. AlertsTypeOK'
      BY <2>0, <2>1, <1>o, <1>t, <1>r DEF AlertsTypeOK
    <3> QED
      BY <2>0, <2>1, <3>1, <1>r, AlertRows, NothingStored
  <2>2. CASE alert.exists /\ events' = events \cup {NewEvent(t, FALSE)}
    <3>1. events' \subseteq Event /\ EventsAreNumbered' /\ LastIsOfTheLast' /\ EvaluationsKnow'
          /\ FiringsHeed'
      BY <2>0, <2>2, EventsGrow
    <3>2. AlertsTypeOK'
      BY <2>0, <3>1, <1>o, <1>t, <1>r DEF AlertsTypeOK
    <3> QED
      BY <3>1, <3>2 DEF AlertInv
  <2> QED
    BY <1>4, <2>1, <2>2 DEF RecordFailure
<1>5. CASE SetPaused
  <2>1. /\ UNCHANGED <<clock, kind, condition, events, eval>> /\ alert' \in AlertRow
        /\ alert'.exists = alert.exists /\ alert'.last = alert.last
    BY <1>5, <1>r, AlertRows DEF SetPaused, AlertRow
  <2>2. AlertsTypeOK'
    BY <2>1, <1>o, <1>t, <1>r DEF AlertsTypeOK
  <2> QED
    BY <2>1, <2>2, NothingStored
<1>6. CASE DeleteAlert
  <2>1. /\ UNCHANGED <<clock, kind, condition, eval>> /\ events' = {}
        /\ alert' \in AlertRow /\ ~alert'.exists
    BY <1>6, <1>r, AlertRows DEF DeleteAlert, AlertRow
  <2>2. AlertsTypeOK'
    BY <2>1, <1>o, <1>t, <1>r DEF AlertsTypeOK
  <2>3. IsFiniteSet({}) /\ Cardinality({}) = 0
    BY FS_EmptySet
  <2> QED
    BY <2>1, <2>2, <2>3, AlertAssumption
       DEF AlertInv, EventsAreNumbered, LastIsOfTheLast, EvaluationsKnow, FiringsHeed
<1>7. ASSUME MarketMoves \/ AlertClock \/ UNCHANGED alertVars PROVE AlertInv'
  <2>1. UNCHANGED <<kind, alert, events, eval>>
    BY <1>7 DEF MarketMoves, AlertClock, alertVars
  <2>2. clock' \in 0..LastTick /\ condition' \in BOOLEAN
    <3>1. clock' = clock \/ (clock < LastTick /\ clock' = clock + 1)
      BY <1>7 DEF MarketMoves, AlertClock, alertVars
    <3>2. condition' = condition \/ condition' = ~condition
      BY <1>7 DEF MarketMoves, AlertClock, alertVars
    <3>3. clock' \in 0..LastTick
      BY <1>r, <3>1, AlertAssumption
    <3>4. condition' \in BOOLEAN
      BY <1>r, <3>2, Zenon
    <3> QED
      BY <3>3, <3>4
  <2>3. AlertsTypeOK'
    BY <2>1, <2>2, <1>t DEF AlertsTypeOK
  <2> QED
    BY <2>1, <2>3, NothingStored
<1> QED
  BY <1>1, <1>2, <1>3, <1>4, <1>5, <1>6, <1>7 DEF NextAlerts

\* The invariant holds throughout.
LEMMA AlertInvAlways == AlertsSpec => []AlertInv
<1> QED
  BY AlertStarts, AlertStep, PTL DEF AlertsSpec

\* The alert, its evaluations and its events keep their types.
THEOREM AlertTypes == AlertsSpec => []AlertsTypeOK
<1>1. AlertInv => AlertsTypeOK
  BY DEF AlertInv
<1> QED
  BY <1>1, AlertInvAlways, PTL

\* However many pages evaluate, and however late the time they took is stored: the alert
\* remembers the event that was stored last, and an evaluation keeps the cooldown of the
\* one that was stored last when it began.
THEOREM LastFiringHeeded == AlertsSpec => []LastFiringIsHeeded
<1>1. AlertInv => LastFiringIsHeeded
  <2> SUFFICES ASSUME AlertInv PROVE LastFiringIsHeeded
    OBVIOUS
  <2>1. alert.exists /\ alert.last # None =>
          \E e \in events : /\ e.stored /\ e.asOf = alert.last
                            /\ \A f \in events : f.stored => f.nth <= e.nth
    BY DEF AlertInv, LastIsOfTheLast, StoredLast, EventsAreNumbered
  <2>2. \A e, f \in events :
          /\ e.stored /\ f.stored /\ e.nth <= f.seen
          /\ \A g \in events : g.stored /\ g.nth <= f.seen => g.nth <= e.nth
          => f.asOf - e.asOf >= Cooldown
    BY DEF AlertInv, FiringsHeed, StoredLast
  <2> QED
    BY <2>1, <2>2 DEF LastFiringIsHeeded
<1> QED
  BY <1>1, AlertInvAlways, PTL

---------------------------------------------------------------------------
(***************************************************************************)
(* The corporate actions.                                                  *)
(***************************************************************************)

\* The closes are those of past sessions, all of them unless one left none.
PastIsStored ==
    /\ \A d \in closes : d < today
    /\ ~gap => \A d \in Dates \ Closed : d < today => d \in closes

\* A step is on a session; before the closure is first moved it is where the register,
\* read with every holiday, puts it.
StepIsDated ==
    /\ stepsAt # Never => stepsAt \notin Closed
    /\ ~moved /\ closure # Never /\ stepsAt # Never => stepsAt = exDateFor(closure, Holidays)

\* The ex-dates that are stored, or about to be, are no weekend's; before a closure is
\* first moved, a holiday learnt late can only have made them too late.
Dated(ex) == ex \notin WeekendDays /\ (~moved /\ stepsAt # Never => stepsAt <= ex)

\* Every action on record, or on its way there, is so dated.
RowsAreDated ==
    \A ex \in Dates : actions[ex] # "none" \/ ex = ingest.ex \/ ex \in ingest.todo => Dated(ex)

\* A confirmed ex-date parts the closes where the step parts them, and both are past.
PartsCloses(ex) ==
    /\ ex < today /\ stepsAt < today
    /\ \A d \in closes : d < ex <=> d < stepsAt

\* Every confirmed action still parts the closes at the step.
ConfirmedParts == \A ex \in Confirmed : PartsCloses(ex)

\* The inductive invariant of the corporate actions.
ActionsInv == ActionsTypeOK /\ PastIsStored /\ StepIsDated /\ RowsAreDated /\ ConfirmedParts

---------------------------------------------------------------------------
\* A set of numbers has a least one, and a bounded one has a greatest.
LEMMA LeastOf ==
    ASSUME NEW S \in SUBSET Nat, S # {} PROVE \E s \in S : \A r \in S : s <= r
<1>1. PICK s \in S : \A r \in S : ~(<<r, s>> \in OpToRel(<, Nat))
  BY NatLessThanWellFounded, WFMin
<1>2. \A r \in S : r < s => <<r, s>> \in OpToRel(<, Nat)
  BY DEF OpToRel
<1>3. ASSUME NEW r \in S PROVE s <= r
  <2>1. r \in Nat /\ s \in Nat /\ ~(r < s)
    BY <1>1, <1>2
  <2> QED
    BY <2>1
<1> QED
  BY <1>3

\* A bounded set of numbers has a greatest one.
LEMMA GreatestOf ==
    ASSUME NEW b \in Nat, NEW S \in SUBSET (0..b), S # {} PROVE \E s \in S : \A r \in S : r <= s
<1> DEFINE T == {b - s : s \in S}
<1>1. T \in SUBSET Nat /\ T # {}
  <2>1. \A s \in S : s \in Nat /\ s <= b /\ b - s \in Nat
    OBVIOUS
  <2> QED
    BY <2>1
<1>2. PICK t \in T : \A r \in T : t <= r
  BY <1>1, LeastOf
<1>3. PICK s \in S : t = b - s
  BY <1>2
<1>4. ASSUME NEW r \in S PROVE r <= s
  <2>1. b - s <= b - r
    BY <1>2, <1>3
  <2>2. r \in Nat /\ s \in Nat
    OBVIOUS
  <2> QED
    BY <2>1, <2>2
<1> QED
  BY <1>4

\* What the walk back finds: a day before the closure that trades, as far as is known.
LEMMA ExDateIsATradingDay ==
    ASSUME NEW c \in 1..LastDay, NEW H, exDateFor(c, H) # Never
    PROVE  LET ex == exDateFor(c, H)
           IN /\ ex \in 0..(c - 1) /\ ex \in Dates /\ ex \notin WeekendDays \cup H
              /\ Cardinality({e \in ex..(c - 1) : e \notin WeekendDays \cup H}) = 2
<1> DEFINE found == {d \in 0..c - 1 : /\ c - d <= ExWalk /\ d \notin WeekendDays \cup H
                                      /\ Cardinality({e \in d..c - 1 : e \notin WeekendDays \cup H}) = 2}
<1>1. exDateFor(c, H) = IF found = {} THEN Never ELSE CHOOSE d \in found : TRUE
  BY DEF exDateFor
<1>2. exDateFor(c, H) \in found
  BY <1>1
<1>3. c \in Nat /\ c <= LastDay /\ LastDay \in Nat
  BY ActionsAssumption
<1> QED
  BY <1>2, <1>3 DEF Dates

\* More holidays make an ex-date earlier.
LEMMA HolidaysPullBack ==
    ASSUME NEW c \in 1..LastDay, NEW H, NEW K \in SUBSET H,
           exDateFor(c, H) # Never, exDateFor(c, K) # Never
    PROVE  exDateFor(c, H) <= exDateFor(c, K)
<1> DEFINE a == exDateFor(c, K)
           b == exDateFor(c, H)
           From(d, S) == {e \in d..(c - 1) : e \notin WeekendDays \cup S}
<1>1. /\ a \in 0..(c - 1) /\ a \notin WeekendDays \cup K /\ Cardinality(From(a, K)) = 2
      /\ b \in 0..(c - 1) /\ b \notin WeekendDays \cup H /\ Cardinality(From(b, H)) = 2
  BY ExDateIsATradingDay
<1> HIDE DEF a, b
<1> SUFFICES ASSUME a < b PROVE FALSE
  BY <1>1 DEF a, b
<1>2. c \in Nat /\ a \in Nat /\ b \in Nat
  BY <1>1, ActionsAssumption
<1>3. IsFiniteSet(a..(c - 1)) /\ From(a, K) \subseteq a..(c - 1)
  BY <1>2, FS_Interval
<1>4. IsFiniteSet(From(a, K)) /\ IsFiniteSet(From(b, H))
  <2>1. From(b, H) \subseteq a..(c - 1)
    BY <1>2
  <2> QED
    BY <1>3, <2>1, FS_Subset
<1>5. From(b, H) \cup {a} \subseteq From(a, K) /\ a \notin From(b, H)
  BY <1>1, <1>2
<1>6. Cardinality(From(b, H) \cup {a}) = Cardinality(From(b, H)) + 1
  BY <1>4, <1>5, FS_AddElement
<1>7. Cardinality(From(b, H) \cup {a}) <= Cardinality(From(a, K))
  BY <1>4, <1>5, FS_Subset
<1> QED
  BY <1>1, <1>6, <1>7

\* The proof of a step is that the closes part at the ex-date as they do at the step.
LEMMA ProofParts ==
    ASSUME ActionsTypeOK, NEW ex \in Dates, Proved(ex), \A d \in closes : d < today
    PROVE  PartsCloses(ex)
<1> DEFINE before == {d \in closes : d < ex}
           after == {d \in closes : d >= ex}
<1>a. LastDay \in Nat /\ closes \subseteq 0..LastDay
  BY ActionsAssumption DEF ActionsTypeOK, Dates
<1>b. ex \in Nat /\ today \in Nat /\ stepsAt \in Nat
  BY ActionsAssumption DEF ActionsTypeOK, Dates, Never
<1>c. closes \subseteq Nat
  BY <1>a
<1>d. before \in SUBSET (0..LastDay) /\ after \in SUBSET Nat
  BY <1>a, <1>c
<1>0. /\ LastDay \in Nat /\ before \in SUBSET (0..LastDay) /\ after \in SUBSET Nat
      /\ closes \subseteq Nat /\ ex \in Nat /\ today \in Nat /\ stepsAt \in Nat
  BY <1>a, <1>b, <1>c, <1>d
<1>1. before # {} /\ after # {}
  BY DEF Proved
<1> DEFINE prev == CHOOSE d \in before : \A e \in before : e <= d
           next == CHOOSE d \in after : \A e \in after : d <= e
<1>2. prev \in before /\ \A e \in before : e <= prev
  <2>1. \E d \in before : \A e \in before : e <= d
    BY <1>0, <1>1, GreatestOf
  <2> QED
    BY <2>1
<1>3. next \in after /\ \A e \in after : next <= e
  <2>1. \E d \in after : \A e \in after : d <= e
    BY <1>0, <1>1, LeastOf
  <2> QED
    BY <2>1
<1>4. Close(prev) = 2 * Close(next)
  BY DEF Proved
<1> HIDE DEF prev, next
<1>5. prev < stepsAt /\ next >= stepsAt
  BY <1>0, <1>2, <1>3, <1>4 DEF Close
<1> QED
  BY <1>0, <1>2, <1>3, <1>5 DEF PartsCloses

\* The dates are numbers, and the marks of the calendar are dates.
LEMMA ActionNumbers ==
    ASSUME ActionsTypeOK
    PROVE  /\ LastDay \in Nat /\ Never \in Nat /\ today \in Nat /\ stepsAt \in Nat
           /\ Dates \subseteq Nat /\ closes \subseteq Nat
<1>1. LastDay \in Nat /\ Never \in Nat /\ Dates \subseteq Nat
  BY ActionsAssumption DEF Never, Dates
<1> QED
  BY <1>1 DEF ActionsTypeOK

\* A row of what the pass is at.
IngestRow == [pc : {"idle", "upsert", "read", "confirm"}, ex : Dates \cup {Never},
              todo : SUBSET Dates]

\* What an ingest holds after each of its steps has its type.
LEMMA IngestRows ==
    /\ Waiting \in IngestRow
    /\ \A ex \in Dates \cup {Never} : [pc |-> "upsert", ex |-> ex, todo |-> {}] \in IngestRow
    /\ \A r \in IngestRow, T \in SUBSET Dates :
          /\ [r EXCEPT !.pc = "read"] \in IngestRow
          /\ [r EXCEPT !.pc = "confirm", !.todo = T] \in IngestRow
          /\ [r EXCEPT !.todo = T] \in IngestRow
BY DEF IngestRow, Waiting

\* The register starts in the invariant.
LEMMA ActionStarts == InitActions => ActionsInv
<1> SUFFICES ASSUME InitActions PROVE ActionsInv
  OBVIOUS
<1>0. /\ LastDay \in Nat /\ closure \in 1..LastDay /\ Never \in Nat /\ Never \notin Dates
      /\ Dates \subseteq Nat /\ 0 \in Dates /\ MaxDeaths \in Nat
  BY ActionsAssumption DEF InitActions, Never, Dates
<1>1. exDateFor(closure, Holidays) # Never /\ exDateFor(closure, Holidays) \notin Closed
  <2>1. exDateFor(closure, Holidays) # Never
    BY <1>0 DEF InitActions
  <2> QED
    BY <1>0, <2>1, ExDateIsATradingDay DEF Closed
<1>2. ActionsTypeOK
  <2>1. ingest \in IngestRow
    BY IngestRows DEF InitActions
  <2>2. stepsAt \in Dates \cup {Never}
    BY DEF InitActions
  <2>3. deaths \in 0..MaxDeaths
    BY <1>0 DEF InitActions
  <2> QED
    BY <1>0, <2>1, <2>2, <2>3 DEF InitActions, ActionsTypeOK, IngestRow
<1>3. PastIsStored
  BY <1>0 DEF InitActions, PastIsStored
<1>4. StepIsDated
  BY <1>1 DEF InitActions, StepIsDated
<1>5. RowsAreDated
  BY <1>0 DEF InitActions, RowsAreDated, Waiting
<1>6. ConfirmedParts
  BY DEF InitActions, ConfirmedParts, Confirmed
<1> QED
  BY <1>2, <1>3, <1>4, <1>5, <1>6 DEF ActionsInv

\* Every step keeps the invariant.
LEMMA ActionStep == ActionsInv /\ [NextActions]_actionVars => ActionsInv'
<1> SUFFICES ASSUME ActionsInv, [NextActions]_actionVars PROVE ActionsInv'
  OBVIOUS
<1> USE DEF ActionsInv
<1>0. /\ LastDay \in Nat /\ Never \in Nat /\ today \in Nat /\ stepsAt \in Nat
      /\ Dates \subseteq Nat /\ closes \subseteq Nat /\ Never \notin Dates
  <2>1. Never \notin Dates
    BY ActionsAssumption DEF Never, Dates
  <2> QED
    BY <2>1, ActionNumbers
<1>t. /\ ingest \in IngestRow /\ actions \in [Dates -> {"none", "announced", "confirmed"}]
      /\ deaths \in 0..MaxDeaths /\ closure \in Closures \cup {Never}
      /\ known \in SUBSET Holidays
  BY DEF ActionsTypeOK, IngestRow
<1>c. Closures \subseteq 1..LastDay /\ \A c \in Closures : c # Never
  BY ActionsAssumption DEF Never
<1>1. CASE FetchRegister
  <2> DEFINE ex == exDateFor(closure, known)
  <2>1. closure \in 1..LastDay /\ closure # Never
    BY <1>1, <1>t, <1>c DEF FetchRegister
  <2>2. ex # Never => ex \in Dates /\ ex \notin WeekendDays
    BY <2>1, ExDateIsATradingDay
  <2>3. ex # Never /\ ~moved /\ stepsAt # Never => stepsAt <= ex
    BY <2>1, <1>t, HolidaysPullBack DEF StepIsDated
  <2> HIDE DEF ex
  <2>4. ingest' \in IngestRow /\ ingest'.ex = ex /\ ingest'.todo = {}
    <3>1. ingest' = [pc |-> "upsert", ex |-> ex, todo |-> {}]
      BY <1>1 DEF FetchRegister, ex
    <3>2. ex \in Dates \cup {Never}
      BY <2>2
    <3> QED
      BY <3>1, <3>2, IngestRows
  <2>5. ActionsTypeOK'
    BY <1>1, <2>4 DEF FetchRegister, ActionsTypeOK, IngestRow
  <2>6. PastIsStored' /\ StepIsDated' /\ ConfirmedParts'
    BY <1>1 DEF FetchRegister, PastIsStored, StepIsDated, ConfirmedParts, Confirmed, PartsCloses
  <2>7. RowsAreDated'
    BY <1>1, <2>2, <2>3, <2>4, <1>0 DEF FetchRegister, RowsAreDated, Dated
  <2> QED
    BY <2>5, <2>6, <2>7
<1>2. CASE WriteAnnounced
  <2>1. /\ ingest' \in IngestRow /\ ingest'.ex = ingest.ex /\ ingest'.todo = ingest.todo
    BY <1>2, <1>t, IngestRows DEF WriteAnnounced, IngestRow
  <2>2. /\ actions' \in [Dates -> {"none", "announced", "confirmed"}]
        /\ \A d \in Dates : actions'[d] # "none" => actions[d] # "none" \/ d = ingest.ex
        /\ \A d \in Dates : actions'[d] = "confirmed" => actions[d] = "confirmed"
    BY <1>2, <1>t DEF WriteAnnounced
  <2>3. ActionsTypeOK'
    BY <1>2, <2>1, <2>2 DEF WriteAnnounced, ActionsTypeOK, IngestRow
  <2>4. PastIsStored' /\ StepIsDated'
    BY <1>2 DEF WriteAnnounced, PastIsStored, StepIsDated
  <2>5. RowsAreDated'
    BY <1>2, <2>1, <2>2 DEF WriteAnnounced, RowsAreDated, Dated
  <2>6. ConfirmedParts'
    BY <1>2, <2>2 DEF WriteAnnounced, ConfirmedParts, Confirmed, PartsCloses
  <2> QED
    BY <2>3, <2>4, <2>5, <2>6
<1>3. CASE ReadUnconfirmed
  <2>1. /\ ingest' \in IngestRow /\ ingest'.ex = ingest.ex
        /\ \A d \in ingest'.todo : actions[d] = "announced"
    <3> DEFINE T == {ex \in Dates : actions[ex] = "announced" /\ ingest.ex # Never}
    <3>1. ingest' = [ingest EXCEPT !.pc = "confirm", !.todo = T]
      BY <1>3 DEF ReadUnconfirmed
    <3>2. T \in SUBSET Dates
      OBVIOUS
    <3>3. ingest' \in IngestRow
      BY <3>1, <3>2, <1>t, IngestRows
    <3>4. ingest'.ex = ingest.ex /\ ingest'.todo = T
      BY <3>1, <1>t DEF IngestRow
    <3> QED
      BY <3>3, <3>4
  <2>3. ActionsTypeOK'
    BY <1>3, <2>1 DEF ReadUnconfirmed, ActionsTypeOK, IngestRow
  <2>4. PastIsStored' /\ StepIsDated' /\ ConfirmedParts'
    BY <1>3 DEF ReadUnconfirmed, PastIsStored, StepIsDated, ConfirmedParts, Confirmed, PartsCloses
  <2>5. RowsAreDated'
    BY <1>3, <2>1 DEF ReadUnconfirmed, RowsAreDated, Dated
  <2> QED
    BY <2>3, <2>4, <2>5
<1>4. CASE confirmFromPrices
  <2>1. PICK ex \in ingest.todo :
          /\ actions' = IF Proved(ex) THEN [actions EXCEPT ![ex] = "confirmed"] ELSE actions
          /\ ingest' = [ingest EXCEPT !.todo = @ \ {ex}]
    BY <1>4 DEF confirmFromPrices
  <2>2. ex \in Dates
    BY <1>t DEF IngestRow
  <2>3. /\ ingest' \in IngestRow /\ ingest'.ex = ingest.ex /\ ingest'.todo = ingest.todo \ {ex}
    <3>1. ingest.todo \ {ex} \in SUBSET Dates
      BY <1>t DEF IngestRow
    <3>2. ingest' \in IngestRow
      BY <3>1, <1>t, <2>1, IngestRows
    <3>3. ingest'.ex = ingest.ex /\ ingest'.todo = ingest.todo \ {ex}
      BY <1>t, <2>1 DEF IngestRow
    <3> QED
      BY <3>2, <3>3
  <2>4. /\ actions' \in [Dates -> {"none", "announced", "confirmed"}]
        /\ \A d \in Dates : actions'[d] # "none" => actions[d] # "none" \/ d = ex
        /\ \A d \in Dates : actions'[d] = "confirmed" =>
              actions[d] = "confirmed" \/ (d = ex /\ Proved(ex))
    <3>1. CASE Proved(ex)
      BY <3>1, <1>t, <2>1, <2>2
    <3>2. CASE ~Proved(ex)
      BY <3>2, <1>t, <2>1, <2>2
    <3> QED
      BY <3>1, <3>2
  <2>5. ActionsTypeOK'
    BY <1>4, <2>3, <2>4 DEF confirmFromPrices, ActionsTypeOK, IngestRow
  <2>6. PastIsStored' /\ StepIsDated'
    BY <1>4 DEF confirmFromPrices, PastIsStored, StepIsDated
  <2>7. RowsAreDated'
    BY <1>4, <2>3, <2>4 DEF confirmFromPrices, RowsAreDated, Dated
  <2>8. ConfirmedParts'
    <3>1. Proved(ex) => PartsCloses(ex)
      BY <2>2, ProofParts DEF PastIsStored
    <3>2. \A d \in Dates : PartsCloses(d) => PartsCloses(d)'
      BY <1>4 DEF confirmFromPrices, PartsCloses
    <3> QED
      BY <2>4, <3>1, <3>2 DEF ConfirmedParts, Confirmed
  <2> QED
    BY <2>5, <2>6, <2>7, <2>8
<1>5. CASE FinishIngest \/ DieIngesting
  <2>1. ingest' = Waiting /\ ingest' \in IngestRow /\ ingest'.ex = Never /\ ingest'.todo = {}
    <3>1. ingest' = Waiting
      BY <1>5 DEF FinishIngest, DieIngesting
    <3>2. Waiting.ex = Never /\ Waiting.todo = {}
      BY DEF Waiting
    <3> QED
      BY <3>1, <3>2, IngestRows
  <2>2. deaths' \in 0..MaxDeaths
    <3>1. MaxDeaths \in Nat
      BY ActionsAssumption
    <3> QED
      BY <1>5, <1>t, <3>1 DEF FinishIngest, DieIngesting
  <2>3. UNCHANGED <<today, known, closure, moved, stepsAt, closes, gap, actions>>
    BY <1>5 DEF FinishIngest, DieIngesting
  <2>4. ActionsTypeOK'
    BY <2>1, <2>2, <2>3 DEF ActionsTypeOK, IngestRow
  <2>5. PastIsStored' /\ StepIsDated' /\ ConfirmedParts'
    BY <2>3 DEF PastIsStored, StepIsDated, ConfirmedParts, Confirmed, PartsCloses
  <2>6. RowsAreDated'
    BY <2>1, <2>3, <1>0 DEF RowsAreDated, Dated
  <2> QED
    BY <2>4, <2>5, <2>6
<1>6. CASE PassDay
  <2>1. /\ today' = today + 1 /\ today' \in Dates /\ today \in Dates
        /\ closes' \subseteq closes \cup {today} /\ closes \subseteq closes'
        /\ closes' \subseteq Dates \ Closed /\ gap' \in BOOLEAN
        /\ ~gap' => ~gap /\ (today \notin Closed => today \in closes')
        /\ UNCHANGED <<known, closure, moved, stepsAt, actions, ingest, deaths>>
    <3>1. today \in Dates /\ closes \subseteq Dates \ Closed /\ gap \in BOOLEAN
      BY DEF ActionsTypeOK
    <3>2. today' = today + 1 /\ today' \in Dates
      BY <1>6, <1>0 DEF PassDay, Dates
    <3>3. CASE today \in Closed
      BY <1>6, <3>1, <3>2, <3>3 DEF PassDay
    <3>4. CASE today \notin Closed
      BY <1>6, <3>1, <3>2, <3>4 DEF PassDay
    <3> QED
      BY <3>3, <3>4
  <2>2. ActionsTypeOK'
    BY <2>1 DEF ActionsTypeOK
  <2>3. PastIsStored'
    <3>1. \A d \in closes' : d < today'
      BY <2>1, <1>0 DEF PastIsStored
    <3>2. ASSUME ~gap', NEW d \in Dates \ Closed, d < today' PROVE d \in closes'
      <4>1. CASE d = today
        BY <4>1, <3>2, <2>1
      <4>2. CASE d # today
        <5>1. d < today
          BY <4>2, <3>2, <2>1, <1>0
        <5> QED
          BY <5>1, <3>2, <2>1 DEF PastIsStored
      <4> QED
        BY <4>1, <4>2
    <3> QED
      BY <3>1, <3>2 DEF PastIsStored, Dates, Closed
  <2>4. StepIsDated' /\ RowsAreDated'
    BY <2>1 DEF StepIsDated, RowsAreDated, Dated
  <2>5. ConfirmedParts'
    <3>1. \A ex \in Dates : PartsCloses(ex) => PartsCloses(ex)'
      BY <2>1, <1>0 DEF PartsCloses
    <3> QED
      BY <2>1, <3>1 DEF ConfirmedParts, Confirmed
  <2> QED
    BY <2>2, <2>3, <2>4, <2>5
<1>7. CASE LearnHoliday
  <2>1. /\ known' \in SUBSET Holidays
        /\ UNCHANGED <<today, closure, moved, stepsAt, closes, gap, actions, ingest, deaths>>
    BY <1>7, <1>t DEF LearnHoliday
  <2>2. ActionsTypeOK'
    BY <2>1 DEF ActionsTypeOK
  <2>3. PastIsStored' /\ StepIsDated' /\ RowsAreDated' /\ ConfirmedParts'
    BY <2>1 DEF PastIsStored, StepIsDated, RowsAreDated, Dated, ConfirmedParts, Confirmed, PartsCloses
  <2> QED
    BY <2>2, <2>3
<1>8. CASE MoveClosure
  <2>1. PICK c \in Closures :
          /\ exDateFor(c, Holidays) \in Dates
          /\ closure' = c /\ moved' = TRUE
          /\ stepsAt' = IF stepsAt = Never THEN Never ELSE exDateFor(c, Holidays)
    BY <1>8 DEF MoveClosure
  <2>2. /\ today < stepsAt
        /\ UNCHANGED <<today, known, closes, gap, actions, ingest, deaths>>
    BY <1>8 DEF MoveClosure
  <2>3. stepsAt' \in Dates \cup {Never} /\ (stepsAt' # Never => stepsAt' \notin Closed)
    <3>1. exDateFor(c, Holidays) # Never /\ c \in 1..LastDay
      BY <2>1, <1>0, <1>c
    <3>2. exDateFor(c, Holidays) \notin Closed
      BY <3>1, ExDateIsATradingDay DEF Closed
    <3> QED
      BY <2>1, <3>2
  <2>4. Confirmed = {}
    BY <2>2, <1>0 DEF ConfirmedParts, PartsCloses
  <2>5. ActionsTypeOK'
    BY <2>1, <2>2, <2>3 DEF ActionsTypeOK
  <2>6. PastIsStored' /\ RowsAreDated'
    BY <2>1, <2>2 DEF PastIsStored, RowsAreDated, Dated
  <2>7. StepIsDated'
    BY <2>1, <2>3 DEF StepIsDated
  <2>8. ConfirmedParts'
    BY <2>2, <2>4 DEF ConfirmedParts, Confirmed
  <2> QED
    BY <2>5, <2>6, <2>7, <2>8
<1>9. CASE LeaveRegister
  <2>1. /\ closure' = Never
        /\ UNCHANGED <<today, known, moved, stepsAt, closes, gap, actions, ingest, deaths>>
    BY <1>9 DEF LeaveRegister
  <2>2. ActionsTypeOK'
    BY <2>1 DEF ActionsTypeOK
  <2>3. PastIsStored' /\ StepIsDated' /\ RowsAreDated' /\ ConfirmedParts'
    <3>1. Never' = Never
      BY DEF Never
    <3> QED
      BY <2>1, <3>1 DEF PastIsStored, StepIsDated, RowsAreDated, Dated, ConfirmedParts, Confirmed, PartsCloses
  <2> QED
    BY <2>2, <2>3
<1>10. CASE UNCHANGED actionVars
  BY <1>10 DEF actionVars, ActionsTypeOK, PastIsStored, StepIsDated, RowsAreDated, Dated,
               ConfirmedParts, Confirmed, PartsCloses
<1> QED
  BY <1>1, <1>2, <1>3, <1>4, <1>5, <1>6, <1>7, <1>8, <1>9, <1>10 DEF NextActions, PassSteps

\* The invariant holds throughout.
LEMMA ActionsInvAlways == ActionsSpec => []ActionsInv
<1> QED
  BY ActionStarts, ActionStep, PTL DEF ActionsSpec

\* Whatever is confirmed is the day of the step.
LEMMA ConfirmedIsTheStep ==
    ASSUME ActionsInv, ~gap, ~Misdated, NEW ex \in Confirmed PROVE ex = stepsAt
<1> USE DEF ActionsInv
<1>1. /\ ex \in Nat /\ stepsAt \in Nat /\ stepsAt \in Dates \ Closed /\ ex \in Dates
      /\ PartsCloses(ex) /\ Dated(ex) /\ today \in Dates /\ actions[ex] = "confirmed"
  <2>1. ex \in Dates /\ actions[ex] = "confirmed" /\ PartsCloses(ex)
    BY DEF Confirmed, ConfirmedParts
  <2>2. stepsAt # Never
    BY <2>1, ActionNumbers DEF PartsCloses, ActionsTypeOK, Never, Dates
  <2>3. stepsAt \in Dates \ Closed /\ today \in Dates
    BY <2>2 DEF ActionsTypeOK, StepIsDated
  <2>4. Dated(ex)
    BY <2>1 DEF RowsAreDated
  <2> QED
    BY <2>1, <2>3, <2>4, ActionNumbers
<1>2. stepsAt \in closes
  BY <1>1 DEF PastIsStored, PartsCloses
<1>3. ex <= stepsAt
  BY <1>1, <1>2 DEF PartsCloses
<1>4. stepsAt <= ex
  <2>1. CASE ~moved
    <3>1. stepsAt # Never
      BY <1>1, ActionNumbers DEF Never, Dates
    <3> QED
      BY <1>1, <2>1, <3>1 DEF Dated
  <2>2. CASE moved
    <3>1. ex \notin Closed
      BY <1>1, <2>2 DEF Misdated, Dated, Closed
    <3>2. ex \in closes
      BY <1>1, <3>1 DEF PastIsStored, PartsCloses
    <3> QED
      BY <1>1, <3>2 DEF PartsCloses
  <2> QED
    BY <2>1, <2>2
<1> QED
  BY <1>1, <1>3, <1>4

\* Every close is divided by no event, or by one.
LEMMA OneFactor ==
    ASSUME ActionsInv, ~gap, ~Misdated, Confirmed # {}, NEW d \in closes
    PROVE  factorAt(d) = (IF d < stepsAt THEN 1 ELSE 0)
<1>1. Confirmed = {stepsAt}
  BY ConfirmedIsTheStep
<1>2. d \in Nat /\ stepsAt \in Nat
  BY ActionNumbers DEF ActionsInv
<1>3. CASE d < stepsAt
  <2>1. {ex \in Confirmed : ex > d} = {stepsAt}
    BY <1>1, <1>2, <1>3
  <2> QED
    BY <1>3, <2>1, FS_Singleton DEF factorAt
<1>4. CASE ~(d < stepsAt)
  <2>1. {ex \in Confirmed : ex > d} = {}
    BY <1>1, <1>2, <1>4
  <2> QED
    BY <1>4, <2>1, FS_EmptySet DEF factorAt
<1> QED
  BY <1>3, <1>4

\* The register, the closes and the ingest keep their types.
THEOREM ActionTypes == ActionsSpec => []ActionsTypeOK
<1>1. ActionsInv => ActionsTypeOK
  BY DEF ActionsInv
<1> QED
  BY <1>1, ActionsInvAlways, PTL

\* A close is served as the tape stored it, or brought down by the one factor of the
\* event's step, whatever was ingested twice, moved or confirmed late.
THEOREM AdjustedHolds == ActionsSpec => []AdjustedIsRawOrFlat
<1>1. ActionsInv => AdjustedIsRawOrFlat
  BY OneFactor DEF AdjustedIsRawOrFlat
<1> QED
  BY <1>1, ActionsInvAlways, PTL

(***************************************************************************)
(* The write-ups.                                                          *)
(***************************************************************************)
Profile == [text : Nat, products : Seq(Products)]
LoadStates ==
    [at : {"idle", "file", "found", "done", "failed"}, folder : Seq(WriteUps),
     next : Nat \ {0}, failed : SUBSET WriteUps, skipped : SUBSET WrittenUp,
     attempt : Nat, touched : SUBSET WrittenUp]

ProfilesFit ==
    /\ companies \in SUBSET WrittenUp /\ profiles \in [WrittenUp -> Profile]
    /\ folder \in Releases /\ loads \in 0..MaxLoads
    /\ loader \in [Loaders -> LoadStates]

\* A loader reads a folder of some deploy, and the file it has found a symbol for is a
\* good one.
LoadsAreOfReleases ==
    \A l \in Loaders :
        /\ loader[l].folder \in Releases \cup {<<>>}
        /\ loader[l].at = "found" =>
              loader[l].next \in DOMAIN loader[l].folder /\ profileSchema(Here(l))
        /\ loader[l].at = "done" =>
              loader[l].next > Len(loader[l].folder) /\ loader[l].failed = {}

\* A profile is of a tracked symbol, and is a good file of some deploy.
ProfileIsAFile(s) ==
    profiles[s] # NoProfile =>
        /\ s \in companies
        /\ \E files \in Releases : \E i \in DOMAIN files :
              files[i].symbol = s /\ profileSchema(files[i]) /\ profiles[s] = Stored(files[i])

\* What a loader has done with a file it is past.
PassedIsDone(l, i) ==
    LET file == loader[l].folder[i] IN
    \/ file \in loader[l].failed
    \/ /\ profileSchema(file)
       /\ file.symbol \notin loader[l].touched =>
             profiles[file.symbol] = IF file.symbol \in companies THEN Stored(file) ELSE NoProfile

\* The inductive invariant of the write-ups.
ProfilesInv ==
    /\ ProfilesFit /\ LoadsAreOfReleases
    /\ \A s \in WrittenUp : ProfileIsAFile(s)
    /\ \A l \in Loaders : \A i \in DOMAIN loader[l].folder :
          i < loader[l].next => PassedIsDone(l, i)

\* A file of a folder is a write-up, of one symbol.
LEMMA FilesOfReleases ==
    ASSUME NEW files \in Releases \cup {<<>>}
    PROVE  /\ files \in Seq(WriteUps) /\ Len(files) \in Nat /\ DOMAIN files = 1..Len(files)
           /\ \A i \in DOMAIN files :
                 files[i] \in WriteUps /\ files[i].symbol \in WrittenUp /\ Stored(files[i]) \in Profile
           /\ \A i, j \in DOMAIN files : files[i].symbol = files[j].symbol => i = j
<1>1. files \in Seq(WriteUps)
  <2>1. CASE files = <<>>  BY <2>1
  <2>2. CASE files \in Releases  BY <2>2, ProfileAssumption
  <2>. QED  BY <2>1, <2>2
<1>2. \A i \in DOMAIN files : files[i] \in WriteUps
  BY <1>1
<1>3. \A i \in DOMAIN files : files[i].symbol \in WrittenUp /\ Stored(files[i]) \in Profile
  BY <1>2 DEF WriteUps, Stored, Profile
<1>4. \A i, j \in DOMAIN files : files[i].symbol = files[j].symbol => i = j
  BY ProfileAssumption
<1>. QED  BY <1>1, <1>2, <1>3, <1>4

LEMMA ProfilesStart == InitProfiles => ProfilesInv
<1>. SUFFICES ASSUME InitProfiles PROVE ProfilesInv
  OBVIOUS
<1>. USE DEF InitProfiles, NoLoad, Begun
<1>1. ProfilesFit
  <2>1. NoProfile \in Profile
    BY DEF NoProfile, Profile
  <2>2. NoLoad \in LoadStates
    BY DEF LoadStates
  <2>3. companies \in SUBSET WrittenUp /\ profiles \in [WrittenUp -> Profile]
    BY <2>1
  <2>. QED  BY <2>2, <2>3, ProfileAssumption DEF ProfilesFit
<1>2. \A l \in Loaders : loader[l].folder = <<>> /\ loader[l].at = "idle"
  OBVIOUS
<1>. QED  BY <1>1, <1>2 DEF ProfilesInv, LoadsAreOfReleases, ProfileIsAFile

\* Where nothing but a loader's own state moves.
LEMMA OneLoaderMoves ==
    ASSUME ProfilesInv, NEW l \in Loaders, NEW new \in LoadStates,
           loader' = [loader EXCEPT ![l] = new],
           UNCHANGED <<companies, profiles, folder>>, loads' \in 0..MaxLoads,
           new.folder \in Releases \cup {<<>>},
           new.at = "found" =>
              new.next \in DOMAIN new.folder /\ profileSchema(new.folder[new.next]),
           new.at = "done" => new.next > Len(new.folder) /\ new.failed = {},
           \A i \in DOMAIN new.folder : i < new.next => PassedIsDone(l, i)'
    PROVE  ProfilesInv'
<1>. USE DEF ProfilesInv
<1>1. ProfilesFit'
  BY DEF ProfilesFit
<1>2. loader'[l] = new /\ \A o \in Loaders \ {l} : loader'[o] = loader[o]
  BY DEF ProfilesFit
<1>3. LoadsAreOfReleases'
  BY <1>2 DEF LoadsAreOfReleases, Here
<1>4. \A s \in WrittenUp : ProfileIsAFile(s)'
  BY DEF ProfileIsAFile
<1>5. ASSUME NEW o \in Loaders, NEW i \in DOMAIN loader'[o].folder, i < loader'[o].next
      PROVE  PassedIsDone(o, i)'
  <2>1. CASE o = l
    BY <1>2, <1>5, <2>1
  <2>2. CASE o # l
    BY <1>2, <1>5, <2>2 DEF PassedIsDone
  <2>. QED  BY <2>1, <2>2
<1>. QED  BY <1>1, <1>3, <1>4, <1>5

LEMMA LoadKeeps == ASSUME ProfilesInv, NEW l \in Loaders, Load(l) PROVE ProfilesInv'
<1>. DEFINE new == Begun("file", folder, 1)
<1>1. new = [at |-> "file", folder |-> folder, next |-> 1, failed |-> {}, skipped |-> {},
             attempt |-> 1, touched |-> {}]
  BY DEF Begun
<1>2. folder \in Releases /\ folder \in Seq(WriteUps) /\ Len(folder) \in Nat
  BY FilesOfReleases DEF ProfilesInv, ProfilesFit
<1>3. new \in LoadStates
  BY <1>1, <1>2 DEF LoadStates
<1>4. \A i \in DOMAIN new.folder : ~(i < new.next)
  BY <1>1, <1>2
<1>5. loader' = [loader EXCEPT ![l] = new] /\ UNCHANGED <<companies, profiles, folder>>
  BY DEF Load
<1>6. loads' \in 0..MaxLoads
  BY ProfileAssumption DEF Load, Bound, ProfilesInv, ProfilesFit
<1>7. new.folder \in Releases /\ new.at = "file"
  BY <1>1, <1>2
<1>. HIDE DEF new
<1>. QED  BY <1>3, <1>4, <1>5, <1>6, <1>7, OneLoaderMoves

LEMMA RetryLoadKeeps == ASSUME ProfilesInv, NEW l \in Loaders, RetryLoad(l) PROVE ProfilesInv'
<1>. DEFINE new == Begun("file", folder, loader[l].attempt + 1)
<1>1. new = [at |-> "file", folder |-> folder, next |-> 1, failed |-> {}, skipped |-> {},
             attempt |-> loader[l].attempt + 1, touched |-> {}]
  BY DEF Begun
<1>2. folder \in Releases /\ folder \in Seq(WriteUps) /\ Len(folder) \in Nat
  BY FilesOfReleases DEF ProfilesInv, ProfilesFit
<1>3. loader[l].attempt + 1 \in Nat
  BY DEF ProfilesInv, ProfilesFit, LoadStates
<1>4. new \in LoadStates
  BY <1>1, <1>2, <1>3 DEF LoadStates
<1>5. \A i \in DOMAIN new.folder : ~(i < new.next)
  BY <1>1, <1>2
<1>6. loader' = [loader EXCEPT ![l] = new] /\ UNCHANGED <<companies, profiles, folder>>
  BY DEF RetryLoad
<1>7. loads' \in 0..MaxLoads
  BY DEF RetryLoad, ProfilesInv, ProfilesFit
<1>8. new.folder \in Releases /\ new.at = "file"
  BY <1>1, <1>2
<1>. HIDE DEF new
<1>. QED  BY <1>4, <1>5, <1>6, <1>7, <1>8, OneLoaderMoves

LEMMA DieLoadingKeeps == ASSUME ProfilesInv, NEW l \in Loaders, DieLoading(l) PROVE ProfilesInv'
<1>. DEFINE new == NoLoad
<1>1. new \in LoadStates /\ new.folder = <<>> /\ new.at = "idle" /\ DOMAIN new.folder = {}
  BY DEF NoLoad, Begun, LoadStates
<1>2. loader' = [loader EXCEPT ![l] = new] /\ UNCHANGED <<companies, profiles, folder>>
  BY DEF DieLoading
<1>3. loads' \in 0..MaxLoads
  BY DEF DieLoading, ProfilesInv, ProfilesFit
<1>. HIDE DEF new
<1>. QED  BY <1>1, <1>2, <1>3, OneLoaderMoves

LEMMA FinishLoadKeeps == ASSUME ProfilesInv, NEW l \in Loaders, FinishLoad(l) PROVE ProfilesInv'
<1>. DEFINE new == [loader[l] EXCEPT !.at = IF loader[l].failed = {} THEN "done" ELSE "failed"]
<1>1. loader[l] \in LoadStates
  BY DEF ProfilesInv, ProfilesFit
<1>2. /\ new \in LoadStates /\ new.folder = loader[l].folder /\ new.next = loader[l].next
      /\ new.failed = loader[l].failed /\ new.at # "found"
      /\ new.at = "done" => loader[l].failed = {}
      /\ new.touched = loader[l].touched
  BY <1>1 DEF LoadStates
<1>3. loader' = [loader EXCEPT ![l] = new] /\ UNCHANGED <<companies, profiles, folder>>
  BY DEF FinishLoad
<1>4. loads' \in 0..MaxLoads /\ loader[l].next > Len(loader[l].folder)
  BY DEF FinishLoad, ProfilesInv, ProfilesFit
<1>5. loader[l].folder \in Releases \cup {<<>>}
  BY DEF ProfilesInv, LoadsAreOfReleases
<1>. HIDE DEF new
<1>6. loader'[l] = new
  BY <1>3 DEF ProfilesInv, ProfilesFit
<1>7. ASSUME NEW i \in DOMAIN new.folder, i < new.next PROVE PassedIsDone(l, i)'
  <2>1. PassedIsDone(l, i)
    BY <1>2, <1>7 DEF ProfilesInv
  <2>. QED  BY <1>2, <1>3, <1>6, <2>1 DEF PassedIsDone
<1>. QED  BY <1>2, <1>3, <1>4, <1>5, <1>7, OneLoaderMoves

\* The load q is r past its file, with what failed until there.
Past(q, r, bad) ==
    /\ q \in LoadStates /\ q.at = "file" /\ q.folder = r.folder /\ q.next = r.next + 1
    /\ q.failed = bad /\ q.touched = r.touched
LEMMA PastFields ==
    ASSUME NEW r \in LoadStates, NEW bad \in SUBSET WriteUps, NEW unknown \in SUBSET WrittenUp
    PROVE  /\ r.at = "file" => Past([r EXCEPT !.failed = bad, !.next = r.next + 1], r, bad)
           /\ r.at = "file" => Past([r EXCEPT !.skipped = unknown, !.next = r.next + 1], r, r.failed)
           /\ Past([r EXCEPT !.at = "file", !.next = r.next + 1, !.failed = bad], r, bad)
           /\ Past([r EXCEPT !.at = "file", !.next = r.next + 1], r, r.failed)
<1>. DEFINE n == r.next + 1
<1>n. n \in Nat \ {0}
  BY DEF LoadStates
<1>. HIDE DEF n
<1>1. ASSUME r.at = "file" PROVE Past([r EXCEPT !.failed = bad, !.next = n], r, bad)
  <2>. DEFINE q == [r EXCEPT !.failed = bad, !.next = n]
  <2>1. q \in LoadStates
    BY <1>n DEF LoadStates
  <2>2. q.at = r.at /\ q.folder = r.folder
    BY DEF LoadStates
  <2>3. q.next = n /\ q.failed = bad
    BY DEF LoadStates
  <2>4. q.touched = r.touched
    BY DEF LoadStates
  <2>. HIDE DEF q
  <2>. QED  BY <1>1, <2>1, <2>2, <2>3, <2>4 DEF Past, q, n
<1>2. ASSUME r.at = "file" PROVE Past([r EXCEPT !.skipped = unknown, !.next = n], r, r.failed)
  <2>. DEFINE q == [r EXCEPT !.skipped = unknown, !.next = n]
  <2>1. q \in LoadStates
    BY <1>n DEF LoadStates
  <2>2. q.at = r.at /\ q.folder = r.folder
    BY DEF LoadStates
  <2>3. q.next = n
    BY DEF LoadStates
  <2>4. q.touched = r.touched /\ q.failed = r.failed
    BY DEF LoadStates
  <2>. HIDE DEF q
  <2>. QED  BY <1>2, <2>1, <2>2, <2>3, <2>4 DEF Past, q, n
<1>3. Past([r EXCEPT !.at = "file", !.next = n, !.failed = bad], r, bad)
  <2>. DEFINE q == [r EXCEPT !.at = "file", !.next = n, !.failed = bad]
  <2>1. q \in LoadStates
    BY <1>n DEF LoadStates
  <2>2. q.at = "file" /\ q.folder = r.folder
    BY DEF LoadStates
  <2>3. q.next = n /\ q.failed = bad
    BY DEF LoadStates
  <2>4. q.touched = r.touched
    BY DEF LoadStates
  <2>. HIDE DEF q
  <2>. QED  BY <2>1, <2>2, <2>3, <2>4 DEF Past, q, n
<1>4. Past([r EXCEPT !.at = "file", !.next = n], r, r.failed)
  <2>. DEFINE q == [r EXCEPT !.at = "file", !.next = n]
  <2>1. q \in LoadStates
    BY <1>n DEF LoadStates
  <2>2. q.at = "file" /\ q.folder = r.folder
    BY DEF LoadStates
  <2>3. q.next = n /\ q.failed = r.failed
    BY DEF LoadStates
  <2>4. q.touched = r.touched
    BY DEF LoadStates
  <2>. HIDE DEF q
  <2>. QED  BY <2>1, <2>2, <2>3, <2>4 DEF Past, q, n
<1>. QED  BY <1>1, <1>2, <1>3, <1>4 DEF n

\* The load q is r, with a symbol somebody else has written or changed.
Touched(q, r, s) ==
    /\ q \in LoadStates /\ q.at = r.at /\ q.folder = r.folder /\ q.next = r.next
    /\ q.failed = r.failed /\ q.touched = r.touched \cup {s}
LEMMA TouchedFields ==
    ASSUME NEW r \in LoadStates, NEW s \in WrittenUp
    PROVE  Touched([r EXCEPT !.touched = r.touched \cup {s}], r, s)
<1>. DEFINE more == r.touched \cup {s}
            q == [r EXCEPT !.touched = more]
<1>1. more \in SUBSET WrittenUp
  BY DEF LoadStates
<1>. HIDE DEF more
<1>2. q \in LoadStates
  BY <1>1 DEF LoadStates
<1>3. q.at = r.at /\ q.folder = r.folder /\ q.next = r.next /\ q.failed = r.failed
  BY DEF LoadStates
<1>4. q.touched = more
  BY DEF LoadStates
<1>. HIDE DEF q
<1>. QED  BY <1>2, <1>3, <1>4 DEF Touched, q, more

\* A file noted as a bad one, or passed as it is to be.
LEMMA PassFile ==
    ASSUME ProfilesInv, NEW l \in Loaders, NEW bad, NEW new, Past(new, loader[l], bad),
           loader[l].next \in DOMAIN loader[l].folder,
           loader' = [loader EXCEPT ![l] = new],
           UNCHANGED <<companies, profiles, folder, loads>>,
           loader[l].failed \subseteq bad,
           \/ Here(l) \in bad
           \/ profileSchema(Here(l)) /\ Here(l).symbol \notin companies
    PROVE  ProfilesInv'
<1>0. /\ new \in LoadStates /\ new.at = "file" /\ new.folder = loader[l].folder
      /\ new.next = loader[l].next + 1 /\ new.touched = loader[l].touched /\ new.failed = bad
  BY DEF Past
<1>1. loader[l] \in LoadStates /\ loads' \in 0..MaxLoads /\ loader'[l] = new
  BY DEF ProfilesInv, ProfilesFit
<1>2. loader[l].folder \in Releases \cup {<<>>}
  BY DEF ProfilesInv, LoadsAreOfReleases
<1>3. /\ loader[l].next \in Nat /\ DOMAIN loader[l].folder \subseteq Nat
      /\ Here(l).symbol \in WrittenUp
  BY <1>1, <1>2, FilesOfReleases DEF LoadStates, Here
<1>4. ASSUME NEW i \in DOMAIN new.folder, i < new.next PROVE PassedIsDone(l, i)'
  <2>1. CASE i = loader[l].next
    <3>1. CASE Here(l) \in bad
      BY <1>0, <1>1, <2>1, <3>1 DEF PassedIsDone, Here
    <3>2. CASE profileSchema(Here(l)) /\ Here(l).symbol \notin companies
      <4>1. profiles[Here(l).symbol] = NoProfile
        BY <1>3, <3>2 DEF ProfilesInv, ProfileIsAFile
      <4>. QED  BY <1>0, <1>1, <2>1, <3>2, <4>1 DEF PassedIsDone, Here
    <3>. QED  BY <3>1, <3>2
  <2>2. CASE i # loader[l].next
    <3>1. PassedIsDone(l, i)
      BY <1>0, <1>3, <1>4, <2>2 DEF ProfilesInv
    <3>. QED  BY <1>0, <1>1, <3>1 DEF PassedIsDone
  <2>. QED  BY <2>1, <2>2
<1>. QED  BY <1>0, <1>1, <1>2, <1>4, OneLoaderMoves

LEMMA ReadFileKeeps == ASSUME ProfilesInv, NEW l \in Loaders, ReadFile(l) PROVE ProfilesInv'
<1>1. /\ loader[l] \in LoadStates /\ loader[l].at = "file"
      /\ UNCHANGED <<companies, profiles, folder, loads>>
  BY DEF ProfilesInv, ProfilesFit, ReadFile
<1>2. loader[l].folder \in Releases \cup {<<>>}
  BY DEF ProfilesInv, LoadsAreOfReleases
<1>3. loader[l].next \in DOMAIN loader[l].folder
  BY <1>1, <1>2, FilesOfReleases DEF ReadFile, LoadStates
<1>4. Here(l) \in WriteUps /\ Here(l).symbol \in WrittenUp
  BY <1>2, <1>3, FilesOfReleases DEF Here
<1>5. CASE ~profileSchema(Here(l))
  <2>. DEFINE bad == loader[l].failed \cup {Here(l)}
              new == [loader[l] EXCEPT !.failed = bad, !.next = loader[l].next + 1]
  <2>1. loader' = [loader EXCEPT ![l] = new]
    BY <1>5 DEF ReadFile
  <2>2. bad \in SUBSET WriteUps
    BY <1>1, <1>4 DEF LoadStates
  <2>3. Past(new, loader[l], bad)
    BY <1>1, <2>2, PastFields
  <2>. HIDE DEF new
  <2>. QED  BY <1>1, <1>3, <2>1, <2>3, PassFile
<1>6. CASE profileSchema(Here(l)) /\ Here(l).symbol \notin companies
  <2>. DEFINE more == loader[l].skipped \cup {Here(l).symbol}
              new == [loader[l] EXCEPT !.skipped = more, !.next = loader[l].next + 1]
  <2>1. loader' = [loader EXCEPT ![l] = new]
    BY <1>6 DEF ReadFile
  <2>2. more \in SUBSET WrittenUp /\ loader[l].failed \in SUBSET WriteUps
    BY <1>1, <1>4 DEF LoadStates
  <2>3. Past(new, loader[l], loader[l].failed)
    BY <1>1, <2>2, PastFields
  <2>. HIDE DEF new
  <2>. QED  BY <1>1, <1>3, <1>6, <2>1, <2>3, PassFile
<1>7. CASE profileSchema(Here(l)) /\ Here(l).symbol \in companies
  <2>. DEFINE new == [loader[l] EXCEPT !.at = "found"]
  <2>1. loader' = [loader EXCEPT ![l] = new]
    BY <1>7 DEF ReadFile
  <2>2. /\ new \in LoadStates /\ new.at = "found" /\ new.folder = loader[l].folder
        /\ new.next = loader[l].next /\ new.touched = loader[l].touched
        /\ new.failed = loader[l].failed
    BY <1>1 DEF LoadStates
  <2>. HIDE DEF new
  <2>3. loader'[l] = new /\ loads' \in 0..MaxLoads
    BY <1>1, <2>1 DEF ProfilesInv, ProfilesFit
  <2>4. ASSUME NEW i \in DOMAIN new.folder, i < new.next PROVE PassedIsDone(l, i)'
    <3>1. PassedIsDone(l, i)
      BY <2>2, <2>4 DEF ProfilesInv
    <3>. QED  BY <1>1, <2>2, <2>3, <3>1 DEF PassedIsDone
  <2>5. new.next \in DOMAIN new.folder /\ profileSchema(new.folder[new.next])
    BY <1>3, <1>7, <2>2 DEF Here
  <2>. QED  BY <1>1, <1>2, <2>1, <2>2, <2>3, <2>4, <2>5, OneLoaderMoves
<1>. QED  BY <1>5, <1>6, <1>7

\* What a step at a file that was found notes as failed.
LEMMA FailFound ==
    ASSUME ProfilesInv, NEW l \in Loaders, loader[l].at = "found",
           loader' = [loader EXCEPT ![l].at = "file", ![l].next = @ + 1,
                                    ![l].failed = @ \cup {Here(l)}],
           UNCHANGED <<companies, profiles, folder, loads>>
    PROVE  ProfilesInv'
<1>. DEFINE bad == loader[l].failed \cup {Here(l)}
            new == [loader[l] EXCEPT !.at = "file", !.next = loader[l].next + 1, !.failed = bad]
<1>1. loader[l] \in LoadStates
  BY DEF ProfilesInv, ProfilesFit
<1>2. loader[l].next \in DOMAIN loader[l].folder /\ loader[l].folder \in Releases \cup {<<>>}
  BY DEF ProfilesInv, LoadsAreOfReleases
<1>3. Here(l) \in WriteUps
  BY <1>2, FilesOfReleases DEF Here
<1>4. bad \in SUBSET WriteUps
  BY <1>1, <1>3 DEF LoadStates
<1>5. Past(new, loader[l], bad)
  BY <1>1, <1>4, PastFields
<1>6. loader' = [loader EXCEPT ![l] = new]
  OBVIOUS
<1>. HIDE DEF new
<1>. QED  BY <1>1, <1>2, <1>5, <1>6, PassFile

\* The profile written is the file's; the other loaders know of it, and no other file of
\* the folder is of its symbol.
LEMMA WriteProfileKeeps == ASSUME ProfilesInv, NEW l \in Loaders, WriteProfile(l) PROVE ProfilesInv'
<1>1. CASE Here(l).symbol \notin companies
  BY <1>1, FailFound DEF WriteProfile
<1>2. CASE Here(l).symbol \in companies
  <2>. DEFINE file == Here(l)
  <2>1. /\ profiles' = [profiles EXCEPT ![file.symbol] = Stored(file)]
        /\ loader' = [o \in Loaders |->
              IF o = l THEN [loader[l] EXCEPT !.at = "file", !.next = @ + 1]
              ELSE [loader[o] EXCEPT !.touched = @ \cup {file.symbol}]]
        /\ UNCHANGED <<companies, folder, loads>>
    BY <1>2 DEF WriteProfile
  <2>2. /\ loader[l].next \in DOMAIN loader[l].folder /\ profileSchema(file)
        /\ loader[l].folder \in Releases \cup {<<>>}
    BY DEF ProfilesInv, LoadsAreOfReleases, WriteProfile
  <2>3. file \in WriteUps /\ file.symbol \in WrittenUp /\ Stored(file) \in Profile
    BY <2>2, FilesOfReleases DEF Here
  <2>4. \A o \in Loaders : loader[o] \in LoadStates /\ loader[o].folder \in Releases \cup {<<>>}
    BY DEF ProfilesInv, ProfilesFit, LoadsAreOfReleases
  <2>a. \A o \in Loaders \ {l} : Touched(loader'[o], loader[o], file.symbol)
    <3>1. \A o \in Loaders \ {l} :
             loader'[o] = [loader[o] EXCEPT !.touched = loader[o].touched \cup {file.symbol}]
      BY <2>1
    <3>. HIDE DEF file
    <3>2. ASSUME NEW o \in Loaders \ {l} PROVE Touched(loader'[o], loader[o], file.symbol)
      <4>1. /\ loader'[o] = [loader[o] EXCEPT !.touched = loader[o].touched \cup {file.symbol}]
            /\ loader[o] \in LoadStates
        BY <2>4, <3>1
      <4>2. Touched([loader[o] EXCEPT !.touched = loader[o].touched \cup {file.symbol}],
                    loader[o], file.symbol)
        BY <2>3, <4>1, TouchedFields
      <4>. QED  BY <4>1, <4>2
    <3>. QED  BY <3>2
  <2>b. Past(loader'[l], loader[l], loader[l].failed)
    <3>1. loader'[l] = [loader[l] EXCEPT !.at = "file", !.next = loader[l].next + 1]
      BY <2>1
    <3>2. loader[l].failed \in SUBSET WriteUps /\ {} \in SUBSET WrittenUp
      BY <2>4 DEF LoadStates
    <3>3. Past([loader[l] EXCEPT !.at = "file", !.next = loader[l].next + 1], loader[l],
               loader[l].failed)
      BY <2>4, <3>2, PastFields
    <3>. QED  BY <3>1, <3>3
  <2>. HIDE DEF file
  <2>5. \A o \in Loaders : /\ loader'[o] \in LoadStates /\ loader'[o].folder = loader[o].folder
                           /\ loader'[o].failed = loader[o].failed
    BY <2>a, <2>b DEF Past, Touched
  <2>6. \A o \in Loaders \ {l} : /\ loader'[o].at = loader[o].at /\ loader'[o].next = loader[o].next
                                 /\ loader'[o].touched = loader[o].touched \cup {file.symbol}
    BY <2>a DEF Touched
  <2>7. /\ loader'[l].at = "file" /\ loader'[l].next = loader[l].next + 1
        /\ loader'[l].touched = loader[l].touched
    BY <2>b DEF Past
  <2>8. ProfilesFit'
    <3>1. loader' \in [Loaders -> LoadStates]
      BY <2>1, <2>5
    <3>2. profiles' \in [WrittenUp -> Profile]
      BY <2>1, <2>3 DEF ProfilesInv, ProfilesFit
    <3>. QED  BY <2>1, <3>1, <3>2 DEF ProfilesInv, ProfilesFit
  <2>9. LoadsAreOfReleases'
    BY <2>4, <2>5, <2>6, <2>7 DEF ProfilesInv, LoadsAreOfReleases, Here
  <2>10. ASSUME NEW s \in WrittenUp PROVE ProfileIsAFile(s)'
    <3>1. CASE s = file.symbol
      <4>1. profiles'[s] = Stored(file)
        BY <2>1, <2>3, <3>1 DEF ProfilesInv, ProfilesFit
      <4>2. loader[l].folder \in Releases
        BY <2>2
      <4>. QED  BY <1>2, <2>1, <2>2, <3>1, <4>1, <4>2 DEF ProfileIsAFile, Here, file
    <3>2. CASE s # file.symbol
      BY <2>1, <3>2 DEF ProfilesInv, ProfilesFit, ProfileIsAFile
    <3>. QED  BY <3>1, <3>2
  <2>11. \A s \in WrittenUp : profiles'[s] = IF s = file.symbol THEN Stored(file) ELSE profiles[s]
    BY <2>1 DEF ProfilesInv, ProfilesFit
  <2>12. ASSUME NEW o \in Loaders, NEW i \in DOMAIN loader'[o].folder, i < loader'[o].next
         PROVE  PassedIsDone(o, i)'
    <3>9. Here(l) = file /\ file = loader[l].folder[loader[l].next]
      BY DEF file, Here
    <3>0. loader[o].folder[i].symbol \in WrittenUp /\ i \in Nat
      BY <2>4, <2>5, <2>12, FilesOfReleases
    <3>1. CASE o = l /\ i = loader[l].next
      <4>1. loader'[o].folder[i] = file /\ profiles'[file.symbol] = Stored(file)
        BY <2>3, <2>5, <2>11, <3>1, <3>9
      <4>. QED  BY <1>2, <2>1, <2>2, <3>9, <4>1 DEF PassedIsDone
    <3>2. CASE o = l /\ i # loader[l].next
      <4>1. PassedIsDone(l, i)
        BY <2>4, <2>5, <2>7, <2>12, <3>0, <3>2 DEF ProfilesInv, LoadStates
      <4>2. loader[l].folder[i].symbol # file.symbol
        BY <2>2, <2>5, <2>12, <3>2, <3>9, FilesOfReleases
      <4>3. PICK f : f = loader[o].folder[i]
        OBVIOUS
      <4>4. profiles'[f.symbol] = profiles[f.symbol] /\ loader'[o].folder[i] = f
        BY <2>5, <2>11, <3>0, <3>2, <4>2, <4>3
      <4>5. loader'[o].touched = loader[o].touched /\ loader'[o].failed = loader[o].failed
        BY <2>5, <2>7, <3>2
      <4>6. companies' = companies /\ PassedIsDone(o, i)
        BY <2>1, <3>2, <4>1
      <4>. QED  BY <4>3, <4>4, <4>5, <4>6 DEF PassedIsDone
    <3>3. CASE o # l
      <4>1. PassedIsDone(o, i)
        BY <2>5, <2>6, <2>12, <3>3 DEF ProfilesInv
      <4>3. PICK f : f = loader[o].folder[i]
        OBVIOUS
      <4>4. loader'[o].folder[i] = f /\ (f.symbol # file.symbol => profiles'[f.symbol] = profiles[f.symbol])
        BY <2>5, <2>11, <3>0, <4>3
      <4>5. loader'[o].touched = loader[o].touched \cup {file.symbol} /\ loader'[o].failed = loader[o].failed
        BY <2>5, <2>6, <3>3
      <4>6. CASE f.symbol = file.symbol
        <5>1. f \in loader[o].failed \/ profileSchema(f)
          BY <4>1, <4>3 DEF PassedIsDone
        <5>2. f.symbol \in loader'[o].touched
          BY <4>5, <4>6
        <5>. QED  BY <4>4, <4>5, <5>1, <5>2 DEF PassedIsDone
      <4>7. CASE f.symbol # file.symbol
        BY <2>1, <4>1, <4>3, <4>4, <4>5, <4>7 DEF PassedIsDone
      <4>. QED  BY <4>6, <4>7
    <3>. QED  BY <3>1, <3>2, <3>3
  <2>. QED  BY <2>8, <2>9, <2>10, <2>12 DEF ProfilesInv
<1>. QED  BY <1>1, <1>2

LEMMA DeployFolderKeeps ==
    ASSUME ProfilesInv, NEW files \in Releases, DeployFolder(files) PROVE ProfilesInv'
<1>. DEFINE new == NoLoad
<1>1. new \in LoadStates /\ new.folder = <<>> /\ new.at = "idle" /\ DOMAIN new.folder = {}
  BY DEF NoLoad, Begun, LoadStates
<1>2. /\ loader' = [loader EXCEPT !["job"] = new] /\ UNCHANGED <<companies, profiles>>
      /\ folder' = files
  BY DEF DeployFolder
<1>3. loads' \in 0..MaxLoads
  BY ProfileAssumption DEF DeployFolder, Bound, ProfilesInv, ProfilesFit
<1>. HIDE DEF new
<1>4. \A o \in Loaders : loader'[o] = IF o = "job" THEN new ELSE loader[o]
  BY <1>2 DEF ProfilesInv, ProfilesFit
<1>5. ProfilesFit'
  BY <1>1, <1>2, <1>3 DEF ProfilesInv, ProfilesFit
<1>6. LoadsAreOfReleases'
  BY <1>1, <1>4 DEF ProfilesInv, LoadsAreOfReleases, Here
<1>7. \A s \in WrittenUp : ProfileIsAFile(s)'
  BY <1>2 DEF ProfilesInv, ProfileIsAFile
<1>8. ASSUME NEW o \in Loaders, NEW i \in DOMAIN loader'[o].folder, i < loader'[o].next
      PROVE  PassedIsDone(o, i)'
  BY <1>1, <1>2, <1>4, <1>8 DEF ProfilesInv, PassedIsDone
<1>. QED  BY <1>5, <1>6, <1>7, <1>8 DEF ProfilesInv

LEMMA ChangeRegisterKeeps ==
    ASSUME ProfilesInv, NEW s \in WrittenUp, ChangeRegister(s) PROVE ProfilesInv'
<1>1. /\ companies' \in SUBSET WrittenUp
      /\ \A r \in WrittenUp \ {s} : r \in companies <=> r \in companies'
  BY DEF ChangeRegister, ProfilesInv, ProfilesFit
<1>2. \A r \in WrittenUp : profiles'[r] = IF r = s THEN NoProfile ELSE profiles[r]
  BY DEF ChangeRegister, ProfilesInv, ProfilesFit
<1>3. profiles' \in [WrittenUp -> Profile]
  <2>1. NoProfile \in Profile
    BY DEF NoProfile, Profile
  <2>. QED  BY <2>1 DEF ChangeRegister, ProfilesInv, ProfilesFit
<1>4. \A o \in Loaders : loader[o] \in LoadStates
  BY DEF ProfilesInv, ProfilesFit
<1>5. \A o \in Loaders : loader'[o] = [loader[o] EXCEPT !.touched = @ \cup {s}]
  BY DEF ChangeRegister
<1>t. \A o \in Loaders : Touched(loader'[o], loader[o], s)
  BY <1>4, <1>5, TouchedFields
<1>6. \A o \in Loaders : /\ loader'[o] \in LoadStates /\ loader'[o].folder = loader[o].folder
                         /\ loader'[o].at = loader[o].at /\ loader'[o].next = loader[o].next
                         /\ loader'[o].failed = loader[o].failed
                         /\ loader'[o].touched = loader[o].touched \cup {s}
  BY <1>t DEF Touched
<1>7. loads' \in 0..MaxLoads /\ folder' = folder /\ loader' \in [Loaders -> LoadStates]
  <2>1. loader' = [o \in Loaders |-> [loader[o] EXCEPT !.touched = @ \cup {s}]]
    BY DEF ChangeRegister
  <2>2. loader' \in [Loaders -> LoadStates]
    BY <1>6, <2>1
  <2>3. loads' \in 0..MaxLoads /\ folder' = folder
    BY ProfileAssumption DEF ChangeRegister, Bound, ProfilesInv, ProfilesFit
  <2>. QED  BY <2>2, <2>3
<1>8. ProfilesFit'
  BY <1>1, <1>3, <1>7 DEF ProfilesInv, ProfilesFit
<1>9. LoadsAreOfReleases'
  BY <1>6 DEF ProfilesInv, LoadsAreOfReleases, Here
<1>10. \A r \in WrittenUp : ProfileIsAFile(r)'
  BY <1>1, <1>2 DEF ProfilesInv, ProfileIsAFile
<1>11. ASSUME NEW o \in Loaders, NEW i \in DOMAIN loader'[o].folder, i < loader'[o].next
       PROVE  PassedIsDone(o, i)'
  <2>1. PassedIsDone(o, i)
    BY <1>6, <1>11 DEF ProfilesInv
  <2>2. loader[o].folder[i].symbol \in WrittenUp
    BY <1>6, <1>11, FilesOfReleases DEF ProfilesInv, LoadsAreOfReleases
  <2>. QED  BY <1>1, <1>2, <1>6, <2>1, <2>2 DEF PassedIsDone
<1>. QED  BY <1>8, <1>9, <1>10, <1>11 DEF ProfilesInv

LEMMA ProfilesStep == ProfilesInv /\ [NextProfiles]_profileVars => ProfilesInv'
<1>. SUFFICES ASSUME ProfilesInv, [NextProfiles]_profileVars PROVE ProfilesInv'
  OBVIOUS
<1>1. ASSUME NEW l \in Loaders,
             Load(l) \/ ReadFile(l) \/ WriteProfile(l) \/ RefuseProfile(l)
             \/ FinishLoad(l) \/ RetryLoad(l) \/ DieLoading(l)
      PROVE  ProfilesInv'
  <2>1. RefuseProfile(l) => ProfilesInv'
    BY FailFound DEF RefuseProfile
  <2>. QED  BY <1>1, <2>1, LoadKeeps, ReadFileKeeps, WriteProfileKeeps, FinishLoadKeeps,
               RetryLoadKeeps, DieLoadingKeeps
<1>2. CASE UNCHANGED profileVars
  BY <1>2 DEF profileVars, ProfilesInv, ProfilesFit, LoadsAreOfReleases, ProfileIsAFile,
              PassedIsDone, Here
<1>. QED  BY <1>1, <1>2, DeployFolderKeeps, ChangeRegisterKeeps DEF NextProfiles

\* An image a page is given is an image with its attribution, of a file that passed.
LEMMA WriteUpsHold == ProfilesInv => WriteUpsAreWhole
<1>. SUFFICES ASSUME ProfilesInv PROVE WriteUpsAreWhole
  OBVIOUS
<1>1. ASSUME NEW s \in WrittenUp, s \notin companies
      PROVE  profiles[s] = NoProfile /\ getCompanyProfile(s) = "404"
  BY <1>1 DEF ProfilesInv, ProfileIsAFile, getCompanyProfile
<1>2. ASSUME NEW s \in WrittenUp, profiles[s] # NoProfile
      PROVE  /\ \E files \in Releases : \E file \in FilesOf(files) :
                   file.symbol = s /\ profiles[s] = Stored(file)
             /\ \A i \in DOMAIN profiles[s].products :
                   toWireProduct(profiles[s].products[i]).image
                      <=> profiles[s].products[i].given # {}
  <2>1. PICK files \in Releases : \E i \in DOMAIN files :
            files[i].symbol = s /\ profileSchema(files[i]) /\ profiles[s] = Stored(files[i])
    BY <1>2 DEF ProfilesInv, ProfileIsAFile
  <2>2. PICK f \in DOMAIN files :
            files[f].symbol = s /\ profileSchema(files[f]) /\ profiles[s] = Stored(files[f])
    BY <2>1
  <2>3. files[f] \in FilesOf(files)
    BY <2>2 DEF FilesOf
  <2>4. profiles[s].products = files[f].products
    BY <2>2 DEF Stored
  <2>5. \A i \in DOMAIN profiles[s].products :
            toWireProduct(profiles[s].products[i]).image <=> profiles[s].products[i].given # {}
    BY <2>2, <2>4 DEF profileSchema, productSchema, toWireProduct
  <2>. QED  BY <2>2, <2>3, <2>5
<1>3. ASSUME NEW l \in Loaders, loader[l].at = "done", NEW file \in FilesOf(loader[l].folder)
      PROVE  /\ profileSchema(file)
             /\ file.symbol \notin loader[l].touched =>
                   profiles[file.symbol] = IF file.symbol \in companies THEN Stored(file)
                                           ELSE NoProfile
  <2>1. PICK i \in DOMAIN loader[l].folder : file = loader[l].folder[i]
    BY DEF FilesOf
  <2>2. loader[l].next > Len(loader[l].folder) /\ loader[l].failed = {} /\ loader[l].next \in Nat
    BY <1>3 DEF ProfilesInv, LoadsAreOfReleases, ProfilesFit, LoadStates
  <2>3. i \in 1..Len(loader[l].folder) /\ Len(loader[l].folder) \in Nat
    BY FilesOfReleases DEF ProfilesInv, LoadsAreOfReleases
  <2>4. i < loader[l].next
    BY <2>2, <2>3
  <2>. QED  BY <2>1, <2>2, <2>4 DEF ProfilesInv, PassedIsDone
<1>. QED  BY <1>1, <1>2, <1>3 DEF WriteUpsAreWhole

\* The variables keep their types.
THEOREM ProfileTypes == ProfilesSpec => []ProfilesTypeOK
<1>1. ProfilesInv => ProfilesTypeOK
  BY DEF ProfilesInv, ProfilesFit, ProfilesTypeOK, Profile, LoadStates
<1>. QED  BY <1>1, ProfilesStart, ProfilesStep, PTL DEF ProfilesSpec

\* Whatever loads overlap, die, are refused or tried again, a profile is one file of one
\* deploy, whole, and a load that ended well left what its folder says.
THEOREM WriteUpsStayWhole == ProfilesSpec => []WriteUpsAreWhole
  BY ProfilesStart, ProfilesStep, WriteUpsHold, PTL DEF ProfilesSpec

(***************************************************************************)
(* The archive of notices.                                                 *)
(***************************************************************************)
BatchStates ==
    [at : {"idle", "storing", "stored"}, items : Seq(Items), next : Nat \ {0},
     found : SUBSET Issuers, lost : SUBSET Issuers]

ArchiveFits ==
    /\ issuersTracked \in SUBSET Issuers /\ batch \in BatchStates
    /\ batch.next <= Len(batch.items) + 1
    /\ batches \in 0..MaxBatches /\ changes \in 0..MaxBatches

\* Each notice stored is what it was stored from, under its identity and its own stock.
NoticesAreTheirs ==
    /\ \A n \in archive :
          /\ n.key = dedupeKeyFor(n.of) /\ n.title = n.of.title /\ n.day = n.of.day
          /\ n.category \in Categories
          /\ n.stock # NoIssuer => n.stock = n.of.symbol /\ n.stock \in issuersTracked
    /\ \A n, m \in archive : n.key = m.key => n = m

\* A stock that was found is there, or went meanwhile.
FoundOrLost == batch.at = "storing" => batch.found \subseteq issuersTracked \cup batch.lost

\* A notice the batch is past is in the archive, in the last wording until here, or its
\* stock went.
Filed(i) ==
    \/ \E j \in i..batch.next - 1 :
          /\ dedupeKeyFor(batch.items[j]) = dedupeKeyFor(batch.items[i])
          /\ \E n \in archive : n.of = batch.items[j]
    \/ \E j \in DOMAIN batch.items :
          /\ dedupeKeyFor(batch.items[j]) = dedupeKeyFor(batch.items[i])
          /\ batch.items[j].symbol \in batch.lost

\* The inductive invariant of the archive.
ArchiveInv ==
    /\ ArchiveFits /\ NoticesAreTheirs /\ FoundOrLost
    /\ batch.at = "stored" => batch.next > Len(batch.items)
    /\ \A i \in DOMAIN batch.items : i < batch.next => Filed(i)

\* Two items are known by one thing when they have one id, or none and one text.
LEMMA OneIdentity ==
    ASSUME NEW a, NEW b
    PROVE  dedupeKeyFor(a) = dedupeKeyFor(b)
           <=> \/ a.id # 0 /\ b.id = a.id
               \/ a.id = 0 /\ b.id = 0 /\ <<b.symbol, b.title, b.day>> = <<a.symbol, a.title, a.day>>
<1>1. \A x, p, q, r : <<"id", x>> # <<p, q, r>>
  <2>. SUFFICES ASSUME NEW x, NEW p, NEW q, NEW r PROVE <<"id", x>> # <<p, q, r>>
    OBVIOUS
  <2>1. Len(<<"id", x>>) = 2 /\ Len(<<p, q, r>>) = 3
    OBVIOUS
  <2>. QED  BY <2>1
<1>. QED  BY <1>1 DEF dedupeKeyFor

LEMMA CategoryIsOne == ASSUME NEW wording PROVE mapCategory(wording) \in Categories
<1>. DEFINE rules == {i \in 1..5 : CATEGORY_RULES[i] \in wording}
<1>1. \A i \in 1..5 : CATEGORY_RULES[i] \in Categories
  BY DEF CATEGORY_RULES, Categories
<1>2. ASSUME rules # {} PROVE \E i \in rules : \A j \in rules : i <= j
  <2>1. rules \subseteq {1, 2, 3, 4, 5}
    OBVIOUS
  <2>. HIDE DEF rules
  <2>2. CASE 1 \in rules  BY <2>1, <2>2
  <2>3. CASE 1 \notin rules /\ 2 \in rules  BY <2>1, <2>3
  <2>4. CASE 1 \notin rules /\ 2 \notin rules /\ 3 \in rules  BY <2>1, <2>4
  <2>5. CASE 1 \notin rules /\ 2 \notin rules /\ 3 \notin rules /\ 4 \in rules
    <3>1. \A j \in rules : j = 4 \/ j = 5
      BY <2>1, <2>5
    <3>. QED  BY <2>5, <3>1
  <2>6. CASE 1 \notin rules /\ 2 \notin rules /\ 3 \notin rules /\ 4 \notin rules
    <3>1. \A j \in rules : j = 5
      BY <2>1, <2>6
    <3>. QED  BY <1>2, <3>1
  <2>. QED  BY <2>2, <2>3, <2>4, <2>5, <2>6
<1>3. CASE rules = {}
  BY <1>3 DEF mapCategory, Categories
<1>4. CASE rules # {}
  <2>1. (CHOOSE i \in rules : \A j \in rules : i <= j) \in rules
    BY <1>2, <1>4
  <2>2. (CHOOSE i \in rules : \A j \in rules : i <= j) \in 1..5
    BY <2>1
  <2>3. mapCategory(wording) = CATEGORY_RULES[CHOOSE i \in rules : \A j \in rules : i <= j]
    BY <1>4 DEF mapCategory
  <2>. QED  BY <1>1, <2>2, <2>3
<1>. QED  BY <1>3, <1>4

LEMMA ArchiveStarts == InitAnnouncements => ArchiveInv
<1>. SUFFICES ASSUME InitAnnouncements PROVE ArchiveInv
  OBVIOUS
<1>1. batch = NoBatch /\ issuersTracked = Issuers /\ archive = {} /\ batches = 0 /\ changes = 0
  BY DEF InitAnnouncements
<1>2. batch \in BatchStates /\ batch.at = "idle" /\ batch.next = 1 /\ batch.items = <<>>
  BY <1>1 DEF NoBatch, BatchStates
<1>. QED  BY <1>1, <1>2, AnnouncementAssumption
          DEF ArchiveInv, ArchiveFits, NoticesAreTheirs, FoundOrLost

LEMMA ArchiveStep == ArchiveInv /\ [NextAnnouncements]_announcementVars => ArchiveInv'
<1>. SUFFICES ASSUME ArchiveInv, [NextAnnouncements]_announcementVars PROVE ArchiveInv'
  OBVIOUS
<1>0. /\ ArchiveFits /\ NoticesAreTheirs /\ FoundOrLost
      /\ batch.items \in Seq(Items) /\ Len(batch.items) \in Nat /\ batch.next \in Nat \ {0}
      /\ DOMAIN batch.items = 1..Len(batch.items)
      /\ batch.found \subseteq Issuers /\ batch.lost \subseteq Issuers
      /\ batch.next <= Len(batch.items) + 1 /\ batch \in BatchStates
  BY DEF ArchiveInv, ArchiveFits, BatchStates
<1>1. ASSUME NEW items \in Batches, BeginBatch(items) PROVE ArchiveInv'
  <2>. DEFINE S == issuersTracked \cap {items[i].symbol : i \in DOMAIN items}
  <2>1. batch' = [at |-> "storing", items |-> items, next |-> 1, found |-> S, lost |-> {}]
    BY <1>1 DEF BeginBatch, NoBatch
  <2>2. S \subseteq issuersTracked /\ S \in SUBSET Issuers
    BY <1>0 DEF ArchiveFits
  <2>3. items \in Seq(Items) /\ Len(items) \in Nat
    BY AnnouncementAssumption
  <2>. HIDE DEF S
  <2>4. /\ batch' \in BatchStates /\ batch'.at = "storing" /\ batch'.next = 1
        /\ batch'.items = items /\ batch'.found = S /\ DOMAIN batch'.items = 1..Len(items)
    BY <2>1, <2>2, <2>3 DEF BatchStates
  <2>5. /\ UNCHANGED <<issuersTracked, archive, changes>> /\ batches' \in 0..MaxBatches
    BY <1>0, <1>1, AnnouncementAssumption DEF BeginBatch, ArchiveFits
  <2>6. ArchiveFits'
    BY <1>0, <2>3, <2>4, <2>5 DEF ArchiveFits
  <2>7. NoticesAreTheirs'
    BY <1>0, <2>5 DEF NoticesAreTheirs
  <2>8. FoundOrLost'
    BY <2>2, <2>4, <2>5 DEF FoundOrLost
  <2>9. \A i \in DOMAIN batch'.items : ~(i < batch'.next)
    BY <2>3, <2>4
  <2>. QED  BY <2>4, <2>6, <2>7, <2>8, <2>9 DEF ArchiveInv
<1>2. ASSUME StoreNotice PROVE ArchiveInv'
  <2>. DEFINE item == batch.items[batch.next]
              notice == NoticeOf(item, batch.found)
              refused == notice.stock # NoIssuer /\ notice.stock \notin issuersTracked
  <2>1. /\ batch.at = "storing" /\ batch.next <= Len(batch.items)
        /\ batch' = [batch EXCEPT !.next = @ + 1]
        /\ UNCHANGED <<issuersTracked, batches, changes>>
        /\ refused => archive' = archive
        /\ ~refused => archive' = {n \in archive : n.key # notice.key} \cup {notice}
    BY <1>2 DEF StoreNotice
  <2>2. /\ batch' \in BatchStates /\ batch'.at = batch.at /\ batch'.items = batch.items
        /\ batch'.next = batch.next + 1 /\ batch'.found = batch.found /\ batch'.lost = batch.lost
    BY <1>0, <2>1 DEF BatchStates
  <2>3. /\ notice.key = dedupeKeyFor(item) /\ notice.title = item.title /\ notice.day = item.day
        /\ notice.of = item /\ notice.category \in Categories
        /\ notice.stock # NoIssuer => notice.stock = item.symbol /\ item.symbol \in batch.found
    BY CategoryIsOne DEF NoticeOf
  <2>4. batch.next \in DOMAIN batch.items
    BY <1>0, <2>1
  <2>. HIDE DEF notice, item
  <2>5. ArchiveFits'
    BY <1>0, <2>1, <2>2 DEF ArchiveFits
  <2>6. NoticesAreTheirs'
    <3>1. CASE refused
      BY <1>0, <2>1, <3>1 DEF NoticesAreTheirs
    <3>2. CASE ~refused
      <4>1. \A n \in archive' : n # notice => n \in archive /\ n.key # notice.key
        BY <2>1, <3>2
      <4>2. notice.stock # NoIssuer => notice.stock = notice.of.symbol /\ notice.stock \in issuersTracked
        BY <2>3, <3>2
      <4>. QED  BY <1>0, <2>1, <2>3, <4>1, <4>2 DEF NoticesAreTheirs
    <3>. QED  BY <3>1, <3>2
  <2>7. FoundOrLost'
    BY <1>0, <2>1, <2>2 DEF FoundOrLost
  <2>8. ASSUME NEW i \in DOMAIN batch.items, i < batch.next PROVE Filed(i)'
    <3>1. CASE \E j \in DOMAIN batch.items :
                  /\ dedupeKeyFor(batch.items[j]) = dedupeKeyFor(batch.items[i])
                  /\ batch.items[j].symbol \in batch.lost
      BY <2>2, <3>1 DEF Filed
    <3>2. CASE ~(\E j \in DOMAIN batch.items :
                  /\ dedupeKeyFor(batch.items[j]) = dedupeKeyFor(batch.items[i])
                  /\ batch.items[j].symbol \in batch.lost)
      <4>1. Filed(i)
        BY <2>8 DEF ArchiveInv
      <4>2. PICK j \in i..batch.next - 1 :
               /\ dedupeKeyFor(batch.items[j]) = dedupeKeyFor(batch.items[i])
               /\ \E n \in archive : n.of = batch.items[j]
        BY <3>2, <4>1 DEF Filed
      <4>3. PICK n \in archive : n.of = batch.items[j]
        BY <4>2
      <4>4. n.key = dedupeKeyFor(batch.items[i])
        BY <1>0, <4>2, <4>3 DEF NoticesAreTheirs
      <4>5. j \in i..batch'.next - 1
        BY <1>0, <2>2, <2>8, <4>2
      <4>6. CASE n \in archive'
        BY <2>2, <4>2, <4>3, <4>5, <4>6 DEF Filed
      <4>7. CASE n \notin archive'
        <5>1. ~refused /\ n.key = notice.key
          BY <2>1, <4>3, <4>7
        <5>2. notice \in archive' /\ dedupeKeyFor(item) = dedupeKeyFor(batch.items[i])
          BY <2>1, <2>3, <4>4, <5>1
        <5>3. batch.next \in i..batch'.next - 1
          BY <1>0, <2>2, <2>8
        <5>. QED  BY <2>2, <2>3, <5>2, <5>3 DEF Filed, item
      <4>. QED  BY <4>6, <4>7
    <3>. QED  BY <3>1, <3>2
  <2>k. PICK k \in DOMAIN batch.items : k = batch.next
    BY <2>4
  <2>9. Filed(k)'
    <3>1. CASE refused
      <4>1. item.symbol \in batch.found /\ item.symbol \notin issuersTracked
        BY <2>3, <3>1
      <4>2. item.symbol \in batch.lost
        BY <1>0, <2>1, <4>1 DEF FoundOrLost
      <4>3. \E j \in DOMAIN batch.items :
               /\ dedupeKeyFor(batch.items[j]) = dedupeKeyFor(batch.items[batch.next])
               /\ batch.items[j].symbol \in batch.lost
        BY <2>4, <4>2 DEF item
      <4>. QED  BY <2>2, <2>k, <4>3 DEF Filed
    <3>2. CASE ~refused
      <4>1. notice \in archive' /\ notice.of = item
        BY <2>1, <2>3, <3>2
      <4>2. batch.next \in batch.next..batch'.next - 1
        BY <1>0, <2>2
      <4>3. \E j \in batch.next..batch'.next - 1 :
               /\ dedupeKeyFor(batch.items[j]) = dedupeKeyFor(batch.items[batch.next])
               /\ \E n \in archive' : n.of = batch.items[j]
        BY <4>1, <4>2 DEF item
      <4>. QED  BY <2>2, <2>k, <4>3 DEF Filed
    <3>. QED  BY <3>1, <3>2
  <2>10. \A i \in DOMAIN batch'.items : i < batch'.next => Filed(i)'
    <3>1. \A i \in DOMAIN batch.items : i < batch'.next => i < batch.next \/ i = k
      BY <1>0, <2>2, <2>k
    <3>. QED  BY <2>2, <2>8, <2>9, <3>1
  <2>. QED  BY <2>1, <2>2, <2>5, <2>6, <2>7, <2>10 DEF ArchiveInv
<1>3. ASSUME FinishBatch PROVE ArchiveInv'
  <2>1. /\ batch' = [batch EXCEPT !.at = "stored"] /\ batch.next > Len(batch.items)
        /\ UNCHANGED <<issuersTracked, archive, batches, changes>>
    BY <1>3 DEF FinishBatch
  <2>2. /\ batch' \in BatchStates /\ batch'.at = "stored" /\ batch'.items = batch.items
        /\ batch'.next = batch.next /\ batch'.lost = batch.lost
    BY <1>0, <2>1 DEF BatchStates
  <2>3. ASSUME NEW i \in DOMAIN batch.items, i < batch.next PROVE Filed(i)'
    <3>1. Filed(i)
      BY <2>3 DEF ArchiveInv
    <3>. QED  BY <2>1, <2>2, <3>1 DEF Filed
  <2>. QED  BY <1>0, <2>1, <2>2, <2>3
            DEF ArchiveInv, ArchiveFits, NoticesAreTheirs, FoundOrLost
<1>4. ASSUME DieStoring PROVE ArchiveInv'
  <2>1. batch' = NoBatch /\ UNCHANGED <<issuersTracked, archive, batches, changes>>
    BY <1>4 DEF DieStoring
  <2>2. batch' \in BatchStates /\ batch'.at = "idle" /\ batch'.next = 1 /\ batch'.items = <<>>
    BY <2>1 DEF NoBatch, BatchStates
  <2>. QED  BY <1>0, <2>1, <2>2 DEF ArchiveInv, ArchiveFits, NoticesAreTheirs, FoundOrLost
<1>5. ASSUME NEW s \in Issuers, RemoveIssuer(s) PROVE ArchiveInv'
  <2>1. /\ batch' = [batch EXCEPT !.lost = @ \cup {s}] /\ batches' = batches
        /\ issuersTracked' = issuersTracked \ {s}
        /\ archive' = {n \in archive : n.stock # s} /\ changes' \in 0..MaxBatches
    BY <1>0, <1>5, AnnouncementAssumption DEF RemoveIssuer, ArchiveFits
  <2>2. /\ batch' \in BatchStates /\ batch'.at = batch.at /\ batch'.items = batch.items
        /\ batch'.next = batch.next /\ batch'.found = batch.found
        /\ batch'.lost = batch.lost \cup {s}
    BY <1>0, <2>1 DEF BatchStates
  <2>3. ArchiveFits'
    BY <1>0, <2>1, <2>2 DEF ArchiveFits
  <2>4. NoticesAreTheirs'
    BY <1>0, <2>1, AnnouncementAssumption DEF NoticesAreTheirs
  <2>5. FoundOrLost'
    BY <1>0, <2>1, <2>2 DEF FoundOrLost
  <2>6. ASSUME NEW i \in DOMAIN batch.items, i < batch.next PROVE Filed(i)'
    <3>1. Filed(i)
      BY <2>6 DEF ArchiveInv
    <3>2. CASE \E j \in DOMAIN batch.items :
                  /\ dedupeKeyFor(batch.items[j]) = dedupeKeyFor(batch.items[i])
                  /\ batch.items[j].symbol \in batch.lost
      BY <2>2, <3>2 DEF Filed
    <3>3. ASSUME NEW j \in i..batch.next - 1,
                 dedupeKeyFor(batch.items[j]) = dedupeKeyFor(batch.items[i]),
                 NEW n \in archive, n.of = batch.items[j]
          PROVE  Filed(i)'
      <4>1. CASE n \in archive'
        BY <2>2, <3>3, <4>1 DEF Filed
      <4>2. CASE n \notin archive'
        <5>1. n.stock = s
          BY <2>1, <4>2
        <5>2. batch.items[j].symbol = s
          BY <1>0, <3>3, <5>1, AnnouncementAssumption DEF NoticesAreTheirs
        <5>3. j \in DOMAIN batch.items
          BY <1>0, <2>6, <3>3
        <5>. QED  BY <2>2, <3>3, <5>2, <5>3 DEF Filed
      <4>. QED  BY <4>1, <4>2
    <3>. QED  BY <3>1, <3>2, <3>3 DEF Filed
  <2>. QED  BY <2>2, <2>3, <2>4, <2>5, <2>6 DEF ArchiveInv
<1>6. ASSUME NEW s \in Issuers, AddIssuer(s) PROVE ArchiveInv'
  <2>1. /\ UNCHANGED <<archive, batch, batches>> /\ issuersTracked' = issuersTracked \cup {s}
        /\ changes' \in 0..MaxBatches
    BY <1>0, <1>6, AnnouncementAssumption DEF AddIssuer, ArchiveFits
  <2>2. ArchiveFits'
    BY <1>0, <2>1 DEF ArchiveFits
  <2>3. NoticesAreTheirs' /\ FoundOrLost'
    BY <1>0, <2>1 DEF NoticesAreTheirs, FoundOrLost
  <2>4. ASSUME NEW i \in DOMAIN batch.items, i < batch.next PROVE Filed(i)'
    <3>1. Filed(i)
      BY <2>4 DEF ArchiveInv
    <3>. QED  BY <2>1, <3>1 DEF Filed
  <2>. QED  BY <2>1, <2>2, <2>3, <2>4 DEF ArchiveInv
<1>7. CASE UNCHANGED announcementVars
  BY <1>7 DEF announcementVars, ArchiveInv, ArchiveFits, NoticesAreTheirs, FoundOrLost, Filed
<1>. QED  BY <1>1, <1>2, <1>3, <1>4, <1>5, <1>6, <1>7 DEF NextAnnouncements

LEMMA ArchiveHolds == ArchiveInv => ArchiveIsTheSources
<1>. SUFFICES ASSUME ArchiveInv PROVE ArchiveIsTheSources
  OBVIOUS
<1>1. \A n, m \in archive :
          /\ n.of.id # 0 /\ n.of.id = m.of.id => n = m
          /\ n.of.id = 0 /\ m.of.id = 0 /\ <<n.of.symbol, n.title, n.day>>
                = <<m.of.symbol, m.title, m.day>> => n = m
  <2>. SUFFICES ASSUME NEW n \in archive, NEW m \in archive,
                       \/ n.of.id # 0 /\ n.of.id = m.of.id
                       \/ n.of.id = 0 /\ m.of.id = 0 /\ <<n.of.symbol, n.title, n.day>>
                             = <<m.of.symbol, m.title, m.day>>
                PROVE  n = m
    OBVIOUS
  <2>1. /\ n.key = dedupeKeyFor(n.of) /\ m.key = dedupeKeyFor(m.of) /\ (n.key = m.key => n = m)
        /\ n.title = n.of.title /\ n.day = n.of.day /\ m.title = m.of.title /\ m.day = m.of.day
    BY DEF ArchiveInv, NoticesAreTheirs
  <2>2. dedupeKeyFor(n.of) = dedupeKeyFor(m.of)
    BY <2>1, OneIdentity
  <2>. QED  BY <2>1, <2>2
<1>2. \A n \in archive : n.stock \in {n.of.symbol} \cap issuersTracked \/ n.stock = NoIssuer
  BY DEF ArchiveInv, NoticesAreTheirs
<1>3. ASSUME batch.at = "stored", NEW i \in DOMAIN batch.items
      PROVE  LET item == batch.items[i]
                 same(o) == IF item.id # 0 THEN o.id = item.id
                            ELSE o.id = 0 /\ <<o.symbol, o.title, o.day>>
                                             = <<item.symbol, item.title, item.day>>
             IN \/ \E j \in i..Len(batch.items) :
                      \E n \in archive : same(batch.items[j]) /\ n.of = batch.items[j]
                \/ \E j \in DOMAIN batch.items :
                      same(batch.items[j]) /\ batch.items[j].symbol \in batch.lost
  <2>. DEFINE item == batch.items[i]
              same(o) == IF item.id # 0 THEN o.id = item.id
                         ELSE o.id = 0 /\ <<o.symbol, o.title, o.day>>
                                          = <<item.symbol, item.title, item.day>>
  <2>1. /\ Len(batch.items) \in Nat /\ batch.next \in Nat /\ i \in 1..Len(batch.items)
        /\ batch.next = Len(batch.items) + 1
    BY <1>3 DEF ArchiveInv, ArchiveFits, BatchStates
  <2>2. Filed(i)
    BY <2>1 DEF ArchiveInv
  <2>3. \A j : dedupeKeyFor(batch.items[j]) = dedupeKeyFor(item) => same(batch.items[j])
    <3>. SUFFICES ASSUME NEW j, dedupeKeyFor(batch.items[j]) = dedupeKeyFor(item)
                  PROVE  same(batch.items[j])
      OBVIOUS
    <3>. DEFINE o == batch.items[j]
    <3>1. \/ item.id # 0 /\ o.id = item.id
          \/ item.id = 0 /\ o.id = 0 /\ <<o.symbol, o.title, o.day>>
                                        = <<item.symbol, item.title, item.day>>
      BY OneIdentity
    <3>. QED  BY <3>1
  <2>4. batch.next - 1 = Len(batch.items)
    BY <2>1
  <2>. HIDE DEF same
  <2>5. \/ \E j \in i..Len(batch.items) :
              \E n \in archive : same(batch.items[j]) /\ n.of = batch.items[j]
        \/ \E j \in DOMAIN batch.items :
              same(batch.items[j]) /\ batch.items[j].symbol \in batch.lost
    BY <2>2, <2>3, <2>4 DEF Filed
  <2>. QED  BY <2>5 DEF same
<1>. QED  BY <1>1, <1>2, <1>3 DEF ArchiveIsTheSources

\* The variables keep their types.
THEOREM ArchiveTypes == AnnouncementsSpec => []AnnouncementsTypeOK
<1>1. ArchiveInv => AnnouncementsTypeOK
  BY DEF ArchiveInv, ArchiveFits, NoticesAreTheirs, AnnouncementsTypeOK, BatchStates
<1>. QED  BY <1>1, ArchiveStarts, ArchiveStep, PTL DEF AnnouncementsSpec

\* Whatever is read again, dies or goes, the archive holds each notice of its source once,
\* under its own stock, and a batch stored to its end is in it.
THEOREM ArchiveStaysTheSources == AnnouncementsSpec => []ArchiveIsTheSources
  BY ArchiveStarts, ArchiveStep, ArchiveHolds, PTL DEF AnnouncementsSpec

---------------------------------------------------------------------------
(***************************************************************************)
(* The backfills.  A run looks no further than the bars it has been        *)
(* through: a row that was there has kept what it had and holds the last   *)
(* figure given for what it lacked, a session without a row has its one    *)
(* bar's.  The lane of an index has read the days it holds before it       *)
(* inserts, and nobody else inserts.                                       *)
(***************************************************************************)
Bars == [day : BarDays, open : BarPrices \cup {0}, close : BarPrices]
RunStates == {"idle", "thrown", "done", "fetched", "filling"}

Runs ==
    [at : RunStates, bars : Seq(Bars), next : Nat, byDay : [BarDays -> BarRows]]

\* The run stands between two of its bars.
RunIsPlaced == run.next \in 1..Len(run.bars) + 1

Filling == run.at \in {"filling", "done"}

\* What a run has seen of a session before its next bar: the last figure given.
SeenOf(d, f) == {i \in 1..run.next - 1 : run.bars[i].day = d /\ run.bars[i][f] # Missing}
IsTheLast(d, f, v) ==
    IF SeenOf(d, f) = {} THEN v = Missing
    ELSE \E i \in SeenOf(d, f) : v = run.bars[i][f] /\ \A j \in SeenOf(d, f) : j <= i

\* A row that was there when the run read the rows is there still.
ReadRowsStay == Filling => \A d \in BarDays : run.byDay[d].stored => rows[d].stored

\* A row that was there keeps its figures, and holds the last one given for each it lacked.
HeldRowsFill ==
    Filling => \A d \in BarDays \ others, f \in Fields : run.byDay[d].stored =>
        IF run.byDay[d][f] # Missing THEN rows[d][f] = run.byDay[d][f]
        ELSE IsTheLast(d, f, rows[d][f])

\* A session without a row has none until its one bar comes, and then that bar's.
NewRowsAreBars ==
    Filling => \A d \in BarDays \ others : ~run.byDay[d].stored =>
        /\ (\A i \in 1..run.next - 1 : run.bars[i].day # d) => rows[d] = NoBarRow
        /\ \A i \in 1..run.next - 1 : run.bars[i].day = d =>
              /\ rows[d] = RowOf(run.bars[i])
              /\ \A j \in 1..run.next - 1 : run.bars[j].day = d => j = i

\* It begins with its first bar, and has got to its end when there is none left.
DoneIsThrough ==
    /\ run.at = "fetched" => run.next = 1
    /\ run.at = "done" => run.next > Len(run.bars)

RunInv ==
    /\ rows \in [BarDays -> BarRows] /\ others \in SUBSET BarDays /\ syncs \in 0..MaxBackfills
    /\ run \in Runs /\ RunIsPlaced
    /\ ReadRowsStay /\ HeldRowsFill /\ NewRowsAreBars /\ DoneIsThrough

\* The lane of an index: registered once its source has answered, filled with the days
\* it does not hold.
IndexSessions == Seq([day : Nat, value : Nat, volume : Nat])
PassStates == {"idle", "verified", "registered", "answered"}
LaneInv ==
    /\ indexRow.tracked \in BOOLEAN /\ indexRow.synced \in BOOLEAN
    /\ pass.at \in PassStates
    /\ indexRow = [tracked |-> indexRow.tracked, synced |-> indexRow.synced,
                   sessions |-> indexRow.sessions, answeredFor |-> indexRow.answeredFor]
    /\ indexRow.sessions \in IndexSessions
    /\ indexRow.tracked => indexRow.answeredFor > 0
    /\ indexRow.synced \/ indexRow.sessions # <<>> => indexRow.tracked
    /\ pass.at = "verified" => pass.answer[1] > 0
    /\ pass.at \in {"registered", "answered"} => indexRow.tracked
    /\ pass.at = "answered" =>
          /\ pass.held = SessionDays
          /\ \E payload \in IndexPayloads : pass.answer = <<parseIndexHistory(payload.prices, payload.volumes)>>
    /\ \A i, j \in DOMAIN indexRow.sessions :
          indexRow.sessions[i].day = indexRow.sessions[j].day => i = j

BackfillInv == RunInv /\ LaneInv

---------------------------------------------------------------------------
LEMMA CountOfSome ==
    ASSUME NEW S, IsFiniteSet(S), NEW x \in S PROVE Cardinality(S) \in Nat /\ Cardinality(S) > 0
<1>1. Cardinality(S) \in Nat /\ Cardinality(S) # 0
  BY FS_CardinalityType, FS_EmptySet
<1> QED
  BY <1>1

\* The places of some of the first n, in order: the k-th has k of them up to itself.
LEMMA NthPlace ==
    ASSUME NEW n \in Nat, NEW S \in SUBSET (1..n), NEW k \in 1..Cardinality(S)
    PROVE  \E i \in S : Cardinality({j \in S : j <= i}) = k
<1> DEFINE upto(i) == {j \in S : j <= i}
           size == [i \in 0..n |-> Cardinality(upto(i))]
           T == {i \in 0..n : size[i] >= k}
<1>1. IsFiniteSet(S)
  <2>1. IsFiniteSet(1..n)
    BY FS_Interval
  <2> QED
    BY <2>1, FS_Subset
<1>2. ASSUME NEW i \in 0..n PROVE size[i] \in Nat /\ IsFiniteSet(upto(i))
  <2>1. upto(i) \in SUBSET S
    OBVIOUS
  <2>2. IsFiniteSet(upto(i))
    BY <1>1, <2>1, FS_Subset
  <2> QED
    BY <2>2, FS_CardinalityType
<1>3. upto(n) = S
  <2>1. \A j \in S : j <= n
    OBVIOUS
  <2> QED
    BY <2>1
<1>4. upto(0) = {}
  <2>1. \A j \in S : ~(j <= 0)
    OBVIOUS
  <2> QED
    BY <2>1
<1>5. Cardinality(S) \in Nat /\ k \in Nat /\ k > 0 /\ k <= Cardinality(S)
  BY <1>1, FS_CardinalityType
<1>6. size[n] = Cardinality(S) /\ size[0] = 0
  BY <1>3, <1>4, FS_EmptySet
<1>7. ASSUME NEW i \in 1..n
      PROVE  /\ i \notin S => size[i] = size[i - 1]
             /\ i \in S => size[i] = size[i - 1] + 1
  <2>1. i \in 0..n /\ i - 1 \in 0..n
    OBVIOUS
  <2>2. ASSUME i \notin S PROVE upto(i) = upto(i - 1)
    <3>1. \A j \in S : j <= i <=> j <= i - 1
      BY <2>2
    <3> QED
      BY <3>1
  <2>3. ASSUME i \in S PROVE upto(i) = upto(i - 1) \cup {i} /\ i \notin upto(i - 1)
    <3>1. \A j \in S : j <= i <=> (j <= i - 1 \/ j = i)
      OBVIOUS
    <3>2. ~(i <= i - 1)
      OBVIOUS
    <3>3. \A j : j \in upto(i) <=> j \in upto(i - 1) \/ j = i
      BY <2>3, <3>1
    <3> QED
      BY <3>2, <3>3
  <2>4. IsFiniteSet(upto(i - 1))
    BY <1>2, <2>1
  <2> HIDE DEF upto
  <2>5. size[i] = Cardinality(upto(i)) /\ size[i - 1] = Cardinality(upto(i - 1))
    BY <2>1
  <2> QED
    BY <2>2, <2>3, <2>4, <2>5, FS_AddElement
<1> HIDE DEF size, upto
<1>8. n \in T /\ 0 \notin T
  BY <1>5, <1>6
<1>9. PICK i \in T : \A r \in T : i <= r
  <2>1. T \in SUBSET Nat /\ T # {}
    BY <1>8
  <2> HIDE DEF T
  <2> QED
    BY <2>1, LeastOf
<1>10. i \in 1..n /\ size[i] >= k /\ ~(size[i - 1] >= k)
  <2>1. i \in 0..n /\ i # 0
    BY <1>8, <1>9
  <2>2. i - 1 \in 0..n /\ i - 1 \notin T
    BY <1>9, <2>1
  <2> QED
    BY <1>9, <2>1, <2>2
<1>11. i \in S /\ size[i] = k
  <2>1. size[i] \in Nat /\ size[i - 1] \in Nat
    BY <1>2, <1>10
  <2> QED
    BY <1>5, <1>7, <1>10, <2>1
<1>12. size[i] = Cardinality({j \in S : j <= i})
  BY <1>10 DEF size, upto
<1> QED
  BY <1>11, <1>12

\* Every bar that is kept has a close.
LEMMA BarsAreBars ==
    ASSUME NEW payload \in Payloads PROVE parseDailyBars(payload) \in Seq(Bars)
<1> DEFINE n == Len(payload)
           closed == {i \in DOMAIN payload : payload[i].close # Missing}
           nth(k) == CHOOSE i \in closed : Cardinality({j \in closed : j <= i}) = k
           m == Cardinality(closed)
<1> DEFINE Raw == [day : BarDays, open : BarPrices \cup {0}, close : BarPrices \cup {0}]
<1>1. payload \in Seq(Raw)
  BY PayloadsAssumption
<1>2. n \in Nat /\ DOMAIN payload = 1..n /\ \A i \in 1..n : payload[i] \in Raw
  <2> HIDE DEF Raw
  <2> QED
    BY <1>1
<1>3. closed \in SUBSET (1..n)
  BY <1>2
<1>4. m \in Nat
  <2>1. IsFiniteSet(1..n)
    BY <1>2, FS_Interval
  <2> HIDE DEF closed
  <2>2. IsFiniteSet(closed)
    BY <1>3, <2>1, FS_Subset
  <2> QED
    BY <2>2, FS_CardinalityType
<1>5. ASSUME NEW k \in 1..m PROVE nth(k) \in closed
  <2>1. \E i \in closed : Cardinality({j \in closed : j <= i}) = k
    <3> HIDE DEF closed, n
    <3> QED
      BY <1>2, <1>3, NthPlace
  <2> HIDE DEF closed
  <2> QED
    BY <2>1
<1>6. ASSUME NEW i \in closed PROVE payload[i] \in Bars
  BY <1>2, <1>6 DEF Bars, Missing
<1>7. parseDailyBars(payload) = [k \in 1..m |-> payload[nth(k)]]
  BY DEF parseDailyBars
<1> HIDE DEF m, nth, closed
<1>8. \A k \in 1..m : payload[nth(k)] \in Bars
  BY <1>5, <1>6
<1> HIDE DEF nth, Bars
<1>9. parseDailyBars(payload) \in [1..m -> Bars]
  BY <1>7, <1>8
<1> QED
  BY <1>4, <1>9

LEMMA RunStarts == InitBackfill => RunInv
<1> SUFFICES ASSUME InitBackfill PROVE RunInv
  OBVIOUS
<1>1. NoBarRow \in BarRows
  BY DEF BarRows
<1>2. rows \in [BarDays -> BarRows]
  BY <1>1 DEF InitBackfill, BarRows
<1>3. run = NoRun("idle") /\ run \in Runs /\ run.at = "idle" /\ run.next = 1 /\ run.bars = <<>>
  BY <1>1 DEF InitBackfill, NoRun, Runs, RunStates
<1>4. RunIsPlaced
  BY <1>3 DEF RunIsPlaced
<1>5. syncs \in 0..MaxBackfills /\ others \in SUBSET BarDays
  BY BackfillAssumption DEF InitBackfill
<1> QED
  BY <1>2, <1>3, <1>4, <1>5 DEF RunInv, ReadRowsStay, HeldRowsFill, NewRowsAreBars, DoneIsThrough, Filling

\* A run that is not under way, or has not read its rows, has promised nothing.
LEMMA NothingPromised ==
    ASSUME run'.at \in {"idle", "thrown", "fetched"}, run'.next = 1
    PROVE  ReadRowsStay' /\ HeldRowsFill' /\ NewRowsAreBars' /\ DoneIsThrough'
BY DEF ReadRowsStay, HeldRowsFill, NewRowsAreBars, DoneIsThrough, Filling

LEMMA NoRunIsARun ==
    ASSUME NEW how \in RunStates
    PROVE  NoRun(how) \in Runs /\ NoRun(how).at = how /\ NoRun(how).next = 1 /\ NoRun(how).bars = <<>>
BY DEF NoRun, Runs, RunStates, BarRows

LEMMA FetchKeeps ==
    ASSUME RunInv, NEW payload \in Payloads, fetchDailyBars(payload) PROVE RunInv'
<1> DEFINE bars == parseDailyBars(payload)
           r == [NoRun("fetched") EXCEPT !.bars = bars]
<1>1. bars \in Seq(Bars)
  BY BarsAreBars
<1> HIDE DEF bars
<1>2. run' = r /\ others' = {} /\ UNCHANGED rows /\ syncs < MaxBackfills /\ syncs' = syncs + 1
  BY DEF fetchDailyBars, Begin, bars
<1>3. r \in Runs /\ r.at = "fetched" /\ r.next = 1 /\ r.bars = bars
  BY <1>1 DEF NoRun, Runs, RunStates, BarRows
<1> HIDE DEF r
<1>4. RunIsPlaced'
  <2>1. Len(bars) \in Nat
    BY <1>1
  <2> QED
    BY <1>2, <1>3, <2>1 DEF RunIsPlaced
<1>5. syncs' \in 0..MaxBackfills
  BY <1>2, BackfillAssumption DEF RunInv
<1>6. run'.at = "fetched" /\ run'.next = 1
  BY <1>2, <1>3
<1> QED
  BY <1>2, <1>3, <1>4, <1>5, <1>6, NothingPromised DEF RunInv

LEMMA ReadKeeps == ASSUME RunInv, ReadRows PROVE RunInv'
<1> DEFINE r == [run EXCEPT !.at = "filling", !.byDay = rows]
<1>1. run \in Runs /\ run.at = "fetched" /\ rows \in [BarDays -> BarRows]
  BY DEF RunInv, ReadRows
<1>2. run' = r /\ UNCHANGED <<rows, others, syncs>>
  BY DEF ReadRows
<1>3. r \in Runs /\ r.at = "filling" /\ r.next = run.next /\ r.bars = run.bars /\ r.byDay = rows
  BY <1>1 DEF Runs, RunStates
<1> HIDE DEF r
<1>4. run.next = 1 /\ RunIsPlaced
  BY <1>1 DEF RunInv, DoneIsThrough
<1>5. RunIsPlaced' /\ DoneIsThrough'
  BY <1>2, <1>3, <1>4 DEF RunIsPlaced, DoneIsThrough
<1>6. ReadRowsStay'
  BY <1>2, <1>3 DEF ReadRowsStay
<1>7. \A d, f : SeenOf(d, f)' = {}
  BY <1>2, <1>3, <1>4 DEF SeenOf
<1>8. HeldRowsFill'
  <2> SUFFICES ASSUME NEW d \in BarDays, NEW f \in Fields
               PROVE  rows[d][f] = Missing => IsTheLast(d, f, rows[d][f])'
    BY <1>2, <1>3 DEF HeldRowsFill
  <2> QED
    BY <1>2, <1>7 DEF IsTheLast
<1>9. NewRowsAreBars'
  <2>1. ASSUME NEW d \in BarDays, ~rows[d].stored PROVE rows[d] = NoBarRow
    <3>1. rows[d] \in BarRows
      BY <1>1
    <3> QED
      BY <2>1, <3>1 DEF BarRows
  <2> QED
    BY <1>2, <1>3, <1>4, <2>1 DEF NewRowsAreBars
<1> QED
  BY <1>2, <1>3, <1>5, <1>6, <1>8, <1>9 DEF RunInv

LEMMA SkippedKeeps ==
    ASSUME RunInv, FinishRun \/ DieRunning \/ UNCHANGED <<rows, run, others, syncs>>
    PROVE  RunInv'
<1>1. run \in Runs
  BY DEF RunInv
<1>2. ASSUME FinishRun PROVE RunInv'
  <2> DEFINE r == [run EXCEPT !.at = "done"]
  <2>1. /\ run.at = "filling" /\ run.next > Len(run.bars) /\ run' = r
        /\ UNCHANGED <<rows, others, syncs>>
    BY <1>2 DEF FinishRun
  <2>2. r \in Runs /\ r.at = "done" /\ r.next = run.next /\ r.bars = run.bars /\ r.byDay = run.byDay
    BY <1>1 DEF Runs, RunStates
  <2> HIDE DEF r
  <2>3. /\ \A d, f : SeenOf(d, f)' = SeenOf(d, f)
        /\ \A d, f, v : IsTheLast(d, f, v)' <=> IsTheLast(d, f, v)
    BY <2>1, <2>2 DEF SeenOf, IsTheLast
  <2>4. RunIsPlaced' /\ DoneIsThrough' /\ ReadRowsStay' /\ NewRowsAreBars'
    BY <2>1, <2>2 DEF RunInv, RunIsPlaced, DoneIsThrough, ReadRowsStay, NewRowsAreBars, Filling
  <2>5. HeldRowsFill'
    BY <2>1, <2>2, <2>3 DEF RunInv, HeldRowsFill, Filling, IsTheLast, SeenOf
  <2> QED
    BY <2>1, <2>2, <2>4, <2>5 DEF RunInv
<1>3. ASSUME DieRunning PROVE RunInv'
  <2>1. run' = NoRun("idle") /\ UNCHANGED <<rows, others, syncs>>
    BY <1>3 DEF DieRunning
  <2>2. NoRun("idle") \in Runs /\ run'.at = "idle" /\ run'.next = 1 /\ run'.bars = <<>>
    BY <2>1, NoRunIsARun DEF RunStates
  <2>3. RunIsPlaced'
    BY <2>2 DEF RunIsPlaced
  <2> QED
    BY <2>1, <2>2, <2>3, NothingPromised DEF RunInv
<1>4. ASSUME UNCHANGED <<rows, run, others, syncs>> PROVE RunInv'
  BY <1>4 DEF RunInv, RunIsPlaced, DoneIsThrough, ReadRowsStay, HeldRowsFill, NewRowsAreBars, Filling, IsTheLast, SeenOf
<1> QED
  BY <1>2, <1>3, <1>4

LEMMA UpsertKeeps ==
    ASSUME RunInv, NEW d \in BarDays, NEW o \in BarPrices \cup {Missing}, NEW c \in BarPrices,
           bulkUpsertHistory([day |-> d, open |-> o, close |-> c])
    PROVE  RunInv'
<1> DEFINE point == [day |-> d, open |-> o, close |-> c]
           row1 == RowOf(point)
<1>1. /\ rows' = [rows EXCEPT ![d] = row1] /\ others' = others \cup {d}
      /\ UNCHANGED run /\ syncs < MaxBackfills /\ syncs' = syncs + 1
  BY DEF bulkUpsertHistory, Begin
<1>2. row1 \in BarRows /\ row1.stored
  BY DEF RowOf, BarRows
<1> HIDE DEF row1
<1>3. rows \in [BarDays -> BarRows] /\ others \in SUBSET BarDays
  BY DEF RunInv
<1>4. /\ rows' \in [BarDays -> BarRows] /\ others' \in SUBSET BarDays
      /\ \A e \in BarDays \ others' : rows'[e] = rows[e] /\ e \in BarDays \ others
      /\ \A e \in BarDays : rows[e].stored => rows'[e].stored
  BY <1>1, <1>2, <1>3
<1>5. syncs' \in 0..MaxBackfills
  BY <1>1, BackfillAssumption DEF RunInv
<1>6. RunIsPlaced' /\ DoneIsThrough' /\ ReadRowsStay'
  BY <1>1, <1>4 DEF RunInv, RunIsPlaced, DoneIsThrough, ReadRowsStay, Filling
<1>7. HeldRowsFill'
  <2>1. \A e, f, v : IsTheLast(e, f, v)' <=> IsTheLast(e, f, v)
    BY <1>1 DEF IsTheLast, SeenOf
  <2>2. SUFFICES ASSUME Filling, NEW e \in BarDays \ others', NEW f \in Fields, run.byDay[e].stored
               PROVE  IF run.byDay[e][f] # Missing THEN rows'[e][f] = run.byDay[e][f]
                      ELSE IsTheLast(e, f, rows[e][f])
    BY <1>1, <1>4 DEF HeldRowsFill, Filling, IsTheLast, SeenOf
  <2> QED
    BY <1>4, <2>2 DEF RunInv, HeldRowsFill
<1>8. NewRowsAreBars'
  BY <1>1, <1>4 DEF RunInv, NewRowsAreBars, Filling
<1> QED
  BY <1>1, <1>4, <1>5, <1>6, <1>7, <1>8 DEF RunInv

\* One figure of a row that is filled.
LEMMA FilledRow ==
    ASSUME NEW r \in BarRows, r.stored, NEW bar \in Bars, NEW fields \in SUBSET Fields
    PROVE  LET filled == Filled(r, bar, fields)
           IN  /\ filled \in BarRows /\ filled.stored
               /\ \A f \in Fields : filled[f] = IF f \in fields THEN bar[f] ELSE r[f]
<1> DEFINE o == IF "open" \in fields THEN bar.open ELSE r.open
           c == IF "close" \in fields THEN bar.close ELSE r.close
           filled == Filled(r, bar, fields)
<1>1. r \in [open : BarPrices \cup {Missing}, close : BarPrices, stored : {TRUE}]
  <2>1. r # NoBarRow
    BY DEF NoBarRow
  <2> QED
    BY <2>1 DEF BarRows
<1>2. o \in BarPrices \cup {Missing} /\ c \in BarPrices
  BY <1>1 DEF Bars, Missing
<1>3. filled = [[r EXCEPT !.open = o] EXCEPT !.close = c]
  BY DEF Filled
<1> HIDE DEF o, c, filled
<1>4. filled = [open |-> o, close |-> c, stored |-> TRUE]
  BY <1>1, <1>3
<1>5. filled.open = o /\ filled.close = c /\ filled.stored
  BY <1>4
<1>6. filled \in BarRows
  BY <1>2, <1>4 DEF BarRows
<1>7. ASSUME NEW f \in Fields PROVE filled[f] = IF f \in fields THEN bar[f] ELSE r[f]
  BY <1>5 DEF Fields, o, c
<1> QED
  BY <1>5, <1>6, <1>7 DEF filled

\* What a run has seen once it is past its next bar.
LEMMA SeenGrows ==
    ASSUME run \in Runs, NEW n \in 1..Len(run.bars), run.next = n,
           run'.next = n + 1, run'.bars = run.bars, NEW d, NEW f
    PROVE  /\ run.bars[n].day # d \/ run.bars[n][f] = Missing => SeenOf(d, f)' = SeenOf(d, f)
           /\ run.bars[n].day = d /\ run.bars[n][f] # Missing =>
                 n \in SeenOf(d, f)' /\ \A j \in SeenOf(d, f)' : j <= n
<1>1. n \in Nat /\ n > 0
  BY DEF Runs
<1>2. \A i : i \in 1..run'.next - 1 <=> i \in 1..run.next - 1 \/ i = n
  BY <1>1
<1>3. n \notin 1..run.next - 1 /\ \A i \in 1..run'.next - 1 : i <= n
  BY <1>1
<1> QED
  BY <1>2, <1>3 DEF SeenOf

LEMMA WriteKeeps == ASSUME RunInv, WriteBar PROVE RunInv'
<1> DEFINE n == run.next
           bar == run.bars[n]
           d0 == bar.day
           existing == run.byDay[d0]
           r == [run EXCEPT !.next = n + 1]
<1>1. /\ run \in Runs /\ rows \in [BarDays -> BarRows] /\ run.at = "filling"
      /\ n \in 1..Len(run.bars) /\ n \in Nat /\ n > 0 /\ Filling
  BY DEF RunInv, RunIsPlaced, WriteBar, Filling, Runs
<1>2. bar \in Bars /\ d0 \in BarDays /\ existing \in BarRows /\ rows[d0] \in BarRows
  <2>1. run.bars \in Seq(Bars)
    BY <1>1 DEF Runs
  <2>2. bar \in Bars
    <3> HIDE DEF n
    <3>1. run.bars[n] \in Bars
      BY <1>1, <2>1
    <3> QED
      BY <3>1
  <2>3. d0 \in BarDays
    BY <2>2 DEF Bars
  <2> HIDE DEF d0
  <2> QED
    BY <1>1, <2>2, <2>3 DEF Runs
<1>3. UNCHANGED <<others, syncs>> /\ others' \in SUBSET BarDays /\ syncs' \in 0..MaxBackfills
  BY DEF WriteBar, RunInv
<1>4. /\ r \in Runs /\ r.at = "filling" /\ r.next = n + 1 /\ r.bars = run.bars
      /\ r.byDay = run.byDay
  BY <1>1 DEF Runs
<1>5. CASE existing.stored
  <2> DEFINE fields == planUpdate(existing, bar)
             filled == Filled(rows[d0], bar, fields)
  <2>1. rows' = [rows EXCEPT ![d0] = filled] /\ run' = r
    BY <1>5 DEF WriteBar
  <2>2. rows[d0].stored
    BY <1>1, <1>2, <1>5 DEF RunInv, ReadRowsStay
  <2>3. fields \in SUBSET Fields
    BY DEF planUpdate
  <2>4. /\ filled \in BarRows /\ filled.stored
        /\ \A f \in Fields : filled[f] = IF f \in fields THEN bar[f] ELSE rows[d0][f]
    <3> HIDE DEF fields, bar, d0
    <3> QED
      BY <1>2, <2>2, <2>3, FilledRow
  <2>5. \A f \in Fields : f \in fields <=> bar[f] # Missing /\ existing[f] = Missing
    BY DEF planUpdate
  <2> HIDE DEF fields, filled, r, bar, existing, d0
  <2>6. /\ rows' \in [BarDays -> BarRows] /\ rows'[d0] = filled
        /\ \A e \in BarDays : e # d0 => rows'[e] = rows[e]
    BY <1>1, <1>2, <2>1, <2>4
  <2>7. RunIsPlaced' /\ DoneIsThrough'
    BY <1>1, <1>4, <2>1 DEF RunIsPlaced, DoneIsThrough
  <2>8. ReadRowsStay'
    BY <1>1, <1>2, <1>4, <2>1, <2>4, <2>6 DEF RunInv, ReadRowsStay
  <2>9. ASSUME NEW e, NEW f
        PROVE  /\ d0 # e \/ bar[f] = Missing => SeenOf(e, f)' = SeenOf(e, f)
               /\ d0 = e /\ bar[f] # Missing =>
                     n \in SeenOf(e, f)' /\ \A j \in SeenOf(e, f)' : j <= n
    <3> HIDE DEF n
    <3>1. /\ run.bars[n].day # e \/ run.bars[n][f] = Missing => SeenOf(e, f)' = SeenOf(e, f)
          /\ run.bars[n].day = e /\ run.bars[n][f] # Missing =>
                n \in SeenOf(e, f)' /\ \A j \in SeenOf(e, f)' : j <= n
      BY <1>1, <1>4, <2>1, SeenGrows DEF n
    <3> QED
      BY <3>1 DEF bar, d0
  <2>10. HeldRowsFill'
    <3> SUFFICES ASSUME NEW e \in BarDays \ others, NEW f \in Fields, run.byDay[e].stored
                 PROVE  /\ run.byDay[e][f] # Missing => rows'[e][f] = run.byDay[e][f]
                        /\ run.byDay[e][f] = Missing => IsTheLast(e, f, rows[e][f])'
      BY <1>3, <1>4, <2>1 DEF HeldRowsFill
    <3>1. /\ run.byDay[e][f] # Missing => rows[e][f] = run.byDay[e][f]
          /\ run.byDay[e][f] = Missing => IsTheLast(e, f, rows[e][f])
      BY <1>1 DEF RunInv, HeldRowsFill
    <3>2. CASE e # d0 \/ bar[f] = Missing
      <4>1. rows'[e][f] = rows[e][f]
        BY <2>4, <2>5, <2>6, <3>2
      <4>2. SeenOf(e, f)' = SeenOf(e, f) /\ run'.bars = run.bars
        BY <1>4, <2>1, <2>9, <3>2
      <4> QED
        BY <3>1, <4>1, <4>2 DEF IsTheLast
    <3>3. CASE e = d0 /\ bar[f] # Missing
      <4>1. CASE run.byDay[e][f] # Missing
        <5>1. f \notin fields
          BY <2>5, <3>3, <4>1 DEF existing
        <5> QED
          BY <2>4, <2>6, <3>1, <3>3, <4>1, <5>1
      <4>2. CASE run.byDay[e][f] = Missing
        <5>1. rows'[e][f] = bar[f]
          BY <2>4, <2>5, <2>6, <3>3, <4>2 DEF existing
        <5>2. n \in SeenOf(e, f)' /\ \A j \in SeenOf(e, f)' : j <= n
          BY <2>9, <3>3
        <5>3. run'.bars[n] = bar
          BY <1>4, <2>1 DEF bar
        <5> HIDE DEF n
        <5> QED
          BY <4>2, <5>1, <5>2, <5>3 DEF IsTheLast
      <4> QED
        BY <4>1, <4>2
    <3> QED
      BY <3>2, <3>3
  <2>11. NewRowsAreBars'
    <3>1. \A e \in BarDays : ~run.byDay[e].stored => e # d0
      BY <1>5 DEF existing
    <3>2. \A i : i \in 1..n <=> i \in 1..n - 1 \/ i = n
      BY <1>1
    <3>3. run.bars[n].day = d0
      BY DEF bar, d0
    <3>4. run'.next - 1 = n /\ run'.bars = run.bars /\ run'.byDay = run.byDay /\ others' = others
      BY <1>1, <1>3, <1>4, <2>1
    <3>5. SUFFICES ASSUME NEW e \in BarDays \ others, ~run.byDay[e].stored
                 PROVE  /\ (\A i \in 1..n : run.bars[i].day # e) => rows'[e] = NoBarRow
                        /\ \A i \in 1..n : run.bars[i].day = e =>
                              /\ rows'[e] = RowOf(run.bars[i])
                              /\ \A j \in 1..n : run.bars[j].day = e => j = i
      BY <3>4 DEF NewRowsAreBars
    <3>6. rows'[e] = rows[e]
      BY <2>6, <3>1, <3>5
    <3>7. /\ (\A i \in 1..n - 1 : run.bars[i].day # e) => rows[e] = NoBarRow
          /\ \A i \in 1..n - 1 : run.bars[i].day = e =>
                /\ rows[e] = RowOf(run.bars[i])
                /\ \A j \in 1..n - 1 : run.bars[j].day = e => j = i
      BY <1>1, <3>5 DEF RunInv, NewRowsAreBars
    <3>8. run.bars[n].day # e
      BY <3>1, <3>3, <3>5
    <3> HIDE DEF n
    <3> QED
      BY <3>2, <3>6, <3>7, <3>8
  <2> QED
    BY <1>3, <1>4, <2>1, <2>6, <2>7, <2>8, <2>10, <2>11 DEF RunInv
<1>6. CASE ~existing.stored /\ rows[d0].stored
  <2>1. rows' = rows /\ run' = NoRun("thrown")
    BY <1>6 DEF WriteBar
  <2>2. NoRun("thrown") \in Runs /\ run'.at = "thrown" /\ run'.next = 1 /\ run'.bars = <<>>
    BY <2>1, NoRunIsARun DEF RunStates
  <2>3. RunIsPlaced'
    BY <2>2 DEF RunIsPlaced
  <2> QED
    BY <1>1, <1>3, <2>1, <2>2, <2>3, NothingPromised DEF RunInv
<1>7. CASE ~existing.stored /\ ~rows[d0].stored
  <2>1. rows' = [rows EXCEPT ![d0] = RowOf(bar)] /\ run' = r
    BY <1>7 DEF WriteBar
  <2>2. RowOf(bar) \in BarRows /\ RowOf(bar).stored
    BY <1>2 DEF RowOf, BarRows, Bars, Missing
  <2> HIDE DEF r, bar, existing, d0
  <2>6. /\ rows' \in [BarDays -> BarRows] /\ rows'[d0] = RowOf(bar)
        /\ \A e \in BarDays : e # d0 => rows'[e] = rows[e]
    BY <1>1, <1>2, <2>1, <2>2
  <2>7. RunIsPlaced' /\ DoneIsThrough'
    BY <1>1, <1>4, <2>1 DEF RunIsPlaced, DoneIsThrough
  <2>8. ReadRowsStay'
    BY <1>1, <1>2, <1>4, <2>1, <2>2, <2>6 DEF RunInv, ReadRowsStay
  <2>10. HeldRowsFill'
    <3> SUFFICES ASSUME NEW e \in BarDays \ others, NEW f \in Fields, run.byDay[e].stored
                 PROVE  /\ run.byDay[e][f] # Missing => rows'[e][f] = run.byDay[e][f]
                        /\ run.byDay[e][f] = Missing => IsTheLast(e, f, rows[e][f])'
      BY <1>3, <1>4, <2>1 DEF HeldRowsFill
    <3>1. /\ run.byDay[e][f] # Missing => rows[e][f] = run.byDay[e][f]
          /\ run.byDay[e][f] = Missing => IsTheLast(e, f, rows[e][f])
      BY <1>1 DEF RunInv, HeldRowsFill
    <3>2. e # d0 /\ rows'[e] = rows[e]
      BY <1>7, <2>6 DEF existing
    <3>3. SeenOf(e, f)' = SeenOf(e, f) /\ run'.bars = run.bars
      <4> HIDE DEF n
      <4>1. run.bars[n].day # e
        BY <3>2 DEF bar, d0
      <4> QED
        BY <1>1, <1>4, <2>1, <4>1, SeenGrows DEF n
    <3> QED
      BY <3>1, <3>2, <3>3 DEF IsTheLast
  <2>11. NewRowsAreBars'
    <3>1. run.bars[n] = bar /\ bar.day = d0 /\ n + 1 - 1 = n
      BY <1>1 DEF bar, d0
    <3>2. \A i : i \in 1..n <=> i \in 1..n - 1 \/ i = n
      BY <1>1
    <3>3. d0 \notin others => \A i \in 1..n - 1 : run.bars[i].day # d0
      <4> SUFFICES ASSUME d0 \notin others, NEW i \in 1..n - 1, run.bars[i].day = d0 PROVE FALSE
        OBVIOUS
      <4>1. rows[d0] = RowOf(run.bars[i])
        BY <1>1, <1>2, <1>7 DEF RunInv, NewRowsAreBars, existing
      <4> QED
        BY <1>7, <4>1 DEF RowOf
    <3>0. run'.next - 1 = n /\ run'.bars = run.bars /\ run'.byDay = run.byDay /\ others' = others
      BY <1>1, <1>3, <1>4, <2>1
    <3>4. SUFFICES ASSUME NEW e \in BarDays \ others, ~run.byDay[e].stored
                 PROVE  /\ (\A i \in 1..n : run.bars[i].day # e) => rows'[e] = NoBarRow
                        /\ \A i \in 1..n : run.bars[i].day = e =>
                              /\ rows'[e] = RowOf(run.bars[i])
                              /\ \A j \in 1..n : run.bars[j].day = e => j = i
      BY <3>0 DEF NewRowsAreBars
    <3>5. CASE e = d0
      BY <1>1, <2>6, <3>1, <3>2, <3>3, <3>5
    <3>6. CASE e # d0
      <4>1. rows'[e] = rows[e]
        BY <2>6, <3>6
      <4> QED
        BY <1>1, <3>1, <3>2, <3>4, <3>6, <4>1 DEF RunInv, NewRowsAreBars
    <3> QED
      BY <3>5, <3>6
  <2> QED
    BY <1>3, <1>4, <2>1, <2>6, <2>7, <2>8, <2>10, <2>11 DEF RunInv
<1> QED
  BY <1>5, <1>6, <1>7

LaneVars == <<indexRow, pass>>

LEMMA LaneStarts == InitBackfill => LaneInv
BY DEF InitBackfill, LaneInv, NoPass, IndexSessions, PassStates

LEMMA LaneAside == ASSUME LaneInv, UNCHANGED LaneVars PROVE LaneInv'
BY DEF LaneInv, LaneVars, SessionDays

\* Sarmaaya's points: of a day each, finitely many.
LEMMA PointsAreOfDays ==
    ASSUME NEW prices \in Seq([day : Nat, price : Nat]), NEW volumes \in Seq([day : Nat, volume : Nat])
    PROVE  LET points == parseIndexHistory(prices, volumes)
           IN  /\ points \subseteq [day : Nat, value : Nat, volume : Nat]
               /\ IsFiniteSet(points)
<1> DEFINE days == {prices[i].day : i \in Readable(prices)}
           volume(d) == IF LastOn(volumes, d) = {} THEN Missing
                        ELSE volumes[CHOOSE i \in LastOn(volumes, d) : TRUE].volume
           point == [d \in days |-> [day |-> d, value |-> prices[FirstOn(prices, d)].price, volume |-> volume(d)]]
           points == parseIndexHistory(prices, volumes)
<1>1. /\ Readable(prices) \subseteq DOMAIN prices /\ DOMAIN prices = 1..Len(prices) /\ Len(prices) \in Nat
      /\ \A i \in DOMAIN prices : prices[i].day \in Nat /\ prices[i].price \in Nat
      /\ \A i \in DOMAIN volumes : volumes[i].volume \in Nat
  <2> DEFINE PricesOf == [day : Nat, price : Nat]
             Volumes == [day : Nat, volume : Nat]
  <2>1. prices \in Seq(PricesOf) /\ volumes \in Seq(Volumes)
    OBVIOUS
  <2> HIDE DEF PricesOf, Volumes
  <2>2. /\ DOMAIN prices = 1..Len(prices) /\ Len(prices) \in Nat
        /\ \A i \in DOMAIN prices : prices[i] \in PricesOf
        /\ \A i \in DOMAIN volumes : volumes[i] \in Volumes
    BY <2>1
  <2> QED
    BY <2>2 DEF Readable, PricesOf, Volumes
<1>2. points = {point[d] : d \in days}
  BY DEF parseIndexHistory
<1>3. \A d \in days : d \in Nat
  BY <1>1
<1>4. ASSUME NEW d \in days PROVE prices[FirstOn(prices, d)].price \in Nat
  <2> DEFINE on == {i \in Readable(prices) : prices[i].day = d}
  <2>1. on \in SUBSET Nat /\ on # {}
    BY <1>1
  <2>2. PICK i \in on : \A j \in on : i <= j
    <3> HIDE DEF on
    <3> QED
      BY <2>1, LeastOf
  <2>3. \A j \in Readable(prices) : j < i => prices[j].day # d
    <3> SUFFICES ASSUME NEW j \in Readable(prices), j < i, prices[j].day = d PROVE FALSE
      OBVIOUS
    <3>1. j \in on /\ i \in Nat /\ j \in Nat
      BY <1>1, <2>1, <2>2
    <3>2. i <= j
      BY <2>2, <3>1
    <3> QED
      BY <3>1, <3>2
  <2>4. FirstOn(prices, d) \in Readable(prices)
    BY <2>2, <2>3 DEF FirstOn
  <2> QED
    BY <1>1, <2>4
<1>5. ASSUME NEW d \in days PROVE volume(d) \in Nat
  <2>1. CASE LastOn(volumes, d) = {}
    BY <2>1 DEF Missing
  <2>2. CASE LastOn(volumes, d) # {}
    <3> DEFINE i0 == CHOOSE i \in LastOn(volumes, d) : TRUE
    <3>0. \E i \in LastOn(volumes, d) : TRUE
      BY <2>2
    <3>1. i0 \in LastOn(volumes, d)
      BY <3>0, Zenon
    <3>2. volume(d) = volumes[i0].volume
      BY <2>2
    <3> HIDE DEF i0, volume
    <3>3. i0 \in DOMAIN volumes
      BY <3>1 DEF LastOn
    <3> QED
      BY <1>1, <3>2, <3>3
  <2> QED
    BY <2>1, <2>2
<1>6. IsFiniteSet(days)
  <2>1. IsFiniteSet(Readable(prices))
    <3>0. PICK n \in Nat : n = Len(prices)
      BY <1>1
    <3>1. IsFiniteSet(1..n)
      BY FS_Interval
    <3> QED
      BY <1>1, <3>0, <3>1, FS_Subset
  <2> DEFINE g == [i \in Readable(prices) |-> prices[i].day]
  <2>2. g \in Surjection(Readable(prices), days)
    BY DEF Surjection
  <2> HIDE DEF g, days
  <2> QED
    BY <2>1, <2>2, FS_Surjection
<1>7. \A d \in days : point[d] \in [day : Nat, value : Nat, volume : Nat]
  <2> HIDE DEF days, volume
  <2> QED
    BY <1>3, <1>4, <1>5
<1>8. IsFiniteSet(points)
  <2>1. point \in Surjection(days, points)
    <3> HIDE DEF days, volume, points
    <3>1. DOMAIN point = days /\ point = [d \in days |-> point[d]]
      OBVIOUS
    <3> HIDE DEF point
    <3>2. point \in [days -> points] /\ \A q \in points : \E d \in days : point[d] = q
      BY <1>2, <3>1
    <3> QED
      BY <3>2 DEF Surjection
  <2> HIDE DEF point, points, days
  <2> QED
    BY <1>6, <2>1, FS_Surjection
<1> HIDE DEF point, days, volume
<1> QED
  BY <1>2, <1>7, <1>8

LEMMA LaneStep ==
    ASSUME LaneInv,
           (\E payload \in IndexPayloads : RegisterPass(payload) \/ FetchSeries(payload))
              \/ FillPass \/ createIndex \/ LosePass
    PROVE  LaneInv'
<1>1. ASSUME NEW payload \in IndexPayloads, RegisterPass(payload) PROVE LaneInv'
  <2> DEFINE points == parseIndexHistory(payload.prices, <<>>)
             sessions == Cardinality(points)
  <2>1. payload.prices \in Seq([day : Nat, price : Nat]) /\ <<>> \in Seq([day : Nat, volume : Nat])
    BY PayloadsAssumption
  <2>2. sessions \in Nat
    <3>1. IsFiniteSet(points)
      BY <2>1, PointsAreOfDays
    <3> HIDE DEF points
    <3> QED
      BY <3>1, FS_CardinalityType
  <2>3. /\ UNCHANGED indexRow
        /\ pass' = [NoPass EXCEPT !.at = IF sessions = 0 THEN "idle" ELSE "verified",
                                  !.answer = IF sessions = 0 THEN <<>> ELSE <<sessions>>]
    BY <1>1 DEF RegisterPass
  <2> HIDE DEF sessions
  <2>4. CASE sessions = 0
    <3>1. pass'.at = "idle"
      BY <2>3, <2>4 DEF NoPass
    <3> QED
      BY <2>3, <3>1 DEF LaneInv, PassStates
  <2>5. CASE sessions # 0
    <3>1. pass'.at = "verified" /\ pass'.answer = <<sessions>>
      BY <2>3, <2>5 DEF NoPass
    <3>2. pass'.answer[1] > 0
      BY <2>2, <2>5, <3>1
    <3> QED
      BY <2>3, <3>1, <3>2 DEF LaneInv, PassStates
  <2> QED
    BY <2>4, <2>5
<1>2. ASSUME NEW payload \in IndexPayloads, FetchSeries(payload) PROVE LaneInv'
  <2>1. /\ pass.at = "registered" /\ UNCHANGED indexRow
        /\ pass'.at = "answered" /\ pass'.held = SessionDays
        /\ pass'.answer = <<parseIndexHistory(payload.prices, payload.volumes)>>
    BY <1>2 DEF FetchSeries, NoPass
  <2> QED
    BY <2>1 DEF LaneInv, PassStates, SessionDays
<1>3. ASSUME FillPass PROVE LaneInv'
  <2>1. indexRow.tracked /\ UNCHANGED indexRow /\ pass'.at = "registered"
    BY <1>3 DEF FillPass, NoPass
  <2> QED
    BY <2>1 DEF LaneInv, PassStates
<1>4. ASSUME createIndex PROVE LaneInv'
  <2> DEFINE n == pass.answer[1]
             r == [indexRow EXCEPT !.tracked = TRUE, !.answeredFor = n]
  <2>1. pass.at = "verified" /\ indexRow' = r /\ pass'.at = "registered" /\ n > 0
    BY <1>4 DEF createIndex, NoPass, LaneInv
  <2>2. PICK old : old = indexRow
    OBVIOUS
  <2>3. old = [tracked |-> old.tracked, synced |-> old.synced, sessions |-> old.sessions, answeredFor |-> old.answeredFor]
    BY <2>2 DEF LaneInv
  <2>4. r = [[old EXCEPT !.tracked = TRUE] EXCEPT !.answeredFor = n]
    BY <2>2
  <2> HIDE DEF r, n
  <2>5. r = [tracked |-> TRUE, synced |-> old.synced, sessions |-> old.sessions, answeredFor |-> n]
    BY <2>3, <2>4
  <2>6. r.tracked = TRUE /\ r.answeredFor = n /\ r.synced = indexRow.synced /\ r.sessions = indexRow.sessions
    BY <2>2, <2>5
  <2>7. r = [tracked |-> r.tracked, synced |-> r.synced, sessions |-> r.sessions, answeredFor |-> r.answeredFor]
    BY <2>5
  <2>8. r.synced \in BOOLEAN /\ r.sessions \in IndexSessions
    BY <2>6 DEF LaneInv
  <2>9. \A i, j \in DOMAIN r.sessions : r.sessions[i].day = r.sessions[j].day => i = j
    BY <2>6 DEF LaneInv
  <2>10. indexRow' = r /\ n > 0 /\ pass'.at = "registered"
    BY <2>1
  <2> QED
    BY <2>6, <2>7, <2>8, <2>9, <2>10 DEF LaneInv, PassStates
<1>5. ASSUME LosePass PROVE LaneInv'
  <2>1. UNCHANGED indexRow /\ pass'.at = "idle"
    BY <1>5 DEF LosePass, NoPass
  <2> QED
    BY <2>1 DEF LaneInv, PassStates
<1> QED
  BY <1>1, <1>2, <1>3, <1>4, <1>5

\* The days inserted are new, and of a row each.
LEMMA InsertKeeps == ASSUME LaneInv, InsertAndMark PROVE LaneInv'
<1> DEFINE Rows == [day : Nat, value : Nat, volume : Nat]
           plan == planIndexInserts(pass.held, pass.answer[1])
           held == indexRow.sessions
<1>1. PICK payload \in IndexPayloads : pass.answer = <<parseIndexHistory(payload.prices, payload.volumes)>>
  BY DEF LaneInv, InsertAndMark
<1>2. /\ payload.prices \in Seq([day : Nat, price : Nat])
      /\ payload.volumes \in Seq([day : Nat, volume : Nat])
  BY PayloadsAssumption
<1>3. pass.answer[1] \subseteq Rows /\ IsFiniteSet(pass.answer[1])
  BY <1>1, <1>2, PointsAreOfDays
<1>4. plan \subseteq Rows /\ Cardinality(plan) \in Nat /\ \A p \in plan : p.day \notin SessionDays
  <2>1. plan \in SUBSET pass.answer[1]
    BY DEF planIndexInserts
  <2>2. IsFiniteSet(plan)
    <3> HIDE DEF plan
    <3> QED
      BY <1>3, <2>1, FS_Subset
  <2>3. Cardinality(plan) \in Nat
    <3> HIDE DEF plan
    <3> QED
      BY <2>2, FS_CardinalityType
  <2>4. pass.held = SessionDays
    BY DEF LaneInv, InsertAndMark
  <2>5. \A p \in plan : p.day \notin SessionDays
    BY <2>4 DEF planIndexInserts
  <2> HIDE DEF plan
  <2> QED
    BY <1>3, <2>1, <2>3, <2>5
<1>5. PICK order \in [1..Cardinality(plan) -> plan] :
         /\ \A i, j \in DOMAIN order : i < j => order[i].day < order[j].day
         /\ indexRow' = [indexRow EXCEPT !.sessions = held \o order, !.synced = TRUE]
  BY DEF InsertAndMark
<1> HIDE DEF plan, Rows
<1>6. order \in Seq(Rows) /\ Len(order) = Cardinality(plan) /\ DOMAIN order = 1..Len(order)
  BY <1>4, <1>5
<1>7. held \in Seq(Rows)
  BY DEF LaneInv, IndexSessions, Rows
<1> DEFINE all == held \o order
<1>8. /\ all \in Seq(Rows) /\ Len(all) = Len(held) + Len(order)
      /\ \A i \in 1..Len(all) : all[i] = IF i <= Len(held) THEN held[i] ELSE order[i - Len(held)]
  BY <1>6, <1>7
<1>9. /\ indexRow'.sessions = all /\ indexRow'.synced = TRUE /\ indexRow'.tracked = indexRow.tracked
      /\ indexRow'.answeredFor = indexRow.answeredFor
      /\ indexRow' = [tracked |-> indexRow.tracked, synced |-> TRUE, sessions |-> all, answeredFor |-> indexRow.answeredFor]
  <2> HIDE DEF all
  <2>1. indexRow' = [indexRow EXCEPT !.sessions = all, !.synced = TRUE]
    BY <1>5 DEF all
  <2> QED
    BY <2>1 DEF LaneInv
<1>10. pass'.at = "idle" /\ indexRow.tracked
  BY DEF InsertAndMark, NoPass, LaneInv
<1> DEFINE h == Len(held)
           m == Len(order)
<1>11. ASSUME NEW i \in 1..Len(all), NEW j \in 1..Len(all), all[i].day = all[j].day PROVE i = j
  <2> HIDE DEF all
  <2>1. h \in Nat /\ m \in Nat /\ Len(all) = h + m
    BY <1>6, <1>7, <1>8
  <2>2. \A k \in 1..h : held[k].day \in SessionDays /\ k \in DOMAIN held
    BY <1>7 DEF SessionDays
  <2>3. \A k \in 1..m : order[k].day \notin SessionDays /\ order[k].day \in Nat
    BY <1>4, <1>5, <1>6 DEF Rows
  <2>4. \A k, l \in 1..m : order[k].day = order[l].day => k = l
    <3> SUFFICES ASSUME NEW k \in 1..m, NEW l \in 1..m, order[k].day = order[l].day PROVE k = l
      OBVIOUS
    <3>1. k < l => order[k].day < order[l].day
      BY <1>5, <1>6
    <3>2. l < k => order[l].day < order[k].day
      BY <1>5, <1>6
    <3>3. k \in Nat /\ l \in Nat
      BY <2>1
    <3>4. order[k].day \in Nat
      BY <2>3
    <3> HIDE DEF m
    <3> QED
      BY <3>1, <3>2, <3>3, <3>4
  <2>5. \A k, l \in 1..h : held[k].day = held[l].day => k = l
    BY <2>2 DEF LaneInv
  <2>6. \A k \in 1..Len(all) :
           \/ k \in 1..h /\ all[k] = held[k]
           \/ k - h \in 1..m /\ all[k] = order[k - h]
    <3> SUFFICES ASSUME NEW k \in 1..Len(all)
                 PROVE  (k \in 1..h /\ all[k] = held[k]) \/ (k - h \in 1..m /\ all[k] = order[k - h])
      OBVIOUS
    <3>1. all[k] = IF k <= h THEN held[k] ELSE order[k - h]
      BY <1>8
    <3> HIDE DEF h, m
    <3>2. k \in Nat /\ 1 <= k /\ k <= h + m
      <4>1. PICK n \in Nat : n = Len(all) /\ n = h + m
        BY <2>1
      <4>2. k \in 1..n
        BY <4>1
      <4>3. k \in Nat /\ 1 <= k /\ k <= n
        BY <4>2
      <4> QED
        BY <4>1, <4>3
    <3>3. k <= h => k \in 1..h
      BY <2>1, <3>2
    <3>4. ~(k <= h) => k - h \in 1..m
      BY <2>1, <3>2
    <3> QED
      BY <3>1, <3>3, <3>4
  <2> HIDE DEF h, m
  <2>7. CASE i \in 1..h /\ all[i] = held[i]
    <3>1. all[i].day \in SessionDays
      BY <2>2, <2>7
    <3>2. j \in 1..h /\ all[j] = held[j]
      BY <1>11, <2>3, <2>6, <3>1
    <3> QED
      BY <1>11, <2>5, <2>7, <3>2
  <2>8. CASE i - h \in 1..m /\ all[i] = order[i - h]
    <3>1. all[i].day \notin SessionDays
      BY <2>3, <2>8
    <3>2. j - h \in 1..m /\ all[j] = order[j - h]
      BY <1>11, <2>2, <2>6, <3>1
    <3>3. i - h = j - h
      BY <1>11, <2>4, <2>8, <3>2
    <3>4. i \in Int /\ j \in Int
      OBVIOUS
    <3> QED
      BY <2>1, <3>3, <3>4
  <2> QED
    BY <2>6, <2>7, <2>8
<1> HIDE DEF h, m
<1>12. \A i, j \in DOMAIN indexRow'.sessions :
          indexRow'.sessions[i].day = indexRow'.sessions[j].day => i = j
  <2>1. DOMAIN all = 1..Len(all)
    BY <1>8
  <2> HIDE DEF all
  <2> QED
    BY <1>9, <1>11, <2>1
<1>13. indexRow'.sessions \in IndexSessions
  <2> HIDE DEF all
  <2> QED
    BY <1>8, <1>9 DEF IndexSessions, Rows
<1> HIDE DEF all
<1> QED
  BY <1>9, <1>10, <1>12, <1>13 DEF LaneInv, PassStates

LEMMA BackfillStep == BackfillInv /\ [NextBackfill]_backfillVars => BackfillInv'
<1> SUFFICES ASSUME BackfillInv, [NextBackfill]_backfillVars PROVE BackfillInv'
  OBVIOUS
<1>0. RunInv /\ LaneInv
  BY DEF BackfillInv
<1>1. ASSUME NEW payload \in Payloads, fetchDailyBars(payload) PROVE RunInv' /\ UNCHANGED LaneVars
  BY <1>0, <1>1, FetchKeeps DEF fetchDailyBars, LaneVars
<1>2. ASSUME ReadRows PROVE RunInv' /\ UNCHANGED LaneVars
  BY <1>0, <1>2, ReadKeeps DEF ReadRows, LaneVars
<1>3. ASSUME WriteBar PROVE RunInv' /\ UNCHANGED LaneVars
  BY <1>0, <1>3, WriteKeeps DEF WriteBar, LaneVars
<1>4. ASSUME FinishRun \/ DieRunning PROVE RunInv' /\ UNCHANGED LaneVars
  BY <1>0, <1>4, SkippedKeeps DEF FinishRun, DieRunning, LaneVars
<1>5. ASSUME NEW d \in BarDays, NEW o \in BarPrices \cup {Missing}, NEW c \in BarPrices,
             bulkUpsertHistory([day |-> d, open |-> o, close |-> c])
      PROVE  RunInv' /\ UNCHANGED LaneVars
  <2>1. UNCHANGED LaneVars
    BY <1>5 DEF bulkUpsertHistory, LaneVars
  <2> QED
    BY <1>0, <1>5, <2>1, UpsertKeeps
<1>6. ASSUME (\E payload \in IndexPayloads : RegisterPass(payload)) \/ FillPass
      PROVE  RunInv' /\ LaneInv'
  <2>1. UNCHANGED <<rows, run, others>> /\ syncs < MaxBackfills /\ syncs' = syncs + 1
    BY <1>6 DEF RegisterPass, FillPass, Begin
  <2>2. syncs' \in 0..MaxBackfills
    BY <1>0, <2>1, BackfillAssumption DEF RunInv
  <2>3. RunInv'
    BY <1>0, <2>1, <2>2
    DEF RunInv, RunIsPlaced, DoneIsThrough, ReadRowsStay, HeldRowsFill, NewRowsAreBars, Filling, IsTheLast, SeenOf
  <2> QED
    BY <1>0, <1>6, <2>3, LaneStep
<1>7. ASSUME (\E payload \in IndexPayloads : FetchSeries(payload)) \/ createIndex \/ LosePass
      PROVE  RunInv' /\ LaneInv'
  <2>1. UNCHANGED <<rows, run, others, syncs>>
    BY <1>7 DEF FetchSeries, createIndex, LosePass
  <2> QED
    BY <1>0, <1>7, <2>1, LaneStep, SkippedKeeps
<1>8. ASSUME InsertAndMark PROVE RunInv' /\ LaneInv'
  <2>1. UNCHANGED <<rows, run, others, syncs>>
    BY <1>8 DEF InsertAndMark
  <2> QED
    BY <1>0, <1>8, <2>1, InsertKeeps, SkippedKeeps
<1>9. ASSUME UNCHANGED backfillVars PROVE RunInv' /\ LaneInv'
  <2>1. UNCHANGED <<rows, run, others, syncs>> /\ UNCHANGED LaneVars
    BY <1>9 DEF backfillVars, LaneVars
  <2> QED
    BY <1>0, <2>1, LaneAside, SkippedKeeps
<1> QED
  BY <1>0, <1>1, <1>2, <1>3, <1>4, <1>5, <1>6, <1>7, <1>8, <1>9, LaneAside DEF NextBackfill, BackfillInv

LEMMA GapsAreFilled == BackfillInv => GapsAreFilledOnce
<1> SUFFICES ASSUME BackfillInv PROVE GapsAreFilledOnce
  OBVIOUS
<1>1. /\ indexRow.tracked => indexRow.answeredFor > 0
      /\ indexRow.synced \/ indexRow.sessions # <<>> => indexRow.tracked
      /\ \A i, j \in DOMAIN indexRow.sessions :
            indexRow.sessions[i].day = indexRow.sessions[j].day => i = j
  BY DEF BackfillInv, LaneInv
<1>2. ASSUME Filling, NEW d \in BarDays \ others, NEW f \in Fields, run.byDay[d][f] # Missing
      PROVE  rows[d][f] = run.byDay[d][f]
  <2>1. run.byDay[d].stored
    <3>1. run.byDay[d] \in BarRows
      BY DEF BackfillInv, RunInv, Runs
    <3>2. run.byDay[d] # NoBarRow
      BY <1>2 DEF NoBarRow, Fields
    <3> QED
      BY <3>1, <3>2 DEF BarRows
  <2> QED
    BY <1>2, <2>1 DEF BackfillInv, RunInv, HeldRowsFill
<1>3. ASSUME run.at = "done", NEW d \in BarDays \ others, NEW f \in Fields, run.byDay[d][f] = Missing
      PROVE  rows[d][f] = Given(d, f)
  <2> DEFINE of == {i \in DOMAIN run.bars : run.bars[i].day = d /\ run.bars[i][f] # Missing}
  <2>1. /\ run.bars \in Seq(Bars) /\ Filling /\ DOMAIN run.bars = 1..Len(run.bars) /\ Len(run.bars) \in Nat
        /\ run.next \in 1..Len(run.bars) + 1 /\ run.next > Len(run.bars)
    BY <1>3 DEF BackfillInv, RunInv, Runs, Filling, RunIsPlaced, DoneIsThrough
  <2>2. run.next - 1 = Len(run.bars)
    BY <2>1
  <2>3. SeenOf(d, f) = of
    BY <2>1, <2>2 DEF SeenOf
  <2>4. Given(d, f) = IF of = {} THEN Missing ELSE run.bars[CHOOSE i \in of : \A j \in of : j <= i][f]
    BY DEF Given
  <2>5. of \in SUBSET Nat
    BY <2>1
  <2>6. CASE run.byDay[d].stored
    <3>1. IsTheLast(d, f, rows[d][f])
      BY <1>3, <2>1, <2>6 DEF BackfillInv, RunInv, HeldRowsFill
    <3> HIDE DEF of
    <3>2. CASE of = {}
      BY <2>3, <2>4, <3>1, <3>2 DEF IsTheLast
    <3>3. CASE of # {}
      <4>1. PICK i \in of : rows[d][f] = run.bars[i][f] /\ \A j \in of : j <= i
        BY <2>3, <3>1, <3>3 DEF IsTheLast
      <4>2. \A k \in of : (\A j \in of : j <= k) => k = i
        BY <2>5, <4>1
      <4>3. (CHOOSE k \in of : \A j \in of : j <= k) = i
        BY <4>1, <4>2
      <4> QED
        BY <2>4, <3>3, <4>1, <4>3
    <3> QED
      BY <3>2, <3>3
  <2>7. CASE ~run.byDay[d].stored
    <3>1. /\ (\A i \in 1..Len(run.bars) : run.bars[i].day # d) => rows[d] = NoBarRow
          /\ \A i \in 1..Len(run.bars) : run.bars[i].day = d =>
                /\ rows[d] = RowOf(run.bars[i])
                /\ \A j \in 1..Len(run.bars) : run.bars[j].day = d => j = i
      BY <2>1, <2>2, <2>7 DEF BackfillInv, RunInv, NewRowsAreBars
    <3>2. CASE \A i \in 1..Len(run.bars) : run.bars[i].day # d
      <4>1. of = {}
        BY <2>1, <3>2
      <4>2. NoBarRow[f] = Missing
        BY DEF NoBarRow, Fields
      <4> HIDE DEF of
      <4> QED
        BY <2>4, <3>1, <3>2, <4>1, <4>2
    <3>3. CASE \E i \in 1..Len(run.bars) : run.bars[i].day = d
      <4>1. PICK i \in 1..Len(run.bars) : run.bars[i].day = d
        BY <3>3
      <4>2. rows[d][f] = run.bars[i][f] /\ \A j \in 1..Len(run.bars) : run.bars[j].day = d => j = i
        <5>1. rows[d] = RowOf(run.bars[i]) /\ \A j \in 1..Len(run.bars) : run.bars[j].day = d => j = i
          BY <3>1, <4>1
        <5>2. rows[d].open = run.bars[i].open /\ rows[d].close = run.bars[i].close
          BY <5>1 DEF RowOf
        <5>3. f = "open" \/ f = "close"
          BY DEF Fields
        <5> QED
          BY <5>1, <5>2, <5>3
      <4>3. CASE run.bars[i][f] = Missing
        <5>1. of = {}
          BY <2>1, <4>2, <4>3
        <5> HIDE DEF of
        <5> QED
          BY <2>4, <4>2, <4>3, <5>1
      <4>4. CASE run.bars[i][f] # Missing
        <5>1. i \in of /\ \A j \in of : j = i
          BY <2>1, <4>1, <4>2, <4>4
        <5>2. i <= i
          BY <2>1
        <5> HIDE DEF of
        <5>3. (CHOOSE k \in of : \A j \in of : j <= k) = i
          BY <5>1, <5>2
        <5> QED
          BY <2>4, <4>2, <5>1, <5>3
      <4> QED
        BY <4>3, <4>4
    <3> QED
      BY <3>2, <3>3
  <2> QED
    BY <2>6, <2>7
<1>4. run.at \in {"filling", "done"} =>
          \A d \in BarDays \ others, f \in Fields :
              IF run.byDay[d][f] # Missing THEN rows[d][f] = run.byDay[d][f]
              ELSE run.at = "done" => rows[d][f] = Given(d, f)
  BY <1>2, <1>3 DEF Filling
<1> QED
  BY <1>1, <1>4 DEF GapsAreFilledOnce

\* What a run read, what it fetched and the rows it writes keep their types.
THEOREM BackfillTypes == BackfillSpec => []BackfillTypeOK
<1>1. BackfillInv => BackfillTypeOK
  <2> SUFFICES ASSUME BackfillInv PROVE BackfillTypeOK
    OBVIOUS
  <2>1. run \in Runs /\ RunIsPlaced
    BY DEF BackfillInv, RunInv
  <2>2. run.at \in {"idle", "thrown", "done", "fetched", "filling"} /\ run.byDay \in [BarDays -> BarRows]
    BY <2>1 DEF Runs, RunStates
  <2> QED
    BY <2>1, <2>2 DEF BackfillInv, RunInv, LaneInv, PassStates, BackfillTypeOK, RunIsPlaced
<1>2. InitBackfill => BackfillInv
  BY RunStarts, LaneStarts DEF BackfillInv
<1> QED
  BY <1>1, <1>2, BackfillStep, PTL DEF BackfillSpec

\* Whatever the source published and however the history sync crossed a run, a backfill
\* writes what a session had not and leaves every figure it had (indexHistoryBackfill).
THEOREM GapsAreOnlyFilled == BackfillSpec => []GapsAreFilledOnce
<1>1. InitBackfill => BackfillInv
  BY RunStarts, LaneStarts DEF BackfillInv
<1> QED
  BY <1>1, BackfillStep, GapsAreFilled, PTL DEF BackfillSpec

===============================================================================
