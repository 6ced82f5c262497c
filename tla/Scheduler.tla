----------------------------- MODULE Scheduler -----------------------------
(***************************************************************************)
(* The repeatable jobs.  Every worker registers every job as it boots, and *)
(* the queue keys a repeatable by its pattern: one that is not removed goes*)
(* on ticking beside its successor.  A registrar reads the patterns that   *)
(* tick, removes some, one call each, and adds its own; two workers may be *)
(* at it at once, with different settings while a deployment rolls over    *)
(* them, and either may die between two calls.  The jobs have names of     *)
(* their own and never meet: a behaviour is about one of them.             *)
(***************************************************************************)
EXTENDS Integers

CONSTANTS
    Workers,        \* worker processes
    Patterns,       \* cron patterns a job may be set to
    MaxDeploys      \* bound on deployments

ASSUME SchedulerAssumption == MaxDeploys \in Nat

Settings == [on : BOOLEAN, pattern : Patterns]

---------------------------------------------------------------------------
(***************************************************************************)
(* What each registrar does to a listing: the patterns it removes and the  *)
(* pattern it adds, if any.                                                *)
(***************************************************************************)
leave(listing) == [drop |-> {}, add |-> {}]
dropAll(listing) == [drop |-> listing, add |-> {}]

\* Deviation: nothing is removed.
addOnly(listing, p) == [drop |-> {}, add |-> {p}]

reconcile(listing, p) == [drop |-> listing \ {p}, add |-> {p}]
drain(listing, p) == [drop |-> listing, add |-> {p}]

registerQuotePollSchedule(listing, env) == reconcile(listing, env.pattern)
registerMarketCapCarrySchedule(listing, env) == reconcile(listing, env.pattern)
registerLogoRefreshSchedule(listing, env) == reconcile(listing, env.pattern)

registerKse100MembershipSchedule(listing, env) ==
    IF env.on THEN reconcile(listing, env.pattern) ELSE dropAll(listing)
registerMarketCapSchedule(listing, env) ==
    IF env.on THEN reconcile(listing, env.pattern) ELSE dropAll(listing)
registerCompanyProfileSchedule(listing, env) ==
    IF env.on THEN reconcile(listing, env.pattern) ELSE dropAll(listing)

\* Switched off, the pattern it would have had is left ticking.
registerSessionCandleSchedule(listing, env) ==
    [drop |-> listing \ {env.pattern},
     add |-> IF env.on /\ env.pattern \notin listing THEN {env.pattern} ELSE {}]

registerCorporateActionSchedule(listing, env) ==
    IF env.on THEN reconcile(listing, env.pattern) ELSE leave(listing)
registerUniversePassSchedule(listing, env) ==
    IF env.on THEN drain(listing, env.pattern) ELSE leave(listing)

registerIndexBoardSchedule(listing, env) == drain(listing, env.pattern)
registerIndexContributionSchedule(listing, env) == drain(listing, env.pattern)

\* The full sync and the index syncs, all on one expression.
registerSyncAll(listing, env) == [drop |-> {}, add |-> {env.pattern}]

Register(job, listing, env) ==
    CASE job = "quote-poll" -> registerQuotePollSchedule(listing, env)
      [] job = "kse100-membership" -> registerKse100MembershipSchedule(listing, env)
      [] job = "market-cap" -> registerMarketCapSchedule(listing, env)
      [] job = "market-cap-carry" -> registerMarketCapCarrySchedule(listing, env)
      [] job = "logo-refresh" -> registerLogoRefreshSchedule(listing, env)
      [] job = "session-candle" -> registerSessionCandleSchedule(listing, env)
      [] job = "corporate-actions" -> registerCorporateActionSchedule(listing, env)
      [] job = "universe-pass" -> registerUniversePassSchedule(listing, env)
      [] job = "index-board" -> registerIndexBoardSchedule(listing, env)
      [] job = "index-contributions" -> registerIndexContributionSchedule(listing, env)
      [] job = "company-profile" -> registerCompanyProfileSchedule(listing, env)
      [] job = "sync-all" -> registerSyncAll(listing, env)

\* The jobs a switch turns on and off, and those whose registrar removes what
\* it finds when it is off.
Switched == {"kse100-membership", "market-cap", "session-candle", "corporate-actions",
             "universe-pass", "company-profile"}
SwitchedClean == {"kse100-membership", "market-cap", "company-profile"}
Reconciled == {"quote-poll", "market-cap-carry", "logo-refresh", "index-board",
               "index-contributions"} \cup Switched
Jobs == Reconciled \cup {"sync-all"}

Wanted(job, env) == IF job \in Switched /\ ~env.on THEN {} ELSE {env.pattern}

---------------------------------------------------------------------------
VARIABLES
    job,        \* the job a behaviour is about
    ticking,    \* the patterns it ticks on
    boot,       \* what each worker's registration is at
    deploys     \* deployments so far

schedulerVars == <<job, ticking, boot, deploys>>

Steps == {"list", "drop", "up"}

SchedulerTypeOK ==
    /\ job \in Jobs /\ ticking \subseteq Patterns /\ deploys \in 0..MaxDeploys
    /\ boot \in [Workers -> [env : Settings, at : Steps,
                             drop : SUBSET Patterns, add : SUBSET Patterns]]

Boot(env) == [env |-> env, at |-> "list", drop |-> {}, add |-> {}]

\* A first deployment, of any settings.
InitScheduler ==
    /\ job \in Jobs /\ ticking = {}
    /\ \E env \in Settings : boot = [w \in Workers |-> Boot(env)]
    /\ deploys = 0

ListRepeatables(w) ==
    /\ boot[w].at = "list"
    /\ LET plan == Register(job, ticking, boot[w].env)
       IN boot' = [boot EXCEPT ![w].at = "drop", ![w].drop = plan.drop, ![w].add = plan.add]
    /\ UNCHANGED <<job, ticking, deploys>>

RemoveRepeatable(w) ==
    /\ boot[w].at = "drop"
    /\ \E p \in boot[w].drop :
          /\ ticking' = ticking \ {p}
          /\ boot' = [boot EXCEPT ![w].drop = @ \ {p}]
    /\ UNCHANGED <<job, deploys>>

AddRepeatable(w) ==
    /\ boot[w].at = "drop" /\ boot[w].drop = {}
    /\ ticking' = ticking \cup boot[w].add
    /\ boot' = [boot EXCEPT ![w].at = "up", ![w].add = {}]
    /\ UNCHANGED <<job, deploys>>

\* A deployment restarts a worker with the settings of its environment; a failed
\* registration, or a crash, is a restart with the ones it had.
Deploy(w) ==
    /\ deploys < MaxDeploys /\ deploys' = deploys + 1
    /\ \E env \in Settings : boot' = [boot EXCEPT ![w] = Boot(env)]
    /\ UNCHANGED <<job, ticking>>

NextScheduler ==
    \E w \in Workers :
        ListRepeatables(w) \/ RemoveRepeatable(w) \/ AddRepeatable(w) \/ Deploy(w)

SchedulerSpec == InitScheduler /\ [][NextScheduler]_schedulerVars

---------------------------------------------------------------------------
(***************************************************************************)
(* What the workers agree on ticks, and nothing else.                      *)
(***************************************************************************)
Settled == \A v, w \in Workers : boot[w].at = "up" /\ boot[v].env = boot[w].env

\* Once every worker runs the same settings, a job that is on ticks on their
\* pattern and on no other, and a job switched off by a registrar that removes
\* what it finds does not tick: whatever ran before, in whichever order the
\* workers came up and wherever one of them died.
AgreedScheduleHolds ==
    Settled =>
        \A w \in Workers :
            LET env == boot[w].env
            IN job \in Reconciled /\ (env.on \/ job \in SwitchedClean \cup (Reconciled \ Switched))
                  => ticking = Wanted(job, env)

=============================================================================
