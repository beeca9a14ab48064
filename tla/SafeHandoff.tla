---------------------------- MODULE SafeHandoff ----------------------------
(***************************************************************************)
(* A continuation that is handed off from one partial plan to the next     *)
(* until it is executable: the progress certificate of each handoff        *)
(* (handoff_liveness.py), the stability of the edge it crosses             *)
(* (handoff_stability.py), the part of _require_wave6_bundle that asks for *)
(* both (schedulability_runtime.py), and the planning budget that each new *)
(* plan is made with (budget.py).                                          *)
(*                                                                         *)
(* The host proposes the ranks, keeps the counters it passes in, and stops *)
(* when a certificate is refused.  Other writers change the generations    *)
(* that the edge's predicates rest on.                                     *)
(*                                                                         *)
(* The kernel looks the certificate and the assessment up by name and asks *)
(* only whether they support the handoff: not for which handoff they were  *)
(* made, nor when, nor whether they have been used before.  Next is what   *)
(* it accepts of any host, CarefulNext that of a host which uses for each  *)
(* handoff the certificate it had evaluated for it, and uses it once.      *)
(***************************************************************************)
EXTENDS Integers, FiniteSets, FiniteSetsExt, SequencesExt

CONSTANTS
  Ranks,             \* the ContinuationProgressRanks of the instance
  FirstRank,         \* the rank the continuation starts with
  Policy,            \* the HandoffProgressPolicy
  Contract,          \* the HandoffStabilityContract of the edge
  Matches,           \* of each domain, the predicates named after it
  WorkUnits,         \* the PlanningWorkUnits that may be asked for
  Protected,         \* the ProtectedBudgetDemands of the reactions
  TotalBudget,       \* total_budget of the PlanningBudgetGovernor
  MaxTime,           \* bound on the clock
  MaxGeneration,     \* bound on the generation of a domain
  None               \* no certificate

Domains == DOMAIN Contract.generations

RankType == [debt: Nat, boundaries: Nat, horizon: Nat, preparedness: 0..5,
             workload: Nat, distance: Nat]

PolicyType ==
  [handoffs: Nat, deferral: Nat, advance: Nat, reduction: Nat,
   floors: SUBSET (Nat \X (0..5)), stutters: Nat, recoveryStutters: Nat,
   latestSafe: Nat]

\* What HandoffStabilityContract.create accepts; locks, writers, events and
\* effects are of one kind each, present in the contract or not.
ValidContract ==
  /\ Contract.predicates # {}
  /\ Domains # {} /\ \A d \in Domains : Contract.generations[d] \in Nat
  /\ Contract.window[1] <= Contract.window[2]
  /\ Contract.refreshRequired \subseteq Contract.predicates
  /\ {Contract.locks, Contract.effects, Contract.invalidators, Contract.opaque}
       \subseteq BOOLEAN

ASSUME InstanceIsValid ==
  /\ Ranks \subseteq RankType /\ FirstRank \in Ranks
  /\ Policy \in PolicyType
  /\ ValidContract
  /\ Matches \in [Domains -> SUBSET Contract.predicates]

(***************************************************************************)
(* The progress of a handoff.                                              *)
(***************************************************************************)

\* Whether the executable horizon has advanced, at no cost in debt or work.
HorizonAdvanced(old, new) ==
  /\ new.debt <= old.debt /\ new.workload <= old.workload
  /\ new.horizon - old.horizon >= Max({Policy.advance, 1})

\* _progress_dimensions: whether there is one.
Progress(old, new, debtEquivalent) ==
  \/ debtEquivalent /\ old.debt - new.debt >= Max({Policy.reduction, 1})
  \/ new.boundaries < old.boundaries
  \/ HorizonAdvanced(old, new)
  \/ new.preparedness > old.preparedness
  \/ new.workload < old.workload
  \/ new.distance < old.distance

Regression(old, new) == new.debt > old.debt \/ new.workload > old.workload

FloorAt(now) ==
  Max({0} \union {floor[2] : floor \in {x \in Policy.floors : x[1] <= now}})

\* A bug that forgets to count the handoffs against their budget.
UncountedBudgetExhausted(count, deferral) == deferral > Policy.deferral

\* Whether the continuation has been handed off, or put off, too much.
BudgetExhausted(count, deferral) ==
  count > Policy.handoffs \/ deferral > Policy.deferral

\* The status of HandoffLivenessEvaluator.evaluate.  "feasible" stands for the
\* three facts that the host supplies: recursive feasibility proven,
\* information available in time, the temporal authority the policy names;
\* "used" is the stutters so far, outside of a recovery and inside one.
Status(old, new, feasible, debtEquivalent, recovering, count, used, deferral, now) ==
  CASE ~feasible -> "UNKNOWN"
    [] \/ BudgetExhausted(count, deferral)
       \/ now > Policy.latestSafe
       \/ new.preparedness < FloorAt(now)
       \/ Regression(old, new) -> "NO_PROGRESS"
    [] Progress(old, new, debtEquivalent) -> "STRICT_PROGRESS"
    [] recovering /\ used[2] < Policy.recoveryStutters -> "RECOVERY_STUTTER"
    [] ~recovering /\ used[1] < Policy.stutters -> "BOUNDED_STUTTER"
    [] OTHER -> "NO_PROGRESS"

SupportsSafeHandoff(status) ==
  status \in {"STRICT_PROGRESS", "BOUNDED_STUTTER", "RECOVERY_STUTTER"}

(***************************************************************************)
(* The stability of an edge.                                               *)
(***************************************************************************)

\* The predicates to refresh when some domains have drifted: those named after
\* the domain, or all of them when none is.
PredicatesFor(domains) ==
  UNION {LET named == Contract.refreshRequired \intersect Matches[d]
         IN  IF named = {} THEN Contract.refreshRequired ELSE named : d \in domains}

Drifted(generations) ==
  {d \in Domains : generations[d] # Contract.generations[d]}

\* HandoffStabilityEvaluator.assess: the status of the edge.
EdgeStatus(generations, refreshed, locked, resolved, writers, event, now) ==
  LET lapsed == \/ now < Contract.window[1] \/ now > Contract.window[2]
                \/ Contract.locks /\ ~locked
                \/ Contract.effects /\ ~resolved
                \/ ~writers
      required == PredicatesFor(Drifted(generations)) \union
                  (IF lapsed THEN Contract.refreshRequired ELSE {})
  IN  CASE event /\ Contract.invalidators -> "INVALID"
        [] Contract.opaque -> "UNKNOWN"
        [] required \subseteq refreshed -> IF required = {} THEN "STABLE" ELSE "REFRESHED"
        [] OTHER -> "REFRESH_REQUIRED"

SupportsActivation(status) == status \in {"STABLE", "REFRESHED"}

(***************************************************************************)
(* The planning budget.                                                    *)
(***************************************************************************)

Cost(units) == MapThenSumSet(LAMBDA u : u.cost, units)

ProtectedAt(demand, now) ==
  IF demand.from <= now /\ now < demand.releaseAfter THEN demand.amount ELSE 0

\* The units in the order in which they are considered: by value per cost,
\* then by value.
Denser(u, v) ==
  \/ u.value * v.cost > v.value * u.cost
  \/ u.value * v.cost = v.value * u.cost /\ u.value > v.value

\* A bug that lets optional work borrow from the protected share.
BorrowingCapacity(protected) == TotalBudget

\* What is left for planning once the reactions are protected.
PlanningCapacity(protected) == TotalBudget - protected

\* PlanningBudgetGovernor.allocate, or None where it raises.
Allocate(units, demands, now) ==
  LET protected == MapThenSumSet(LAMBDA d : ProtectedAt(d, now), demands)
      mandatory == {u \in units : u.mandatory}
      spent     == Cost(mandatory)
      Take(u, a) == IF u.cost <= a.remaining
                      THEN [selected  |-> a.selected \union {u},
                            remaining |-> a.remaining - u.cost]
                      ELSE a
  IN  IF protected > TotalBudget \/ spent + protected > TotalBudget THEN None
      ELSE FoldLeft(LAMBDA a, u : Take(u, a),
                    [selected  |-> mandatory,
                     remaining |-> PlanningCapacity(protected) - spent],
                    SetToSortSeq(units \ mandatory, Denser))

(***************************************************************************)
(* The loop.                                                               *)
(***************************************************************************)
VARIABLES
  rank,         \* the progress rank of the current continuation
  handoffs,     \* the handoffs made, counted up to the budget and one more
  stutters,     \* the ordinary and the recovery stutters made, counted likewise
  deferred,     \* the time the continuation has been put off
  now,          \* the clock
  phase,        \* "running", "executed" or "stopped"
  generations,  \* of each domain the edge rests on
  fresh,        \* the predicates refreshed since their domain last changed
  certificates, \* the statuses of the registered liveness certificates that
                \* support a handoff
  assessed,     \* whether an assessment that supports the edge is registered
  own,          \* the certificate the host had evaluated last, or None
  crossed       \* whether this step is a handoff that names the edge

vars == <<rank, handoffs, stutters, deferred, now, phase, generations, fresh,
          certificates, assessed, own, crossed>>

progress == <<rank, handoffs, stutters, deferred, phase>>

registries == <<certificates, assessed, own>>

Init ==
  /\ rank = FirstRank
  /\ handoffs = 0
  /\ stutters = <<0, 0>>
  /\ deferred = 0
  /\ now = 0
  /\ phase = "running"
  /\ generations = Contract.generations
  /\ fresh = {}
  /\ certificates = {}
  /\ assessed = FALSE
  /\ own = None
  /\ crossed = FALSE

Tick ==
  /\ now < MaxTime
  /\ now' = now + 1
  /\ crossed' = FALSE
  /\ UNCHANGED <<progress, generations, fresh, registries>>

\* The predicates that rest on a domain.
RestsOn(d) == IF Matches[d] = {} THEN Contract.predicates ELSE Matches[d]

\* Another writer changes a domain: what was verified in it no longer holds.
Drift(d) ==
  /\ generations[d] < MaxGeneration
  /\ generations' = [generations EXCEPT ![d] = @ + 1]
  /\ fresh' = fresh \ RestsOn(d)
  /\ crossed' = FALSE
  /\ UNCHANGED <<progress, now, registries>>

\* The host verifies a predicate against the current state.
Refresh(p) ==
  /\ p \notin fresh
  /\ fresh' = fresh \union {p}
  /\ crossed' = FALSE
  /\ UNCHANGED <<progress, now, generations, registries>>

\* The host has the edge assessed and registers the assessment, for good.
AssessEdge(locked, resolved, writers, event) ==
  /\ phase = "running"
  /\ assessed' =
       (assessed \/ SupportsActivation(EdgeStatus(generations, fresh, locked,
                                                  resolved, writers, event, now)))
  /\ crossed' = FALSE
  /\ UNCHANGED <<progress, now, generations, fresh, certificates, own>>

Next1(n, limit) == Min({n + 1, limit + 1})

\* The host, which has put the continuation off for a while, has the handoff to
\* a new rank evaluated with its own counters, and registers the certificate,
\* for good.
EvaluateLiveness(new, feasible, debtEquivalent, recovering, elapsed) ==
  LET total  == Min({deferred + elapsed, Policy.deferral + 1})
      status == Status(rank, new, feasible, debtEquivalent, recovering,
                       Next1(handoffs, Policy.handoffs), stutters, total, now)
  IN  /\ phase = "running" /\ rank.workload > 0
      /\ deferred' = total
      /\ certificates' = certificates \union
                           (IF SupportsSafeHandoff(status) THEN {status} ELSE {})
      /\ own' = [successor |-> new, status |-> status]
      /\ crossed' = FALSE
      /\ UNCHANGED <<rank, handoffs, stutters, now, phase, generations, fresh, assessed>>

\* A handoff for which the kernel grants authority: it is shown a registered
\* certificate and, where the host names the edge, a registered assessment.
HandOff(new, status, named) ==
  /\ phase = "running" /\ rank.workload > 0
  /\ status \in certificates
  /\ named => assessed
  /\ rank' = new
  /\ handoffs' = Next1(handoffs, Policy.handoffs)
  /\ stutters' =
       <<IF status = "BOUNDED_STUTTER" THEN Next1(stutters[1], Policy.stutters)
                                       ELSE stutters[1],
         IF status = "RECOVERY_STUTTER" THEN Next1(stutters[2], Policy.recoveryStutters)
                                        ELSE stutters[2]>>
  /\ own' = None
  /\ crossed' = named
  /\ UNCHANGED <<deferred, now, phase, generations, fresh, certificates, assessed>>

\* The handoff of a careful host: with the certificate it had evaluated for
\* this very handoff, which it then does not use again.
CarefulHandOff(named) ==
  own # None /\ HandOff(own.successor, own.status, named)

\* The host gives the continuation up, once a certificate is refused.
Stop ==
  /\ phase = "running"
  /\ own # None /\ ~SupportsSafeHandoff(own.status)
  /\ phase' = "stopped"
  /\ crossed' = FALSE
  /\ UNCHANGED <<rank, handoffs, stutters, deferred, now, generations, fresh, registries>>

\* Nothing is left to synthesise: the continuation is executed.
Execute ==
  /\ phase = "running" /\ rank.workload = 0
  /\ phase' = "executed"
  /\ crossed' = FALSE
  /\ UNCHANGED <<rank, handoffs, stutters, deferred, now, generations, fresh, registries>>

SomeEvaluation ==
  \E new \in Ranks, feasible, debtEquivalent, recovering \in BOOLEAN, elapsed \in 0..1 :
    EvaluateLiveness(new, feasible, debtEquivalent, recovering, elapsed)

\* What happens but for the handoffs.
Others ==
  \/ Tick
  \/ \E d \in Domains : Drift(d)
  \/ \E p \in Contract.refreshRequired : Refresh(p)
  \/ \E locked, resolved, writers, event \in BOOLEAN :
       AssessEdge(locked, resolved, writers, event)
  \/ SomeEvaluation
  \/ Stop
  \/ Execute

Next ==
  \/ Others
  \/ \E new \in Ranks, status \in certificates, named \in BOOLEAN :
       HandOff(new, status, named)

Spec == Init /\ [][Next]_vars

SomeCarefulHandOff == \E named \in BOOLEAN : CarefulHandOff(named)

CarefulNext == Others \/ SomeCarefulHandOff

\* The host is assumed to be careful and to keep going: it has its handoffs
\* evaluated, hands off or gives up, and executes.  Nothing is assumed of the
\* clock, of the other writers or of what the handoffs achieve.
CarefulSpec ==
  /\ Init /\ [][CarefulNext]_vars
  /\ WF_vars(SomeEvaluation)
  /\ WF_vars(SomeCarefulHandOff \/ Stop)
  /\ WF_vars(Execute)

(***************************************************************************)
(* Properties.                                                             *)
(***************************************************************************)

\* Handoffs do not go on for ever: a continuation whose host is careful and
\* keeps going is executed or given up, even when every handoff is certified
\* as progress.
LoopEnds == <>(phase # "running")

\* The budgets of the policy bound the handoffs for which the kernel grants
\* authority, whatever certificates the host shows it.
HandoffBudgets ==
  /\ handoffs <= Policy.handoffs
  /\ stutters[1] <= Policy.stutters
  /\ stutters[2] <= Policy.recoveryStutters

\* An edge is crossed only while the predicates that its contract asks to
\* refresh hold: none rests on a domain that has changed, unless it has been
\* verified since.
ActivationCurrent ==
  crossed => \A d \in Domains : generations[d] # Contract.generations[d] =>
               (Contract.refreshRequired \intersect RestsOn(d)) \subseteq fresh

\* What allocate grants: all that is mandatory, never more than is left when
\* the reactions are protected, and no optional unit is left out that fits.
BudgetKept ==
  \A units \in SUBSET WorkUnits, demands \in SUBSET Protected :
    LET a == Allocate(units, demands, now)
        protected ==
          MapThenSumSet(LAMBDA d : d.amount,
                        {d \in demands : d.from <= now /\ now < d.releaseAfter})
    IN  a # None =>
          /\ Cost(a.selected) + protected <= TotalBudget
          /\ {u \in units : u.mandatory} \subseteq a.selected
          /\ \A u \in units \ a.selected :
               Cost(a.selected \union {u}) + protected > TotalBudget
=============================================================================
