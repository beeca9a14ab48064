------------------------- MODULE PolicyCertificates -------------------------
(***************************************************************************)
(* What a contingent policy is assessed by before an action may rest on    *)
(* it: who may tell which histories apart (policy_information.py), whether *)
(* its nodes fit together (policy_ir.py), recall, totality and edges       *)
(* (policy_certificates.py), the reaction to a reveal, preparedness and    *)
(* continuation (policy_readiness.py), the proof contexts and the seal     *)
(* (seals.py), the selection (selection.py), coverage                      *)
(* (policy_coverage.py), and the assessment that takes all of it together  *)
(* (policy_executability.py).                                              *)
(*                                                                         *)
(* These are functions: they keep nothing.  PolicyExecution runs what they *)
(* let through, PolicyAuthority authorizes on it.  An identifier, a digest *)
(* and a validity regime only name a certificate and are left out.         *)
(***************************************************************************)
EXTENDS Naturals, Sequences, FiniteSets

CONSTANT
  Condition   \* the availability of a reveal that waits for a condition

Minimum(S) == CHOOSE x \in S : \A y \in S : x <= y
Maximum(S) == CHOOSE x \in S : \A y \in S : x >= y

-----------------------------------------------------------------------------
(* Information: partitions, reveals and nonanticipativity. *)

\* The refusals of _canon_classes: classes is a function from classes to histories.
Classes(classes) ==
  /\ \A c \in DOMAIN classes : classes[c] # {}
  /\ \A c, d \in DOMAIN classes : c # d => classes[c] \cap classes[d] = {}

\* The refusals of RevealEvent.create
RevealCreatable(event) == event.predicates # {} /\ event.refines # {}

\* A fault of the definition below: what waits for a condition counts as there.
AvailableOrExpected(event, time) == event.available = Condition \/ event.available <= time

\* available_by: a reveal that waits for a condition is not known to be available.
AvailableBy(event, time) == event.available # Condition /\ event.available <= time

RevealsOf(info, c) == {event \in info.reveals : c \in event.refines}

PrincipalReveals(info, c) == {event \in RevealsOf(info, c) : event.principal = info.principal}

\* The classes whose histories choose different actions; a history without an action is
\* not looked at.
Diverging(info) ==
  {c \in DOMAIN info.classes :
     \E h, k \in info.classes[c] \cap DOMAIN info.actions : info.actions[h] # info.actions[k]}

\* validate
Violations(info) ==
  LET Unrevealed(c) ==
        ~\E event \in PrincipalReveals(info, c) : AvailableBy(event, info.time)
  IN (IF info.principal # info.epoch.principal THEN {"PRINCIPAL_PARTITION_MISMATCH"} ELSE {})
     \cup (IF info.access # info.epoch.access THEN {"PRINCIPAL_ACCESS_MISMATCH"} ELSE {})
     \cup {"PRINCIPAL_REVEAL_UNAVAILABLE" :
             c \in {k \in Diverging(info) :
                      RevealsOf(info, k) # {} /\ PrincipalReveals(info, k) = {}}}
     \cup {"NONANTICIPATIVITY_VIOLATION" : c \in {k \in Diverging(info) : Unrevealed(k)}}

NonAnticipative(info) == Violations(info) = {}

-----------------------------------------------------------------------------
(* The nodes of a policy and their coherence. *)

\* The refusals of PolicyNodeRevision.create; its successor routes are left out.
NodeCreatable(node) ==
  /\ node.selected # {} /\ node.selected \subseteq node.candidates
  /\ node.executors # {}

\* SharedCommitment.overlaps
Overlaps(left, right) == left.start < right.end /\ right.start < left.end

\* _exclusive_conflict
ExclusiveConflict(left, right) ==
  /\ left.resource = right.resource
  /\ Overlaps(left, right)
  /\ left.exclusive \/ right.exclusive

\* _mutually_exclusive
MutuallyExclusive(groups, left, right) ==
  left # right /\ \E group \in groups : left \in group /\ right \in group

\* The commitments of the branches in scope, each with its branch.
Rows(scope, commitments) ==
  UNION {{<<branch, row>> : row \in commitments[branch]} :
           branch \in scope \cap DOMAIN commitments}

\* Before the reveal, two commitments clash whatever their branches.
PreConflict(b) ==
  \E left, right \in Rows(b.scope, b.pre) :
    left # right /\ ExclusiveConflict(left[2], right[2])

\* A fault of the definition below: branches that differ are taken to exclude each other.
PostConflictWithinBranch(b) ==
  \E left, right \in Rows(b.scope, b.post) :
    left # right /\ left[1] = right[1] /\ ExclusiveConflict(left[2], right[2])

\* After it, commitments of branches that exclude each other do not.
PostConflict(b) ==
  \E left, right \in Rows(b.scope, b.post) :
    /\ left # right
    /\ ~MutuallyExclusive(b.groups, left[1], right[1])
    /\ ExclusiveConflict(left[2], right[2])

\* PolicyCoherenceEvaluator.evaluate
CoherenceBlockers(info, b) ==
  (IF b.principals # {info.epoch.principal} THEN {"POLICY_PRINCIPAL_SCOPE_MISMATCH"} ELSE {})
  \cup (IF b.partitions # {info.partition} THEN {"POLICY_INFORMATION_PARTITION_MISMATCH"} ELSE {})
  \cup (IF ~NonAnticipative(info) THEN {"NONANTICIPATIVE_POLICY_REQUIRED"} ELSE {})
  \cup (IF b.scope \subseteq b.viable THEN {} ELSE {"POLICY_SCOPE_ROUTE_GAP"})
  \cup (IF PreConflict(b) \/ PostConflict(b) THEN {"SHARED_COMMITMENT_CONFLICT"} ELSE {})

\* ContingentPolicyCertificate.issue: the nodes it names are those that were assessed.
PolicyCertifiable(info, b, nodes) ==
  CoherenceBlockers(info, b) = {} /\ nodes # {} /\ nodes = b.nodes

-----------------------------------------------------------------------------
(* Recall, totality and edges. *)

\* DecisionRecallCertificate.evaluate: the histories of a class are compared with one of
\* them, and a class with a history that has no signature is not compared.
Missing(recall, alias) == alias \ DOMAIN recall.signatures

Mismatch(recall, alias) ==
  /\ Missing(recall, alias) = {}
  /\ LET baseline == recall.signatures[CHOOSE h \in alias : TRUE]
     IN \E h \in alias : \E d \in DOMAIN baseline : recall.signatures[h][d] # baseline[d]

RecallLevel(recall) ==
  IF \E alias \in recall.aliases : Mismatch(recall, alias) THEN "recall_insufficient"
  ELSE IF \E alias \in recall.aliases : Missing(recall, alias) # {} THEN "recall_unknown"
  ELSE "recall_sufficient"

\* A fault of the definition below: a residual outcome is any handler's.
HandlesByKind(handler, outcome) ==
  /\ handler.outcome = outcome.ref
  /\ handler.kind \in {"residual_handler", "successor", "reconciliation", "recovery"}

\* A handler that counts for an outcome: of the outcome itself, and of its kind.
Handles(handler, outcome) ==
  /\ handler.outcome = outcome.ref
  /\ IF outcome.residual
     THEN handler.legitimate /\ handler.kind \in {"residual_handler", "reconciliation", "recovery"}
     ELSE handler.kind \in {"successor", "reconciliation", "recovery"}

\* PolicyTotalityCertificate.evaluate
TotalityMode(t) ==
  IF t.solver = "UNSUPPORTED" THEN "unsupported"
  ELSE IF t.solver # "PROVED" THEN "unknown"
  ELSE IF /\ \A handler \in t.handlers : handler.outcome # "*"
          /\ \A outcome \in t.outcomes :
               outcome.supported => \E handler \in t.handlers : Handles(handler, outcome)
       THEN "total" ELSE "incomplete"

\* PolicyEdgeCertificate.evaluate: parent and child map fields to what they hold.
MismatchedFields(edge) ==
  {key \in DOMAIN edge.child :
     key \notin DOMAIN edge.parent \/ edge.parent[key] # edge.child[key]}

-----------------------------------------------------------------------------
(* Reaction, preparedness and continuation. *)

PreAuthorization ==
  <<"ingestion", "canonical_commit", "relocation", "capsule_compile", "model_or_solver",
    "verification", "authorization">>

\* The stages from a reveal to the effect, in their order.
Stages == PreAuthorization \o <<"dispatch", "external_effect_start">>

\* The refusals of _interval
Interval(i) == 0 <= i[1] /\ i[1] <= i[2]

\* The refusals of DecisionReactionEnvelope.create
EnvelopeCreatable(e) ==
  /\ Interval(e.reveal) /\ \A stage \in DOMAIN e.stages : Interval(e.stages[stage])
  /\ 0 <= e.safe.authorization
  /\ e.safe.authorization <= e.safe.dispatch /\ e.safe.dispatch <= e.safe.effect
  /\ e.clocks # {}

\* A fault of the definition below: the relocation is left out.
TotalWithoutRelocation(e, which) ==
  LET latency(stage) == e.stages[stage][which]
  IN e.reveal[which] + latency("ingestion") + latency("canonical_commit")
     + latency("capsule_compile") + latency("model_or_solver") + latency("verification")
     + latency("authorization")

\* total: the reveal and the stages before the authorization, at their least (1) or their
\* most (2).
Total(e, which) ==
  LET latency(stage) == e.stages[stage][which]
  IN e.reveal[which] + latency("ingestion") + latency("canonical_commit")
     + latency("relocation") + latency("capsule_compile") + latency("model_or_solver")
     + latency("verification") + latency("authorization")

Timely(e, which) ==
  LET authorization == Total(e, which)
      dispatch == authorization + e.stages["dispatch"][which]
  IN /\ authorization <= e.safe.authorization
     /\ dispatch <= e.safe.dispatch
     /\ dispatch + e.stages["external_effect_start"][which] <= e.safe.effect

\* DecisionReactionEnvelope.create: the rank of the class, 0 for unanalyzed, 1 for possible,
\* 2 for guaranteed, 3 for dynamically controllable, 4 for a closed subdomain.
ReactionClass(e) ==
  IF e.closed /\ Timely(e, 2) THEN 4
  ELSE IF e.dynamic /\ Timely(e, 1) THEN 3
  ELSE IF Timely(e, 2) THEN 2
  ELSE IF Timely(e, 1) THEN 1
  ELSE 0

\* The refusals of PreparednessProfile.create
ProfileCreatable(profile) ==
  /\ \A axis \in DOMAIN profile.axes : profile.axes[axis] \in 0 .. 5
  /\ profile.cap \in 0 .. 5

\* derived_p_level
DerivedLevel(profile) ==
  Minimum({profile.axes[axis] : axis \in DOMAIN profile.axes} \cup {profile.cap})

\* The level that at least n of the profiles have.
LevelOf(profiles, n) ==
  Maximum({level \in 0 .. 5 :
             Cardinality({i \in DOMAIN profiles : DerivedLevel(profiles[i]) >= level}) >= n})

\* The refusals of aggregate
Aggregable(p) ==
  /\ p.profiles # <<>>
  /\ p.structure = "or" => p.count = 1
  /\ p.structure = "k_of_n" => p.count \in DOMAIN p.profiles

\* aggregate: routes that are not known to be independent and to coexist count as a sequence.
Aggregate(p) ==
  IF p.structure \in {"or", "k_of_n"} /\ p.independent /\ p.coexist
  THEN LevelOf(p.profiles, p.count)
  ELSE LevelOf(p.profiles, Len(p.profiles))

\* action_preserves_required_information
PreservesInformation(capability) ==
  capability.destructive => capability.robust

\* The refusals of ContinuationContract.create
ContinuationCreatable(c) ==
  /\ c.terminal = "SAFE_HANDOFF" => c.discovery # {} /\ c.fallback
  /\ c.terminal = "DEFERRED_CONTINUATION" => c.debts # {}

\* supports_executable_horizon
SupportsHorizon(c, requested) ==
  requested <= c.horizon \/ c.terminal = "MISSION_COMPLETE"

-----------------------------------------------------------------------------
(* Proof contexts and the seal. *)

\* The refusals of ProofContextComponent.create
ContextCreatable(c) ==
  /\ c.horizon[1] <= c.horizon[2]
  /\ c.theory = "finite-world-set" => c.worlds # {}

CommonWorlds(contexts) == {w \in UNION {c.worlds : c \in contexts} :
                             \A c \in contexts : w \in c.worlds}

CommonHorizon(contexts) ==
  Maximum({c.horizon[1] : c \in contexts}) <= Minimum({c.horizon[2] : c \in contexts})

Debts(contexts) == UNION {c.debts : c \in contexts}

\* compose_contexts
CompositionStatus(contexts, accepted) ==
  IF Cardinality({c.scope : c \in contexts}) # 1 \/ ~CommonHorizon(contexts)
  THEN "noncomposable_conflict"
  ELSE IF \E c \in contexts : c.theory # "finite-world-set" THEN "unsupported_constraint_theory"
  ELSE IF CommonWorlds(contexts) = {} THEN "noncomposable_conflict"
  ELSE IF ~(Debts(contexts) \subseteq accepted) THEN "composition_unknown"
  ELSE IF Debts(contexts) # {} THEN "composable_with_accepted_debt"
  ELSE "composable"

\* The refusals of DecisionSufficiencyCertificate.create
SufficiencyCreatable(certificate) == certificate.included \cap certificate.excluded = {}

\* The refusals of SealCompiler.issue; assurance is the rank of a context's assurance.
Sealable(closure, certificate, contexts, required, passes, accepted) ==
  /\ certificate.complete
  /\ certificate.action \in closure
  /\ passes # {}
  /\ CompositionStatus(contexts, accepted) \in {"composable", "composable_with_accepted_debt"}
  /\ Minimum({c.assurance : c \in contexts}) >= required
  /\ certificate.debts \subseteq accepted

\* The status of the seal that issue returns.
IssuedStatus(certificate, contexts) ==
  IF Debts(contexts) \cup certificate.debts # {} THEN "sealed_with_accepted_debt" ELSE "sealed"

CurrentSeals == {"sealed", "sealed_with_accepted_debt"}

\* _ALLOWED_INVALIDATIONS
Invalidations(status) ==
  CASE status \in CurrentSeals -> {"stale", "revoked"}
    [] status = "stale" -> {"revoked"}
    [] status = "revoked" -> {}

-----------------------------------------------------------------------------
(* Selection: what the record of a selection is worth later. *)

\* status_against: generations maps the domains that the selection depends on.
SelectionStatus(record, generations) ==
  IF record.superseded THEN "superseded"
  ELSE IF \E d \in DOMAIN record.generations : generations[d] # record.generations[d] THEN "stale"
  ELSE "advisory"

-----------------------------------------------------------------------------
(* Coverage and executability. *)

\* The refusals of ExecutablePolicyCoverageAssessment.create
CoverageCreatable(c) ==
  /\ c.residual = "ACTIVE" => c.debts # {}
  /\ c.residual = "CLOSED" => c.debts = {}

\* modeled_total and open_world_complete
ModeledTotal(c) == c.mode = "total"

OpenWorldComplete(c) ==
  /\ ModeledTotal(c)
  /\ c.adequacy = "STRONG" /\ c.residual = "CLOSED" /\ c.debts = {} /\ c.proof

When(condition, code) == IF condition THEN {code} ELSE {}

\* evaluate: what makes a policy not executable.
Blockers(x) ==
  When(x.snapshot # x.expected, "MIXED_SEMANTIC_SNAPSHOT")
  \cup When(~x.nonanticipative, "NONANTICIPATIVITY_VIOLATION")
  \cup When(x.recall = "recall_insufficient", "RECALL_INSUFFICIENT")
  \cup When(x.totality = "incomplete", "POLICY_TOTALITY_HOLE")
  \cup When(~x.edges, "POLICY_EDGE_STITCH_FAILURE")
  \cup When(~x.commitments, "SHARED_RESOURCE_COMMITMENT_CONFLICT")
  \cup When(~x.information, "INFORMATION_CAPABILITY_LOSS")
  \cup When(x.reaction < x.requiredReaction, "REACTION_CONTROLLABILITY_BELOW_FLOOR")
  \cup When(x.preparedness < x.requiredPreparedness, "PREPAREDNESS_BELOW_FLOOR")
  \cup When(x.composition = "noncomposable_conflict", "PROOF_CONTEXT_NONCOMPOSABLE")
  \cup When(~x.route, "ROUTE_GUARANTEE_NOT_MET")
  \cup When(x.continuation.mission # x.mission, "CONTINUATION_MISSION_MISMATCH")
  \cup When(~SupportsHorizon(x.continuation, x.horizon), "CONTINUATION_HORIZON_OPEN")
  \cup When(x.seal \notin CurrentSeals, "PLAN_SEAL_NOT_CURRENT")

\* What leaves it unresolved.
Unknowns(x) ==
  When(x.recall = "recall_unknown", "RECALL_UNRESOLVED")
  \cup When(x.totality \in {"unknown", "unsupported"}, "POLICY_TOTALITY_UNRESOLVED")
  \cup When(x.reaction >= x.requiredReaction /\ x.reaction = 0, "REACTION_UNANALYZED")
  \cup When(x.composition \in {"composition_unknown", "unsupported_constraint_theory"},
             "PROOF_CONTEXT_COMPOSITION_UNRESOLVED")

\* The status of the assessment.
Executability(x) ==
  IF Blockers(x) # {} THEN "EXEC_NOT_EXECUTABLE"
  ELSE IF Unknowns(x) # {} THEN "EXEC_UNKNOWN"
  ELSE IF ~(x.debts \subseteq x.accepted) THEN "EXEC_PARTIAL"
  ELSE IF x.debts # {} THEN "EXEC_BOUNDED_WITH_ACCEPTED_DEBT"
  ELSE "EXEC_BOUNDED"

BoundedExecutability == {"EXEC_BOUNDED", "EXEC_BOUNDED_WITH_ACCEPTED_DEBT"}
=============================================================================
