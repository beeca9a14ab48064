-------------------------- MODULE PolicyAuthority --------------------------
(***************************************************************************)
(* Actions that carry a sealed policy: the kernel's registries of          *)
(* frontiers, partitions, decision epochs, policy nodes, selections,       *)
(* sufficiency certificates, seals and executability assessments, and the  *)
(* check of the whole bundle before an authorization (policy_runtime.py),  *)
(* their replay and their snapshot (policy_recovery.py), and the lineage   *)
(* of the bundle that a dispatch checks again                              *)
(* (authority_lineage_runtime.py and its patch).                           *)
(*                                                                         *)
(* As in ProofAuthority, the kernel is one record, memory, and durable is  *)
(* what open would make of the snapshot and the entries after it.          *)
(* It is Unreadable after an assessment that names a partition which is    *)
(* not registered: the registration accepts it and its replay does not.    *)
(*                                                                         *)
(* A registry is a sequence and a revision its position in it.  There is   *)
(* one logical identifier per registry, so that the current lineage of a   *)
(* registry is its last revision; an epoch and a selection are their own   *)
(* lineage.  The proof that an authorization carries is ProofAuthority's,  *)
(* and usable and current here.  For the properties, every artifact keeps  *)
(* the world it was registered in, and an authorization that of its issue. *)
(***************************************************************************)
EXTENDS PolicyCertificates, Integers

CONSTANTS
  Principals, Actions,
  Acting,        \* the principal that acts
  Limits,        \* bound: the entries it begins with, the length of the journal, how far
                 \* the plan and its generation move, which registries grow to how many
                 \* revisions, and for which of them the host offers more than what fits
  Unreadable

Families == {"frontiers", "partitions", "epochs", "nodes", "selections", "sufficiency",
             "seals", "assessments"}

ASSUME PolicyAssumption == Acting \in Principals

\* bound: the registries that grow are some of the eight.
ASSUME LimitsAssumption == \A limit \in Limits : limit.families \subseteq Families

VARIABLES
  memory,    \* the kernel
  durable,   \* what open would restore, or Unreadable
  limits,    \* bound: the member of Limits this behaviour keeps to
  did        \* what the last step was: the number of the authorization that it
             \* issued, or handed to an adapter

vars == <<memory, durable, limits, did>>

-----------------------------------------------------------------------------
(* What the kernel knows of the world. *)

World(m) ==
  [mission |-> m.mission, canonical |-> m.canonical, location |-> m.location,
   regime |-> m.regime, access |-> m.access, actions |-> m.actions]

\* An artifact as it is kept, with the world it is registered in, and as it was offered.
Stamped(artifact, m) ==
  [field \in DOMAIN artifact \cup {"world"} |->
     IF field = "world" THEN World(m) ELSE artifact[field]]

Unregistered(artifact) ==
  [field \in DOMAIN artifact \ {"world"} |-> artifact[field]]

\* What an epoch, a node and an assessment bind of it.
Snapshot(m) ==
  [mission |-> m.mission, plan |-> m.plan, location |-> m.location, actions |-> m.actions]

\* The entries carry, with what they record, what no event says.
Meta(m) == [plan |-> m.plan, generation |-> m.generation, location |-> m.location]

Entry(m, event, value) == [event |-> event, value |-> value, meta |-> Meta(m)]

\* _commit_action_patch: the commit, and the relocation where regions are registered.
Committed(m) ==
  [m EXCEPT !.canonical = @ + 1, !.plan = @ + 1, !.generation = @ + 1]

Regions(m) == m.location > 1

Relocated(m) == [m EXCEPT !.location = @ + 1]

RegionRegistered(m) == [Relocated(m) EXCEPT !.generation = @ + 1]

\* update_principal_access moves the plan, register_principal of a known principal does not.
AccessUpdated(m, p) ==
  [m EXCEPT !.access[p] = @ + 1, !.plan = @ + 1, !.generation = @ + 1]

PrincipalRegistered(m, p) == [m EXCEPT !.access[p] = @ + 1, !.generation = @ + 1]

MissionRevised(m) ==
  [m EXCEPT !.mission = @ + 1, !.plan = @ + 1, !.generation = @ + 1]

RegimeRevised(m) == [m EXCEPT !.regime = @ + 1, !.plan = @ + 1, !.generation = @ + 1]

ActionProposed(m, a) == [m EXCEPT !.actions = @ \cup {a}]

\* report_model_class_anomaly: the plan moves, its generation does not.
AnomalyReported(m) == [m EXCEPT !.plan = @ + 1]

-----------------------------------------------------------------------------
(* What may be registered. *)

\* register_policy_frontier
FrontierRegistrable(m, f) == f.access = m.access[f.principal]

\* register_information_partition
PartitionRegistrable(m, t) ==
  /\ t.mission = m.mission
  /\ t.canonical = m.canonical
  /\ t.access = m.access[t.principal]

\* register_decision_epoch: the partition was made for this epoch.
EpochRegistrable(m, e) ==
  LET partition == m.partitions[e.partition]
      frontier == m.frontiers[e.frontier]
  IN /\ e.partition \in DOMAIN m.partitions /\ e.frontier \in DOMAIN m.frontiers
     /\ {partition.principal, frontier.principal} = {e.principal}
     /\ {e.access, partition.access, frontier.access} = {m.access[e.principal]}
     /\ e.snapshot = Snapshot(m)
     /\ partition.epoch = Len(m.epochs) + 1

\* register_policy_node: its principal and its partition are left to the authorization.
NodeRegistrable(m, n) ==
  /\ n.epoch \in DOMAIN m.epochs
  /\ n.partition \in DOMAIN m.partitions /\ n.frontier \in DOMAIN m.frontiers
  /\ n.snapshot = m.epochs[n.epoch].snapshot
  /\ n.frontier = m.epochs[n.epoch].frontier
  /\ n.candidates \subseteq m.actions

\* register_selection_record
SelectionRegistrable(m, s) == s.partition \in DOMAIN m.partitions /\ s.action \in m.actions

\* register_decision_sufficiency
SufficiencyRegistrable(m, c) ==
  /\ c.epoch \in DOMAIN m.epochs
  /\ c.partition \in DOMAIN m.partitions
  /\ c.action \in m.actions

\* register_plan_seal
SealRegistrable(m, s) == s.sufficiency \in DOMAIN m.sufficiency

\* register_policy_executability
AssessmentRegistrable(m, x) == x.node \in DOMAIN m.nodes

Registrable(m, family, value) ==
  CASE family = "frontiers" -> FrontierRegistrable(m, value)
    [] family = "partitions" -> PartitionRegistrable(m, value)
    [] family = "epochs" -> EpochRegistrable(m, value)
    [] family = "nodes" -> NodeRegistrable(m, value)
    [] family = "selections" -> SelectionRegistrable(m, value)
    [] family = "sufficiency" -> SufficiencyRegistrable(m, value)
    [] family = "seals" -> SealRegistrable(m, value)
    [] family = "assessments" -> AssessmentRegistrable(m, value)

\* _register_decision_epoch_lineage: what a dispatch compares the world with.
EpochLineage(m, principal) ==
  [mission |-> m.mission, canonical |-> m.canonical, location |-> m.location,
   regime |-> m.regime, access |-> m.access[principal]]

Registered(m, family, value) ==
  LET r == [m EXCEPT ![family] = Append(@, Stamped(value, m))]
  IN IF family = "epochs"
     THEN [r EXCEPT !.epochLineage = Append(@, EpochLineage(m, value.principal))]
     ELSE r

-----------------------------------------------------------------------------
(* The bundle of an authorization: for each registry but those that the node and the  *)
(* certificates name, a revision of it.                                               *)

\* _current_selection_status
CurrentSelectionStatus(m, selection) ==
  SelectionStatus(selection, [d \in DOMAIN selection.generations |->
                                IF d = "plan" THEN m.generation ELSE 0])

\* The node is the principal's and offers the action.
NodeFits(node, action, p) ==
  /\ node.principal = p /\ p \in node.executors
  /\ action \in node.candidates /\ action \in node.selected
  /\ node.sealed

\* The epoch and the node, which has the snapshot of its epoch, are of the world as it is.
EpochFits(m, epoch, p, now) ==
  /\ epoch.principal = p
  /\ epoch.snapshot = Snapshot(m)
  /\ epoch.access = m.access[p]
  /\ now <= epoch.until

\* A fault of the check below: the partition may be of an older canonical state.
InformationFitsAnyState(m, node, p) ==
  LET partition == m.partitions[node.partition]
      frontier == m.frontiers[node.frontier]
  IN /\ {partition.principal, frontier.principal} = {p}
     /\ partition.epoch = node.epoch
     /\ partition.mission = m.mission
     /\ {partition.access, frontier.access} = {m.access[p]}

InformationFits(m, node, p) ==
  LET partition == m.partitions[node.partition]
      frontier == m.frontiers[node.frontier]
  IN /\ {partition.principal, frontier.principal} = {p}
     /\ partition.epoch = node.epoch
     /\ partition.mission = m.mission /\ partition.canonical = m.canonical
     /\ {partition.access, frontier.access} = {m.access[p]}

SelectionFits(m, selection, node, action, p) ==
  /\ selection.principal = p
  /\ selection.partition = node.partition
  /\ selection.actions = m.actions
  /\ selection.action = action
  /\ CurrentSelectionStatus(m, selection) = "advisory"

\* covers: the action, the node and the proof are among what the certificate includes.
SufficiencyFits(certificate, node, n, action, p) ==
  /\ certificate.complete /\ certificate.covers
  /\ certificate.action = action
  /\ certificate.epoch = node.epoch
  /\ certificate.principal = p
  /\ certificate.partition = node.partition
  /\ certificate.node = n

SealFits(m, seal, n) ==
  /\ seal.status \in CurrentSeals
  /\ seal.mission = m.mission /\ seal.canonical = m.canonical
  /\ seal.sufficiency = n
  /\ seal.covers

\* mixed: what the assessment was told of the snapshot is not what it is bound to.
AssessmentFits(m, assessment, node, seal, n, action) ==
  /\ assessment.status \in BoundedExecutability
  /\ assessment.action = action
  /\ assessment.mission = m.mission /\ assessment.plan = m.plan
  /\ assessment.node = n /\ assessment.partition = node.partition
  /\ assessment.actions = m.actions
  /\ assessment.seal = seal.status
  /\ ~assessment.mixed

\* _require_registered_policy_bundle; b maps the registries to the revisions it names.
BundleFits(m, b, action, p, now) ==
  LET node == m.nodes[b.nodes]
      seal == m.seals[b.seals]
  IN /\ \A family \in DOMAIN b : b[family] \in DOMAIN m[family]
     /\ NodeFits(node, action, p)
     /\ EpochFits(m, m.epochs[node.epoch], p, now)
     /\ InformationFits(m, node, p)
     /\ SelectionFits(m, m.selections[b.selections], node, action, p)
     /\ SufficiencyFits(m.sufficiency[b.sufficiency], node, b.nodes, action, p)
     /\ SealFits(m, seal, b.sufficiency)
     /\ AssessmentFits(m, m.assessments[b.assessments], node, seal, b.nodes, action)

-----------------------------------------------------------------------------
(* The lineage of the bundle. *)

\* The registries that a bundle names a revision of.
Bundled == {"nodes", "selections", "sufficiency", "seals", "assessments"}

Lineages == {"frontiers", "partitions", "nodes", "sufficiency", "seals", "assessments"}

\* A fault of the closure below: the seal is left to its status.
ClosureWithoutSeal(m) == [family \in Lineages \ {"seals"} |-> Len(m[family])]

\* _policy_binding_fields: the current lineage of every registry.
Closure(m) == [family \in Lineages |-> Len(m[family])]

\* For the properties: what an authorization found.
Issue(m) == [world |-> World(m), generation |-> m.generation,
             revisions |-> [family \in Lineages |-> Len(m[family])]]

\* policy.authorization_bound, and _augment_authority_closure after it
BoundTo(m, a, bundle) ==
  [a EXCEPT !.bundle = bundle, !.closure = Closure(m), !.issue = Issue(m)]

Bound(m, n, bundle) == [m EXCEPT !.auths[n] = BoundTo(m, m.auths[n], bundle)]

\* _assert_decision_epoch_current
EpochCurrent(m, n) == m.epochLineage[n] = EpochLineage(m, m.epochs[n].principal)

\* _assert_authority_closure_current, of what is bound to a policy
ClosureCurrent(m, a) ==
  a.bundle # <<>> =>
    /\ EpochCurrent(m, m.nodes[a.bundle.nodes].epoch)
    /\ a.closure = Closure(m)
    /\ CurrentSelectionStatus(m, m.selections[a.bundle.selections]) = "advisory"
    /\ m.seals[a.bundle.seals].status \in CurrentSeals
    /\ m.assessments[a.bundle.assessments].status \in BoundedExecutability

-----------------------------------------------------------------------------
(* The replay of one entry. *)

\* _replay_policy_registration: what has to be there; the rest was checked when the entry
\* was written.
Replayable(d, family, value) ==
  CASE family \in {"frontiers", "partitions"} -> TRUE
    [] family = "epochs" ->
         /\ value.partition \in DOMAIN d.partitions /\ value.frontier \in DOMAIN d.frontiers
         /\ d.partitions[value.partition].epoch = Len(d.epochs) + 1
    [] family = "nodes" ->
         /\ value.epoch \in DOMAIN d.epochs
         /\ value.partition \in DOMAIN d.partitions /\ value.frontier \in DOMAIN d.frontiers
         /\ value.snapshot.mission = d.epochs[value.epoch].snapshot.mission
         /\ value.snapshot.plan = d.epochs[value.epoch].snapshot.plan
    [] family = "selections" -> SelectionRegistrable(d, value)
    [] family = "sufficiency" -> SufficiencyRegistrable(d, value)
    [] family = "seals" -> SealRegistrable(d, value)
    [] family = "assessments" ->
         value.node \in DOMAIN d.nodes /\ value.partition \in DOMAIN d.partitions

\* _validate_policy_binding: a registry does not change what it holds, so that the digests
\* agree whenever the revisions are there.
BindingValid(d, bundle) == \A family \in DOMAIN bundle : bundle[family] \in DOMAIN d[family]

\* A fault of the reducer below: the binding is there and the closure is not.
ReplayBindingAlone(d, n, bundle) ==
  IF n \in DOMAIN d.auths /\ BindingValid(d, bundle)
  THEN [d EXCEPT !.auths[n].bundle = bundle] ELSE Unreadable

ReplayBound(d, n, bundle) ==
  IF n \in DOMAIN d.auths /\ BindingValid(d, bundle) THEN Bound(d, n, bundle) ELSE Unreadable

ReplayRegistered(d, family, value) ==
  IF Replayable(d, family, value) THEN Registered(d, family, value) ELSE Unreadable

\* What an event does to the registries and to the world, the meta aside.
ReduceEvent(d, e) ==
  CASE e.event = "policy.registered" -> ReplayRegistered(d, e.value.family, e.value.artifact)
    [] e.event = "policy.authorization_bound" -> ReplayBound(d, e.value.n, e.value.bundle)
    [] e.event = "canonical.committed" -> [d EXCEPT !.canonical = e.value]
    [] e.event = "principal.access" -> [d EXCEPT !.access[e.value.p] = e.value.revision]
    [] e.event = "mission.revised" -> [d EXCEPT !.mission = e.value]
    [] e.event = "semantic.regime_revised" -> [d EXCEPT !.regime = e.value]
    [] e.event = "action.proposed" -> ActionProposed(d, e.value)
    [] e.event = "action.authorized" -> [d EXCEPT !.auths = Append(@, e.value)]
    [] e.event = "action.dispatch_recorded" -> [d EXCEPT !.auths[e.value].state = "dispatched"]
    [] OTHER -> d

\* _restore_meta
RestoreMeta(d, meta) ==
  [d EXCEPT !.plan = meta.plan, !.generation = meta.generation, !.location = meta.location]

\* One entry with its lineage; the sequence counts the entries.
Settled(r, meta) ==
  IF r = Unreadable THEN Unreadable ELSE RestoreMeta([r EXCEPT !.sequence = @ + 1], meta)

Replayed(d, e) == IF d = Unreadable THEN Unreadable ELSE Settled(ReduceEvent(d, e), e.meta)

\* The suffix, entry by entry.
ReplayAll(entries, d) ==
  LET after[i \in 0 .. Len(entries)] ==
        IF i = 0 THEN d ELSE Replayed(after[i - 1], entries[i])
  IN after[Len(entries)]

-----------------------------------------------------------------------------
\* _install_state, and a mission with its principals
EmptyKernel ==
  [frontiers |-> <<>>, partitions |-> <<>>, epochs |-> <<>>, nodes |-> <<>>,
   selections |-> <<>>, sufficiency |-> <<>>, seals |-> <<>>, assessments |-> <<>>,
   epochLineage |-> <<>>, auths |-> <<>>, sequence |-> 0, mission |-> 1, canonical |-> 1,
   plan |-> 1, generation |-> 1, location |-> 1, regime |-> 1, actions |-> {},
   access |-> [p \in Principals |-> 1]]

Nothing == [issued |-> 0, dispatched |-> 0]

Init ==
  /\ limits \in Limits
  /\ memory = EmptyKernel
  /\ durable = memory
  /\ did = Nothing

\* The entries that a behaviour begins with are still to be written.
Beginning == memory.sequence < Len(limits.before)

Growing == IF Beginning THEN Families ELSE limits.families

\* A behaviour writes no other entries at first than those, and no more than its bound.
Room(count) == memory.sequence + count <= limits.last

Begins(entries) ==
  Beginning =>
    /\ memory.sequence + Len(entries) <= Len(limits.before)
    /\ \A i \in DOMAIN entries :
         LET first == limits.before[memory.sequence + i]
         IN first.event = entries[i].event /\ first = entries[i]

\* The memory and the journal, changed alike or cut short by a crash after n entries.
Done(m, entries) ==
  /\ memory' = [m EXCEPT !.sequence = @ + Len(entries)]
  /\ durable' = ReplayAll(entries, durable)

Torn(entries, n) ==
  LET d == ReplayAll(SubSeq(entries, 1, n), durable)
  IN /\ d # Unreadable
     /\ memory' = d
     /\ durable' = d

Perform(m, entries) ==
  /\ Room(Len(entries)) /\ Begins(entries)
  /\ Done(m, entries) \/ \E k \in 0 .. Len(entries) - 1 : Torn(entries, k)
  /\ did' = Nothing
  /\ UNCHANGED limits

\* A change of the world that the policies speak about.
Change(m, entries) ==
  /\ memory.plan + memory.generation <= limits.churn
  /\ Perform(m, entries)

\* One of the eight registrations.
RegisterPolicy(family, value) ==
  /\ Beginning \/ Len(memory[family]) < limits.revisions
  /\ Registrable(memory, family, value)
  /\ LET m == Registered(memory, family, value)
     IN Perform(m, <<Entry(m, "policy.registered", [family |-> family, artifact |-> value])>>)

\* The patch of an action whose outcome is known, in ActionTransactions.
CommitActionPatch ==
  LET m == Committed(memory)
      committed == Entry(m, "canonical.committed", m.canonical)
  IN IF Regions(m)
     THEN Change(Relocated(m), <<committed, Entry(Relocated(m), "state.relocated", {})>>)
     ELSE Change(m, <<committed>>)

RegisterRegion ==
  LET m == RegionRegistered(memory) IN Change(m, <<Entry(m, "region.registered", {})>>)

ChangeAccess(p) ==
  \E m \in {AccessUpdated(memory, p), PrincipalRegistered(memory, p)} :
    Change(m, <<Entry(m, "principal.access", [p |-> p, revision |-> m.access[p]])>>)

ReviseMission ==
  LET m == MissionRevised(memory) IN Change(m, <<Entry(m, "mission.revised", m.mission)>>)

ReviseRegime ==
  LET m == RegimeRevised(memory)
  IN Change(m, <<Entry(m, "semantic.regime_revised", m.regime)>>)

ProposeAction(a) ==
  /\ a \notin memory.actions
  /\ LET m == ActionProposed(memory, a) IN Change(m, <<Entry(m, "action.proposed", a)>>)

ReportModelClassAnomaly ==
  LET m == AnomalyReported(memory)
  IN Change(m, <<Entry(m, "recovery.model_class_uncertain", {})>>)

\* authorize_sealed_policy: the bundle is checked, authorize_proof_carrying records the
\* authorization and binds it to its proof, and one more entry binds it to the bundle.
AuthorizeSealedPolicy(action, bundle, now) ==
  LET unbound == [action |-> action, bundle |-> <<>>, closure |-> <<>>, issue |-> <<>>,
                  state |-> "authorized"]
      n == Len(memory.auths) + 1
      m == Bound([memory EXCEPT !.auths = Append(@, unbound)], n, bundle)
      entries == <<Entry(m, "action.authorized", unbound),
                   Entry(m, "proof.authorization_bound", {}),
                   Entry(m, "policy.authorization_bound", [n |-> n, bundle |-> bundle])>>
  IN /\ Room(3)
     /\ BundleFits(memory, bundle, action, Acting, now)
     /\ Begins(entries)
     /\ \/ Done(m, entries) /\ did' = [Nothing EXCEPT !.issued = n]
        \/ (\E k \in 0 .. 2 : Torn(entries, k)) /\ did' = Nothing
     /\ UNCHANGED limits

\* dispatch, whose other checks and whose outcome are in ActionTransactions
Dispatch(n) ==
  LET m == [memory EXCEPT !.auths[n].state = "dispatched"]
      entries == <<Entry(m, "action.dispatch_recorded", n)>>
  IN /\ memory.auths[n].state = "authorized"
     /\ ClosureCurrent(memory, memory.auths[n])
     /\ \/ Done(m, entries) /\ did' = [Nothing EXCEPT !.dispatched = n]
        \/ Torn(entries, 0) /\ did' = Nothing
     /\ UNCHANGED limits

\* What _restore_policy_state refuses to restore: its checks are those of the replay.
PoliciesRestorable(m) ==
  /\ \A n \in DOMAIN m.epochs :
       /\ m.epochs[n].partition \in DOMAIN m.partitions
       /\ m.epochs[n].frontier \in DOMAIN m.frontiers
       /\ m.partitions[m.epochs[n].partition].epoch = n
  /\ \A n \in DOMAIN m.nodes :
       /\ Replayable(m, "nodes", m.nodes[n])
       /\ m.nodes[n].snapshot.actions = m.epochs[m.nodes[n].epoch].snapshot.actions
  /\ \A family \in {"selections", "sufficiency", "seals", "assessments"} :
       \A n \in DOMAIN m[family] : Replayable(m, family, m[family][n])
  /\ \A n \in DOMAIN m.auths : BindingValid(m, m.auths[n].bundle)

\* What _restore_state_payload refuses to restore.
ClosuresRestorable(m) ==
  /\ \A n \in DOMAIN m.epochLineage : n \in DOMAIN m.epochs
  /\ \A n \in DOMAIN m.auths :
       \A family \in DOMAIN m.auths[n].closure : m.auths[n].closure[family] <= Len(m[family])

\* save_snapshot
SaveSnapshot ==
  /\ durable' = IF PoliciesRestorable(memory) /\ ClosuresRestorable(memory)
                THEN memory ELSE Unreadable
  /\ did' = Nothing
  /\ UNCHANGED <<memory, limits>>

-----------------------------------------------------------------------------
(* What the host offers to register: what fits the latest revisions and the world as it  *)
(* is, and for the registries in limits.free whatever it may have kept from before.       *)

Pick(family, right, any) ==
  IF Beginning \/ family \in limits.free THEN any \cup {right} ELSE {right}

\* The revisions of a registry, and the next one before any.
Revisions(family) == IF memory[family] = <<>> THEN {1} ELSE DOMAIN memory[family]
LastRevision(family) == IF memory[family] = <<>> THEN 1 ELSE Len(memory[family])

OfferedFrontiers ==
  [principal : Pick("frontiers", Acting, Principals),
   access : Pick("frontiers", memory.access[Acting], {memory.access[Acting] - 1})]

OfferedPartitions ==
  {[principal |-> p, mission |-> memory.mission, canonical |-> c, access |-> memory.access[p],
    epoch |-> e] :
     p \in Pick("partitions", Acting, Principals),
     c \in Pick("partitions", memory.canonical, {memory.canonical - 1}),
     e \in Pick("partitions", Len(memory.epochs) + 1, DOMAIN memory.epochs)}

OfferedEpochs ==
  [principal : {Acting},
   partition : Pick("epochs", LastRevision("partitions"), Revisions("partitions")),
   frontier : Pick("epochs", LastRevision("frontiers"), Revisions("frontiers")),
   access : {memory.access[Acting]}, snapshot : {Snapshot(memory)},
   until : Pick("epochs", 2, {1})]

NodesOf(p, e) ==
  [principal : {p}, executors : {{p}}, epoch : {e},
   partition : Pick("nodes", LastRevision("partitions"), Revisions("partitions")),
   frontier : {memory.epochs[e].frontier}, snapshot : {memory.epochs[e].snapshot},
   candidates : {memory.actions}, selected : Pick("nodes", memory.actions, SUBSET memory.actions),
   sealed : Pick("nodes", TRUE, {FALSE})]

NodeChoices ==
  UNION {NodesOf(p, e) :
           p \in Pick("nodes", Acting, Principals),
           e \in Pick("nodes", LastRevision("epochs"), Revisions("epochs"))
                \cap DOMAIN memory.epochs}

OfferedNodes == {node \in NodeChoices : NodeCreatable(node)}

OfferedSelections ==
  [principal : {Acting},
   partition : Pick("selections", LastRevision("partitions"), Revisions("partitions")),
   actions : {memory.actions}, action : memory.actions, superseded : {FALSE},
   generations : Pick("selections", [plan |-> memory.generation],
                      {[plan |-> memory.generation - 1], [evidence |-> 0]})]

OfferedSufficiency ==
  [action : memory.actions,
   epoch : Pick("sufficiency", LastRevision("epochs"), Revisions("epochs")),
   principal : {Acting},
   partition : Pick("sufficiency", LastRevision("partitions"), Revisions("partitions")),
   node : Pick("sufficiency", LastRevision("nodes"), Revisions("nodes")),
   complete : Pick("sufficiency", TRUE, {FALSE}), covers : Pick("sufficiency", TRUE, {FALSE})]

\* A new seal, or an invalidation of the last one.
NewSeals ==
  [sufficiency : Pick("seals", LastRevision("sufficiency"), Revisions("sufficiency")),
   mission : {memory.mission}, canonical : {memory.canonical}, status : {"sealed"},
   covers : Pick("seals", TRUE, {FALSE})]

InvalidationsOf(seal) ==
  {[Unregistered(seal) EXCEPT !.status = status] : status \in Invalidations(seal.status)}

OfferedSeals ==
  NewSeals \cup IF memory.seals = <<>> THEN {}
                ELSE InvalidationsOf(memory.seals[Len(memory.seals)])

OfferedAssessments ==
  [status : Pick("assessments", "EXEC_BOUNDED", {"EXEC_PARTIAL"}),
   action : memory.actions, mission : {memory.mission}, plan : {memory.plan},
   node : Pick("assessments", LastRevision("nodes"), Revisions("nodes")),
   partition : Pick("assessments", LastRevision("partitions"),
                    Revisions("partitions") \cup {Len(memory.partitions) + 1}),
   actions : {memory.actions}, seal : {"sealed"}, mixed : Pick("assessments", FALSE, {TRUE})]

Offered(family) ==
  CASE family = "frontiers" -> OfferedFrontiers
    [] family = "partitions" -> OfferedPartitions
    [] family = "epochs" -> OfferedEpochs
    [] family = "nodes" -> OfferedNodes
    [] family = "selections" -> OfferedSelections
    [] family = "sufficiency" -> OfferedSufficiency
    [] family = "seals" -> OfferedSeals
    [] family = "assessments" -> OfferedAssessments

\* The revisions that an authorization may name.
Bundles ==
  [Bundled ->
     1 .. Maximum({Len(memory[family]) : family \in Families})]

Next ==
  \/ SaveSnapshot
  \/ \E family \in Growing : \E value \in Offered(family) : RegisterPolicy(family, value)
  \/ CommitActionPatch
  \/ RegisterRegion
  \/ \E p \in Principals : ChangeAccess(p)
  \/ ReviseMission
  \/ ReviseRegime
  \/ \E a \in Actions : ProposeAction(a)
  \/ ReportModelClassAnomaly
  \/ \E a \in memory.actions, bundle \in Bundles, now \in 1 .. 2 :
        AuthorizeSealedPolicy(a, bundle, now)
  \/ \E n \in DOMAIN memory.auths : Dispatch(n)

Spec == Init /\ [][Next]_vars

-----------------------------------------------------------------------------
(* The types. *)

Snapshots == [mission : Nat, plan : Nat, location : Nat, actions : SUBSET Actions]

Worlds == [mission : Nat, canonical : Nat, location : Nat, regime : Nat,
           access : [Principals -> Nat], actions : SUBSET Actions]

FrontierType == [principal : Principals, access : Int, world : Worlds]

PartitionType == [principal : Principals, mission : Nat, canonical : Int, access : Nat,
                  epoch : Nat, world : Worlds]

EpochType == [principal : Principals, partition : Nat, frontier : Nat, access : Nat,
              snapshot : Snapshots, until : Nat, world : Worlds]

NodeType == [principal : Principals, executors : SUBSET Principals, epoch : Nat,
             partition : Nat, frontier : Nat, snapshot : Snapshots,
             candidates : SUBSET Actions, selected : SUBSET Actions, sealed : BOOLEAN,
             world : Worlds]

SelectionType == [principal : Principals, partition : Nat, actions : SUBSET Actions,
                  action : Actions, superseded : BOOLEAN,
                  generations : [plan : Int] \cup [evidence : Int],
                  world : Worlds]

SufficiencyType == [action : Actions, epoch : Nat, principal : Principals, partition : Nat,
                    node : Nat, complete : BOOLEAN, covers : BOOLEAN, world : Worlds]

SealType == [sufficiency : Nat, mission : Nat, canonical : Nat,
             status : CurrentSeals \cup {"stale", "revoked"}, covers : BOOLEAN,
             world : Worlds]

AssessmentType == [status : BoundedExecutability \cup {"EXEC_PARTIAL"}, action : Actions,
                   mission : Nat, plan : Nat, node : Nat, partition : Nat,
                   actions : SUBSET Actions, seal : CurrentSeals, mixed : BOOLEAN,
                   world : Worlds]

LineageType == [mission : Nat, canonical : Nat, location : Nat, regime : Nat, access : Nat]

\* What an authorization is bound to, or nothing yet.
AuthorizationType ==
  [action : Actions, bundle : {<<>>} \cup [Bundled -> Nat],
   closure : {<<>>} \cup [Lineages -> Nat],
   issue : {<<>>} \cup [world : Worlds, generation : Nat, revisions : [Lineages -> Nat]],
   state : {"authorized", "dispatched"}]

Kernels ==
  [frontiers : Seq(FrontierType), partitions : Seq(PartitionType), epochs : Seq(EpochType),
   nodes : Seq(NodeType), selections : Seq(SelectionType),
   sufficiency : Seq(SufficiencyType), seals : Seq(SealType),
   assessments : Seq(AssessmentType), epochLineage : Seq(LineageType),
   auths : Seq(AuthorizationType), sequence : Nat, mission : Nat, canonical : Nat,
   plan : Nat, generation : Nat, location : Nat, regime : Nat, actions : SUBSET Actions,
   access : [Principals -> Nat]]

ASSUME KernelAssumption == Unreadable \notin Kernels

TypeOK ==
  /\ memory \in Kernels
  /\ durable \in Kernels \cup {Unreadable}
  /\ limits \in Limits
  /\ did \in [issued : Nat, dispatched : Nat]

-----------------------------------------------------------------------------
(* Properties. *)

\* An assessment is registered of a partition that is not: the registration asks for the
\* node only, its replay and the snapshot for both.
NamedEarly ==
  LET x == memory'.assessments[Len(memory'.assessments)]
  IN /\ Len(memory'.assessments) > Len(memory.assessments)
     /\ x.partition \notin DOMAIN memory.partitions

\* A kernel that stops and opens again has, from the snapshot and the entries after it, the
\* registries, the bindings and the closures that it had. Only an assessment that names its
\* partition early makes it refuse to open, and then whatever follows keeps it so but a
\* snapshot; nothing else that is written is refused, cut short by a crash or not.
ReplayAgrees ==
  [][\/ durable' = memory'
     \/ durable' = Unreadable /\ (durable = Unreadable \/ NamedEarly)]_vars

\* What the kernel has registered, it can open again:
\* src/docs/superpowers/specs/2026-08-30-wave5-executable-policy-closure-design.md:130-137
\* says that replay must preserve the same executability assessment on the same journal.
NothingRefused == durable # Unreadable

\* What the revisions that an authorization rests on were registered in is the world that it
\* is issued in, and they are about one action and one principal. The node, its epoch and the
\* certificates after it agree with the world altogether, although only some of them say so;
\* the partition, the frontier and the selection in what they speak about. The check names
\* its fields one by one and reads each from another artifact.
IssuedOnOneSnapshot ==
  did.issued # 0 =>
    LET a == memory.auths[did.issued]
        b == a.bundle
        node == memory.nodes[b.nodes]
        partition == memory.partitions[node.partition]
        selection == memory.selections[b.selections]
        now == World(memory)
        Same(artifact, fields) == \A f \in fields : artifact.world[f] = now[f]
        SameAccess(artifact) == artifact.world.access[Acting] = now.access[Acting]
    IN /\ \A artifact \in {node, memory.epochs[node.epoch],
                           memory.sufficiency[b.sufficiency], memory.seals[b.seals],
                           memory.assessments[b.assessments]} :
            /\ Same(artifact, {"mission", "canonical", "location", "regime", "actions"})
            /\ SameAccess(artifact)
       /\ Same(partition, {"mission", "canonical"}) /\ SameAccess(partition)
       /\ SameAccess(memory.frontiers[node.frontier])
       /\ Same(selection, {"actions"})
       /\ "plan" \in DOMAIN selection.generations =>
            Same(selection, {"mission", "canonical", "regime", "access"})
       /\ {selection.action, memory.sufficiency[b.sufficiency].action,
           memory.assessments[b.assessments].action} = {a.action}
       /\ {node.principal, memory.epochs[node.epoch].principal, partition.principal,
           selection.principal} = {Acting}

\* An action is handed to its adapter only if nothing of what its policy was checked against
\* has changed since its authorization, crashes and restarts in between included: the world,
\* the registries, and the plan where the selection depends on it.
DispatchOnUnchangedBundle ==
  did.dispatched # 0 =>
    LET a == memory.auths[did.dispatched]
        now == World(memory)
    IN a.bundle # <<>> =>
         /\ \A f \in {"mission", "canonical", "location", "regime"} : a.issue.world[f] = now[f]
         /\ a.issue.world.access[Acting] = now.access[Acting]
         /\ \A family \in Lineages : a.issue.revisions[family] = Len(memory[family])
         /\ "plan" \in DOMAIN memory.selections[a.bundle.selections].generations =>
              a.issue.generation = memory.generation

\* An action that rests on a sealed policy is authorized only while the latest revision of
\* its seal is a seal: src/docs/superpowers/specs/2026-08-30-wave5-executable-policy-closure-design.md:157
\* says that an unsealed or stale seal cannot support a consequential authorization.
LiveSealOnly ==
  did.issued # 0 => memory.seals[Len(memory.seals)].status \in CurrentSeals
=============================================================================
