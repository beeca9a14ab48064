--------------------------- MODULE ProofAuthority ---------------------------
(***************************************************************************)
(* Actions that carry a proof: the semantic sources and the barrier that   *)
(* changes them (semantic_barrier.py), the query domains                   *)
(* (query_domain.py), the envelope of what a proof procedure read          *)
(* (proof_inputs.py), the manifest of what a proof depends on              *)
(* (proof_dependencies.py), the support that grounds it (support.py), the  *)
(* kernel's operations on them (proof_runtime.py), their replay            *)
(* (proof_recovery.py) and the lineage of a proof's authority that a       *)
(* dispatch checks again (authority_lineage_runtime.py and its patch).     *)
(*                                                                         *)
(* As in TrustLedger, the kernel is one record, memory, and durable is     *)
(* what open would make of the snapshot and the entries after it.          *)
(*                                                                         *)
(* The revision of a lineage is new whenever its content is not that of    *)
(* the current one, and never comes back: an authorization keeps a flag,   *)
(* stale, that is set by the first change of the lineage it is bound to.   *)
(* The host is taken at its word on what a change of a source affects.  A  *)
(* manifest may name a source before it is registered: the registration    *)
(* refreshes no lineage, and its replay does.                              *)
(***************************************************************************)
EXTENDS Naturals, Sequences, FiniteSets, SequencesExt

CONSTANTS
  Sources, RevisionIds, Domains, Queries, Profiles, Envelopes, Artifacts, Nodes, Roots,
  DomainsOf,       \* the dependency domains of a source
  EnvelopeShapes,  \* bound: the envelopes that the host creates
  ManifestShapes,  \* bound: what the host's manifests name
  CauseSets,       \* bound: the invalidity causes that the host sets
  MaxSequence,     \* bound: registrations and changes of sources
  MaxRevision,     \* bound: revisions of a query domain
  Limits,          \* bound: the journal before, the nodes and support sets to come, and
                   \* whether anything else happens
  None, Unreadable

Assurances == {"full_envelope_enforced", "trusted_dynamic_capture",
               "self_reported_declared", "dependency_opaque", "unsupported_capture"}
ReadPolicies == {"deny_undeclared", "capture_required", "allow_opaque"}
EnvelopeType == [assurance : Assurances, policy : ReadPolicies, mechanism : BOOLEAN]

ProfileType ==
  [complete : BOOLEAN, affected : SUBSET Domains, fallback : SUBSET Domains]

CauseType == [active : BOOLEAN, blocking : BOOLEAN]

ASSUME ProofAssumption ==
  /\ DomainsOf \in [Sources -> SUBSET Domains]
  /\ EnvelopeShapes \subseteq EnvelopeType
  /\ CauseSets \subseteq SUBSET CauseType
  /\ MaxSequence \in Nat /\ MaxRevision \in Nat

VARIABLES
  memory,    \* the kernel
  durable,   \* what open would restore, or Unreadable
  limits,    \* bound: the member of Limits this behaviour keeps to
  did        \* what the last step was: the number of the authorization that it
             \* issued, or handed to an adapter

vars == <<memory, durable, limits, did>>

-----------------------------------------------------------------------------
(* The semantic barrier. *)

SourceRegistered(m, s) == m.sources[s] # None

RegisterSource(m, s, r) ==
  [m EXCEPT !.sequence = @ + 1, !.sources[s] = r, !.written[s] = m.sequence + 1]

\* A fault of the guard below: a profile that knows it is incomplete is enough.
AnyChange(m, s, r, profile) == SourceRegistered(m, s) /\ r # m.sources[s]

\* The refusals of mutate.
Mutable(m, s, r, profile) ==
  /\ SourceRegistered(m, s)
  /\ r # m.sources[s]
  /\ profile.complete \/ profile.fallback # {}

\* mutate: the source and the generations of its domains, in one critical section.
Mutate(m, s, r, profile) ==
  [RegisterSource(m, s, r) EXCEPT
     !.generation = [d \in Domains |->
        IF d \in profile.affected \cup profile.fallback THEN @[d] + 1 ELSE @[d]]]

-----------------------------------------------------------------------------
(* Query domains. *)

Latest(m, q) == Last(m.queries[q])

\* create
CreateQuery(m, q, kind, named) ==
  [m EXCEPT !.queries[q] = <<[kind |-> kind, named |-> named, membership |-> 1,
                              sensitivity |-> 1]>>]

\* advance_membership, and record_member_mutation of a result that may change
AdvanceQuery(m, q, named, member) ==
  [m EXCEPT !.queries[q] = Append(@,
     [Last(@) EXCEPT !.named = named,
                     !.membership = IF member THEN @ + 1 ELSE @,
                     !.sensitivity = @ + 1])]

\* status, at an assurance of 0.8
Status(query) ==
  IF query.kind = "opaque" THEN "opaque"
  ELSE IF query.kind = "incomplete" \/ ~query.named THEN "incomplete"
  ELSE IF query.kind = "weak" THEN "inconclusive"
  ELSE "complete"

\* The latest revision of the query is the one that was bound: current.
QueryCurrent(m, q, n) == Len(m.queries[q]) = n

-----------------------------------------------------------------------------
(* Input envelopes and dependency manifests. *)

\* The refusals of ProofInputEnvelopeRevision.create
Creatable(e) ==
  /\ e.assurance = "trusted_dynamic_capture" => e.mechanism
  /\ e.assurance \in {"full_envelope_enforced", "trusted_dynamic_capture"}
       => e.policy # "allow_opaque"

\* ProofDependencyManifestRevision.capture: the host says which revision of a source it
\* read, the domains and the queries are captured as they are.  For the properties, the
\* manifest keeps when each source had last been changed, 0 for one not registered yet.
Captured(m, e, shape, exact) ==
  [envelope |-> e, exact |-> exact,
   domains |-> [d \in shape.domains |-> m.generation[d]],
   queries |-> [q \in shape.queries |-> Len(m.queries[q])],
   profiles |-> shape.profiles, gaps |-> shape.gaps, seen |-> m.written]

CaptureComplete(m, manifest) ==
  /\ m.envelopes[manifest.envelope].assurance
       \in {"full_envelope_enforced", "trusted_dynamic_capture"}
  /\ ~manifest.gaps

DependenciesCurrent(m, manifest) ==
  /\ \A d \in DOMAIN manifest.domains : m.generation[d] = manifest.domains[d]
  /\ \A s \in DOMAIN manifest.exact : m.sources[s] = manifest.exact[s]
  /\ \A q \in DOMAIN manifest.queries :
       /\ QueryCurrent(m, q, manifest.queries[q])
       /\ Status(Latest(m, q)) = "complete"
  /\ manifest.profiles \subseteq m.profiles

StrongReuse(m, a) ==
  CaptureComplete(m, m.manifests[a]) /\ DependenciesCurrent(m, m.manifests[a])

-----------------------------------------------------------------------------
(* Support: a clause survives when each node it requires resolves to roots.  *)

\* A fault of the condition below: what was withdrawn still supports.
BarredUnlessWithdrawn(nodes, n, context, visiting) ==
  \/ n \in visiting \/ nodes[n] = None
  \/ context /\ ~nodes[n].tagged

\* A node that supports nothing: it is on the path to itself, unknown, withdrawn, or
\* without the tag of the context.
Barred(nodes, n, context, visiting) ==
  \/ n \in visiting \/ nodes[n] = None
  \/ ~nodes[n].current
  \/ context /\ ~nodes[n].tagged

\* _resolve_roots: the memo after the visit of n, which all visits share; the visit ends
\* at the first dependency that does not resolve.
RECURSIVE ResolveRoots(_, _, _, _, _)
ResolveRoots(nodes, n, context, visiting, memo) ==
  LET Memo(table, value) == [x \in DOMAIN table \cup {n} |-> IF x = n THEN value ELSE table[x]]
      Visit(table, k) ==
        IF None \in {table[x] : x \in DOMAIN table \cap nodes[n].refs} THEN table
        ELSE ResolveRoots(nodes, k, context, visiting \cup {n}, table)
  IN IF n \in DOMAIN memo THEN memo
     ELSE IF Barred(nodes, n, context, visiting) THEN Memo(memo, None)
     ELSE LET after == FoldLeft(Visit, memo, SetToSeq(nodes[n].refs))
              known == {after[k] : k \in DOMAIN after \cap nodes[n].refs}
              roots == nodes[n].roots \cup UNION (known \ {None})
          IN Memo(after, IF None \in known \/ roots = {} THEN None ELSE roots)

\* A clause of a support set survives.
Survives(nodes, c, context) ==
  LET after == FoldLeft(LAMBDA acc, n : ResolveRoots(nodes, n, context, {}, acc),
                        <<>>, SetToSeq(c.requires))
      roots == UNION {after[n] : n \in c.requires}
  IN /\ c.requires # {} /\ c.own
     /\ context => c.tagged
     /\ \A n \in c.requires : /\ nodes[n] # None /\ nodes[n].kind = "own"
                              /\ after[n] # None
     /\ c.roots \subseteq roots
     /\ Cardinality(roots) >= c.minimum

\* SupportEvaluator.evaluate
Supported(m, a, context) == \E c \in m.supports[a] : Survives(m.nodes, c, context)

\* What evaluate_proof_authority asks before an authorization is issued.
CurrentUsable(m, a, context) ==
  /\ m.manifests[a] # None /\ m.supports[a] # None
  /\ StrongReuse(m, a)
  /\ Supported(m, a, context)
  /\ \A c \in m.causes[a] : ~(c.active /\ c.blocking)

-----------------------------------------------------------------------------
(* The lineage of a proof's authority. *)

\* A fault of the closure below: the causes are left to the evaluation of the proof.
ClosureWithoutCauses(m, a) ==
  [sources |-> [s \in DOMAIN m.manifests[a].exact |-> m.written[s]],
   queries |-> [q \in DOMAIN m.manifests[a].queries |-> Len(m.queries[q])],
   nodes |-> {n \in UNION {c.requires : c \in m.supports[a]} : m.nodes[n] # None},
   profiles |-> m.profiles]

\* What the lineage covers, each part by its own current lineage.
Closure(m, a) ==
  [sources |-> [s \in DOMAIN m.manifests[a].exact |-> m.written[s]],
   queries |-> [q \in DOMAIN m.manifests[a].queries |-> Len(m.queries[q])],
   nodes |-> {n \in UNION {c.requires : c \in m.supports[a]} : m.nodes[n] # None},
   causes |-> m.causes[a], profiles |-> m.profiles]

\* _refresh_proof_authority_lineage, for each of these artifacts
Refreshed(m, artifacts) ==
  LET moved == {a \in artifacts : /\ m.manifests[a] # None /\ m.supports[a] # None
                                  /\ m.authority[a] # Closure(m, a)}
  IN [m EXCEPT
        !.authority = [a \in Artifacts |-> IF a \in moved THEN Closure(m, a) ELSE @[a]],
        !.auths = [n \in DOMAIN @ |->
           [@[n] EXCEPT !.stale = @ \/ (m.auths[n].bound /\ m.auths[n].artifact \in moved)]]]

OfSource(m, s) ==
  {a \in Artifacts : m.manifests[a] # None /\ s \in DOMAIN m.manifests[a].exact}

OfQuery(m, q) ==
  {a \in Artifacts : m.manifests[a] # None /\ q \in DOMAIN m.manifests[a].queries}

\* What follows a live operation on x: the proofs that may rest on it are refreshed.
After(m, event, x) ==
  CASE event = "semantic_source_mutated" -> Refreshed(m, OfSource(m, x))
    [] event = "query_domain_advanced" -> Refreshed(m, OfQuery(m, x))
    [] event \in {"profile_refs_registered", "support_node_registered"} ->
         Refreshed(m, Artifacts)
    [] event \in {"manifest_captured", "support_set_registered", "invalidity_causes_set"} ->
         Refreshed(m, {x})
    [] OTHER -> m

\* What follows the replay of an event: what is new is refreshed for, too.
AfterReplayed(m, event, x) ==
  CASE event = "semantic_source_registered" -> Refreshed(m, OfSource(m, x))
    [] event = "query_domain_created" -> Refreshed(m, OfQuery(m, x))
    [] OTHER -> After(m, event, x)

\* _augment_authority_closure: what the authorization is bound to from now on.
Bound(m, n) == [m EXCEPT !.auths[n].bound = TRUE]

\* _assert_authority_closure_current
ClosureCurrent(m, n) == m.auths[n].bound => ~m.auths[n].stale

-----------------------------------------------------------------------------
(* The replay of one entry. *)

Check(condition, d) == IF condition THEN d ELSE Unreadable

ReplaySource(d, s, r, sequence) ==
  Check(~SourceRegistered(d, s) /\ d.sequence + 1 = sequence, RegisterSource(d, s, r))

\* A fault of the reducer below: the generations wait for the next snapshot.
ReplayMutationOfSource(d, s, previous, r, profile, sequence) ==
  Check(Mutable(d, s, r, profile) /\ d.sources[s] = previous /\ d.sequence + 1 = sequence,
        RegisterSource(d, s, r))

ReplayMutation(d, s, previous, r, profile, sequence) ==
  Check(Mutable(d, s, r, profile) /\ d.sources[s] = previous /\ d.sequence + 1 = sequence,
        Mutate(d, s, r, profile))

ReplayQueryCreated(d, q, query) ==
  Check(d.queries[q] = <<>>, CreateQuery(d, q, query.kind, query.named))

\* proof.query_domain_membership_advanced and proof.query_domain_member_mutated
ReplayQueryAdvanced(d, q, query, member) ==
  LET e == AdvanceQuery(d, q, query.named, member)
  IN Check(d.queries[q] # <<>> /\ Latest(e, q) = query, e)

\* _manifest_from_event
ReplayManifest(d, a, manifest) ==
  Check(/\ d.envelopes[manifest.envelope] # None
        /\ \A q \in DOMAIN manifest.queries : manifest.queries[q] \in DOMAIN d.queries[q]
        /\ d.manifests[a] = None,
        [d EXCEPT !.manifests[a] = manifest])

\* The owner's reducer of one entry.
Reduce(d, e) ==
  CASE e[1] = "semantic_source_registered" -> ReplaySource(d, e[2], e[3], e[4])
    [] e[1] = "semantic_source_mutated" -> ReplayMutation(d, e[2], e[3], e[4], e[5], e[6])
    [] e[1] = "profile_refs_registered" -> [d EXCEPT !.profiles = @ \cup e[2]]
    [] e[1] = "query_domain_created" -> ReplayQueryCreated(d, e[2], e[3])
    [] e[1] = "query_domain_advanced" -> ReplayQueryAdvanced(d, e[2], e[3], e[4])
    [] e[1] = "input_envelope_registered" ->
         Check(d.envelopes[e[2]] = None, [d EXCEPT !.envelopes[e[2]] = e[3]])
    [] e[1] = "manifest_captured" -> ReplayManifest(d, e[2], e[3])
    [] e[1] = "support_node_registered" ->
         Check(d.nodes[e[2]] = None, [d EXCEPT !.nodes[e[2]] = e[3]])
    [] e[1] = "support_set_registered" ->
         Check(d.manifests[e[2]] # None /\ d.supports[e[2]] = None,
               [d EXCEPT !.supports[e[2]] = e[3]])
    [] e[1] = "invalidity_causes_set" ->
         Check(d.manifests[e[2]] # None, [d EXCEPT !.causes[e[2]] = e[3]])
    [] e[1] = "authorized" -> [d EXCEPT !.auths = Append(@, e[2])]
    [] e[1] = "authorization_bound" ->
         Check(e[2] \in DOMAIN d.auths /\ d.manifests[d.auths[e[2]].artifact] # None,
               Bound(d, e[2]))
    [] e[1] = "dispatch_recorded" -> [d EXCEPT !.auths[e[2]].state = "dispatched"]

\* open_exact: the owner's reducer, then the lineages that follow it, entry by entry
ReplayAll(entries, d) ==
  FoldLeft(LAMBDA acc, e :
             IF acc = Unreadable \/ Reduce(acc, e) = Unreadable THEN Unreadable
             ELSE AfterReplayed(Reduce(acc, e), e[1], e[2]),
           d, entries)

-----------------------------------------------------------------------------
EmptyKernel ==
  [sequence |-> 0, sources |-> [s \in Sources |-> None], written |-> [s \in Sources |-> 0],
   generation |-> [d \in Domains |-> 0], queries |-> [q \in Queries |-> <<>>],
   profiles |-> {}, envelopes |-> [e \in Envelopes |-> None],
   manifests |-> [a \in Artifacts |-> None], nodes |-> [n \in Nodes |-> None],
   supports |-> [a \in Artifacts |-> None], causes |-> [a \in Artifacts |-> {}],
   authority |-> [a \in Artifacts |-> None], auths |-> <<>>]

Nothing == [issued |-> 0, dispatched |-> 0, context |-> FALSE]

Init ==
  /\ limits \in Limits
  /\ memory = ReplayAll(limits.before, EmptyKernel)
  /\ durable = memory
  /\ did = Nothing

\* The memory and the journal, changed alike or cut short by a crash after n entries.
Done(m, entries) ==
  /\ memory' = m
  /\ durable' = ReplayAll(entries, durable)

Torn(entries, n) ==
  LET d == ReplayAll(SubSeq(entries, 1, n), durable)
  IN /\ d # Unreadable
     /\ memory' = d
     /\ durable' = d

\* An operation of one entry: a crash before it leaves what the journal holds.
Perform(m, entry) ==
  /\ Done(After(m, entry[1], entry[2]), <<entry>>) \/ Torn(<<entry>>, 0)
  /\ did' = Nothing
  /\ UNCHANGED limits

RegisterSemanticSource(s, r) ==
  /\ limits.life /\ memory.sequence < MaxSequence
  /\ ~SourceRegistered(memory, s)
  /\ Perform(RegisterSource(memory, s, r),
             <<"semantic_source_registered", s, r, memory.sequence + 1>>)

MutateSemanticSource(s, r, profile) ==
  /\ limits.life /\ memory.sequence < MaxSequence
  /\ Mutable(memory, s, r, profile)
  /\ Perform(Mutate(memory, s, r, profile),
             <<"semantic_source_mutated", s, memory.sources[s], r, profile,
               memory.sequence + 1>>)

RegisterProofProfileRefs(refs) ==
  /\ limits.life
  /\ Perform([memory EXCEPT !.profiles = @ \cup refs],
             <<"profile_refs_registered", refs>>)

CreateProofQueryDomain(q, kind, named) ==
  LET m == CreateQuery(memory, q, kind, named)
  IN /\ limits.life
     /\ memory.queries[q] = <<>>
     /\ Perform(m, <<"query_domain_created", q, Latest(m, q)>>)

\* advance_proof_query_membership, and record_proof_query_member_mutation when the result
\* may change; when it may not, that does nothing.
AdvanceProofQuery(q, named, member) ==
  LET m == AdvanceQuery(memory, q, named, member)
  IN /\ limits.life
     /\ Len(memory.queries[q]) \in 1 .. MaxRevision - 1
     /\ Perform(m,
                <<"query_domain_advanced", q, Latest(m, q), member>>)

RegisterProofInput(e, envelope) ==
  /\ limits.life
  /\ memory.envelopes[e] = None
  /\ Creatable(envelope)
  /\ Perform([memory EXCEPT !.envelopes[e] = envelope],
             <<"input_envelope_registered", e, envelope>>)

\* _capture_proof_manifest: nothing is asked of the sources that the host names.
CaptureProofManifest(a, e, shape, exact) ==
  LET manifest == Captured(memory, e, shape, exact)
  IN /\ limits.life
     /\ memory.manifests[a] = None
     /\ memory.envelopes[e] # None
     /\ \A q \in shape.queries : memory.queries[q] # <<>>
     /\ Perform([memory EXCEPT !.manifests[a] = manifest],
                <<"manifest_captured", a, manifest>>)

RegisterSupportNode(n, node) ==
  /\ memory.nodes[n] = None
  /\ Perform([memory EXCEPT !.nodes[n] = node],
             <<"support_node_registered", n, node>>)

RegisterSupportSet(a, clauses) ==
  /\ memory.manifests[a] # None /\ memory.supports[a] = None
  /\ Perform([memory EXCEPT !.supports[a] = clauses],
             <<"support_set_registered", a, clauses>>)

SetProofInvalidityCauses(a, causes) ==
  /\ limits.life
  /\ memory.manifests[a] # None
  /\ Perform([memory EXCEPT !.causes[a] = causes],
             <<"invalidity_causes_set", a, causes>>)

\* authorize_proof_carrying: authorize_strong records the authorization, and an entry of
\* its own binds it to the proof.  Bound: one authorization.  For the properties, it keeps
\* what its proof rested on when it was issued.
AuthorizeProofCarrying(a, context) ==
  LET unbound == [artifact |-> a, bound |-> FALSE, stale |-> FALSE, state |-> "authorized",
                  basis |-> Closure(memory, a)]
      n == Len(memory.auths) + 1
      m == Bound([memory EXCEPT !.auths = Append(@, unbound)], n)
      entries == <<<<"authorized", unbound>>, <<"authorization_bound", n>>>>
  IN /\ limits.life /\ memory.auths = <<>>
     /\ CurrentUsable(memory, a, context)
     /\ \/ /\ Done(m, entries)
           /\ did' = [Nothing EXCEPT !.issued = n, !.context = context]
        \/ /\ \E k \in 0 .. 1 : Torn(entries, k)
           /\ did' = Nothing
     /\ UNCHANGED limits

\* dispatch, whose other checks and whose outcome are in ActionTransactions: a dispatch
\* that was refused before it was recorded may be tried again.
Dispatch(n) ==
  /\ limits.life
  /\ ClosureCurrent(memory, n)
  /\ memory.auths[n].state = "authorized"
  /\ \/ /\ Done([memory EXCEPT !.auths[n].state = "dispatched"],
                <<<<"dispatch_recorded", n>>>>)
        /\ did' = [Nothing EXCEPT !.dispatched = n]
     \/ /\ Torn(<<<<"dispatch_recorded", n>>>>, 0)
        /\ did' = Nothing
  /\ UNCHANGED limits

\* What _restore_proof_state refuses to restore.
ProofsRestorable(m) ==
  /\ \A s \in Sources : m.written[s] <= m.sequence
  /\ \A a \in Artifacts :
       /\ m.manifests[a] # None =>
            /\ m.envelopes[m.manifests[a].envelope] # None
            /\ \A q \in DOMAIN m.manifests[a].queries :
                 m.manifests[a].queries[q] \in DOMAIN m.queries[q]
       /\ m.supports[a] # None \/ m.causes[a] # {} => m.manifests[a] # None
  /\ \A n \in DOMAIN m.auths : m.auths[n].bound => m.manifests[m.auths[n].artifact] # None

\* What _restore_state_payload refuses to restore: every lineage that an authorization is
\* bound to is registered.
ClosuresRestorable(m) ==
  \A n \in DOMAIN m.auths : m.auths[n].bound => m.authority[m.auths[n].artifact] # None

\* save_snapshot
SaveSnapshot ==
  /\ durable' = IF ProofsRestorable(memory) /\ ClosuresRestorable(memory)
             THEN memory ELSE Unreadable
  /\ did' = Nothing
  /\ UNCHANGED <<memory, limits>>

-----------------------------------------------------------------------------
\* A host that says its profile is complete names the domains of the source; one that does
\* not may miss some, and falls back on all of them or on nothing.
HonestProfiles(s) ==
  {p \in ProfileType :
     IF p.complete THEN DomainsOf[s] \subseteq p.affected /\ p.fallback = {}
     ELSE p.fallback \in {{}, DomainsOf[s]}}

Next ==
  \/ SaveSnapshot
  \/ \E s \in Sources, r \in RevisionIds :
       \/ RegisterSemanticSource(s, r)
       \/ \E profile \in HonestProfiles(s) : MutateSemanticSource(s, r, profile)
  \/ RegisterProofProfileRefs(Profiles)
  \/ \E q \in Queries, named \in BOOLEAN :
       \/ \E kind \in limits.kinds : CreateProofQueryDomain(q, kind, named)
       \/ \E member \in BOOLEAN : AdvanceProofQuery(q, named, member)
  \/ \E e \in Envelopes :
       \/ \E envelope \in EnvelopeShapes : RegisterProofInput(e, envelope)
       \/ \E a \in Artifacts, shape \in ManifestShapes :
            \E exact \in [shape.exact -> RevisionIds] :
              CaptureProofManifest(a, e, shape, exact)
  \/ \E n \in Nodes : \E node \in limits.nodes[n] : RegisterSupportNode(n, node)
  \/ \E a \in Artifacts :
       \/ \E clauses \in limits.supports : RegisterSupportSet(a, clauses)
       \/ \E causes \in CauseSets : SetProofInvalidityCauses(a, causes)
       \/ \E context \in BOOLEAN : AuthorizeProofCarrying(a, context)
  \/ \E n \in DOMAIN memory.auths : Dispatch(n)

Spec == Init /\ [][Next]_vars

-----------------------------------------------------------------------------
(* Properties. *)

\* The manifest of the artifact named a source that was not registered yet.
NamedEarly(m, a) ==
  m.manifests[a] # None /\ \E s \in DOMAIN m.manifests[a].exact : m.manifests[a].seen[s] = 0

\* What the journal keeps is what the memory holds: the kernel that opens is the kernel
\* that wrote, with every generation, lineage and binding, the staleness of every
\* authorization included.  Only the lineage of a proof that named a source before it was
\* registered may be another, and no authorization is stale in it that was not stale before.
ReplayAgrees ==
  /\ durable # Unreadable
  /\ durable = [memory EXCEPT !.authority = durable.authority, !.auths = durable.auths]
  /\ \A a \in Artifacts : durable.authority[a] # memory.authority[a] => NamedEarly(memory, a)
  /\ Len(durable.auths) = Len(memory.auths)
  /\ \A n \in DOMAIN memory.auths :
       \/ durable.auths[n] = memory.auths[n]
       \/ /\ NamedEarly(memory, memory.auths[n].artifact)
          /\ memory.auths[n].stale
          /\ durable.auths[n] = [memory.auths[n] EXCEPT !.stale = FALSE]

\* An authorization that is refused because its proof has changed is refused after a
\* restart, too.
NoResurrection ==
  \A n \in DOMAIN memory.auths :
    ~ClosureCurrent(memory, n) /\ durable # Unreadable => ~ClosureCurrent(durable, n)

\* An authorization is issued on a proof whose inputs nobody touched since its manifest was
\* captured: a source that went from one revision to another and back is touched, and so is
\* one that the manifest knows only by a domain.
IssuedOnUntouchedInputs ==
  [][did'.issued # 0 =>
       LET manifest == memory.manifests[memory'.auths[did'.issued].artifact] IN
         /\ ~manifest.gaps
         /\ \A s \in Sources :
              /\ s \in DOMAIN manifest.exact \/ DomainsOf[s] \cap DOMAIN manifest.domains # {}
              /\ manifest.seen[s] # 0
                => memory.written[s] = manifest.seen[s]]_vars

\* The nodes that rest on roots: the least set that is closed under the support of current
\* nodes, computed from below, without a path, a memo or an order of visits.
RECURSIVE Grounded(_, _, _)
Grounded(nodes, context, known) ==
  LET more == {n \in Nodes :
                 /\ nodes[n] # None
                 /\ nodes[n].current
                 /\ context => nodes[n].tagged
                 /\ nodes[n].refs \subseteq known
                 /\ nodes[n].refs # {} \/ nodes[n].roots # {}}
  IN IF more \subseteq known THEN known ELSE Grounded(nodes, context, known \cup more)

\* The nodes that n rests on, itself included.
RECURSIVE Below(_, _)
Below(nodes, found) ==
  LET more == UNION {nodes[n].refs : n \in {k \in found : nodes[k] # None}}
  IN IF more \subseteq found THEN found ELSE Below(nodes, found \cup more)

\* A proof is supported exactly when a clause of its support set rests on enough independent
\* roots through current nodes, and never through a circle of nodes that support each other.
SupportIsGrounded ==
  \A a \in Artifacts, context \in BOOLEAN :
    memory.supports[a] # None =>
      LET grounded == Grounded(memory.nodes, context, {})
          RootsOf(c) == UNION {memory.nodes[n].roots : n \in Below(memory.nodes, c.requires)}
      IN Supported(memory, a, context) <=>
           \E c \in memory.supports[a] :
             /\ c.requires # {} /\ c.own /\ (context => c.tagged)
             /\ c.requires \subseteq grounded
             /\ \A n \in c.requires : memory.nodes[n].kind = "own"
             /\ c.roots \subseteq RootsOf(c) /\ Cardinality(RootsOf(c)) >= c.minimum

\* A proof-carrying authorization is dispatched only while everything that its proof names
\* is as it was when it was issued: the sources it names exactly, the queries, the nodes
\* and the profiles, and no cause against the proof was set in between.
DispatchOnUnchangedProof ==
  [][did'.dispatched # 0 /\ memory.auths[did'.dispatched].bound =>
       LET a == memory.auths[did'.dispatched] IN
         /\ a.basis = Closure(memory, a.artifact)
         /\ \A c \in memory.causes[a.artifact] : ~(c.active /\ c.blocking)]_vars

=============================================================================
