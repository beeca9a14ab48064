# Nolane Plan: formal models

Nolane Plan (`src/src/nolane_plan`) is a Python planning runtime. A `PlanKernel`
authorizes actions, hands them to an execution adapter, learns or reconciles
their outcome, and commits the resulting patch to a canonical plan. Whatever it
decides is written to a hash-linked, fsync'd journal and rebuilt from a snapshot
and the journal after a restart. The kernels of one deployment can share a
production store, in which writers are fenced by authority epochs.

This directory models the parts of that runtime in which order, failure, time and
restart decide whether it is correct. TLC checks the models on small instances;
TLAPS proves the properties of eight of them for every instance. Paths below
are relative to `src/src/nolane_plan` unless they start with `src/`.

## 1. Inventory

### 1.1 How the system runs

* **One writer per kernel.** Every public operation takes `PlanKernel._writer_lock`,
  a re-entrant lock. Threads never interleave inside a kernel, but
  `adapter.execute` is called *under* the lock and may call the kernel back on
  the same thread: dispatches nest, and a nested operation sees and changes the
  transaction whose outcome the outer one still awaits.
* **Layers by installation.** `__init__.py` installs the layers over the kernel in
  a fixed order (seals, resume, trust, proof, policy, schedulability, lineage,
  migration, compaction, authority lineage, cancellation, execution contracts,
  destructive compaction, multi-writer, Wave 9 snapshot). Each wraps `authorize`,
  `dispatch`, `save_snapshot` or `open` and adds its own checks and events.
* **Journal and snapshot.** Most operations change the memory and then append;
  the Wave 9 observations append first and then change the memory. `open` loads
  `snapshot.json`, verifies the hash chain and replays the entries after the head
  that the snapshot names. An event that no reducer knows makes it fail.
* **The shared store.** `InMemoryProductionStore` has a payload, a revision and an
  authority epoch. Every method is atomic under the store's lock; everything that
  uses the store calls several of them in a row, so two processes interleave
  between any two calls.

### 1.2 Components

| component | state it keeps | operations | interacts with | hard behaviour | what makes it correct | status |
|---|---|---|---|---|---|---|
| Production store (`production_store.py`) | payload, revision, epoch | `acquire_epoch`, `conditional_commit`, reads | called by every writer process | fencing against commits in flight | a superseded epoch never writes again; revisions count commits | `ProductionStore` |
| Multi-writer coordinator (`multiwriter.py`) | none of its own: the envelope of commits, heads, key index and conflicts is in the store | `acquire`, `commit` | store | checks and write are separate store calls; retries under an idempotency key | no lost update; exclusive effects; one intent per key; answers stay true | `MultiWriter`, refines `CorrectnessRegistry` |
| Kernel authority (`multiwriter_runtime.py`, `wave9_snapshot.py`) | observed epochs, commit observations, authorization bindings | `acquire_authority_epoch`, `conditional_correctness_commit`, `bind_authorization_authority_epoch`, `dispatch_epoch_bound` | store, journal, adapter | the store, the journal and the memory advance one after another | a restart restores what was known; only one kernel holds the authority | `KernelAuthority` |
| Action transactions (`kernel.py`, `execution.py`, `cancellation_runtime.py`, `trust_runtime.py`, `trust_recovery.py`, `execution_contract_runtime.py`, `resume.py`) | the ledger, the canonical version | `authorize`, `dispatch`, cancel, `reconcile_action` (weak and strong), acknowledgement of a remote cancellation, `save_snapshot`, `open` | adapter (re-entrant), journal | unknown outcomes, nested callbacks, crash between outcome and commit | an effect at most once per transaction; the ledger tells the truth; replay rebuilds it | `ActionTransactions` |
| Destructive compaction (`destructive_compaction.py`, `destructive_compaction_runtime.py`) | representations, pointer and compactions in the store; observations in each kernel | `prepare`, `write_shadow`, `commit_switch`, `retire_source`, `verify`, `_observe` | store, journal | five phases, each interruptible; competing compactions; observation by three separate reads | the authoritative content is never lost; phases can be resumed; kernels never run ahead of the store | `DestructiveCompaction` |
| Journal and suffix replay (`persistence.py`, `resume.py`, `replay_registry.py`, `replay_payload_runtime.py`, `lineage_recovery.py`) | files | `append`, `verify`, `save`, `open` | every layer | append that fails; torn line; reducers stricter than the live operation | replay equals the live projection, or refuses | with the components whose events they are |
| Trust: identity, communication, decision cuts, freshness (`identity.py`, `communication.py`, `decision_cut.py`, `principals.py`, `freshness.py`, `trust_*.py`) | attestations and bindings, access profiles, receipts, capsules | bind, revoke, register, transfer, observe (by receipt or by the host's word), compile; check at authorization, dispatch, reconciliation | authorize, dispatch | revocation after authorization; a transfer that is only half recorded | knowledge comes by a recorded transfer or the host's word; a capsule that counts as fresh still says what is so | `TrustLedger` |
| Execution contracts and compensation (`execution_contract*.py`) | contract revisions, bindings, acknowledgements, compensation records | register, bind, acknowledge, record compensation | ledger, adapter | a contract revised after an authorization was bound to it | a compensation belongs to one effect that happened | acknowledgement only |
| Canonical lineage, semantic regimes, migration (`lineage*.py`, `migration*.py`) | objects with lineage heads, regimes, bindings of authorizations | record, transition, migrate, recheck | dispatch, snapshot | an authorization outlives the head or regime it was granted under | nothing that a migration withdrew, or whose basis changed, is dispatched | `DispatchLineage` |
| Authority lineage (`authority_lineage_*.py`) | closure of the objects an authority rests on | bind, close, replay | lineage, dispatch | closure order during replay | as above | in `DispatchLineage`, `ProofAuthority`, `PolicyAuthority` |
| Proof inputs, dependencies and proof-carrying authority (`proof_*.py`) | envelopes, manifests, invalidity causes, bindings | register, capture, evaluate, authorize, dispatch, replay | barrier, dispatch | an input changes there and back between capture and use | no dispatch on a proof whose inputs moved | `ProofAuthority` |
| Semantic closure barrier, query domains, support (`semantic_barrier.py`, `query_domain.py`, `support.py`) | sources, generations, query domains, support nodes and clauses | register, mutate, invalidate, search | proof layer | base changed between read and use; circular support | support is well founded and current | `ProofAuthority` |
| Plan seals and selection (`seals.py`, `seal_lifecycle.py`, `selection.py`) | contexts, sufficiency certificates, seals, selections | compose, issue, invalidate, select | policy layer | a seal is revoked after it was named | no authorization under a revoked seal | `PolicyCertificates`, `PolicyAuthority` |
| Contingent policies (`policy*.py`) | partitions, nodes, branches, certificates, assessments | validate, assess, register, authorize, dispatch, replay | seals, lineage, dispatch | two situations that cannot be told apart call for different actions; a bundle of artifacts of different times | non-anticipativity, timeliness, no double booking, totality; one bundle, one snapshot | `PolicyCertificates`, `PolicyExecution`, `PolicyAuthority` |
| Reaction schedulability (`schedulability*.py`, `control_plane.py`) | jobs, resources, certificates | register, evaluate, certify, authorize | policy layer | boundaries of windows, capacity | an accepted set has a schedule | `ReactionSchedulability` |
| Handoffs and planning budget (`handoff_*.py`, `budget.py`) | ranks, policies, contracts, assessments | evaluate, assess, allocate | schedulability layer | loops of handoffs; an edge that drifts; protected reactions | a loop ends; an edge that is crossed holds; the reactions' share is kept | `SafeHandoff` |
| Option independence, future resurrection, global exclusion (`option_independence.py`, `future_resurrection.py`, `global_exclusion.py`) | certificates | single assessments | | none of their own | | not modelled |
| Archival compaction (`compaction.py`, `compaction_runtime.py`) | archive, manifests | compact, reconstruct | journal | the encoding of an archive | the archive reconstructs the semantics | not modelled |
| Planning data (`mission.py`, `actions.py`, `future.py`, `pruning.py`, `recovery.py`, `relocation.py`, ...) | records | add, revise, prune, quarantine | kernel | little of its own | | as it changes what a bundle rests on: `PolicyAuthority` |
| Helpers and entry points (`hashing.py`, `types.py`, `cli.py`, ...) | none | | | | | not modelled |
| Conformance tooling (`conformance.py`, `wave*_*.py` but for `wave9_snapshot.py`) | none | drives the above | | | | not modelled |

The hazards, each at the line where it bites, are listed in `PROJECT.json`; those
without a property yet say why.

## 2. The modules and the code

```
ProductionStore ──EXTENDS── MultiWriter ──refines── CorrectnessRegistry
        │                        └── MCMultiWriter, MultiWriterProofs
        ├────────── KernelAuthority ── MCKernelAuthority, KernelAuthorityProofs
        └────────── DestructiveCompaction ── MCDestructiveCompaction, DestructiveCompactionProofs
ActionTransactions ── MCActionTransactions, ActionTransactionsProofs
DispatchLineage ── MCDispatchLineage, DispatchLineageProofs
TrustLedger ── MCTrustLedger, TrustLedgerProofs
ProofAuthority ── MCProofAuthority
PolicyCertificates ──EXTENDS── PolicyExecution ── MCPolicyExecution, PolicyExecutionProofs
        └───────────────────── PolicyAuthority ── MCPolicyAuthority, PolicyAuthorityProofs
ReactionSchedulability ── MCReactionSchedulability
SafeHandoff ── MCSafeHandoff
```

The layers over the kernel meet at `authorize` and `dispatch`, where each refuses
on its own ground. A module models those two operations with the tests of its own
layer and leaves the tests of the others out: it lets more through than the code,
and what is shown of every step it lets through is shown of the code's. What may change between
authorization and dispatch is in each module what its own layer rests on.

Conventions shared by all modules. A digest stands for the value it is taken of,
so digest comparison is equality of records. An operation that raises before it
changed anything is not an action. A definition whose comment begins "A fault
of the step (test, update, ...) below" is not part of any specification: it is
the step with a plausible bug in it, used to show that a property can fail.

### ProductionStore

State: `epoch`, `revision`, `payload`, with `granted` and `receipts` as history
(every epoch and every receipt ever issued). `AcquireEpoch(w, expected)` is
`acquire_epoch`; `ConditionalCommit(e, expected, p)` is `conditional_commit`,
whose guard `WriteAllowed` is the comparison of epoch and revision. Both are one
step because both hold the store's lock. Modules that extend it say what the payload is.

### MultiWriter and CorrectnessRegistry

`commit` is modelled as its store calls, in order: `BeginCommit` (the lease
check), `CheckRevision`, `ReadPayload` (the decision taken from the copy),
then `StorePayload`, `StoreConflict` or `AnswerFromCopy`. Calls belong to threads:
any number of them may present the lease of one process, because nothing in
`WriterLease` prevents it. `Crash(w)` takes a process's lease and calls with it.
`decisions` and `refused` are history: what callers were told. `Raises` names
the two ways a commit ends in `ValueError` after it read the payload.

`CorrectnessRegistry` has no revisions, indexes, copies or steps: committed
intents, recorded conflicts, the holder of the latest grant, and the answers
given. `ImplementsRegistry` maps the envelope onto it; a commit's steps stutter,
except the write and the answer given from a copy.

### KernelAuthority

Several kernels, each with memory, an operation in progress and files. An
operation is the store call, then `Journal` or `JournalFails`, then `Accept` or a
refusal by `Acceptable`, the same test that the reducers apply. `durable` is what the
files of each kernel replay to: `Replayed` applies the reducer to each entry that is appended, and
yields `Unreadable` when it refuses. `CheckBinding` and
`ExecuteAdapter` are `dispatch_epoch_bound`. `Crash` and `Reopen` may come at any step.

### ActionTransactions

The ledger with the kernel operations that move it. `stack` is the nesting of
dispatches through adapter callbacks; `committing` is the transaction between
its recorded outcome and its committed patch, where a crash leaves a gap.
`durable` is what `open` would restore: every operation's journal entry is applied
with the reducer (`Reduce`), which is stricter than the live ledger in places and
then makes the files unreadable. `inFlight` and `performed` are the world: an
effect may happen any time after its dispatch was recorded (`Perform`), after an
exception or a crash as well, until evidence excludes it. Adapters and evidence
do not lie; the code can only rely on that.

### DestructiveCompaction

Callers run the five operations of a coordinator on the shared store; the
callers that are kernels observe what they did. An operation is the read of the
snapshot (`Prepare`, `WriteShadow`, `CommitSwitch`, `RetireSource`, `Verify`, each
with the guard `Recoverable`, which is `_recover_payload`), then `Commit` or
`Refusal`; a kernel then takes the pointer (`ReadPointer`), the revision
(`ReadRevision`) and the representations, and journals the observation (`Record`),
unless the append fails (`JournalFails`). `Refused` is what `_accept_observation`
raises at, live and in replay. An operation that finds its phase already durable
goes on to the observation without looking at its epoch, as in the code.

### DispatchLineage

State: `kernel` (what the objects say, the current revision of each, the regimes,
the authorizations with what they are bound to, the transactions, the recheck set,
the applied manifests), `executing` (the authorization whose adapter runs),
`journal` (the entries) and `durable` (what the snapshot and the entries after it
have replayed to). Contents are numbers; a revision is the sequence it was
created at and what it is of, which is what `_new_revision_id` hashes.

One action per operation: `ReviseMission`, `DefineObject` (a proposed action, a grant,
or a proof source, written again), `ReviseSemanticRegime`, `ApplySemanticMigration`,
`ReportModelClassAnomaly`, `Authorize`, `AuthorizeProofCarrying`, `Dispatch`, its two
returns, `ReconcileAction`, `CancelAuthorizedAction`, `SaveSnapshot`. An operation either
completes, or a crash cuts its entries short (`CutShort`). Entries are replayed by the
reducers (`Reduce`), one operator for each kind that needs one. A replayed commit is
registered late: `pending` holds its sequence until another entry, or the end of the
journal, flushes it (`Flush`), and some entries move that sequence on (`MovePending`).

`ActionTransactions` is about what is done in the world; here the adapter's effect is left out and
the question is on what basis it may be started.

### TrustLedger

The kernel is one record, `memory`, at first one in which some principals are bound
and some items published (`EarlyKernel`); `durable` is what `open` would restore from
the snapshot and the entries so far, kept step by step by the reducers (`Reduce`).
`Perform(m, entries)` appends the entries of an operation and `Torn` is the crash
between two of them. Identities are `BindPrincipal` and
`RevokePrincipalAttestation`; knowledge is `SetAccess`, `PublishInformation`,
`TransferInformation` (send, deliver, observe: one call, up to three receipts, a
refusal at any stage leaves the earlier ones), `ObserveInformation` (the host's word that a
principal has observed an item: no receipt, no identity asked for) and the two ways to compile a
capsule; action is `Authorize`, `AuthorizeStrong`, `DispatchStrong`, `AttestOnly` and
`ReconcileStrong`. A generation is compared with the captured one and nothing else, so a
capsule keeps the domains of its stamp and becomes stale at the first bump of one (`Bump`).
Times are those of the host's clock, and no operation is given a later one.

### ProofAuthority

`memory` and `durable` as above. The barrier registers, changes and invalidates
sources, with the query domains and proofs that each change reaches; a manifest is captured from
what the kernel holds, and may name a source that is not registered yet; `CurrentUsable` is the evaluation of a proof: its envelope, its
manifest against the current sources, domains and queries, its support, and the
causes set against it. `Supported` is the search of `support.py`, with its path and
its memo. `AuthorizeProofCarrying` binds the closure, `Dispatch` compares it; an
authorization keeps a flag that the first change of a lineage it is bound to sets,
since a revision never comes back. The registration of a source leaves the proofs that named it early
(`NamedEarly`) as they were, and its replay refreshes them (`After` and `AfterReplayed`).

### PolicyCertificates, PolicyExecution and PolicyAuthority

`PolicyCertificates` has no state: it is the evaluators, one operator for each
(`Violations`, `CoherenceBlockers`, `RecallLevel`, `TotalityMode`, `ReactionClass`,
`Aggregate`, `SupportsHorizon`, `CompositionStatus`, `Sealable`, `SelectionStatus`, ...,
`Executability`), with what their constructors refuse (`...Creatable`).

`PolicyExecution` runs one step of a policy that `Executability` lets through, in
every world its certificates allow: the history, the reveals, the latency of each
stage, the branches taken and the outcome are the world's choice. The evaluator takes
its inputs as arguments; that the host passes what the certificates say is an
assumption, and is the definition `Inputs`. Commitments are compared as sets (`PreConflict`,
`PostConflict`), so two identical ones of one branch count as one. This is the
specification that the certificates are to be judged by, and it is not in the code.

`PolicyAuthority` is the kernel's eight registries of policy artifacts, with what each
registration checks (`Registrable`), the changes of the world around them, the check
of the bundle (`BundleFits`), its binding, the test at dispatch, and the
replay and snapshot of all of it. For the properties an artifact keeps the world it was registered
in; no guard reads it. An assessment may name a partition that is not registered, as in the code: its entry
is one that the replay refuses, and `durable` is then `Unreadable` until a snapshot is saved, if one can be restored.

### ReactionSchedulability

Jobs and resources, registered and replaced, the demand test (`Overloads` of a cohort:
service wanted against service available between its earliest release and latest
end, units against the concurrency cap), the cohorts that no exclusion rules out, the
level that the analysis reaches, the certificate, which may be registered after what it was
evaluated on has changed, and the authorization that rests on it. `Feasible` is the
reference: a schedule, found by trying all assignments of units of service to demands.

### SafeHandoff

The kernel keeps two registries that matter here: the liveness certificates (`certificates`; of each only its
status is ever looked at) and the assessments of the edge (`assessed`). `EvaluateLiveness` has a handoff evaluated
(`Status`) with the rank, the counters and the time that the host passes in, and registers the certificate;
`AssessEdge` does the same for the edge (`EdgeStatus`). `HandOff` is what `_require_wave6_bundle` grants: any
registered certificate that supports a handoff, and, if the host names the edge, any registered assessment that supports it.
`Drift`, `Refresh` and `Tick` come in between at any time, by other writers and by the host. `Next` is what the kernel accepts of
any host. `CarefulNext` restricts the handoffs to `CarefulHandOff`: a host that uses for each handoff the certificate it had
evaluated for it, once. `Allocate` is the planning budget governor.

## 3. The checks

One run asks for liveness (`safe_handoff`). Everywhere else no fairness is
assumed: the code has no scheduler, retry loop or background thread of its own in
those parts, so nothing in it would justify fairness, and a system that stops is
allowed by every specification. `CHECK_DEADLOCK FALSE` is set where the bounds, a
step that ends, or a kernel whose files cannot be opened, really end a behaviour.

**Fairness in `safe_handoff`.** `handoff_liveness.py` exists to refuse a loop that
never makes anything executable, and says nothing of a host that simply stops.
`CarefulSpec` assumes weak fairness of the host's own steps: it has handoffs
evaluated, it hands off or gives up after a refusal, and it executes what is ready. Nothing is
assumed of the clock, of other writers, of the ranks proposed or of refreshes.
`CarefulSpec` also assumes a careful host, and the code does not make it be one: the kernel takes any registered certificate that
supports a handoff, made for whichever handoff, whenever, and used however often (`CertificateReuse.cfg`
below). With a host that reuses a certificate the loop need not end. With a careful one, whether it
ends depends on the certificates alone: without their limits it would go on for ever, which
is the mutant of `LoopEnds`.

### Runs that pass

| run | instance | what it shows |
|---|---|---|
| `multiwriter` | two processes, two threads, two epochs, three writes, six intents (an exclusive effect, a repeatable one, three under one key of which one differs in meaning, one that reuses the key in another scope) | types (`TypeOK`); writes under an epoch form one slice of the revisions (`EpochsSliceRevisions`); whenever the store would accept a write its copy is the payload it replaces (`FreshCopyWhenWriteAllowed`); exclusive effects stay alone (`ExclusiveNonIdempotent`); one intent per key (`OneIntentPerKey`); what a caller was told stays true (`DurableDecisions`); the coordinator implements the registry (`ImplementsRegistry`) |
| `kernel_authority` | two kernels, two writers of two principals, three epochs, one authorization | opening the files gives the memory or is refused (`ReplayMatchesMemory`); one kernel at most knows the current epoch (`SoleAuthority`) |
| `action_transactions` | three transactions, a repeatable and a non-repeatable action, nesting two deep | a transaction's effect happens at most once (`AtMostOnce`); what the ledger says was done was done, what it excludes was not (`LedgerTruthful`); the version counts the commits (`VersionCountsCommits`); replay rebuilds ledger and version or refuses (`ReplayAgrees`); final states are final (`TerminalStatesLast`) |
| `destructive_compaction` | a kernel and another caller, two compactions over three representations, five ways in which the second competes with or follows the first, two epochs, six commits | no commit changes or removes the authoritative content (`AuthorityKept`); switches form a chain that ends at the pointer (`SwitchesChain`); a compaction can be resumed after a crash unless another overtook it (`RecoverableUnlessOvertaken`); a restart that succeeds restores its observations (`ReplayAgrees`) |
| `dispatch_lineage` | two authorizations of one action by one grant, one proof source, one migration, one regime besides the schema; six entries, at most two of them changes by the host | the lineage is never behind the state it stands for (`CurrentLineage`); wherever the process dies, `open` succeeds and the same authorizations can be dispatched (`RestartKeepsAuthority`); a dispatch happens only if nothing in the journal since the authorization changed its basis (`DispatchOnUnchangedBasis`); what is stale stays stale (`StaleForever`) |
| `trust_ledger` | two principals, three attestations of which two succeed one another, one item, one transfer, one capsule, one authorization; behaviours about knowledge and behaviours about dispatch | a restart that succeeds restores the ledgers (`ReplayAgrees`); a capsule that is not stale still says what its principal's access, its partition and the canonical version are (`FreshCapsulesAreAccurate`); what a principal comes to know was sent, delivered and only then observed, each by somebody with an identity by that time, or the host said so of a registered principal and a published item, which moves no receipt (`KnowledgeIsGrounded`) |
| `proof_authority` | the life of one proof over two sources and one query; its inputs under every envelope; and the support of a proof over every graph of three nodes | a restart restores everything but the lineage of a proof that named a source before it was registered (`ReplayAgrees`); a proof is supported exactly when it is in the least fixed point of support, circles excluded (`SupportIsGrounded`); an authorization is issued on inputs nobody touched since the capture, there and back included (`IssuedOnUntouchedInputs`); it is dispatched only while what its proof names is as it was (`DispatchOnUnchangedProof`) |
| `policy_execution` | one good policy and all its variations in one respect (information, recall, time, commitments, outcomes, proofs, edges, preparedness, the rest) | an executable policy never acts on what its principal cannot yet tell (`NoAnticipation`); a guaranteed reaction is in time at every stage (`GuaranteedInTime`); branches that may happen together never hold one exclusive resource (`NeverDoubleBooked`); every supported outcome is handled (`NeverStranded`) |
| `policy_authority` | a complete bundle, or one registry filled with whatever the host may offer, or a bundle built from nothing, while the world changes | a restart restores everything, or, once an assessment named a partition that was not registered, is refused (`ReplayAgrees`); what an authorization names was registered in the world it is issued in (`IssuedOnOneSnapshot`); it is dispatched only on the bundle it was issued on (`DispatchOnUnchangedBundle`) |
| `reaction_schedulability` | two jobs of three contents each, a writer and a quota of two contents each, three registrations and one change, two analysis modes | what an authorization rests on has a schedule, if its jobs are released at a known time and load each resource once (`AuthorizedIsFeasible`) |
| `safe_handoff` | seven ranks of which two trade progress in one dimension for another, one domain that drifts, three handoffs, one stutter of each kind, a careful host | the reactions' share of the budget is kept and nothing that fits is left out (`BudgetKept`); the loop ends (`LoopEnds`) |

A type invariant is checked in `multiwriter` only, and proved in every module that has a
proof module. The other runs' properties are those of the hazards.

### The run that finds a disagreement

`seal_revocation` (`LiveSealOnly`): "unsealed/stale seal cannot support
consequential authorization" (`src/docs/superpowers/specs/2026-08-30-wave5-executable-policy-closure-design.md:157`).
Invalidating a seal makes a new revision and leaves the old one registered. An
authorization that names the old revision is issued, since the bundle check looks
at the revision named (`policy_runtime.py:313`), and can be dispatched, since the closure is bound to the lineage of the newest.

### Four configurations that TLC refutes

Beside the runs of `PROJECT.json` there are four configurations to run by hand, each with one invariant that a document
states. TLC finds each violated, within a minute (`tlc -config PolicyReplay.cfg MCPolicyAuthority`, and so on).

* `PolicyReplay.cfg` of `MCPolicyAuthority` (`NothingRefused`): "Replay must preserve [...] the same executability assessment on the same
  journal/receipts" (the Wave 5 design, lines 130-137). An assessment whose node is registered and whose
  partition is not is accepted (`policy_runtime.py:203`); its replay and its restoration from a snapshot
  ask for both (`policy_recovery.py:254`, `150`), and the kernel cannot be opened again.
* `EdgeActivation.cfg` of `MCSafeHandoff` (`ActivationCurrent`): at child activation every mutable entry predicate is still protected by a
  current contract, or "explicitly refreshed against current canonical state under the kernel writer lock"
  (`src/docs/superpowers/specs/2026-08-30-wave6-schedulability-liveness-closure-design.md:334-337`).
  `schedulability_runtime.py:199` looks a registered assessment up; what the edge rests on may have changed since it was made.
* `CertificateReuse.cfg` of `MCSafeHandoff` (`HandoffBudgets`): "`BOUNDED_STUTTER` [...] consumes finite ordinary stutter
  allowance" (the same design, line 301; line 444 asks for a *current* certificate). The counters are
  arguments of the evaluator, and a registered certificate (`schedulability_runtime.py:190`) supports any handoff, any number of times.
* `ProofResurrection.cfg` of `MCProofAuthority` (`NoResurrection`): "Stale proof authority cannot resurrect across restart"
  (`src/CHANGELOG.md:102`). A manifest names a source that is not registered yet. Its registration refreshes the proof in
  the replay (`authority_lineage_runtime.py:739-742`) and not live (`:908`). The next refresh moves
  the lineage in the running kernel, which then refuses an authorization issued in between; a kernel that opens the same files does not.

### Other sentences the code does not keep

The models contain the behaviour of each; none has a configuration of its own. The third to the eighth
were replayed against the Python code.

* A reused key with other semantics is an explicit conflict
  (`src/tests/test_wave9_multiwriter.py:117`): in another scope `WriteConflict.create`
  raises and nothing is recorded.
* "Authority checks exact dependency revisions/generations at use time" (Wave 4 design, line 15): dispatch compares
  the sources that a proof names exactly, and not the generations of its dependency domains
  (`authority_lineage_runtime.py:578`), which authorization does.
* Epoch reconstruction after restart is deterministic (Wave 9 design, lines 285 and
  287): the authority goes from kernel A to B and back; A journals an epoch that does
  not follow its last one, refuses it in memory (`multiwriter_runtime.py:346`), and can never be opened again.
* An unknown outcome blocks a retry of a non-idempotent effect (Wave 9 design, line
  255): of two authorizations granted before either is dispatched, the second is
  dispatched while the first one's outcome is unknown (`kernel.py:301`).
* A cancellation pending survives until evidence-bound reconciliation
  (`src/docs/SPEC-COVERAGE.md:167`): reconciling it with evidence is accepted live and
  refused by the replay (`trust_recovery.py:313`).
* A later retry reconciles an observation (`destructive_compaction_runtime.py:237`):
  one of one phase takes the revision of the next, which another caller committed in
  between; the retry journals an observation that it and every replay refuse.
* A migration is rejected while an external action is ambiguous or in flight (Wave 7
  design, line 175): `CANCELLATION_PENDING` does not block it (`migration_runtime.py:99`).
* An exact historical revision remains queryable after restart (Wave 7 design, line
  279): a `recovery.model_class_uncertain` entry after a commit moves the revision of
  the replayed commit to its own sequence, so its id differs (`lineage_recovery.py:488`).
* The trust state survives a restart (`src/docs/SPEC-COVERAGE.md:108`): a capsule bound to
  an identity writes `capsule.identity_bound` (`trust_runtime.py:235`), for which no reducer exists, and the journal
  cannot be opened. This is why `ReplayAgrees` of `TrustLedger` allows `Unreadable`.

* Progress is "lexicographic over policy-declared dimensions" (Wave 6 design, line 263): ranks may trade
  one dimension for another (`handoff_liveness.py:226-257`), a regression of debt or workload excepted, and only the limits on
  handoffs, deferral and stutters end a loop. `LoopEnds` holds by these.
* The demand test is made for "every candidate interval endpoint induced by co-reachable jobs" (Wave 6 design,
  lines 180-192): the code uses one window per cohort, from the earliest release to the latest
  end. Jobs released within an interval, or loading one resource twice, may pass it without a
  schedule. `AuthorizedIsFeasible` is therefore about jobs released at a known time that load each resource once.

### Bounds

* `MaxEpoch`, `MaxRevision` cap epochs and commits in the guards of the store. Two
  epochs make one superseded writer; three let the authority go and come back,
  which is what the journal's gap needs. Three writes let a commit, a competing one
  and a conflict on record follow each other. Six commits are two compactions
  switched one after the other; a compaction that is completed takes five.
* `MaxDepth = 2`: a dispatch inside a dispatch. A deeper one meets the same ledger
  and the same guards; the proofs hold for any depth.
* Three transactions: two that compete and one issued after either is settled.
* `MaxLog = 6`, `MaxChanges = 2` (`DispatchLineage`): an authorization takes one entry or two, its
  dispatch and commit three to five, and two changes are enough to change something and
  change it back. Changes beyond two and journals beyond six entries repeat
  these steps; revisions are compared, never counted.
* `Limits` (`TrustLedger`, `ProofAuthority`, `PolicyAuthority`): a set of members of which
  a behaviour keeps to one. Each gives the journal that was there before (in `PolicyAuthority`, the
  entries that a behaviour writes first, from a kernel with nothing registered), and what
  happens from then on, so that an instance is about one thing at a time: knowledge or dispatch, the life of a proof, its inputs
  or the shape of its support, one registry with free contents or all of them with contents that fit. In `PolicyAuthority`: `last`, the
  length of the journal (three entries for an authorization and one or two besides); `churn`, how far the
  plan and its generation move (there and past it); `revisions`, of one registry (two: a
  current and a superseded one); `families`, which registries grow; `free`, for which of them the host
  offers more than what fits. `PolicyReplay.cfg` has the one member in which
  a partition that is not registered may be named, which `policy_authority` has as well.
* `MaxTime`, `MaxVersion`, `MaxSequence` and `MaxRevision` elsewhere cap clocks and counters at the
  first value at which every comparison has both outcomes.
* `ReactionSchedulability`: four units of time and contracts chosen at the boundaries (a
  window that another job leaves free, one that the deadline cuts short, a rate
  that grants its capacity per window). `MaxExactJobs` equals the number of jobs: beyond it the code gives no strong
  level, so larger sets add nothing to what is relied on.
* `SafeHandoff`: the limits of the policy are as small as allows two different
  handoffs and a stutter; the ranks contain a cycle. One domain drifts in `safe_handoff`, whose properties do not depend on
  the edge; two in the configurations for any host.
* `PolicyExecution`: a policy differs from the good one in one respect, because the properties each concern
  one evaluator and `Executability` is a conjunction over them.
* The journal and the number of crashes are otherwise not bounded: a snapshot absorbs the
  suffix, and a crash returns to states already seen.
* Symmetry is used for the threads, the transactions and the authorizations, whose identities no
  operator distinguishes, and in no run with a liveness property.

### Mutants

Every property of a passing run has a mutant in `PROJECT.json`: a definition
replaced by its "fault" variant, under which TLC finds the property violated.

## 4. The proofs

Eight proof modules prove every property of eight of the runs, for all constants that satisfy the
assumptions the modules name: `StoreAssumption`, `IntentAssumption`, `KernelAssumption` (of
`KernelAuthority`, and another of `PolicyAuthority`), `CompactionAssumption` and
`NoRecordAssumption`, `ActionAssumption`, `LineageAssumption`, `TrustAssumption`, `PoliciesTyped`,
`PolicyAssumption` and `LimitsAssumption`.
They give the constants their types, say what the host may pass, and that a mark such as
`Unreadable` is none of the values it stands beside;
TLC evaluates each of them on its run's instance. A type invariant is proved for every one of these
modules. The three about the shared store each begin with the lemmas on its two operations.

| proof module | what it proves of the specification |
|---|---|
| `MultiWriterProofs` | `TypeOK`, `EpochsSliceRevisions`, `FreshCopyWhenWriteAllowed`, `ExclusiveNonIdempotent`, `OneIntentPerKey`, `DurableDecisions`, and the refinement `ImplementsRegistry` |
| `KernelAuthorityProofs` | `ReplayMatchesMemory`, `SoleAuthority` |
| `DestructiveCompactionProofs` | `SwitchesChain`, `RecoverableUnlessOvertaken`, `AuthorityKept` (of every step), `ReplayAgrees` |
| `ActionTransactionsProofs` | `AtMostOnce`, `LedgerTruthful`, `VersionCountsCommits`, `ReplayAgrees`, `TerminalStatesLast` (of every step) |
| `DispatchLineageProofs` | `CurrentLineage`, `RestartKeepsAuthority`, `StaleForever` and `DispatchOnUnchangedBasis` (of every step) |
| `TrustLedgerProofs` | `ReplayAgrees`, `FreshCapsulesAreAccurate`, `KnowledgeIsGrounded` (of every step) |
| `PolicyExecutionProofs` | `NoAnticipation`, `GuaranteedInTime`, `NeverDoubleBooked`, `NeverStranded` |
| `PolicyAuthorityProofs` | `ReplayAgrees`, `IssuedOnOneSnapshot`, `DispatchOnUnchangedBundle` (of every step), and that nothing is taken back (`NothingTakenBack`, of every step; no run checks it) |

**Coordinator.** The properties are not inductive by themselves. `IInv` adds:

* `StoreInv`: everything granted or written lies at or below the current epoch and
  revision, and the epoch now held is one of those granted. `EpochsSliceRevisions`
  is inductive with it.
* `IndexesSound`: index entries and heads point at committed intents of that key or
  scope, every keyed intent is in the index, and a committed non-idempotent intent is
  the head of its scope. A challenger is compared with one index entry and one head,
  and this is why it is enough; `Exclusion` and `OneIntentPerKey` follow.
* `CallsSound`: past the revision check, a call's expected revision is not ahead of the
  store's; at the write, if it *is* the store's, the copy is the payload; at an answer,
  the copy's commits and conflicts are still in the payload. Without the early check the
  first part is false, and with it `FreshCopyWhenWriteAllowed`.
* `LeasesSound`: a lease carries the identity of its holder.
* `DurableDecisions`, which is inductive because commits and conflicts only grow.

The refinement is then step by step: the write maps to `Commit` or `Refuse`, the answer
from a copy to `Converge` or `Report` (the copy may be old, but commits and
conflicts are never removed), an acquisition to `Grant`, the rest stutter.

**Action transactions.** `IInv` is `TypeOK`, `ReplayAgrees`, `LedgerTruthful`,
`VersionCountsCommits`, with `EffectsSpent` (an effect was performed at most once, and not yet while it is
in flight) and `CommitsWhatHappened` (the transaction about to be
committed is one whose outcome is applied). `AtMostOnce` follows from `EffectsSpent`;
`TerminalStatesLast` is an action property shown from the guards under `IInv`.

**Kernel authority.** `TypeInv` adds to the types that a kernel which is up has a
memory and that readable files hold one. `ReplayMatchesMemory` is not inductive: between the
append and the acceptance the files are an entry ahead. `FilesFollowMemory` says by
how much: they read as the memory, or as the memory with the pending entry replayed, or not at all.
For `SoleAuthority`, `Reach(k)` is every epoch that kernel k knows of or could come to
know without asking the store: in its memory, in its files, or acquired and not yet
accepted. `KnowledgeApart` says that only granted epochs are within reach and none is within the reach of two
kernels; the epoch that the store grants next is within nobody's.

**Destructive compaction.** `PayloadInv` is `SwitchesChain` and
`RecoverableUnlessOvertaken` with what they rest on: the representation at the pointer is there
(`PointerPresent`) and switches were made at revisions that have passed (`SwitchesPast`).
It is about the store alone, and kept because of `CallsFresh`: a copy that a caller is about to
commit, if the store would still take it, is the next phase of exactly the payload that it replaces (`NextPhase`).
So the interleaving is dealt with once, and the five phases one after the other.
`AuthorityKept` follows for each commit; `ReplayAgrees` is inductive with the types.

**Dispatch lineage.** The comparison of revisions is an argument about their sequences.
`Dated`: a revision is of what its object says and no later than the journal is long.
`BoundBefore`: an authorization is bound to revisions that there have been; the next one is therefore
different from all of them, and what went stale can never match again, which is `StaleForever`.
`Recorded`: whatever the journal tells of, since an authorization's entry, that this authorization rests on,
has left it stale, which gives `DispatchOnUnchangedBasis`. A commit that is replayed is registered late, with another sequence
than in the kernel that wrote it, so that what is restored is not equal to the memory;
`Same` says what is: contents, regimes, transactions, and which bindings are up to date, so that `RestartKeepsAuthority` is
proved and equality is not. `IInv` is the types, and that memory and files are each `Sound` in this sense and the `Same`
once a pending commit is flushed. A live operation leaves what the replay of its entries into the memory leaves,
so one lemma on the replay of an entry serves the memory, the files and every crash in between.

**Trust ledger.** `IInv` is `TypeOK`, `ReplayAgrees` and that the memory is `Sound`: of every capsule, that it is
stamped with all the domains it depends on and, while it is usable, is what would be compiled now for the same time
(`Accurate`). An operation is the list of
the kernels it goes through, one after each of its up to four entries; for each operation there is a lemma that
the reducer of an entry takes a kernel of this list to the next or refuses (`Agree`), and one
lemma for all of them concludes that a completed or torn operation leaves one of these kernels, in memory and files alike
(`OperationEnds`). Each kernel of the list is sound, the intermediate ones included, because what a
capsule is compiled from changes only along with a bump of a domain of its stamp (`BumpSound` and the `...Sound` lemmas after it); this
is `FreshCapsulesAreAccurate`. Only the last kernel of a transfer, and the host's word in `ObserveInformation`, change what anybody
has seen, which gives `KnowledgeIsGrounded`. That the files may be unreadable is the code's doing, not the model's: the
second entry of a strong capsule has no reducer.

**Policy execution.** Two halves meet: what the evaluators say of an executable policy (`Assessment`, opened
certificate by certificate), and what the world has done so far: a step is begun only under such a policy (`StartedInv`), what was
revealed by the time of the decision has been seen (`SeenInv`), every stage has ended by the sum of the upper
bounds up to it (`ClockInv`), what is held is what the branches taken need (`HeldInv`), what happened is covered (`OutcomeInv`).
`GuaranteedInTime` compares the sums with the latest safe time, at every stage and not only the last.
`PoliciesTyped` says that the policies are records that the constructors let through, no more.

**Policy authority.** `IInv` is that the memory is `Sound` and, while the files can be opened, that they agree with the
memory and that every assessment is `Placed`: its partition is registered. `Sound` says
of every artifact what it owes to the moment it was registered: it names what was there already, it carries
what the world was then, and that world is `NoLater` than those of the artifacts that came after it
and than the world now. `Extends` says what any step may do: registries only grow, the world only goes
on, and mission, canonical state and regime never without the plan (nor these or an access without the plan's
generation). So what is sound stays so (`SoundStays`), and an operation has to answer for what it adds only.

`IssuedOnOneSnapshot` is then a sandwich. The epoch is compared with the world as it is, but names only
the mission, the plan, the location, the actions and one access. The plan has not moved since, so canonical
state and regime are those of now as well (`EpochOfWorld`). The node, the certificate, the seal and the
assessment are compared with each other, and with a part of the world at most. They were registered between the epoch and now,
in worlds `NoLater` than one and no earlier than the other, so they are of the same world too
(`Sandwiched`, `BundleOfWorld`).
`DispatchOnUnchangedBundle` rests on `AuthorizationSound`: a closure holds the length of each registry at
issue and no registry shrinks; the lineage of the epoch holds the world at issue.

`ReplayAgrees` goes entry by entry, as in the trust ledger: each entry, replayed into the kernel
before it, gives the kernel after it, one that the code passes through (`EntryReplayed`), so that a crash after any number of
entries leaves a kernel that is sound again. The one entry that a replay refuses is that of an assessment whose partition is
not registered (`NamedEarly`): it leaves the files unreadable, and what follows it leaves them so (`UnreadableStays`) until a
snapshot is saved, by which time the partition may have been registered. `ReplayAgrees` says this of every step.

**Only model-checked.** `LoopEnds` rests on fairness. `BudgetKept` is about a fold over the allocations, and
`AuthorizedIsFeasible` about a schedule that a recursive function searches for: each takes induction over data. `ProofAuthority`
computes the support of a proof, and the fixed point it is compared with, by recursive operators, out of
the reach of tlapm in the whole module.

## 5. What is not modelled, and why

* **Archival compaction, codecs, digests**: compared, never computed. That an archive
  reconstructs what it was made from is a property of an encoding.
* **Option independence, future resurrection, global exclusion, completion reports,
  futures, pruning, recovery modes, the compiler**: single assessments or records that
  no modelled operation reads back.
* **Contract revisions and compensation records**: an authorization without a
  contract is dispatched as though there were none; the acknowledgement of a remote cancellation is modelled.
* **The closures over schedulability and liveness certificates**, and the registries'
  recovery: their form is that of the policy closures in `PolicyAuthority`.
* **Supersession of a selection**: the result keeps the record id, and can never be registered.
* **Torn or tampered files.** Appends and snapshot replacements are atomic in the
  models. The reader refuses a torn last line, and no recovery from it exists.
* **Appends that raise in the kernel's own operations** (memory changed, journal not).
  They are modelled where the append comes first (`KernelAuthority`,
  `DestructiveCompaction`), not where it comes last.
* **Lease expiry by a local clock**: it only makes a commit raise before it begins.
* **Command line, hashing, encodings, conformance tooling.**

Noticed while modelling, with no property of their own. The models do what the code does in each.

* *Compaction*: the representation at the pointer never changes, so a kernel
  whose archive has moved on cannot prepare another (`destructive_compaction.py:674-679`).
* *Transactions*: one whose outcome is recorded when the process dies before `canonical.committed`
  stays so, with no operation that commits its patch.
* *Trust*: plain `dispatch` ignores the identity binding. A receipt's validity and access condition
  are consulted by nothing. `revoke` overwrites an earlier time of revocation
  with a later one. A receipt left at `SENT` cannot be delivered later through the kernel. An information item that is
  published again makes the journal unreadable (`lineage_recovery.py:192`).
* *Proofs*: the live creation of a query domain refreshes no proof, while its replay does; so does the registration of a source
  (`ProofResurrection.cfg`). `set_proof_invalidity_causes` with keyword
  arguments raises after it changed memory and journal. `capture_complete` ignores the
  external-read policy. Registering a source in a domain that exists does not move the domain.
* *Policies*: the check for anticipation looks only at histories that have an action. A
  commitment before the reveal is not compared with one after it. A node's partition is
  not compared with its epoch's but for the reference. A crash between the entries
  of an authorization leaves it with its proof binding only, or with none. Dispatch looks at neither the epoch's temporal window
  nor the action space nor the plan snapshot. An information regime is bound and never compared.
  An epoch may be registered with a partition of an older canonical state, and is then refused at authorization.
* *Handoffs and schedules*: an edge is `STABLE` whatever drifted when no predicate is to be refreshed. A
  certificate's mission revision is checked, its jobs' is not.
  `semantic_continuation_digest` and `deadline_revision_is_grounded` are read by nothing. Revisions of liveness, stability and
  independence are bound and not compared at dispatch. The counters of handoffs and stutters are arguments of the evaluator; no registry keeps them.

## 6. Plan

1. **Proofs.** `ProofAuthority`: its closure and its binding apart from
   the search for support, which then stays alone in a module with recursive operators, so that
   `DispatchOnUnchangedProof` and `IssuedOnUntouchedInputs` can be proved as the policy's are.
2. **Journal failure**: appends that raise after the memory changed, as a variant of `ActionTransactions`.
3. **Execution contracts and compensation** beside `ActionTransactions`: a compensation
   belongs to one effect that happened, and a contract revised after the authorization.
4. **The remaining closures** (schedulability, liveness) in `PolicyAuthority`.
