--------------------------- MODULE DispatchLineage ---------------------------
(***************************************************************************)
(* What an authorization rests on, and what dispatch compares it with: the *)
(* revisions of the mission, the canonical state, the action, the grants   *)
(* and the proof sources, the semantic regimes, and the migrations that    *)
(* withdraw authority (lineage_runtime.py, migration_runtime.py,           *)
(* authority_lineage_runtime.py), with the reducers that rebuild all of it *)
(* from a snapshot and the journal after it (lineage_recovery.py).         *)
(*                                                                         *)
(* One kernel works under its writer lock.  An operation changes the       *)
(* memory and appends its entries; a crash may cut the entries short.      *)
(* While an adapter executes it may call the kernel back, so every         *)
(* operation but another dispatch is possible then.                        *)
(*                                                                         *)
(* Contents are numbers: versions, for the mission and the canonical       *)
(* state, which only advance; the others may return to what they were.  A  *)
(* revision is told apart by the sequence it was created at and by its     *)
(* content.  Sequences count the entries since the state the model starts  *)
(* with.                                                                   *)
(*                                                                         *)
(* Not here: the strategic location and the policy bindings that rest on   *)
(* it, the capture of proofs (a proof is of the sources as they are),      *)
(* principals, adapters, time and recovery modes in the tests of dispatch, *)
(* nested dispatches and reconciliation by evidence (ActionTransactions    *)
(* has these two), an append that raises.                                  *)
(***************************************************************************)
EXTENDS Naturals, Sequences, FiniteSets

CONSTANTS
  Auths, NoAuth,            \* authorizations, and the absence of one
  Mission, Canonical,       \* the objects of which there is one each
  Actions, Grants, Sources, \* the objects that the host registers
  Contents,                 \* what an action, a grant or a source may say
  Revoked,                  \* the content of a grant that is withdrawn
  Kinds, Schema,            \* the semantic regimes, the schema among them
  Manifests,                \* migration manifests, each with a target schema of its own
  NoBinding,                \* the binding of an authorization that has none
  Unreadable,               \* what a journal gives whose replay raises
  MaxLog,                   \* bound: how many entries the journal may have
  MaxChanges                \* bound: how many of them may be changes by the host

Registered == Actions \cup Grants \cup Sources
Objects == {Mission, Canonical} \cup Registered

Revisions == [seq : Nat, of : Nat]
Regimes == Nat \cup Manifests
Bindings == [revision : [Objects -> Revisions \cup {NoBinding}], regime : [Kinds -> Regimes]]
Proofs == [Sources -> Revisions]

Authorizations ==
  [action : Actions, grants : SUBSET Grants, mission : Nat, canonical : Nat,
   binding : Bindings \cup {NoBinding}, proof : Proofs \cup {NoBinding}]

States ==
  {"none", "authorized", "dispatch_recorded", "outcome_observed", "reconciliation_required",
   "reconciled_applied", "reconciled_not_applied", "committed", "cancelled_pre_dispatch",
   "cancellation_pending"}

Kernels ==
  [content : [Objects -> Nat], revision : [Objects -> Revisions], regime : [Kinds -> Regimes],
   auth : [Auths -> Authorizations], tx : [Auths -> States],
   recheck : SUBSET Auths, applied : SUBSET Manifests, pending : Nat]

ASSUME LineageAssumption ==
  /\ IsFiniteSet(Auths) /\ NoAuth \notin Auths
  /\ Contents \subseteq Nat /\ 1 \in Contents /\ Revoked # 1
  /\ Mission # Canonical /\ {Mission, Canonical} \cap Registered = {}
  /\ Actions \cap Grants = {} /\ Sources \cap (Actions \cup Grants) = {}
  /\ Schema \in Kinds
  /\ Manifests \cap Nat = {}
  /\ NoBinding \notin Bindings \cup Proofs /\ Unreadable \notin Kernels
  /\ MaxLog \in Nat /\ MaxChanges \in Nat

VARIABLES
  kernel,    \* the memory of the kernel
  executing, \* the authorization whose adapter executes, or NoAuth
  journal,   \* the entries of the journal
  durable    \* what the snapshot and the entries after it have replayed to

vars == <<kernel, executing, journal, durable>>

-----------------------------------------------------------------------------
\* The lineage that an authorization of action a by grants G rests on.
Basis(a, G) == {Mission, Canonical, a} \cup G

\* CanonicalLineageRevision: a revision is known by its content and its sequence.
Revision(n, content) == [seq |-> n, of |-> content]

\* A fault of the registration below: only the content identifies a revision.
UnsequencedRegister(k, os, n) ==
  [k EXCEPT !.revision = [o \in Objects |->
     IF o \in os THEN Revision(0, k.content[o]) ELSE k.revision[o]]]

\* _register_lineage: an object that says what its current revision says keeps
\* it.  That a sequence must advance needs no test here: n is the length that
\* the journal has reached.
Register(k, os, n) ==
  [k EXCEPT !.revision = [o \in Objects |->
     IF o \in os /\ k.revision[o].of # k.content[o]
       THEN Revision(n, k.content[o])
       ELSE k.revision[o]]]

\* An object says c from now on.
Define(k, o, c, n) == Register([k EXCEPT !.content[o] = c], {o}, n)

\* AuthorizationLineageBinding.create from the current revisions.
Binding(k, a, G) ==
  [revision |-> [o \in Objects |-> IF o \in Basis(a, G) THEN k.revision[o] ELSE NoBinding],
   regime |-> k.regime]

\* The source part of _augment_authority_closure.
ProofBinding(k) == [s \in Sources |-> k.revision[s]]

-----------------------------------------------------------------------------
(* The replay of one entry, the n-th of the journal, into the restored        *)
(* kernel.  Some reducers skip an entry that does not fit, others raise.      *)

Move(k, u, from, to) == IF k.tx[u] \in from THEN [k EXCEPT !.tx[u] = to] ELSE k
MoveOrRaise(k, u, from, to) ==
  IF k.tx[u] \in from THEN [k EXCEPT !.tx[u] = to] ELSE Unreadable

\* A fault of the flush below: the commit stays without a revision of its own.
ForgetfulFlush(k) == [k EXCEPT !.pending = 0]

\* _flush_pending_canonical
Flush(k) ==
  IF k.pending = 0 THEN k ELSE [Register(k, {Canonical}, k.pending) EXCEPT !.pending = 0]

\* An authorization as its entry tells it, bound to what is current now.
Issued(k, e) ==
  [action |-> e.action, grants |-> e.grants, mission |-> e.mission, canonical |-> e.canonical,
   binding |-> Binding(k, e.action, e.grants), proof |-> NoBinding]

\* A fault of the reducer below: the withdrawal is not replayed.
LenientMigrated(k, e) ==
  IF k.regime[Schema] # e.source THEN Unreadable
  ELSE [k EXCEPT !.regime[Schema] = e.manifest, !.applied = @ \cup {e.manifest}]

\* _replay_migration
ReplayMigrated(k, e) ==
  IF k.regime[Schema] # e.source THEN Unreadable
  ELSE [k EXCEPT !.regime[Schema] = e.manifest,
                 !.applied = @ \cup {e.manifest},
                 !.recheck = @ \cup e.withdrawn]

\* An entry that may still belong to the commit before it moves the commit's
\* sequence on.
MovePending(k, n) == IF k.pending = 0 THEN k ELSE [k EXCEPT !.pending = n]

ReplayRevised(k, e, n) ==
  IF e.version = k.content[Mission] + 1
    THEN Define(k, Mission, e.version, n) ELSE Unreadable

\* action.proposed, authority.grant_added and proof.semantic_source_mutated
ReplayDefined(k, e, n) == Define(k, e.object, e.content, n)

ReplayRegime(k, e) ==
  IF k.regime[e.kind] = e.parent THEN [k EXCEPT !.regime[e.kind] = e.revision] ELSE Unreadable

ReplayAuthorized(k, e) ==
  IF k.tx[e.auth] = "none"
    THEN [k EXCEPT !.auth[e.auth] = Issued(k, e), !.tx[e.auth] = "authorized"]
    ELSE Unreadable

ReplayProofBound(k, e) == [k EXCEPT !.auth[e.auth].proof = ProofBinding(k)]

ReplayReconciled(k, e) ==
  Move(k, e.auth, {"reconciliation_required"},
       IF e.applied THEN "reconciled_applied" ELSE "reconciled_not_applied")

ReplayCommitted(k, e, n) ==
  [Move(k, e.auth, {"outcome_observed", "reconciled_applied"}, "committed")
     EXCEPT !.content[Canonical] = e.version, !.pending = n]

ReduceFlushed(k, e, n) ==
  CASE e.event = "mission.revised" -> ReplayRevised(k, e, n)
    [] e.event = "defined" -> ReplayDefined(k, e, n)
    [] e.event = "semantic.regime_revised" -> ReplayRegime(k, e)
    [] e.event = "migration.schema_root_switched" -> ReplayMigrated(k, e)
    [] e.event = "action.authorized" -> ReplayAuthorized(k, e)
    [] e.event = "proof.authorization_bound" -> ReplayProofBound(k, e)
    [] e.event = "action.dispatch_recorded" ->
         Move(k, e.auth, {"authorized", "reconciled_not_applied"}, "dispatch_recorded")
    [] e.event = "action.reconciliation_required" ->
         Move(k, e.auth, {"dispatch_recorded"}, "reconciliation_required")
    [] e.event = "action.outcome_observed" ->
         Move(k, e.auth, {"dispatch_recorded"}, "outcome_observed")
    [] e.event = "action.reconciled" -> ReplayReconciled(k, e)
    [] e.event = "action.cancellation_recorded" ->
         MoveOrRaise(k, e.auth, {e.source}, e.result)
    [] e.event = "canonical.committed" -> ReplayCommitted(k, e, n)

\* _replay_entry
Reduce(k, e, n) ==
  IF k = Unreadable THEN Unreadable
  ELSE CASE e.event = "snapshot.saved" -> k
         [] e.event \in {"state.relocated", "recovery.model_class_uncertain"} -> MovePending(k, n)
         [] OTHER -> ReduceFlushed(Flush(k), e, n)

\* Entries es, appended at length n, replayed into k.
Replay(k, es, n) ==
  LET after[i \in 0..Len(es)] == IF i = 0 THEN k ELSE Reduce(after[i - 1], es[i], n + i)
  IN after[Len(es)]

\* open: the end of _open.
Restored(k) == IF k = Unreadable THEN Unreadable ELSE Flush(k)

-----------------------------------------------------------------------------
(* How an operation ends: with all its entries, or cut short by a crash after *)
(* some of them, when the kernel is opened again.                             *)

ChangeEvents ==
  {"mission.revised", "defined", "semantic.regime_revised", "migration.schema_root_switched"}

HasRoom(es) ==
  /\ Len(journal) + Len(es) <= MaxLog
  /\ es # <<>> /\ es[1].event \in ChangeEvents =>
       Cardinality({i \in DOMAIN journal : journal[i].event \in ChangeEvents}) < MaxChanges

Completes(k, es, x) ==
  /\ HasRoom(es)
  /\ kernel' = k
  /\ journal' = journal \o es
  /\ durable' = Replay(durable, es, Len(journal))
  /\ executing' = x

CutShort(es) ==
  /\ HasRoom(es)
  /\ \E i \in 1..(Len(es) - 1) :
       LET written == SubSeq(es, 1, i)
       IN /\ journal' = journal \o written
          /\ durable' = Replay(durable, written, Len(journal))
  /\ Restored(durable') # Unreadable
  /\ kernel' = Restored(durable')
  /\ executing' = NoAuth

Performs(k, es, x) == Completes(k, es, x) \/ CutShort(es)

\* The sequence that the i-th entry from now on has.
Sequence(i) == Len(journal) + i

-----------------------------------------------------------------------------
(* Initially: a host has set the kernel up and saved it, or opened a snapshot *)
(* from before lineage, whose authorizations have no binding and wait for a   *)
(* recheck (_open_v6_or_v7).                                                  *)

Unissued ==
  [action |-> CHOOSE a \in Actions : TRUE, grants |-> {}, mission |-> 0, canonical |-> 0,
   binding |-> NoBinding, proof |-> NoBinding]

Legacy(a) ==
  [action |-> a, grants |-> Grants, mission |-> 1, canonical |-> 1,
   binding |-> NoBinding, proof |-> NoBinding]

\* "content" is what an object says, "revision" its current revision, "regime" the
\* sequence that revised a regime or the manifest that migrated it, "tx" the state of the
\* transaction of an authorization, "recheck" the authorizations that wait for a recheck,
\* "applied" the manifests, and "pending" the sequence at which a replayed commit is yet
\* to be registered, or 0.
InitialKernel(legacy, a) ==
  [content |-> [o \in Objects |-> 1],
   revision |-> [o \in Objects |-> Revision(0, 1)],
   regime |-> [d \in Kinds |-> 0],
   auth |-> [u \in Auths |-> IF u \in legacy THEN Legacy(a) ELSE Unissued],
   tx |-> [u \in Auths |-> IF u \in legacy THEN "authorized" ELSE "none"],
   recheck |-> legacy, applied |-> {}, pending |-> 0]

Init ==
  /\ \E legacy \in SUBSET Auths, a \in Actions : kernel = InitialKernel(legacy, a)
  /\ executing = NoAuth
  /\ journal = <<>>
  /\ durable = kernel

-----------------------------------------------------------------------------
(* What the host defines.                                                     *)

\* revise_mission
ReviseMission ==
  LET v == kernel.content[Mission] + 1
  IN Performs(Define(kernel, Mission, v, Sequence(1)),
              <<[event |-> "mission.revised", version |-> v]>>, executing)

\* propose_action and add_grant, again for an id in use, and
\* mutate_semantic_source, which always changes the source.
DefineObject(o, c) ==
  /\ o \in Sources => c # kernel.content[o]
  /\ Performs(Define(kernel, o, c, Sequence(1)),
              <<[event |-> "defined", object |-> o, content |-> c]>>, executing)

\* revise_semantic_regime
ReviseSemanticRegime(d) ==
  Performs([kernel EXCEPT !.regime[d] = Sequence(1)],
           <<[event |-> "semantic.regime_revised", kind |-> d, revision |-> Sequence(1),
              parent |-> kernel.regime[d]]>>, executing)

\* _AMBIGUOUS_MIGRATION_STATES
AmbiguousStates == {"dispatch_recorded", "outcome_observed", "reconciliation_required"}

Ambiguous(states) == {u \in Auths : kernel.tx[u] \in states}

\* apply_semantic_migration; "bridge" says whether verified bridge evidence
\* covers the ambiguous transactions.
ApplySemanticMigration(m, bridge) ==
  LET withdrawn == {u \in Auths : kernel.tx[u] # "none"}
  IN /\ m \notin kernel.applied
     /\ bridge \/ Ambiguous(AmbiguousStates) = {}
     /\ Performs([kernel EXCEPT !.regime[Schema] = m,
                                !.applied = @ \cup {m},
                                !.recheck = @ \cup withdrawn],
                 <<[event |-> "migration.schema_root_switched", manifest |-> m,
                    source |-> kernel.regime[Schema], withdrawn |-> withdrawn,
                    bridge |-> bridge]>>, executing)

\* report_model_class_anomaly
ReportModelClassAnomaly ==
  Performs(kernel, <<[event |-> "recovery.model_class_uncertain"]>>, executing)

-----------------------------------------------------------------------------
(* Authorization.                                                             *)

\* _assert_no_unresolved_duplicate, for an action that is not idempotent.
UnresolvedDuplicate(a) ==
  \E u \in Auths : kernel.tx[u] = "reconciliation_required" /\ kernel.auth[u].action = a

\* The grants that still authorize, of those presented.
Usable(G) == {g \in G : kernel.content[g] # Revoked}

AuthorizedEntry(u, a, G) ==
  [event |-> "action.authorized", auth |-> u, action |-> a, grants |-> G,
   mission |-> kernel.content[Mission], canonical |-> kernel.content[Canonical]]

\* authorize with _bind_authorization_lineage: the authorization is bound to
\* the lineage that is current, brought up to date first.
AfterAuthorize(u, a, G) ==
  LET k == Register(kernel, Basis(a, G), Sequence(1))
  IN [k EXCEPT !.auth[u] = Issued(k, AuthorizedEntry(u, a, G)), !.tx[u] = "authorized"]

MayAuthorize(u, a, G) ==
  /\ kernel.tx[u] = "none"
  /\ ~ UnresolvedDuplicate(a)
  /\ Usable(G) # {}

Authorize(u, a, G) ==
  /\ MayAuthorize(u, a, G)
  /\ Performs(AfterAuthorize(u, a, Usable(G)), <<AuthorizedEntry(u, a, Usable(G))>>, executing)

\* authorize_proof_carrying: a crash between its entries leaves an
\* authorization that carries no proof.
AuthorizeProofCarrying(u, a, G) ==
  /\ MayAuthorize(u, a, G)
  /\ Performs([AfterAuthorize(u, a, Usable(G)) EXCEPT !.auth[u].proof = ProofBinding(kernel)],
              <<AuthorizedEntry(u, a, Usable(G)),
                [event |-> "proof.authorization_bound", auth |-> u]>>, executing)

\* _assert_authorization_lineage_current: the binding, where there is one, is
\* what would be bound now.
CurrentBinding(k, u) ==
  LET a == k.auth[u] IN a.binding # NoBinding => a.binding = Binding(k, a.action, a.grants)

\* _assert_authority_closure_current: and so are the sources of the proof.
CurrentProof(k, u) == k.auth[u].proof # NoBinding => k.auth[u].proof = ProofBinding(k)

Current(k, u) == CurrentBinding(k, u) /\ CurrentProof(k, u)

\* dispatch_eligible
Eligible(k, u) ==
  LET a == k.auth[u]
  IN /\ a.mission = k.content[Mission] /\ a.canonical = k.content[Canonical]
     /\ \A g \in a.grants : k.content[g] # Revoked

\* A fault of the test below: the recheck is left to the binding.
UncheckedDispatchable(k, u) ==
  /\ k.tx[u] \in {"authorized", "reconciled_not_applied"}
  /\ Current(k, u)
  /\ Eligible(k, u)

\* All that dispatch asks before it records.
Dispatchable(k, u) ==
  /\ u \notin k.recheck
  /\ k.tx[u] \in {"authorized", "reconciled_not_applied"}
  /\ Current(k, u)
  /\ Eligible(k, u)

-----------------------------------------------------------------------------
(* Dispatch and its outcome.                                                  *)

\* dispatch, up to the call of the adapter.
Dispatch(u) ==
  /\ executing = NoAuth
  /\ Dispatchable(kernel, u)
  /\ Performs([kernel EXCEPT !.tx[u] = "dispatch_recorded"],
              <<[event |-> "action.dispatch_recorded", auth |-> u]>>, u)

\* _commit_action_patch after the entry "first": with regions, the state is
\* relocated, and the model class may be in doubt.  The canonical state is
\* registered after all entries.
Commits(u, first, x) ==
  LET v == kernel.content[Canonical] + 1
      committed == [event |-> "canonical.committed", auth |-> u, version |-> v]
      relocated == [event |-> "state.relocated"]
      uncertain == [event |-> "recovery.model_class_uncertain"]
  IN \E es \in {<<first, committed>>, <<first, committed, relocated>>,
                <<first, committed, relocated, uncertain>>} :
       Performs(Define([kernel EXCEPT !.tx[u] = "committed"], Canonical, v, Sequence(Len(es))),
                es, x)

\* The adapter raises or does not know.  When the transaction was cancelled
\* meanwhile, the ledger raises instead, here and below.
ReturnUnknown ==
  /\ executing # NoAuth
  /\ IF kernel.tx[executing] = "dispatch_recorded"
       THEN Performs([kernel EXCEPT !.tx[executing] = "reconciliation_required"],
                     <<[event |-> "action.reconciliation_required", auth |-> executing]>>, NoAuth)
       ELSE Completes(kernel, <<>>, NoAuth)

\* The adapter returns an outcome that is committed when it is verified.
ReturnKnown(verified) ==
  LET observed == [event |-> "action.outcome_observed", auth |-> executing]
  IN /\ executing # NoAuth
     /\ kernel.tx[executing] = "dispatch_recorded"
     /\ IF verified
          THEN Commits(executing, observed, NoAuth)
          ELSE Performs([kernel EXCEPT !.tx[executing] = "outcome_observed"],
                        <<observed>>, NoAuth)

\* reconcile_action
ReconcileAction(u, applied) ==
  LET reconciled == [event |-> "action.reconciled", auth |-> u, applied |-> applied]
  IN /\ kernel.tx[u] = "reconciliation_required"
     /\ IF applied
          THEN Commits(u, reconciled, executing)
          ELSE Performs([kernel EXCEPT !.tx[u] = "reconciled_not_applied"],
                        <<reconciled>>, executing)

Cancellations ==
  {<<"authorized", "cancelled_pre_dispatch">>, <<"dispatch_recorded", "cancellation_pending">>}

\* cancel_authorized_action
CancelAuthorizedAction(u) ==
  \E move \in Cancellations :
    /\ kernel.tx[u] = move[1]
    /\ Performs([kernel EXCEPT !.tx[u] = move[2]],
                <<[event |-> "action.cancellation_recorded", auth |-> u,
                   source |-> move[1], result |-> move[2]]>>, executing)

-----------------------------------------------------------------------------
(* Persistence.                                                               *)

\* save_snapshot: the file, then the entry that replays to nothing.
SaveSnapshot ==
  LET es == <<[event |-> "snapshot.saved"]>>
  IN /\ HasRoom(es)
     /\ durable' = kernel
     /\ journal' = journal \o es
     /\ UNCHANGED <<kernel, executing>>

\* The process dies and open restores the kernel; when open raises, the system
\* stays down, which no step shows.
CrashAndOpen ==
  /\ Restored(durable) # Unreadable
  /\ kernel' = Restored(durable)
  /\ executing' = NoAuth
  /\ UNCHANGED <<journal, durable>>

\* The process dies between the snapshot and its entry.
CrashAfterSnapshot ==
  /\ durable' = kernel
  /\ executing' = NoAuth
  /\ UNCHANGED <<kernel, journal>>

Next ==
  \/ ReviseMission
  \/ \E o \in Registered, c \in Contents : DefineObject(o, c)
  \/ \E d \in Kinds : ReviseSemanticRegime(d)
  \/ \E m \in Manifests, bridge \in BOOLEAN : ApplySemanticMigration(m, bridge)
  \/ ReportModelClassAnomaly
  \/ \E u \in Auths, a \in Actions, G \in SUBSET Grants :
       \/ Authorize(u, a, G)
       \/ AuthorizeProofCarrying(u, a, G)
  \/ \E u \in Auths :
       \/ Dispatch(u)
       \/ \E applied \in BOOLEAN : ReconcileAction(u, applied)
       \/ CancelAuthorizedAction(u)
  \/ ReturnUnknown
  \/ \E verified \in BOOLEAN : ReturnKnown(verified)
  \/ SaveSnapshot
  \/ CrashAndOpen
  \/ CrashAfterSnapshot

Spec == Init /\ [][Next]_vars

-----------------------------------------------------------------------------
(* Safety.                                                                    *)

Entries ==
  [event : {"mission.revised"}, version : Nat]
  \cup [event : {"defined"}, object : Registered, content : Contents]
  \cup [event : {"semantic.regime_revised"}, kind : Kinds, revision : Nat, parent : Regimes]
  \cup [event : {"migration.schema_root_switched"}, manifest : Manifests, source : Regimes,
        withdrawn : SUBSET Auths, bridge : BOOLEAN]
  \cup [event : {"action.authorized"}, auth : Auths, action : Actions, grants : SUBSET Grants,
        mission : Nat, canonical : Nat]
  \cup [event : {"canonical.committed"}, auth : Auths, version : Nat]
  \cup [event : {"action.reconciled"}, auth : Auths, applied : BOOLEAN]
  \cup [event : {"action.cancellation_recorded"}, auth : Auths, source : States, result : States]
  \cup [event : {"proof.authorization_bound", "action.dispatch_recorded",
                 "action.reconciliation_required", "action.outcome_observed"}, auth : Auths]
  \cup [event : {"recovery.model_class_uncertain", "state.relocated", "snapshot.saved"}]

\* Type invariant: what is restored is a kernel, whatever the journal was cut short by.
TypeOK ==
  /\ kernel \in Kernels /\ durable \in Kernels
  /\ executing \in Auths \cup {NoAuth}
  /\ journal \in Seq(Entries)

\* Between operations, and after every restart, the current revision of every
\* object is of what the object says, and was created no later than now: what
\* dispatch compares is never behind the state it stands for.
CurrentLineage ==
  /\ kernel.pending = 0
  /\ \A o \in Objects : /\ kernel.revision[o].of = kernel.content[o]
                        /\ kernel.revision[o].seq <= Len(journal)

\* Wherever the process dies, open succeeds and restores the contents, the
\* regimes, the transactions, the withdrawals, and exactly the authorizations
\* that could be dispatched.
RestartKeepsAuthority ==
  LET r == Restored(durable)
  IN /\ r # Unreadable
     /\ r.content = kernel.content /\ r.regime = kernel.regime
     /\ r.tx = kernel.tx
     /\ r.recheck = kernel.recheck /\ r.applied = kernel.applied
     /\ \A u \in Auths : Dispatchable(r, u) <=> Dispatchable(kernel, u)

\* Before the i-th entry of journal J, the object o says c.
Says(J, o, c, i) ==
  LET said == {j \in 1..(i - 1) : J[j].event = "defined" /\ J[j].object = o}
  IN IF said = {} THEN c = 1
     ELSE \E j \in said : (\A l \in said : l <= j) /\ J[j].content = c

Proven(J, p) == p < Len(J) /\ J[p + 1].event = "proof.authorization_bound"

\* The i-th entry of J changes what the authorization entered at p rests on.
Disturbs(J, i, p) ==
  LET objects == {J[p].action} \cup J[p].grants \cup (IF Proven(J, p) THEN Sources ELSE {})
  IN \/ J[i].event \in {"mission.revised", "canonical.committed",
                       "semantic.regime_revised", "migration.schema_root_switched"}
     \/ /\ J[i].event = "defined"
        /\ J[i].object \in objects
        /\ ~ Says(J, J[i].object, J[i].content, i)

\* An authorization is dispatched only if the journal holds its entry and
\* nothing after it changed the mission, the canonical state, a regime, its
\* action, its grants or the sources of its proof, not even to change it back,
\* through callbacks and restarts; so none from before lineage, and none that a
\* migration withdrew, is ever dispatched.
DispatchOnUnchangedBasis ==
  [][\A u \in Auths :
       kernel.tx[u] # "dispatch_recorded" /\ kernel'.tx[u] = "dispatch_recorded" =>
         \E p \in DOMAIN journal :
           /\ journal[p].event = "action.authorized" /\ journal[p].auth = u
           /\ \A i \in (p + 1)..Len(journal) : ~ Disturbs(journal, i, p)]_vars

\* What has gone stale under an authorization never becomes current again: not
\* when a content returns to what it was, and not by a restart.
StaleForever ==
  [][\A u \in Auths :
       kernel.tx[u] # "none" /\ ~ Current(kernel, u) => ~ Current(kernel', u)]_vars

=============================================================================
