-------------------------- MODULE KernelAuthority --------------------------
(***************************************************************************)
(* The kernel's bounded multi-writer authority (multiwriter_runtime.py and *)
(* the multi-writer part of wave9_snapshot.py): several PlanKernels, each  *)
(* with its own journal and snapshot, share one production store.          *)
(*                                                                         *)
(* A kernel operation holds the kernel's own writer lock, so a kernel does *)
(* one operation at a time; the other kernels, the store they share and a  *)
(* crash may intervene between the store call, the journal append and the  *)
(* update of the memory.  A fsync'd append and the replacement of the      *)
(* snapshot file are atomic.  Of the two files the state that opening them *)
(* would give is kept: an append replays one more entry onto it.           *)
(*                                                                         *)
(* Execution-contract bindings are taken to be current (the operations     *)
(* below raise otherwise), and the payload of the store is opaque here:    *)
(* what a commit writes in it is the subject of module MultiWriter.        *)
(***************************************************************************)
EXTENDS ProductionStore

CONSTANTS
  Kernels,
  Auths,        \* action authorizations
  HomeOf,       \* the kernel that issued an authorization
  Principals,
  PrincipalOf,  \* the principal of a writer, the acting principal of an authorization
  Document      \* the opaque payload

ASSUME KernelAssumption ==
  /\ Auths \cap Writers = {}
  /\ HomeOf \in [Auths -> Kernels]
  /\ PrincipalOf \in [Auths \cup Writers -> Principals]

VARIABLES
  memory,   \* the kernel's attributes; Lost while it is down
  op,       \* the operation each kernel is executing
  durable   \* what the snapshot file and the journal suffix after it replay to

vars == <<epoch, revision, payload, granted, receipts, memory, op, durable>>

-----------------------------------------------------------------------------
(* The memory of a kernel, and the reducers that replay a journal into it.  *)

Lost == [lost |-> TRUE]

EmptyMemory ==
  [observed |-> {},                        \* observed_authority_epochs
   latest   |-> NoEpoch,                   \* latest_observed_authority_epoch
   commits  |-> {},                        \* multiwriter_commit_observations
   bound    |-> [a \in Auths |-> NoEpoch]] \* authorization_authority_epoch_bindings

\* Journal entries.  Of a commit observation the epoch alone is kept: the rest
\* (revision, receipt, conflict) is stored and restored without being looked at.
Acquired(e) == [kind |-> "acquired", epoch |-> e]
Committed(e) == [kind |-> "committed", epoch |-> e]
Bound(a, e) == [kind |-> "bound", auth |-> a, epoch |-> e]

\* The epoch directly follows the last one this kernel observed.
FollowsLatest(e, m) == m.latest # NoEpoch => e.predecessor = m.latest.number

\* A binding may only be replaced by one to a later epoch.
AdvancesBinding(a, e, m) == m.bound[a] = NoEpoch \/ e.number > m.bound[a].number

\* What the three reducers check (_accept_epoch_observation,
\* _accept_commit_observation, _replay_authorization_epoch_bound).
Acceptable(x, m) ==
  CASE x.kind = "acquired"  -> x.epoch \in m.observed \/ FollowsLatest(x.epoch, m)
    [] x.kind = "committed" -> x.epoch \in m.observed
    [] x.kind = "bound"     -> /\ x.epoch \in m.observed
                               /\ PrincipalOf[x.epoch.writer] = PrincipalOf[x.auth]
                               /\ x.epoch = m.bound[x.auth] \/ AdvancesBinding(x.auth, x.epoch, m)

Apply(x, m) ==
  CASE x.kind = "acquired"  -> IF x.epoch \in m.observed THEN m ELSE
                               [m EXCEPT !.observed = @ \cup {x.epoch}, !.latest = x.epoch]
    [] x.kind = "committed" -> [m EXCEPT !.commits = @ \cup {x.epoch}]
    [] x.kind = "bound"     -> [m EXCEPT !.bound[x.auth] = x.epoch]

\* open: the snapshot, then every journal entry after it; the first one that is
\* refused raises ReplayError and nothing is opened, whatever follows it.
Unreadable == [unreadable |-> TRUE]
Replayed(x, d) ==
  IF d # Unreadable /\ Acceptable(x, d) THEN Apply(x, d) ELSE Unreadable

-----------------------------------------------------------------------------
Idle == [at |-> "idle"]
Down == [at |-> "down"]

Init ==
  /\ StoreInit(Document)
  /\ memory = [k \in Kernels |-> EmptyMemory]
  /\ op = [k \in Kernels |-> Idle]
  /\ durable = [k \in Kernels |-> EmptyMemory]

-----------------------------------------------------------------------------
(* The operations.  The three that journal an entry share the steps Journal  *)
(* and Accept that follow their first one.                                   *)

Proceed(k, step) == op' = [op EXCEPT ![k] = step]

\* acquire_authority_epoch: the store grants the epoch first.
AcquireAuthorityEpoch(k, w, expected) ==
  /\ op[k] = Idle
  /\ AcquireEpoch(w, expected)
  /\ Proceed(k, [at |-> "journal", entry |-> Acquired(SuccessorEpoch(w))])
  /\ UNCHANGED <<memory, durable>>

\* conditional_correctness_commit under an observed lease: the coordinator
\* writes, or answers a duplicate or a known conflict without a write.  Only the
\* first observation under an epoch is journalled here, the next ones being equal.
ConditionalCorrectnessCommit(k, e) ==
  /\ op[k] = Idle
  /\ e \in memory[k].observed \ memory[k].commits
  /\ \/ ConditionalCommit(e, revision, payload)
     \/ IsCurrentEpoch(e) /\ UNCHANGED storeVars
  /\ Proceed(k, [at |-> "journal", entry |-> Committed(e)])
  /\ UNCHANGED <<memory, durable>>

\* bind_authorization_authority_epoch: the lease must be one this kernel
\* observed, of the acting principal; the store is not asked.
BindAuthorization(k, a, e) ==
  /\ op[k] = Idle
  /\ HomeOf[a] = k
  /\ e \in memory[k].observed
  /\ PrincipalOf[e.writer] = PrincipalOf[a]
  /\ AdvancesBinding(a, e, memory[k])
  /\ Proceed(k, [at |-> "journal", entry |-> Bound(a, e)])
  /\ UNCHANGED <<storeVars, memory, durable>>

\* _record: the append is durable before the memory changes.
Journal(k) ==
  /\ op[k].at = "journal"
  /\ durable' = [durable EXCEPT ![k] = Replayed(op[k].entry, @)]
  /\ Proceed(k, [op[k] EXCEPT !.at = "accept"])
  /\ UNCHANGED <<storeVars, memory>>

\* A fault of the step below: the operation goes on when the append fails.
IgnoredJournalFailure(k) ==
  /\ op[k].at = "journal"
  /\ Proceed(k, [op[k] EXCEPT !.at = "accept"])
  /\ UNCHANGED <<storeVars, memory, durable>>

\* The append raises (OSError): the operation ends with nothing recorded.
JournalFails(k) ==
  /\ op[k].at = "journal"
  /\ Proceed(k, Idle)
  /\ UNCHANGED <<storeVars, memory, durable>>

\* The memory follows the journal, unless the observation is refused: the
\* operation then raises AuthorizationError, its entry being in the journal.
Accept(k) ==
  /\ op[k].at = "accept"
  /\ memory' = [memory EXCEPT ![k] =
       IF Acceptable(op[k].entry, @) THEN Apply(op[k].entry, @) ELSE @]
  /\ Proceed(k, Idle)
  /\ UNCHANGED <<storeVars, durable>>

\* The binding is to exactly the epoch the store now holds.
CurrentBinding(e) == e # NoEpoch /\ IsCurrentEpoch(e)

\* dispatch_epoch_bound, first the check of the binding against the store ...
CheckBinding(k, a) ==
  /\ op[k] = Idle
  /\ HomeOf[a] = k
  /\ CurrentBinding(memory[k].bound[a])
  /\ Proceed(k, [at |-> "execute", auth |-> a, epoch |-> memory[k].bound[a]])
  /\ UNCHANGED <<storeVars, memory, durable>>

\* ... then the adapter, which is handed the action and the principal alone.
ExecuteAdapter(k) ==
  /\ op[k].at = "execute"
  /\ Proceed(k, Idle)
  /\ UNCHANGED <<storeVars, memory, durable>>

\* save_snapshot: the memory is written with the journal head it stands for, so
\* no entry before that head is replayed again, a refused one included.
SaveSnapshot(k) ==
  /\ op[k] = Idle
  /\ durable' = [durable EXCEPT ![k] = memory[k]]
  /\ UNCHANGED <<storeVars, memory, op>>

\* The process of a kernel dies at any step of an operation.
Crash(k) ==
  /\ op[k] # Down
  /\ memory' = [memory EXCEPT ![k] = Lost]
  /\ Proceed(k, Down)
  /\ UNCHANGED <<storeVars, durable>>

\* open
Reopen(k) ==
  /\ op[k] = Down
  /\ durable[k] # Unreadable
  /\ memory' = [memory EXCEPT ![k] = durable[k]]
  /\ Proceed(k, Idle)
  /\ UNCHANGED <<storeVars, durable>>

Next ==
  \E k \in Kernels :
    \/ \E w \in Writers, expected \in 0..MaxEpoch : AcquireAuthorityEpoch(k, w, expected)
    \/ \E e \in granted : ConditionalCorrectnessCommit(k, e)
    \/ \E a \in Auths, e \in granted : BindAuthorization(k, a, e)
    \/ Journal(k)
    \/ JournalFails(k)
    \/ Accept(k)
    \/ \E a \in Auths : CheckBinding(k, a)
    \/ ExecuteAdapter(k)
    \/ SaveSnapshot(k)
    \/ Crash(k)
    \/ Reopen(k)

Spec == Init /\ [][Next]_vars

-----------------------------------------------------------------------------
(* Types.                                                                   *)

Memories == [observed : SUBSET Epochs, latest : Epochs \cup {NoEpoch},
             commits : SUBSET Epochs, bound : [Auths -> Epochs \cup {NoEpoch}]]

Entries == [kind : {"acquired", "committed"}, epoch : Epochs]
           \cup [kind : {"bound"}, auth : Auths, epoch : Epochs]

Steps == {Idle, Down}
         \cup [at : {"journal", "accept"}, entry : Entries]
         \cup [at : {"execute"}, auth : Auths, epoch : Epochs]

TypeOK ==
  /\ StoreTypeOK
  /\ memory \in [Kernels -> Memories \cup {Lost}]
  /\ op \in [Kernels -> Steps]
  /\ durable \in [Kernels -> Memories \cup {Unreadable}]

-----------------------------------------------------------------------------
(* Safety.                                                                  *)

\* Replay agrees with the live projection: whenever a kernel is between two
\* operations and its files can be opened, opening them gives its memory.
ReplayMatchesMemory ==
  \A k \in Kernels :
    op[k] = Idle => durable[k] \in {memory[k], Unreadable}

\* At most one of the kernels that share a store knows the epoch the store now
\* holds, so at most one can commit under it or bind an authorization to it.
SoleAuthority ==
  \A k, l \in Kernels :
    /\ op[k] # Down /\ epoch \in memory[k].observed
    /\ op[l] # Down /\ epoch \in memory[l].observed
    => k = l

=============================================================================
