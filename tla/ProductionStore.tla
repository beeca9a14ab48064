-------------------------- MODULE ProductionStore --------------------------
(***************************************************************************)
(* The bounded production store of production_store.py: one payload        *)
(* guarded by a revision (compare-and-swap) and by an authority epoch      *)
(* (fencing token).  Every operation runs under the store's own lock, so   *)
(* each is one atomic action; whatever a caller does between two of them   *)
(* may interleave with other callers.                                      *)
(*                                                                         *)
(* The capability profile is the STRONG_MULTI_WRITER one, the only profile *)
(* under which the mutating operations do not raise.  The absent epoch     *)
(* (None) is the record numbered 0, so the successor of "no epoch" is 1.   *)
(* Two epochs are the same when their canonical digests are, that is, when *)
(* all their fields are.                                                   *)
(***************************************************************************)
EXTENDS Naturals

CONSTANTS
  Writers,      \* exact writer identities (writer id + principal + process)
  NoWriter,     \* the owner of the absent epoch
  MaxEpoch,     \* bound: how many epochs may be granted
  MaxRevision   \* bound: how many conditional writes may succeed

ASSUME StoreAssumption ==
  /\ NoWriter \notin Writers
  /\ MaxEpoch \in Nat
  /\ MaxRevision \in Nat

VARIABLES
  epoch,     \* InMemoryProductionStore._epoch
  revision,  \* InMemoryProductionStore._revision
  payload,   \* InMemoryProductionStore._payload
  granted,   \* history: every epoch the store has granted
  receipts   \* history: every ConditionalWriteReceipt the store has issued

storeVars == <<epoch, revision, payload, granted, receipts>>

NoEpoch == [number |-> 0, predecessor |-> 0, writer |-> NoWriter, acquired |-> 0]

Epochs == [number : 1..MaxEpoch, predecessor : 0..MaxEpoch,
           writer : Writers, acquired : 0..MaxRevision]

Receipts == [epoch : Epochs, expected : 0..MaxRevision, committed : 1..MaxRevision]

StoreTypeOK ==
  /\ epoch \in Epochs \cup {NoEpoch}
  /\ revision \in 0..MaxRevision
  /\ granted \subseteq Epochs
  /\ receipts \subseteq Receipts

StoreInit(initialPayload) ==
  /\ epoch = NoEpoch
  /\ revision = 0
  /\ payload = initialPayload
  /\ granted = {}
  /\ receipts = {}

\* A fault of the epoch below: the predecessor is one too early.
MisnumberedEpoch(w) ==
  [number |-> epoch.number + 1, predecessor |-> epoch.number - 1,
   writer |-> w, acquired |-> revision]

\* A fault of the epoch below: a writer that holds the authority is given the
\* epoch it already holds, wherever it runs.
ReissuedEpoch(w) ==
  IF epoch.writer = w THEN epoch
  ELSE [number |-> epoch.number + 1, predecessor |-> epoch.number,
        writer |-> w, acquired |-> revision]

\* The epoch that acquire_epoch builds for w.
SuccessorEpoch(w) ==
  [number |-> epoch.number + 1, predecessor |-> epoch.number,
   writer |-> w, acquired |-> revision]

\* acquire_epoch: a compare-and-swap on the epoch number.  A mismatch raises
\* StorageConflict and changes nothing, so it is not an action.
AcquireEpoch(w, expected) ==
  /\ epoch.number < MaxEpoch
  /\ expected = epoch.number
  /\ epoch' = SuccessorEpoch(w)
  /\ granted' = granted \cup {SuccessorEpoch(w)}
  /\ UNCHANGED <<revision, payload, receipts>>

\* _assert_current_epoch: e must be exactly the epoch now held.
IsCurrentEpoch(e) == epoch # NoEpoch /\ e = epoch

\* Faults of the guards below: the fence forgotten, the revision forgotten.
UnfencedWriteAllowed(e, expected) == epoch # NoEpoch /\ expected = revision
BlindWriteAllowed(e, expected) == IsCurrentEpoch(e)

\* The two guards of conditional_commit: the fence, then the revision.
WriteAllowed(e, expected) == IsCurrentEpoch(e) /\ expected = revision

\* conditional_commit: the whole payload is replaced and the revision advances
\* by one, or (a guard fails) StorageConflict is raised and nothing changes.
ConditionalCommit(e, expected, newPayload) ==
  /\ revision < MaxRevision
  /\ WriteAllowed(e, expected)
  /\ payload' = newPayload
  /\ revision' = revision + 1
  /\ receipts' = receipts \cup
       {[epoch |-> e, expected |-> revision, committed |-> revision + 1]}
  /\ UNCHANGED <<epoch, granted>>

-----------------------------------------------------------------------------

\* A granted epoch owns a contiguous slice of the revisions: all that is
\* written under it lies after its own acquisition and before that of any
\* later epoch, so a fenced writer never writes again (_assert_current_epoch).
EpochsSliceRevisions ==
  \A r \in receipts :
    /\ r.epoch \in granted
    /\ r.epoch.acquired < r.committed
    /\ \A g \in granted : g.number > r.epoch.number => r.committed <= g.acquired

=============================================================================
