---------------------- MODULE ActionTransactionsProofs ----------------------
(***************************************************************************)
(* Proofs about the action transactions.  The inductive invariant adds to  *)
(* the checked ones what the outcome being committed is, and that a late   *)
(* effect and one that has happened exclude each other.                    *)
(***************************************************************************)
EXTENDS ActionTransactions, FiniteSetTheorems, TLAPS

\* An effect that may still happen has not happened, and none happens twice.
EffectsSpent ==
  \A t \in Txs : performed[t] <= 1 /\ (t \in inFlight => performed[t] = 0)

\* What is about to be committed was observed or reconciled to have happened.
CommitsWhatHappened ==
  committing # NoTx =>
    /\ StateOf(committing) \in {"outcome_observed", "reconciled_applied"}
    /\ performed[committing] > 0
    /\ committing \notin inFlight

CommittedTxs == {t \in Txs : StateOf(t) = "committed"}

IInv ==
  /\ TypeOK
  /\ ReplayAgrees
  /\ EffectsSpent
  /\ LedgerTruthful
  /\ CommitsWhatHappened
  /\ VersionCountsCommits

-----------------------------------------------------------------------------
(* Lemmas on the ledger and on the replay.                                  *)

\* The transaction a CHOOSE names is one.
LEMMA NoTransactionIsOne == NoTransaction \in Transactions
<1>1. /\ (CHOOSE a \in Actions : TRUE) \in Actions
      /\ (CHOOSE p \in Principals : TRUE) \in Principals
  BY ActionAssumption
<1> QED  BY <1>1 DEF NoTransaction, Transactions, States

\* Moving one transaction to a state of the enumeration keeps the type of the
\* ledger and touches no other transaction.
LEMMA SetOne ==
  ASSUME tx \in [Txs -> Transactions], NEW t \in Txs, NEW s \in States, Set(t, s)
  PROVE  /\ tx' \in [Txs -> Transactions]
         /\ tx'[t] = [tx[t] EXCEPT !.state = s]
         /\ tx'[t].state = s
         /\ \A u \in Txs : u # t => tx'[u] = tx[u]
BY DEF Set, Transactions

\* A step that neither commits nor leaves a commit keeps the count.
LEMMA CountKept ==
  ASSUME VersionCountsCommits, version' = version,
         \A t \in Txs : (tx'[t].state = "committed") <=> (tx[t].state = "committed")
  PROVE  VersionCountsCommits'
<1>1. {t \in Txs : tx'[t].state = "committed"} = {t \in Txs : tx[t].state = "committed"}
  OBVIOUS
<1> QED  BY <1>1 DEF VersionCountsCommits, StateOf

\* What was restored follows the ledger when the reducer of the entry does, or
\* raises.
LEMMA ReplayFollows ==
  ASSUME ReplayAgrees, NEW event, NEW t, NEW arg, Record(event, t, arg),
         Reduce(event, t, arg, [tx |-> tx, version |-> version])
           \in {Unreadable, [tx |-> tx', version |-> version']}
  PROVE  ReplayAgrees'
BY DEF ReplayAgrees, Record

\* Moving a transaction in what was restored is moving it in the ledger.
LEMMA RestoredMove ==
  ASSUME tx \in [Txs -> Transactions], NEW t \in Txs, NEW s \in States, Set(t, s)
  PROVE  [[tx |-> tx, version |-> version] EXCEPT !.tx[t].state = s]
           = [tx |-> tx', version |-> version]
BY DEF Set

\* The innermost dispatch in progress is of a transaction, and so are the others.
LEMMA TopAndRest ==
  ASSUME stack \in Seq(Txs), stack # <<>>
  PROVE  Top \in Txs /\ (Pop => stack' \in Seq(Txs))
<1>1. Len(stack) \in Nat /\ Len(stack) > 0  OBVIOUS
<1> QED  BY <1>1 DEF Top, Pop

-----------------------------------------------------------------------------
(* One lemma for each action.                                               *)

LEMMA AuthorizeStep ==
  ASSUME IInv, NEW t \in Txs, NEW a \in Actions, NEW p \in Principals, Authorize(t, a, p)
  PROVE  IInv'
<1> DEFINE item == [state |-> "authorized", action |-> a, principal |-> p, version |-> version]
<1>1. item \in Transactions /\ item.state = "authorized"
  BY DEF IInv, TypeOK, Transactions, States
<1>2. /\ StateOf(t) = "none" /\ committing = NoTx /\ tx \in [Txs -> Transactions]
      /\ tx' = [tx EXCEPT ![t] = item] /\ Record("authorized", t, item)
      /\ UNCHANGED <<version, stack, committing, inFlight, performed>>
  BY DEF Authorize, Callable, worldVars, IInv, TypeOK
<1> HIDE DEF item
<1>3. /\ tx' \in [Txs -> Transactions] /\ tx'[t].state = "authorized"
      /\ \A u \in Txs : u # t => tx'[u] = tx[u]
  BY <1>1, <1>2
<1>4. ReplayAgrees'
  <2>1. Reduce("authorized", t, item, [tx |-> tx, version |-> version])
          = [[tx |-> tx, version |-> version] EXCEPT !.tx[t] = item]
    BY <1>2 DEF Reduce, StateOf
  <2>2. @ = [tx |-> tx', version |-> version']
    BY <1>2
  <2> QED  BY <1>2, <2>1, <2>2, ReplayFollows DEF IInv
<1>5. TypeOK'
  <2>1. version' \in Nat  BY <1>2 DEF IInv, TypeOK
  <2>2. (durable \in [tx : [Txs -> Transactions], version : Nat] \cup {Unreadable})'
    BY <1>3, <1>4, <2>1 DEF ReplayAgrees
  <2> QED  BY <1>2, <1>3, <2>1, <2>2 DEF IInv, TypeOK
<1>6. EffectsSpent' /\ CommitsWhatHappened'
  BY <1>2 DEF IInv, EffectsSpent, CommitsWhatHappened
<1>7. LedgerTruthful'
  BY <1>2, <1>3 DEF IInv, LedgerTruthful, StateOf
<1>8. VersionCountsCommits'
  BY <1>2, <1>3, CountKept DEF IInv, StateOf
<1> QED  BY <1>4, <1>5, <1>6, <1>7, <1>8 DEF IInv

LEMMA DispatchStep ==
  ASSUME IInv, NEW t \in Txs, Dispatch(t)
  PROVE  IInv'
<1>1. /\ StateOf(t) \in {"authorized", "reconciled_not_applied"}
      /\ Set(t, "dispatch_recorded") /\ Record("dispatch_recorded", t, NoTx)
      /\ committing = NoTx
      /\ stack' = Append(stack, t) /\ inFlight' = inFlight \cup {t}
      /\ UNCHANGED <<version, committing, performed>>
      /\ tx \in [Txs -> Transactions]
  BY DEF Dispatch, DispatchAllowed, Callable, IInv, TypeOK
<1>2. "dispatch_recorded" \in States  BY DEF States
<1>3. /\ tx' \in [Txs -> Transactions] /\ tx'[t].state = "dispatch_recorded"
      /\ \A u \in Txs : u # t => tx'[u] = tx[u]
  BY <1>1, <1>2, SetOne
<1>4. ReplayAgrees'
  <2>1. Reduce("dispatch_recorded", t, NoTx, [tx |-> tx, version |-> version])
          = [[tx |-> tx, version |-> version] EXCEPT !.tx[t].state = "dispatch_recorded"]
    BY <1>1 DEF Reduce, Move, StateOf
  <2> QED  BY <1>1, <1>2, <2>1, RestoredMove, ReplayFollows DEF IInv
<1>5. TypeOK'
  <2>1. (durable \in [tx : [Txs -> Transactions], version : Nat] \cup {Unreadable})'
    BY <1>1, <1>3, <1>4 DEF ReplayAgrees, IInv, TypeOK
  <2> QED  BY <1>1, <1>3, <2>1 DEF IInv, TypeOK
<1>6. EffectsSpent'
  BY <1>1 DEF IInv, EffectsSpent, LedgerTruthful
<1>7. CommitsWhatHappened'
  BY <1>1 DEF CommitsWhatHappened
<1>8. LedgerTruthful'
  BY <1>1, <1>3 DEF IInv, LedgerTruthful, StateOf
<1>9. VersionCountsCommits'
  BY <1>1, <1>3, CountKept DEF IInv, StateOf
<1> QED  BY <1>4, <1>5, <1>6, <1>7, <1>8, <1>9 DEF IInv

LEMMA ReturnUnknownStep ==
  ASSUME IInv, ReturnUnknown
  PROVE  IInv'
<1>0. /\ stack # <<>> /\ Pop /\ Top \in Txs /\ stack' \in Seq(Txs)
      /\ UNCHANGED <<version, committing, inFlight, performed>>
      /\ committing = NoTx /\ tx \in [Txs -> Transactions]
  BY TopAndRest DEF ReturnUnknown, Callable, worldVars, IInv, TypeOK
<1>1. CASE StateOf(Top) = "dispatch_recorded"
  <2>1. /\ Set(Top, "reconciliation_required")
        /\ Record("reconciliation_required", Top, NoTx)
    BY <1>1 DEF ReturnUnknown
  <2>2. "reconciliation_required" \in States  BY DEF States
  <2>3. /\ tx' \in [Txs -> Transactions] /\ tx'[Top].state = "reconciliation_required"
        /\ \A u \in Txs : u # Top => tx'[u] = tx[u]
    BY <1>0, <2>1, <2>2, SetOne
  <2>4. ReplayAgrees'
    <3>1. Reduce("reconciliation_required", Top, NoTx, [tx |-> tx, version |-> version])
            = [[tx |-> tx, version |-> version] EXCEPT !.tx[Top].state = "reconciliation_required"]
      BY <1>1 DEF Reduce, Move, StateOf
    <3> QED  BY <1>0, <2>1, <2>2, <3>1, RestoredMove, ReplayFollows DEF IInv
  <2>5. TypeOK'
    <3>1. (durable \in [tx : [Txs -> Transactions], version : Nat] \cup {Unreadable})'
      BY <1>0, <2>3, <2>4 DEF ReplayAgrees, IInv, TypeOK
    <3> QED  BY <1>0, <2>3, <3>1 DEF IInv, TypeOK
  <2>6. EffectsSpent' /\ CommitsWhatHappened'
    BY <1>0 DEF IInv, EffectsSpent, CommitsWhatHappened
  <2>7. LedgerTruthful'
    BY <1>0, <2>3 DEF IInv, LedgerTruthful, StateOf
  <2>8. VersionCountsCommits'
    BY <1>0, <1>1, <2>3, CountKept DEF IInv, StateOf
  <2> QED  BY <2>4, <2>5, <2>6, <2>7, <2>8 DEF IInv
<1>2. CASE StateOf(Top) # "dispatch_recorded"
  <2>1. UNCHANGED <<tx, durable>>  BY <1>2 DEF ReturnUnknown
  <2> QED  BY <1>0, <2>1 DEF IInv, TypeOK, ReplayAgrees, EffectsSpent, LedgerTruthful,
                             CommitsWhatHappened, VersionCountsCommits, StateOf
<1> QED  BY <1>1, <1>2

LEMMA ReturnKnownStep ==
  ASSUME IInv, NEW verified \in BOOLEAN, ReturnKnown(verified)
  PROVE  IInv'
<1>0. /\ stack # <<>> /\ Pop /\ Top \in Txs /\ stack' \in Seq(Txs)
      /\ verified => Top \notin inFlight /\ performed[Top] > 0
      /\ UNCHANGED <<version, performed>>
      /\ committing = NoTx /\ tx \in [Txs -> Transactions]
  BY TopAndRest DEF ReturnKnown, Callable, IInv, TypeOK
<1>1. CASE StateOf(Top) = "dispatch_recorded"
  <2>1. /\ Set(Top, "outcome_observed")
        /\ Record("outcome_observed", Top, NoTx)
        /\ committing' = IF verified THEN Top ELSE NoTx
        /\ inFlight' = inFlight \ {Top}
    BY <1>1 DEF ReturnKnown
  <2>2. "outcome_observed" \in States  BY DEF States
  <2>3. /\ tx' \in [Txs -> Transactions] /\ tx'[Top].state = "outcome_observed"
        /\ \A u \in Txs : u # Top => tx'[u] = tx[u]
    BY <1>0, <2>1, <2>2, SetOne
  <2>4. ReplayAgrees'
    <3>1. Reduce("outcome_observed", Top, NoTx, [tx |-> tx, version |-> version])
            = [[tx |-> tx, version |-> version] EXCEPT !.tx[Top].state = "outcome_observed"]
      BY <1>1 DEF Reduce, Move, StateOf
    <3> QED  BY <1>0, <2>1, <2>2, <3>1, RestoredMove, ReplayFollows DEF IInv
  <2>5. TypeOK'
    <3>1. (durable \in [tx : [Txs -> Transactions], version : Nat] \cup {Unreadable})'
      BY <1>0, <2>1, <2>3, <2>4 DEF ReplayAgrees, IInv, TypeOK
    <3> QED  BY <1>0, <2>1, <2>3, <3>1 DEF IInv, TypeOK
  <2>6. EffectsSpent'
    BY <1>0, <2>1 DEF IInv, EffectsSpent
  <2>7. CommitsWhatHappened'
    BY <1>0, <2>1, <2>3 DEF CommitsWhatHappened, StateOf
  <2>8. LedgerTruthful'
    BY <1>0, <2>1, <2>3 DEF IInv, LedgerTruthful, StateOf
  <2>9. VersionCountsCommits'
    BY <1>0, <1>1, <2>3, CountKept DEF IInv, StateOf
  <2> QED  BY <2>4, <2>5, <2>6, <2>7, <2>8, <2>9 DEF IInv
<1>2. CASE StateOf(Top) # "dispatch_recorded"
  <2>1. UNCHANGED <<tx, durable, committing, inFlight>>  BY <1>2 DEF ReturnKnown
  <2> QED  BY <1>0, <2>1 DEF IInv, TypeOK, ReplayAgrees, EffectsSpent, LedgerTruthful,
                             CommitsWhatHappened, VersionCountsCommits, StateOf
<1> QED  BY <1>1, <1>2

LEMMA CommitActionPatchStep ==
  ASSUME IInv, CommitActionPatch
  PROVE  IInv'
<1> DEFINE t == committing
<1>1. /\ t \in Txs /\ StateOf(t) \in {"outcome_observed", "reconciled_applied"}
      /\ performed[t] > 0 /\ t \notin inFlight
      /\ Set(t, "committed") /\ Record("canonical_committed", t, version + 1)
      /\ version' = version + 1 /\ version \in Nat /\ committing' = NoTx
      /\ UNCHANGED <<stack, inFlight, performed>>
      /\ tx \in [Txs -> Transactions]
  BY DEF CommitActionPatch, CommitsWhatHappened, worldVars, IInv, TypeOK
<1> HIDE DEF t
<1>2. "committed" \in States  BY DEF States
<1>3. /\ tx' \in [Txs -> Transactions] /\ tx'[t].state = "committed"
      /\ \A u \in Txs : u # t => tx'[u] = tx[u]
  BY <1>1, <1>2, SetOne
<1>4. ReplayAgrees'
  <2> DEFINE d == [tx |-> tx, version |-> version]
  <2>1. Reduce("canonical_committed", t, version + 1, d)
          = [[d EXCEPT !.tx[t].state = "committed"] EXCEPT !.version = version + 1]
    BY <1>1 DEF Reduce, ReplayCommitted, Move, StateOf
  <2>2. [d EXCEPT !.tx[t].state = "committed"] = [tx |-> tx', version |-> version]
    BY <1>1, <1>2, RestoredMove
  <2>3. Reduce("canonical_committed", t, version + 1, d) = [tx |-> tx', version |-> version']
    BY <1>1, <2>1, <2>2
  <2> QED  BY <1>1, <2>3, ReplayFollows DEF IInv
<1>5. TypeOK'
  <2>1. (durable \in [tx : [Txs -> Transactions], version : Nat] \cup {Unreadable})'
    BY <1>1, <1>3, <1>4 DEF ReplayAgrees, IInv, TypeOK
  <2> QED  BY <1>1, <1>3, <2>1 DEF IInv, TypeOK
<1>6. EffectsSpent' /\ CommitsWhatHappened'
  BY <1>1 DEF IInv, EffectsSpent, CommitsWhatHappened
<1>7. LedgerTruthful'
  BY <1>1, <1>3 DEF IInv, LedgerTruthful, StateOf
<1>8. VersionCountsCommits'
  <2>1. CommittedTxs' = CommittedTxs \cup {t}
    BY <1>1, <1>3 DEF CommittedTxs, StateOf
  <2>2. t \notin CommittedTxs  BY <1>1 DEF CommittedTxs
  <2>3. IsFiniteSet(CommittedTxs)
    BY ActionAssumption, FS_Subset DEF CommittedTxs
  <2>4. Cardinality(CommittedTxs') = Cardinality(CommittedTxs) + 1
    BY <2>1, <2>2, <2>3, FS_AddElement
  <2>5. Cardinality(CommittedTxs) \in Nat  BY <2>3, FS_CardinalityType
  <2>6. version = 1 + Cardinality(CommittedTxs)
    BY DEF IInv, VersionCountsCommits, CommittedTxs
  <2> QED  BY <1>1, <2>4, <2>5, <2>6 DEF VersionCountsCommits, CommittedTxs
<1> QED  BY <1>4, <1>5, <1>6, <1>7, <1>8 DEF IInv

\* The two cancellations and the three reconciliations move one transaction the
\* same way; a reconciliation also settles the effect and may start a commit.
LEMMA MoveStep ==
  ASSUME IInv, NEW t \in Txs, NEW s \in States, NEW event, NEW arg,
         Callable, StateOf(t) # "committed", s # "committed",
         Set(t, s), Record(event, t, arg),
         Reduce(event, t, arg, [tx |-> tx, version |-> version])
           \in {Unreadable, [[tx |-> tx, version |-> version] EXCEPT !.tx[t].state = s]},
         UNCHANGED <<version, stack, performed>>,
         inFlight' \subseteq inFlight,
         \A u \in inFlight : u # t => u \in inFlight',
         s \in {"cancelled_pre_dispatch", "reconciled_not_applied"} =>
           performed[t] = 0 /\ t \notin inFlight',
         s = "reconciled_applied" => performed[t] > 0 /\ t \notin inFlight',
         s \notin {"none", "authorized"},
         committing' = NoTx \/ (committing' = t /\ s = "reconciled_applied")
  PROVE  IInv'
<1>1. tx \in [Txs -> Transactions] /\ committing = NoTx
  BY DEF Callable, IInv, TypeOK
<1>2. /\ tx' \in [Txs -> Transactions] /\ tx'[t].state = s
      /\ \A u \in Txs : u # t => tx'[u] = tx[u]
  BY <1>1, SetOne
<1>3. ReplayAgrees'
  BY <1>1, RestoredMove, ReplayFollows DEF IInv
<1>4. TypeOK'
  <2>1. (durable \in [tx : [Txs -> Transactions], version : Nat] \cup {Unreadable})'
    BY <1>2, <1>3 DEF ReplayAgrees, IInv, TypeOK
  <2> QED  BY <1>2, <2>1 DEF IInv, TypeOK
<1>5. EffectsSpent'
  BY DEF IInv, EffectsSpent
<1>6. CommitsWhatHappened'
  BY <1>2 DEF CommitsWhatHappened, StateOf
<1>7. LedgerTruthful'
  BY <1>2 DEF IInv, LedgerTruthful, StateOf
<1>8. VersionCountsCommits'
  BY <1>2, CountKept DEF IInv, StateOf
<1> QED  BY <1>3, <1>4, <1>5, <1>6, <1>7, <1>8 DEF IInv

LEMMA CancelStep ==
  ASSUME IInv, NEW t \in Txs, CancelAuthorizedAction(t)
  PROVE  IInv'
<1>1. /\ Callable /\ committing' = NoTx
      /\ UNCHANGED <<version, stack, inFlight, performed>>
  BY DEF CancelAuthorizedAction, Callable, worldVars
<1>2. CASE /\ StateOf(t) = "authorized" /\ Set(t, "cancelled_pre_dispatch")
           /\ Record("cancelled", t, NoTx)
  <2>1. Reduce("cancelled", t, NoTx, [tx |-> tx, version |-> version])
          = [[tx |-> tx, version |-> version] EXCEPT !.tx[t].state = "cancelled_pre_dispatch"]
    BY <1>2 DEF Reduce, MoveOrRaise, StateOf
  <2>2. performed[t] = 0 /\ t \notin inFlight
    BY <1>2 DEF IInv, LedgerTruthful
  <2>3. "cancelled_pre_dispatch" \in States  BY DEF States
  <2> QED  BY <1>1, <1>2, <2>1, <2>2, <2>3, MoveStep
<1>3. CASE /\ StateOf(t) = "dispatch_recorded" /\ Set(t, "cancellation_pending")
           /\ Record("cancellation_requested", t, NoTx)
  <2>1. Reduce("cancellation_requested", t, NoTx, [tx |-> tx, version |-> version])
          = [[tx |-> tx, version |-> version] EXCEPT !.tx[t].state = "cancellation_pending"]
    BY <1>3 DEF Reduce, MoveOrRaise, StateOf
  <2>2. "cancellation_pending" \in States  BY DEF States
  <2> QED  BY <1>1, <1>3, <2>1, <2>2, MoveStep
<1> QED  BY <1>2, <1>3 DEF CancelAuthorizedAction

\* Evidence settles the effect of its transaction and no other.
LEMMA EvidenceSettles ==
  ASSUME IInv, NEW t \in Txs, NEW applied \in BOOLEAN, Evidence(t, applied)
  PROVE  /\ Reconciled(applied) \in States \ {"committed", "none", "authorized"}
         /\ inFlight' \subseteq inFlight /\ t \notin inFlight'
         /\ \A u \in inFlight : u # t => u \in inFlight'
         /\ performed' = performed
         /\ Reconciled(applied) # "cancelled_pre_dispatch"
         /\ Reconciled(applied) = "reconciled_not_applied" => performed[t] = 0
         /\ Reconciled(applied) = "reconciled_applied" => applied /\ performed[t] > 0
         /\ applied => Reconciled(applied) = "reconciled_applied"
BY DEF Evidence, Reconciled, States, IInv, EffectsSpent

LEMMA ReconcileStep ==
  ASSUME IInv, NEW t \in Txs, NEW applied \in BOOLEAN,
         \/ ReconcileAction(t, applied)
         \/ ReconcileStrong(t, applied)
         \/ applied = FALSE /\ AcknowledgeRemoteCancellation(t)
  PROVE  IInv'
<1> DEFINE d == [tx |-> tx, version |-> version]
<1>1. /\ Callable /\ Evidence(t, applied) /\ Set(t, Reconciled(applied))
      /\ StateOf(t) \in {"reconciliation_required", "cancellation_pending"}
      /\ UNCHANGED <<version, stack>>
      /\ committing' = NoTx \/ (committing' = t /\ applied)
  BY DEF ReconcileAction, ReconcileStrong, AcknowledgeRemoteCancellation, Callable
<1>2. PICK event, arg :
        /\ Record(event, t, arg)
        /\ Reduce(event, t, arg, d)
             \in {Unreadable, [d EXCEPT !.tx[t].state = Reconciled(applied)]}
  <2>1. CASE ReconcileAction(t, applied)
    <3>1. Record("reconciled", t, applied) /\ StateOf(t) = "reconciliation_required"
      BY <2>1 DEF ReconcileAction
    <3>2. Reduce("reconciled", t, applied, d) = [d EXCEPT !.tx[t].state = Reconciled(applied)]
      BY <3>1 DEF Reduce, Move, StateOf
    <3> QED  BY <3>1, <3>2
  <2>2. CASE ReconcileStrong(t, applied)
    <3>1. Record("reconciled_evidence", t, applied)
      BY <2>2 DEF ReconcileStrong
    <3>2. Reduce("reconciled_evidence", t, applied, d)
            \in {Unreadable, [d EXCEPT !.tx[t].state = Reconciled(applied)]}
      BY DEF Reduce, MoveOrRaise
    <3> QED  BY <3>1, <3>2
  <2>3. CASE applied = FALSE /\ AcknowledgeRemoteCancellation(t)
    <3>1. Record("remote_cancellation_acknowledged", t, NoTx)
      BY <2>3 DEF AcknowledgeRemoteCancellation
    <3>2. Reduce("remote_cancellation_acknowledged", t, NoTx, d)
            \in {Unreadable, [d EXCEPT !.tx[t].state = Reconciled(applied)]}
      BY <2>3 DEF Reduce, MoveOrRaise
    <3> QED  BY <3>1, <3>2
  <2> QED  BY <2>1, <2>2, <2>3
<1>3. StateOf(t) # "committed"  BY <1>1
<1> QED  BY <1>1, <1>2, <1>3, EvidenceSettles, MoveStep

LEMMA SaveSnapshotStep ==
  ASSUME IInv, SaveSnapshot
  PROVE  IInv'
BY DEF SaveSnapshot, worldVars, IInv, TypeOK, ReplayAgrees, EffectsSpent, LedgerTruthful,
       CommitsWhatHappened, VersionCountsCommits, StateOf

\* What is restored is the ledger that was lost, because the replay agrees.
LEMMA CrashStep ==
  ASSUME IInv, CrashAndOpen
  PROVE  IInv' /\ tx' = tx
<1>1. tx' = tx /\ version' = version /\ stack' = <<>> /\ committing' = NoTx
  BY DEF CrashAndOpen, IInv, ReplayAgrees
<1>2. UNCHANGED <<durable, inFlight, performed>>
  BY DEF CrashAndOpen, worldVars
<1> QED  BY <1>1, <1>2 DEF IInv, TypeOK, ReplayAgrees, EffectsSpent, LedgerTruthful,
                           CommitsWhatHappened, VersionCountsCommits, StateOf

LEMMA PerformStep ==
  ASSUME IInv, NEW t \in Txs, Perform(t)
  PROVE  IInv'
<1>1. /\ t \in inFlight /\ performed[t] = 0 /\ inFlight' = inFlight \ {t}
      /\ performed' = [performed EXCEPT ![t] = performed[t] + 1]
      /\ performed \in [Txs -> Nat]
      /\ UNCHANGED <<tx, version, stack, committing, durable>>
  BY DEF Perform, IInv, EffectsSpent, TypeOK
<1>2. performed' \in [Txs -> Nat] /\ performed'[t] = 1
      /\ \A u \in Txs : u # t => performed'[u] = performed[u]
  BY <1>1
<1>3. TypeOK'
  BY <1>1, <1>2 DEF IInv, TypeOK
<1>4. EffectsSpent' /\ CommitsWhatHappened'
  BY <1>1, <1>2 DEF IInv, EffectsSpent, CommitsWhatHappened, StateOf, TypeOK
<1>5. LedgerTruthful'
  BY <1>1, <1>2 DEF IInv, LedgerTruthful, StateOf
<1> QED  BY <1>1, <1>3, <1>4, <1>5 DEF IInv, ReplayAgrees, VersionCountsCommits, StateOf

-----------------------------------------------------------------------------
(* The theorems.                                                            *)

LEMMA InitEstablishes == Init => IInv
<1> SUFFICES ASSUME Init PROVE IInv
  OBVIOUS
<1>1. /\ tx = [t \in Txs |-> NoTransaction] /\ version = 1
      /\ stack = <<>> /\ committing = NoTx
      /\ inFlight = {} /\ performed = [t \in Txs |-> 0]
      /\ durable = [tx |-> tx, version |-> version]
  BY DEF Init
<1>2. \A t \in Txs : tx[t] = NoTransaction /\ StateOf(t) = "none"
  BY <1>1 DEF StateOf, NoTransaction
<1>3. tx \in [Txs -> Transactions]
  BY <1>1, NoTransactionIsOne
<1>4. TypeOK
  BY <1>1, <1>3 DEF TypeOK
<1>5. CommittedTxs = {}
  BY <1>2 DEF CommittedTxs
<1>6. VersionCountsCommits
  BY <1>1, <1>5, FS_EmptySet DEF VersionCountsCommits, CommittedTxs
<1> QED  BY <1>1, <1>2, <1>4, <1>6
         DEF IInv, ReplayAgrees, EffectsSpent, LedgerTruthful, CommitsWhatHappened

LEMMA StepPreserves == IInv /\ [Next]_vars => IInv'
<1> SUFFICES ASSUME IInv, [Next]_vars PROVE IInv'
  OBVIOUS
<1>1. ASSUME NEW t \in Txs, NEW a \in Actions, NEW p \in Principals, Authorize(t, a, p)
      PROVE  IInv'
  BY <1>1, AuthorizeStep
<1>2. ASSUME NEW t \in Txs, Dispatch(t) PROVE IInv'
  BY <1>2, DispatchStep
<1>3. ASSUME NEW t \in Txs, CancelAuthorizedAction(t) PROVE IInv'
  BY <1>3, CancelStep
<1>4. ASSUME NEW t \in Txs, NEW applied \in BOOLEAN,
             ReconcileAction(t, applied) \/ ReconcileStrong(t, applied)
      PROVE  IInv'
  BY <1>4, ReconcileStep
<1>5. ASSUME NEW t \in Txs, AcknowledgeRemoteCancellation(t) PROVE IInv'
  BY <1>5, ReconcileStep
<1>6. ASSUME NEW t \in Txs, Perform(t) PROVE IInv'
  BY <1>6, PerformStep
<1>7. CASE ReturnUnknown  BY <1>7, ReturnUnknownStep
<1>8. ASSUME NEW verified \in BOOLEAN, ReturnKnown(verified) PROVE IInv'
  BY <1>8, ReturnKnownStep
<1>9. CASE CommitActionPatch  BY <1>9, CommitActionPatchStep
<1>10. CASE SaveSnapshot  BY <1>10, SaveSnapshotStep
<1>11. CASE CrashAndOpen  BY <1>11, CrashStep
<1>12. CASE UNCHANGED vars
  BY <1>12 DEF vars, worldVars, IInv, TypeOK, ReplayAgrees, EffectsSpent, LedgerTruthful,
               CommitsWhatHappened, VersionCountsCommits, StateOf
<1> QED  BY <1>1, <1>2, <1>3, <1>4, <1>5, <1>6, <1>7, <1>8, <1>9, <1>10, <1>11, <1>12
         DEF Next

\* The inductive invariant holds in every reachable state.
THEOREM Invariance == Spec => []IInv
BY InitEstablishes, StepPreserves, PTL DEF Spec

\* Every variable keeps its type.
THEOREM TypeCorrectness == Spec => []TypeOK
<1>1. IInv => TypeOK  BY DEF IInv
<1> QED  BY <1>1, Invariance, PTL

\* No effect happens twice: the guard of record_dispatch, the truth of evidence
\* and the replay of the ledger suffice, however dispatches nest and crashes fall.
THEOREM EffectsAtMostOnce == Spec => []AtMostOnce
<1>1. IInv => AtMostOnce  BY DEF IInv, EffectsSpent, AtMostOnce
<1> QED  BY <1>1, Invariance, PTL

\* The ledger never claims of the world what is not so.
THEOREM LedgerIsTruthful == Spec => []LedgerTruthful
<1>1. IInv => LedgerTruthful  BY DEF IInv
<1> QED  BY <1>1, Invariance, PTL

\* The canonical version counts the committed transactions, across crashes.
THEOREM VersionsCount == Spec => []VersionCountsCommits
<1>1. IInv => VersionCountsCommits  BY DEF IInv
<1> QED  BY <1>1, Invariance, PTL

\* What open restores, when it does, is the ledger of the moment.
THEOREM ReplayIsFaithful == Spec => []ReplayAgrees
<1>1. IInv => ReplayAgrees  BY DEF IInv
<1> QED  BY <1>1, Invariance, PTL

\* A committed or cleanly cancelled transaction is never changed again.
THEOREM TerminalStates == Spec => TerminalStatesLast
<1> DEFINE Terminal(t) == StateOf(t) \in {"committed", "cancelled_pre_dispatch"}
<1>1. ASSUME IInv, Next, NEW u \in Txs, Terminal(u) PROVE tx'[u] = tx[u]
  <2>1. tx \in [Txs -> Transactions]  BY <1>1 DEF IInv, TypeOK
  <2>2. ASSUME NEW t, NEW s, t # u, Set(t, s) PROVE tx'[u] = tx[u]
    BY <2>1, <2>2 DEF Set
  <2>3. ASSUME NEW t \in Txs, NEW a \in Actions, NEW p \in Principals, Authorize(t, a, p)
        PROVE  tx'[u] = tx[u]
    <3>1. StateOf(t) = "none"  BY <2>3 DEF Authorize
    <3>2. t # u  BY <1>1, <3>1
    <3> QED  BY <2>1, <2>3, <3>2 DEF Authorize
  <2>4. ASSUME NEW t \in Txs, Dispatch(t) PROVE tx'[u] = tx[u]
    <3>1. t # u  BY <1>1, <2>4 DEF Dispatch, DispatchAllowed
    <3> QED  BY <2>2, <2>4, <3>1 DEF Dispatch
  <2>5. ASSUME NEW t \in Txs, CancelAuthorizedAction(t) PROVE tx'[u] = tx[u]
    <3>1. t # u  BY <1>1, <2>5 DEF CancelAuthorizedAction
    <3> QED  BY <2>2, <2>5, <3>1 DEF CancelAuthorizedAction
  <2>6. ASSUME NEW t \in Txs, NEW applied \in BOOLEAN,
               \/ ReconcileAction(t, applied) \/ ReconcileStrong(t, applied)
               \/ AcknowledgeRemoteCancellation(t)
        PROVE  tx'[u] = tx[u]
    <3>1. t # u
      BY <1>1, <2>6 DEF ReconcileAction, ReconcileStrong, AcknowledgeRemoteCancellation
    <3> QED  BY <2>2, <2>6, <3>1
             DEF ReconcileAction, ReconcileStrong, AcknowledgeRemoteCancellation
  <2>7. ASSUME ReturnUnknown \/ \E verified \in BOOLEAN : ReturnKnown(verified)
        PROVE  tx'[u] = tx[u]
    <3>1. CASE Top # u
      BY <2>2, <2>7, <3>1 DEF ReturnUnknown, ReturnKnown
    <3>2. CASE Top = u
      <4>1. StateOf(Top) # "dispatch_recorded"  BY <1>1, <3>2
      <4> QED  BY <2>7, <4>1 DEF ReturnUnknown, ReturnKnown
    <3> QED  BY <3>1, <3>2
  <2>8. CASE CommitActionPatch
    <3>1. committing # u
      BY <1>1, <2>8 DEF IInv, CommitsWhatHappened, CommitActionPatch
    <3> QED  BY <2>2, <2>8, <3>1 DEF CommitActionPatch
  <2>9. CASE CrashAndOpen  BY <1>1, <2>9, CrashStep
  <2>10. CASE SaveSnapshot \/ \E t \in Txs : Perform(t)
    BY <2>10 DEF SaveSnapshot, Perform
  <2> QED  BY <1>1, <2>3, <2>4, <2>5, <2>6, <2>7, <2>8, <2>9, <2>10 DEF Next
<1>2. IInv /\ [Next]_vars =>
        [\A t \in Txs : StateOf(t) \in {"committed", "cancelled_pre_dispatch"} =>
                          tx'[t] = tx[t]]_vars
  BY <1>1 DEF vars
<1> QED  BY <1>2, Invariance, PTL DEF Spec, TerminalStatesLast
=============================================================================
