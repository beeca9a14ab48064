------------------------- MODULE ActionTransactions -------------------------
(***************************************************************************)
(* The action transactions of one kernel: the ledger of execution.py, and  *)
(* the operations of kernel.py, cancellation_runtime.py, trust_runtime.py  *)
(* and execution_contract_runtime.py that move a transaction, with the     *)
(* reducers that rebuild the ledger from the journal after a crash.        *)
(*                                                                         *)
(* The writer lock is reentrant: while dispatch waits in adapter.execute,  *)
(* the adapter may call the kernel on the same thread, dispatch included,  *)
(* so dispatches nest.  Nothing else interleaves but a crash.  Every       *)
(* change of the ledger is journalled before the next one; a crash between *)
(* the two loses both, which is a crash before the step.  An append that   *)
(* raises is left out.                                                     *)
(*                                                                         *)
(* The world outside acts on its own: the effect of a dispatch may happen  *)
(* any time after the dispatch was recorded, even after an exception or a  *)
(* crash, until evidence excludes it.  Evidence and adapters do not lie.   *)
(***************************************************************************)
EXTENDS Naturals, Sequences, FiniteSets

CONSTANTS
  Txs, NoTx,     \* transactions, one for each authorization that is issued
  Actions,
  Idempotent,    \* the actions that may be repeated
  Principals,
  MaxDepth       \* bound: how deep dispatches may nest

ASSUME ActionAssumption ==
  /\ IsFiniteSet(Txs) /\ NoTx \notin Txs
  /\ Actions # {} /\ Principals # {}
  /\ Idempotent \subseteq Actions
  /\ MaxDepth \in Nat \ {0}

VARIABLES
  tx,         \* ActionTransactionLedger._items, with what the authorization binds
  version,    \* canonical_version
  stack,      \* the dispatches in progress, the innermost last
  committing, \* the transaction whose outcome is about to be committed, or NoTx
  durable,    \* what open would restore: the snapshot with the journal replayed into it
  inFlight,   \* world: the dispatches whose effect may still happen
  performed   \* world: how often the effect of a transaction has happened

vars == <<tx, version, stack, committing, durable, inFlight, performed>>
worldVars == <<inFlight, performed>>

-----------------------------------------------------------------------------
States ==
  {"none",                      \* not issued
   "authorized", "cancelled_pre_dispatch", "dispatch_recorded", "cancellation_pending",
   "outcome_observed", "reconciliation_required", "reconciled_applied",
   "reconciled_not_applied", "committed"}

Transactions == [state : States, action : Actions, principal : Principals, version : Nat]

NoTransaction ==
  [state |-> "none", action |-> CHOOSE a \in Actions : TRUE,
   principal |-> CHOOSE p \in Principals : TRUE, version |-> 0]

StateOf(t) == tx[t].state

-----------------------------------------------------------------------------
(* The replay of one journal entry into the restored ledger: Unreadable when *)
(* a reducer raises ReplayError.  Most of the older reducers skip an entry   *)
(* that does not fit; the newer ones raise.                                  *)

Unreadable == [unreadable |-> TRUE]

\* A transaction that is moved by an entry of the journal.
Move(t, from, to, d) == IF d.tx[t].state \in from THEN [d EXCEPT !.tx[t].state = to] ELSE d
MoveOrRaise(t, from, to, d) ==
  IF d.tx[t].state \in from THEN [d EXCEPT !.tx[t].state = to] ELSE Unreadable

\* The state that a reconciliation ends in.
Reconciled(applied) == IF applied THEN "reconciled_applied" ELSE "reconciled_not_applied"

\* A fault of the reducer below: the version is left to the next snapshot.
UnversionedCommit(t, v, d) ==
  Move(t, {"outcome_observed", "reconciled_applied"}, "committed", d)

\* canonical.committed
ReplayCommitted(t, v, d) ==
  [Move(t, {"outcome_observed", "reconciled_applied"}, "committed", d) EXCEPT !.version = v]

\* Entries are <<event, transaction, argument>>.
Reduce(event, t, arg, d) ==
  CASE event = "authorized" ->
         IF d.tx[t].state = "none" THEN [d EXCEPT !.tx[t] = arg] ELSE Unreadable
    [] event = "dispatch_recorded" ->
         Move(t, {"authorized", "reconciled_not_applied"}, "dispatch_recorded", d)
    [] event = "reconciliation_required" ->
         Move(t, {"dispatch_recorded"}, "reconciliation_required", d)
    [] event = "outcome_observed" -> Move(t, {"dispatch_recorded"}, "outcome_observed", d)
    [] event = "canonical_committed" -> ReplayCommitted(t, arg, d)
    [] event = "cancelled" -> MoveOrRaise(t, {"authorized"}, "cancelled_pre_dispatch", d)
    [] event = "cancellation_requested" ->
         MoveOrRaise(t, {"dispatch_recorded"}, "cancellation_pending", d)
    [] event = "reconciled" -> Move(t, {"reconciliation_required"}, Reconciled(arg), d)
    [] event = "reconciled_evidence" ->
         MoveOrRaise(t, {"reconciliation_required"}, Reconciled(arg), d)
    [] event = "remote_cancellation_acknowledged" ->
         MoveOrRaise(t, {"cancellation_pending"}, Reconciled(FALSE), d)

\* _record
Record(event, t, arg) ==
  durable' = IF durable = Unreadable THEN Unreadable ELSE Reduce(event, t, arg, durable)

-----------------------------------------------------------------------------
\* The type of every variable.
TypeOK ==
  /\ tx \in [Txs -> Transactions]
  /\ version \in Nat
  /\ stack \in Seq(Txs)
  /\ committing \in Txs \cup {NoTx}
  /\ durable \in [tx : [Txs -> Transactions], version : Nat] \cup {Unreadable}
  /\ inFlight \subseteq Txs
  /\ performed \in [Txs -> Nat]

Init ==
  /\ tx = [t \in Txs |-> NoTransaction]
  /\ version = 1
  /\ stack = <<>>
  /\ committing = NoTx
  /\ durable = [tx |-> tx, version |-> version]
  /\ inFlight = {}
  /\ performed = [t \in Txs |-> 0]

-----------------------------------------------------------------------------
(* The operations.  Any of them may be called when the kernel is at rest or  *)
(* from inside an adapter, that is, unless an outcome is being committed.    *)

Callable == committing = NoTx

Set(t, state) == tx' = [tx EXCEPT ![t].state = state]

Top == stack[Len(stack)]
Pop == stack' = SubSeq(stack, 1, Len(stack) - 1)

\* _assert_no_unresolved_duplicate
UnresolvedDuplicate(a, p) ==
  /\ a \notin Idempotent
  /\ \E t \in Txs : /\ tx[t].action = a /\ tx[t].principal = p
                    /\ StateOf(t) = "reconciliation_required"

\* authorize: the authorization binds the canonical version it was issued at.
Authorize(t, a, p) ==
  LET item == [state |-> "authorized", action |-> a, principal |-> p, version |-> version]
  IN /\ Callable
     /\ StateOf(t) = "none"
     /\ ~ UnresolvedDuplicate(a, p)
     /\ tx' = [tx EXCEPT ![t] = item]
     /\ Record("authorized", t, item)
     /\ UNCHANGED <<version, stack, committing, worldVars>>

\* assert_retry_allowed
RetryAllowed(t) ==
  /\ StateOf(t) \notin {"cancelled_pre_dispatch", "cancellation_pending",
                        "committed", "reconciled_applied"}
  /\ StateOf(t) = "reconciliation_required" => tx[t].action \in Idempotent

\* A fault of the test below: the retry test is taken to be enough.
RetryOnly(t) == StateOf(t) # "none" /\ RetryAllowed(t)

\* assert_retry_allowed, then what record_dispatch accepts.
DispatchAllowed(t) ==
  /\ RetryAllowed(t)
  /\ StateOf(t) \in {"authorized", "reconciled_not_applied"}

\* A fault of the step below: the dispatch is journalled only with its outcome.
UnrecordedDispatch(t) ==
  /\ Callable
  /\ Len(stack) < MaxDepth
  /\ tx[t].version = version
  /\ DispatchAllowed(t)
  /\ Set(t, "dispatch_recorded")
  /\ stack' = Append(stack, t)
  /\ inFlight' = inFlight \cup {t}
  /\ UNCHANGED <<version, committing, durable, performed>>

\* dispatch, up to the call of the adapter.
Dispatch(t) ==
  /\ Callable
  /\ Len(stack) < MaxDepth
  /\ tx[t].version = version
  /\ DispatchAllowed(t)
  /\ Set(t, "dispatch_recorded")
  /\ Record("dispatch_recorded", t, NoTx)
  /\ stack' = Append(stack, t)
  /\ inFlight' = inFlight \cup {t}
  /\ UNCHANGED <<version, committing, performed>>

\* The adapter raises, or returns for another principal or with an unknown
\* outcome.  A transaction that was moved meanwhile is left as it is: the
\* ledger raises, and dispatch ends with that exception.
ReturnUnknown ==
  /\ Callable
  /\ stack # <<>>
  /\ IF StateOf(Top) = "dispatch_recorded"
       THEN /\ Set(Top, "reconciliation_required")
            /\ Record("reconciliation_required", Top, NoTx)
       ELSE UNCHANGED <<tx, durable>>
  /\ Pop
  /\ UNCHANGED <<version, committing, worldVars>>

\* The adapter returns a known outcome, after which the dispatch has no late
\* effect; ok and verified, it is committed next.
ReturnKnown(verified) ==
  /\ Callable
  /\ stack # <<>>
  /\ verified => Top \notin inFlight /\ performed[Top] > 0
  /\ IF StateOf(Top) = "dispatch_recorded"
       THEN /\ Set(Top, "outcome_observed")
            /\ Record("outcome_observed", Top, NoTx)
            /\ committing' = IF verified THEN Top ELSE NoTx
            /\ inFlight' = inFlight \ {Top}
       ELSE UNCHANGED <<tx, durable, committing, inFlight>>
  /\ Pop
  /\ UNCHANGED <<version, performed>>

\* A fault of the step below: the version is that of the authorization, advanced.
StaleVersionCommit ==
  /\ committing # NoTx
  /\ version' = tx[committing].version + 1
  /\ Set(committing, "committed")
  /\ Record("canonical_committed", committing, version')
  /\ committing' = NoTx
  /\ UNCHANGED <<stack, worldVars>>

\* _commit_action_patch
CommitActionPatch ==
  /\ committing # NoTx
  /\ version' = version + 1
  /\ Set(committing, "committed")
  /\ Record("canonical_committed", committing, version + 1)
  /\ committing' = NoTx
  /\ UNCHANGED <<stack, worldVars>>

\* A fault of the step below: what was dispatched may still be called off.
CleanCancel(t) ==
  /\ Callable
  /\ StateOf(t) \in {"authorized", "dispatch_recorded"}
  /\ Set(t, "cancelled_pre_dispatch")
  /\ Record("cancelled", t, NoTx)
  /\ UNCHANGED <<version, stack, committing, worldVars>>

\* cancel_authorized_action
CancelAuthorizedAction(t) ==
  /\ Callable
  /\ \/ /\ StateOf(t) = "authorized"
        /\ Set(t, "cancelled_pre_dispatch")
        /\ Record("cancelled", t, NoTx)
     \/ /\ StateOf(t) = "dispatch_recorded"
        /\ Set(t, "cancellation_pending")
        /\ Record("cancellation_requested", t, NoTx)
  /\ UNCHANGED <<version, stack, committing, worldVars>>

\* Evidence tells the truth of the last dispatch of t: that its effect has
\* happened, or that it has not and never will.
Evidence(t, applied) ==
  /\ applied <=> t \notin inFlight
  /\ applied => performed[t] > 0
  /\ inFlight' = inFlight \ {t}
  /\ UNCHANGED performed

\* reconcile_action: the caller vouches for the outcome.
ReconcileAction(t, applied) ==
  /\ Callable
  /\ StateOf(t) = "reconciliation_required"
  /\ Evidence(t, applied)
  /\ Set(t, Reconciled(applied))
  /\ Record("reconciled", t, applied)
  /\ committing' = IF applied THEN t ELSE NoTx
  /\ UNCHANGED <<version, stack>>

\* reconcile_strong: evidence bound to the dispatch, also of a cancelled one.
ReconcileStrong(t, applied) ==
  /\ Callable
  /\ StateOf(t) \in {"reconciliation_required", "cancellation_pending"}
  /\ Evidence(t, applied)
  /\ Set(t, Reconciled(applied))
  /\ Record("reconciled_evidence", t, applied)
  /\ committing' = IF applied THEN t ELSE NoTx
  /\ UNCHANGED <<version, stack>>

\* record_remote_cancellation_acknowledgement: only an acknowledgement that the
\* effect was prevented is valid.
AcknowledgeRemoteCancellation(t) ==
  /\ Callable
  /\ StateOf(t) = "cancellation_pending"
  /\ Evidence(t, FALSE)
  /\ Set(t, Reconciled(FALSE))
  /\ Record("remote_cancellation_acknowledged", t, NoTx)
  /\ UNCHANGED <<version, stack, committing>>

\* save_snapshot
SaveSnapshot ==
  /\ Callable
  /\ durable' = [tx |-> tx, version |-> version]
  /\ UNCHANGED <<tx, version, stack, committing, worldVars>>

\* The process dies and open restores the ledger; when open raises, the system
\* stays down, which no step shows.
CrashAndOpen ==
  /\ durable # Unreadable
  /\ tx' = durable.tx
  /\ version' = durable.version
  /\ stack' = <<>>
  /\ committing' = NoTx
  /\ UNCHANGED <<durable, worldVars>>

\* The world performs what was dispatched.
Perform(t) ==
  /\ t \in inFlight
  /\ inFlight' = inFlight \ {t}
  /\ performed' = [performed EXCEPT ![t] = @ + 1]
  /\ UNCHANGED <<tx, version, stack, committing, durable>>

Next ==
  \/ \E t \in Txs :
       \/ \E a \in Actions, p \in Principals : Authorize(t, a, p)
       \/ Dispatch(t)
       \/ CancelAuthorizedAction(t)
       \/ \E applied \in BOOLEAN :
            \/ ReconcileAction(t, applied)
            \/ ReconcileStrong(t, applied)
       \/ AcknowledgeRemoteCancellation(t)
       \/ Perform(t)
  \/ ReturnUnknown
  \/ \E verified \in BOOLEAN : ReturnKnown(verified)
  \/ CommitActionPatch
  \/ SaveSnapshot
  \/ CrashAndOpen

Spec == Init /\ [][Next]_vars

-----------------------------------------------------------------------------
(* Safety.                                                                  *)

\* The effect of one transaction happens at most once, through retries, nested
\* dispatches, late effects, cancellations and crashes.
AtMostOnce == \A t \in Txs : performed[t] <= 1

\* What the ledger claims of the world is true: before a dispatch, after a clean
\* cancellation and after a negative reconciliation nothing has happened or
\* will; what is applied or committed has happened.
LedgerTruthful ==
  \A t \in Txs :
    /\ StateOf(t) \in {"none", "authorized", "cancelled_pre_dispatch", "reconciled_not_applied"}
         => performed[t] = 0 /\ t \notin inFlight
    /\ StateOf(t) \in {"reconciled_applied", "committed"}
         => performed[t] > 0 /\ t \notin inFlight

\* A transaction advances the canonical version once, when its patch is
\* committed, whatever crash falls between the outcome and the commit.
VersionCountsCommits ==
  version = 1 + Cardinality({t \in Txs : StateOf(t) = "committed"})

\* As long as the journal can be replayed, replaying it gives the live ledger.
ReplayAgrees ==
  durable # Unreadable => durable = [tx |-> tx, version |-> version]

\* A terminal transaction stays so, across restarts as well.
TerminalStatesLast ==
  [][\A t \in Txs : StateOf(t) \in {"committed", "cancelled_pre_dispatch"} =>
                      tx'[t] = tx[t]]_vars

=============================================================================
