---------------------------- MODULE MultiWriter ----------------------------
(***************************************************************************)
(* MultiWriterCoordinator of multiwriter.py over the production store.     *)
(*                                                                         *)
(* A coordinator keeps no state: a commit is a sequence of separately      *)
(* locked store calls made with values the caller read earlier.  A lease   *)
(* is a value that any number of threads of its process may present at a   *)
(* time; the steps of one commit interleave with acquisitions, commits and *)
(* crashes of the other processes and with commits of its own.             *)
(*                                                                         *)
(* A digest stands for the value it is taken of: two intents have the same *)
(* canonical digest when they are the same record, and the same semantic   *)
(* digest when they agree on Semantic.  The local expiry of a lease only   *)
(* makes a commit raise before it touches anything, so it needs no state   *)
(* here: a call that is refused for that reason never begins.              *)
(***************************************************************************)
EXTENDS ProductionStore

CONSTANTS
  Threads,     \* what executes the calls
  WriterIds,   \* writer ids; several process instances may share one
  IdOf,        \* the writer id of an exact identity
  Scopes,      \* conflict scopes
  Keys, NoKey, \* idempotency keys, and None
  Operations,  \* operation kind and payload of an intent, as one value
  IntentIds,
  Intents,     \* the intents the writers may present
  NoIntent     \* the absent entry of an index

ASSUME IntentAssumption ==
  /\ IdOf \in [Writers -> WriterIds]
  /\ NoKey \notin Keys
  /\ Intents \subseteq
       [id : IntentIds, writer : WriterIds, operation : Operations,
        idempotent : BOOLEAN, key : Keys \cup {NoKey}, scope : Scopes, effect : BOOLEAN]
  /\ NoIntent \notin Intents
  /\ \A i \in Intents : i.key # NoKey => i.idempotent  \* WriteIntent.create

VARIABLES
  lease,     \* the epoch of the lease each writer process holds
  call,      \* the commit each thread is executing, for the process of its epoch
  decisions, \* history: every CommitDecision returned to a caller
  refused    \* history: the intents whose commit ended in a ValueError

vars == <<epoch, revision, payload, granted, receipts, lease, call, decisions, refused>>

-----------------------------------------------------------------------------
(* The persisted envelope, and what commit decides from a copy of it.       *)

EmptyEnvelope ==
  [commits     |-> {},
   idempotency |-> [k \in Keys |-> NoIntent],
   heads       |-> [s \in Scopes |-> NoIntent],
   conflicts   |-> {}]

Semantic(i) == <<i.operation, i.idempotent, i.key, i.scope, i.effect>>

KeyIncumbent(i, p) == IF i.key = NoKey THEN NoIntent ELSE p.idempotency[i.key]
HeadIncumbent(i, p) == p.heads[i.scope]

\* The key is already bound to an intent with the same meaning.
Converges(i, p) ==
  /\ KeyIncumbent(i, p) \in p.commits
  /\ Semantic(KeyIncumbent(i, p)) = Semantic(i)

\* The key is already bound to an intent with another meaning.
KeyClash(i, p) ==
  /\ KeyIncumbent(i, p) \in p.commits
  /\ Semantic(KeyIncumbent(i, p)) # Semantic(i)

\* A fault of the test below: only the challenger's own flag is looked at.
ChallengerOnlyClash(i, p) ==
  /\ KeyIncumbent(i, p) = NoIntent
  /\ HeadIncumbent(i, p) \in p.commits
  /\ ~ i.idempotent

\* The scope is taken and one of the two intents cannot be repeated.
ScopeClash(i, p) ==
  /\ KeyIncumbent(i, p) = NoIntent
  /\ HeadIncumbent(i, p) \in p.commits
  /\ ~ (i.idempotent /\ HeadIncumbent(i, p).idempotent)

Incumbent(i, p) ==
  IF KeyIncumbent(i, p) # NoIntent THEN KeyIncumbent(i, p) ELSE HeadIncumbent(i, p)

\* WriteConflict: its id is a digest of exactly these fields.
ConflictOf(i, p) ==
  [scope   |-> i.scope,
   parties |-> {Incumbent(i, p), i},
   reason  |-> IF KeyClash(i, p) THEN "key" ELSE "scope"]

Clash(i, p) == KeyClash(i, p) \/ ScopeClash(i, p)

\* The ways commit raises ValueError after reading: an index entry whose intent
\* is missing, or a conflict whose parties do not share a scope.
Dangling(i, p) ==
  \/ KeyIncumbent(i, p) \notin p.commits \cup {NoIntent}
  \/ KeyIncumbent(i, p) = NoIntent /\ HeadIncumbent(i, p) \notin p.commits \cup {NoIntent}
Raises(i, p) == Dangling(i, p) \/ (Clash(i, p) /\ Incumbent(i, p).scope # i.scope)

AlreadyRecorded(i, p) == Clash(i, p) /\ ConflictOf(i, p) \in p.conflicts

\* A fault of the update below: the key is not indexed.
UnindexedCommitInto(i, p) ==
  [p EXCEPT !.commits = @ \cup {i}, !.heads[i.scope] = i]

\* The indexes and the registry after i is committed.
CommitInto(i, p) ==
  [p EXCEPT !.commits = @ \cup {i},
            !.idempotency = IF i.key = NoKey THEN @ ELSE [@ EXCEPT ![i.key] = i],
            !.heads[i.scope] = i]

\* A fault of the payload below: the challenger overwrites the incumbent.
OverwritingPayload(i, p) == CommitInto(i, p)

\* The payload that commit hands to conditional_commit.
NextPayload(i, p) ==
  IF Clash(i, p) THEN [p EXCEPT !.conflicts = @ \cup {ConflictOf(i, p)}]
                 ELSE CommitInto(i, p)

-----------------------------------------------------------------------------
(* The state of a commit in progress.                                       *)

Idle == [at |-> "idle"]

Steps == {"revision", "read", "store", "answer"}

Envelopes ==
  [commits     : SUBSET Intents,
   idempotency : [Keys -> Intents \cup {NoIntent}],
   heads       : [Scopes -> Intents \cup {NoIntent}],
   conflicts   : SUBSET [scope : Scopes, parties : SUBSET Intents, reason : {"key", "scope"}]]

Calls == [at : Steps, intent : Intents, expected : 0..MaxRevision,
          epoch : Epochs, copy : Envelopes]

Statuses == {"COMMITTED", "DUPLICATE_CONVERGED", "CONFLICT_RECONCILIATION_REQUIRED"}

Decisions == [intent : Intents, status : Statuses, authority : Intents]

\* The type of every variable.
TypeOK ==
  /\ StoreTypeOK
  /\ payload \in Envelopes
  /\ lease \in [Writers -> Epochs \cup {NoEpoch}]
  /\ call \in [Threads -> Calls \cup {Idle}]
  /\ decisions \subseteq Decisions
  /\ refused \subseteq Intents

Init ==
  /\ StoreInit(EmptyEnvelope)
  /\ lease = [w \in Writers |-> NoEpoch]
  /\ call = [t \in Threads |-> Idle]
  /\ decisions = {}
  /\ refused = {}

-----------------------------------------------------------------------------
(* The operations.                                                          *)

\* acquire: take the next epoch and keep it as the lease.
Acquire(w, expected) ==
  /\ AcquireEpoch(w, expected)
  /\ lease' = [lease EXCEPT ![w] = SuccessorEpoch(w)]
  /\ UNCHANGED <<call, decisions, refused>>

\* A thread of process w enters commit with w's lease, an intent of its writer id
\* and the revision the caller believes in.  _require_current_lease raises when a
\* newer epoch has fenced the lease; nothing was done yet.
BeginCommit(t, w, i, expected) ==
  /\ call[t] = Idle
  /\ i.writer = IdOf[w]
  /\ IsCurrentEpoch(lease[w])
  /\ call' = [call EXCEPT ![t] = [at |-> "revision", intent |-> i, expected |-> expected,
                                  epoch |-> lease[w], copy |-> EmptyEnvelope]]
  /\ UNCHANGED <<storeVars, lease, decisions, refused>>

MoveTo(t, step) == call' = [call EXCEPT ![t].at = step]
Abandon(t) == call' = [call EXCEPT ![t] = Idle]

\* A fault of the step below: the comparison is left to conditional_commit.
TrustRevision(t) ==
  /\ call[t].at = "revision"
  /\ MoveTo(t, "read")
  /\ UNCHANGED <<storeVars, lease, decisions, refused>>

\* The early comparison with current_revision().
CheckRevision(t) ==
  /\ call[t].at = "revision"
  /\ IF call[t].expected = revision THEN MoveTo(t, "read") ELSE Abandon(t)
  /\ UNCHANGED <<storeVars, lease, decisions, refused>>

\* read_payload and the decision taken from the copy alone.
ReadPayload(t) ==
  LET i == call[t].intent
      next == IF Converges(i, payload) \/ AlreadyRecorded(i, payload) THEN "answer" ELSE "store"
  IN /\ call[t].at = "read"
     /\ IF Raises(i, payload)
          THEN /\ Abandon(t)
               /\ refused' = refused \cup {i}
          ELSE /\ call' = [call EXCEPT ![t].at = next, ![t].copy = payload]
               /\ UNCHANGED refused
     /\ UNCHANGED <<storeVars, lease, decisions>>

\* The CommitDecision of t's call, but for the revision it reports, which is that
\* of the write, or is read again after the copy when there was none.
DecisionOf(t, status, authority) ==
  [intent |-> call[t].intent, status |-> status, authority |-> authority]

\* conditional_commit with the payload derived from the copy.
StorePayload(t) ==
  LET i == call[t].intent
      p == call[t].copy
      decision == IF Clash(i, p)
        THEN DecisionOf(t, "CONFLICT_RECONCILIATION_REQUIRED", Incumbent(i, p))
        ELSE DecisionOf(t, "COMMITTED", i)
  IN /\ call[t].at = "store"
     /\ ConditionalCommit(call[t].epoch, call[t].expected, NextPayload(i, p))
     /\ decisions' = decisions \cup {decision}
     /\ Abandon(t)
     /\ UNCHANGED <<lease, refused>>

\* conditional_commit refuses: the epoch or the revision moved since the checks.
StoreConflict(t) ==
  /\ call[t].at = "store"
  /\ ~ WriteAllowed(call[t].epoch, call[t].expected)
  /\ Abandon(t)
  /\ UNCHANGED <<storeVars, lease, decisions, refused>>

\* A duplicate, or a conflict already on record, is answered without a write.
AnswerFromCopy(t) ==
  LET i == call[t].intent
      p == call[t].copy
      status == IF Converges(i, p) THEN "DUPLICATE_CONVERGED"
                                   ELSE "CONFLICT_RECONCILIATION_REQUIRED"
  IN /\ call[t].at = "answer"
     /\ decisions' = decisions \cup {DecisionOf(t, status, Incumbent(i, p))}
     /\ Abandon(t)
     /\ UNCHANGED <<storeVars, lease, refused>>

\* The writer process dies: its lease and its calls were in memory only.
Crash(w) ==
  /\ lease' = [lease EXCEPT ![w] = NoEpoch]
  /\ call' = [t \in Threads |-> IF call[t] # Idle /\ call[t].epoch.writer = w THEN Idle ELSE call[t]]
  /\ UNCHANGED <<storeVars, decisions, refused>>

Next ==
  \/ \E w \in Writers :
       \/ \E expected \in 0..MaxEpoch : Acquire(w, expected)
       \/ Crash(w)
  \/ \E t \in Threads :
       \/ \E w \in Writers, i \in Intents, expected \in 0..MaxRevision : BeginCommit(t, w, i, expected)
       \/ CheckRevision(t)
       \/ ReadPayload(t)
       \/ StorePayload(t)
       \/ StoreConflict(t)
       \/ AnswerFromCopy(t)

Spec == Init /\ [][Next]_vars

-----------------------------------------------------------------------------
(* Safety.                                                                  *)

\* The compare-and-swap of conditional_commit is enough to make commit atomic:
\* whenever the store would accept a write, the copy the write was derived from
\* is still the whole payload.  It rests on the early revision check as well:
\* without it a caller that guesses a future revision overwrites a commit.
FreshCopyWhenWriteAllowed ==
  \A t \in Threads :
    call[t].at = "store" /\ WriteAllowed(call[t].epoch, call[t].expected)
      => call[t].copy = payload

\* A non-idempotent intent is the only one ever committed in its scope, though
\* commit compares a challenger with the scope's latest intent alone.
ExclusiveNonIdempotent ==
  \A i, j \in payload.commits :
    i.scope = j.scope /\ ~ i.idempotent => i = j

\* An idempotency key belongs to one committed intent for ever, in whatever
\* scopes and epochs it is presented again.
OneIntentPerKey ==
  \A i, j \in payload.commits : i.key # NoKey /\ i.key = j.key => i = j

\* What a caller was told stays true: a committed or authoritative intent is
\* never lost from the store, and a conflict it was told of stays on record.
DurableDecisions ==
  \A d \in decisions :
    /\ d.authority \in payload.commits
    /\ d.status = "COMMITTED" => d.authority = d.intent
    /\ d.status = "DUPLICATE_CONVERGED" => Semantic(d.authority) = Semantic(d.intent)
    /\ d.status = "CONFLICT_RECONCILIATION_REQUIRED" =>
         \E c \in payload.conflicts : c.parties = {d.authority, d.intent}

\* The coordinator implements the atomic registry.  The steps of a commit
\* stutter, except the store's write and the answer given from a copy.
Registry == INSTANCE CorrectnessRegistry WITH
  commits   <- payload.commits,
  conflicts <- {[parties |-> c.parties, reason |-> c.reason] : c \in payload.conflicts},
  holder    <- epoch.writer,
  answers   <- decisions

\* Every behaviour of the coordinator is one of the registry.
ImplementsRegistry == Registry!Spec

=============================================================================
