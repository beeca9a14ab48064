------------------------- MODULE MultiWriterProofs -------------------------
(***************************************************************************)
(* The coordinator's safety, for every set of writers, intents, scopes and *)
(* keys and every bound.                                                   *)
(*                                                                         *)
(* The invariant has four parts.  IndexesSound: the two indexes answer for *)
(* all committed intents, so a decision that looks at one index entry has  *)
(* looked at everything.  CallsSound: a call past its revision check has   *)
(* an expected revision that is not ahead of the store's, so that a write  *)
(* is accepted only while the copy it comes from is the payload.  StoreInv *)
(* is the store's own.  DurableDecisions follows as commits and conflicts  *)
(* only grow.                                                              *)
(***************************************************************************)
EXTENDS MultiWriter, TLAPS

-----------------------------------------------------------------------------
(* The store: each of its operations keeps StoreInv, whoever calls it.       *)

\* EpochsSliceRevisions is not inductive alone: it takes that everything granted
\* or written so far lies at or below the current epoch and revision, and that
\* the epoch now held is one of those granted.
StoreHistory ==
  /\ epoch # NoEpoch => epoch \in granted
  /\ \A g \in granted : g.number <= epoch.number /\ g.acquired <= revision
  /\ \A r \in receipts : r.committed <= revision

StoreInv == StoreTypeOK /\ StoreHistory /\ EpochsSliceRevisions

\* The empty store satisfies the invariant, whatever its initial payload.
LEMMA StoreInitInv ==
  ASSUME NEW p, StoreInit(p)
  PROVE  StoreInv
BY StoreAssumption DEF StoreInit, StoreInv, StoreTypeOK, StoreHistory, EpochsSliceRevisions

\* The epoch acquire_epoch builds is a well-formed one.
LEMMA SuccessorEpochType ==
  ASSUME StoreTypeOK, epoch.number < MaxEpoch, NEW w \in Writers
  PROVE  SuccessorEpoch(w) \in Epochs
<1>1. epoch.number \in 0..MaxEpoch
  BY StoreAssumption DEF StoreTypeOK, Epochs, NoEpoch
<1>2. epoch.number + 1 \in 1..MaxEpoch
  BY <1>1, StoreAssumption
<1>. QED
  BY <1>1, <1>2 DEF StoreTypeOK, SuccessorEpoch, Epochs

\* acquire_epoch preserves the invariant: the new epoch starts where the
\* revisions end, so no receipt of an earlier epoch can lie beyond it.
LEMMA AcquireEpochInv ==
  ASSUME StoreInv, NEW w \in Writers, NEW expected, AcquireEpoch(w, expected)
  PROVE  StoreInv'
<1>. DEFINE new == SuccessorEpoch(w)
<1>1. new \in Epochs
  BY SuccessorEpochType DEF StoreInv, AcquireEpoch
<1>2. /\ epoch' = new /\ granted' = granted \cup {new}
      /\ revision' = revision /\ receipts' = receipts
  BY DEF AcquireEpoch
<1>3. StoreTypeOK'
  BY <1>1, <1>2 DEF StoreInv, StoreTypeOK
<1>4. epoch.number \in Nat /\ revision \in Nat
  BY StoreAssumption DEF StoreInv, StoreTypeOK, Epochs, NoEpoch
<1>5. new.number = epoch.number + 1 /\ new.acquired = revision
  BY DEF SuccessorEpoch
<1>6. \A g \in granted : g.number \in Nat /\ g.acquired \in Nat
  BY StoreAssumption DEF StoreInv, StoreTypeOK, Epochs
<1>7. \A r \in receipts : r.epoch.number \in Nat /\ r.committed \in Nat
  BY StoreAssumption DEF StoreInv, StoreTypeOK, Epochs, Receipts
<1>8. StoreHistory'
  BY <1>2, <1>4, <1>5, <1>6 DEF StoreInv, StoreHistory
<1>9. EpochsSliceRevisions'
  BY <1>2, <1>4, <1>5, <1>7 DEF StoreInv, StoreHistory, EpochsSliceRevisions
<1>. QED
  BY <1>3, <1>8, <1>9 DEF StoreInv

\* conditional_commit preserves the invariant: the writer presents the epoch
\* now held, and no later one has been granted.
LEMMA ConditionalCommitInv ==
  ASSUME StoreInv, NEW e, NEW expected, NEW p, ConditionalCommit(e, expected, p)
  PROVE  StoreInv' /\ revision' = revision + 1 /\ payload' = p /\ expected = revision
<1>. DEFINE receipt == [epoch |-> e, expected |-> revision, committed |-> revision + 1]
<1>1. /\ e = epoch /\ epoch # NoEpoch /\ expected = revision
      /\ revision' = revision + 1 /\ payload' = p /\ revision < MaxRevision
      /\ receipts' = receipts \cup {receipt} /\ epoch' = epoch /\ granted' = granted
  BY DEF ConditionalCommit, WriteAllowed, IsCurrentEpoch
<1>2. e \in granted /\ e \in Epochs
  BY <1>1 DEF StoreInv, StoreHistory, StoreTypeOK
<1>3. revision \in Nat /\ revision + 1 \in 1..MaxRevision
  BY <1>1, StoreAssumption DEF StoreInv, StoreTypeOK
<1>4. receipt \in Receipts
  BY <1>1, <1>2, <1>3, StoreAssumption DEF Receipts
<1>5. StoreTypeOK'
  BY <1>1, <1>3, <1>4, StoreAssumption DEF StoreInv, StoreTypeOK
<1>6. \A g \in granted : g.number \in Nat /\ g.acquired \in Nat
  BY StoreAssumption DEF StoreInv, StoreTypeOK, Epochs
<1>7. \A r \in receipts : r.committed \in Nat
  BY StoreAssumption DEF StoreInv, StoreTypeOK, Receipts
<1>8. StoreHistory'
  BY <1>1, <1>3, <1>6, <1>7 DEF StoreInv, StoreHistory
<1>9. EpochsSliceRevisions'
  BY <1>1, <1>2, <1>3, <1>6 DEF StoreInv, StoreHistory, EpochsSliceRevisions
<1>. QED
  BY <1>1, <1>5, <1>8, <1>9 DEF StoreInv

\* What leaves the store's bookkeeping alone preserves the invariant.
LEMMA StoreStutter ==
  ASSUME StoreInv, UNCHANGED <<epoch, revision, granted, receipts>>
  PROVE  StoreInv'
BY DEF StoreInv, StoreTypeOK, StoreHistory, EpochsSliceRevisions

-----------------------------------------------------------------------------
(* The coordinator.                                                         *)

IndexesSound(p) ==
  /\ \A k \in Keys : p.idempotency[k] # NoIntent =>
       p.idempotency[k] \in p.commits /\ p.idempotency[k].key = k
  /\ \A j \in p.commits : j.key # NoKey => p.idempotency[j.key] = j
  /\ \A s \in Scopes : p.heads[s] # NoIntent =>
       p.heads[s] \in p.commits /\ p.heads[s].scope = s
  /\ \A j \in p.commits : p.heads[j.scope] # NoIntent
  /\ \A j \in p.commits : ~ j.idempotent => p.heads[j.scope] = j

Exclusion(p) == \A i, j \in p.commits : i.scope = j.scope /\ ~ i.idempotent => i = j

\* What one call may rely on.
CallSound(t) ==
  LET c == call[t] IN
  /\ c # Idle => c.intent.writer = IdOf[c.epoch.writer]
  /\ c.at \in {"read", "store"} => c.expected <= revision
  /\ c.at = "store" =>
       /\ ~ Converges(c.intent, c.copy)
       /\ ~ Raises(c.intent, c.copy)
       /\ c.expected = revision => c.copy = payload
  /\ c.at = "answer" =>
       /\ Converges(c.intent, c.copy) \/ AlreadyRecorded(c.intent, c.copy)
       /\ c.copy.commits \subseteq payload.commits
       /\ c.copy.conflicts \subseteq payload.conflicts

CallsSound == \A t \in Threads : CallSound(t)

LeasesSound == \A w \in Writers : lease[w] # NoEpoch => lease[w].writer = w

IInv ==
  /\ TypeOK
  /\ StoreInv
  /\ IndexesSound(payload)
  /\ Exclusion(payload)
  /\ LeasesSound
  /\ CallsSound
  /\ DurableDecisions

-----------------------------------------------------------------------------
(* The decision, as a function of an intent and an envelope.                *)

\* An intent has the fields WriteIntent.create gives it.
LEMMA IntentFields ==
  ASSUME NEW i \in Intents
  PROVE  /\ i.writer \in WriterIds /\ i.scope \in Scopes /\ i.idempotent \in BOOLEAN
         /\ i.key \in Keys \cup {NoKey}
         /\ i.key # NoKey => i.idempotent /\ i.key \in Keys
         /\ i # NoIntent
BY IntentAssumption

\* When nothing stands in the way of i, its key is free and its scope is either
\* empty or holds repeatable intents only.
LEMMA NothingInTheWay ==
  ASSUME NEW p \in Envelopes, NEW i \in Intents, IndexesSound(p), Exclusion(p),
         ~ Converges(i, p), ~ Clash(i, p), ~ Raises(i, p)
  PROVE  /\ \A j \in p.commits : i.key # NoKey => j.key # i.key
         /\ \A j \in p.commits : i.scope = j.scope => i.idempotent /\ j.idempotent
<1>1. p.commits \subseteq Intents
  BY DEF Envelopes
<1>2. KeyIncumbent(i, p) = NoIntent
  BY DEF Converges, Clash, KeyClash, Raises, Dangling
<1>3. \A j \in p.commits : i.key # NoKey => j.key # i.key
  BY <1>1, <1>2, IntentFields DEF KeyIncumbent, IndexesSound
<1>4. ASSUME NEW j \in p.commits, i.scope = j.scope
      PROVE  i.idempotent /\ j.idempotent
  <2>1. p.heads[i.scope] # NoIntent
    BY <1>4 DEF IndexesSound
  <2>2. p.heads[i.scope] \in p.commits
    BY <1>2, <2>1 DEF Raises, Dangling, HeadIncumbent
  <2>3. i.idempotent /\ p.heads[i.scope].idempotent
    BY <1>2, <2>2 DEF Clash, ScopeClash, HeadIncumbent
  <2>. QED
    BY <1>1, <1>4, <2>3, IntentFields DEF IndexesSound
<1>. QED
  BY <1>3, <1>4

\* What CommitInto does to each field of the envelope.
LEMMA CommitIntoFields ==
  ASSUME NEW p \in Envelopes, NEW i \in Intents
  PROVE  /\ CommitInto(i, p) \in Envelopes
         /\ CommitInto(i, p).commits = p.commits \cup {i}
         /\ CommitInto(i, p).conflicts = p.conflicts
         /\ \A k \in Keys : CommitInto(i, p).idempotency[k] =
                              IF k = i.key THEN i ELSE p.idempotency[k]
         /\ \A s \in Scopes : CommitInto(i, p).heads[s] =
                                IF s = i.scope THEN i ELSE p.heads[s]
BY IntentFields, IntentAssumption DEF CommitInto, Envelopes

\* Committing an intent that nothing stands in the way of keeps the indexes
\* sound and the exclusion.
LEMMA CommitIntoSound ==
  ASSUME NEW p \in Envelopes, NEW i \in Intents, IndexesSound(p), Exclusion(p),
         ~ Converges(i, p), ~ Clash(i, p), ~ Raises(i, p)
  PROVE  IndexesSound(CommitInto(i, p)) /\ Exclusion(CommitInto(i, p))
<1>. DEFINE q == CommitInto(i, p)
<1>1. /\ q.commits = p.commits \cup {i}
      /\ \A k \in Keys : q.idempotency[k] = IF k = i.key THEN i ELSE p.idempotency[k]
      /\ \A s \in Scopes : q.heads[s] = IF s = i.scope THEN i ELSE p.heads[s]
  BY CommitIntoFields
<1>2. /\ \A j \in p.commits : i.key # NoKey => j.key # i.key
      /\ \A j \in p.commits : i.scope = j.scope => i.idempotent /\ j.idempotent
  BY NothingInTheWay
<1>3. \A j \in q.commits : j \in Intents
  BY <1>1 DEF Envelopes
<1>. HIDE DEF q
<1>4. Exclusion(q)
  BY <1>1, <1>2 DEF Exclusion
<1>5. IndexesSound(q)
  <2>1. \A k \in Keys : q.idempotency[k] # NoIntent =>
          q.idempotency[k] \in q.commits /\ q.idempotency[k].key = k
    BY <1>1 DEF IndexesSound
  <2>2. \A j \in q.commits : j.key # NoKey => q.idempotency[j.key] = j
    BY <1>1, <1>2, <1>3, IntentFields DEF IndexesSound
  <2>3. \A s \in Scopes : q.heads[s] # NoIntent =>
          q.heads[s] \in q.commits /\ q.heads[s].scope = s
    BY <1>1 DEF IndexesSound
  <2>4. \A j \in q.commits : q.heads[j.scope] # NoIntent
    BY <1>1, <1>3, IntentFields DEF IndexesSound
  <2>5. \A j \in q.commits : ~ j.idempotent => q.heads[j.scope] = j
    BY <1>1, <1>2, <1>3, IntentFields DEF IndexesSound
  <2>. QED
    BY <2>1, <2>2, <2>3, <2>4, <2>5 DEF IndexesSound
<1>. QED
  BY <1>4, <1>5 DEF q

\* A clash has an incumbent among the committed intents, of the same scope, that
\* the challenger may not join.
LEMMA ClashIncumbent ==
  ASSUME NEW p \in Envelopes, NEW i \in Intents, IndexesSound(p),
         Clash(i, p), ~ Raises(i, p)
  PROVE  /\ Incumbent(i, p) \in p.commits
         /\ Incumbent(i, p).scope = i.scope
         /\ \/ i.key # NoKey /\ Incumbent(i, p).key = i.key
            \/ ~ (i.idempotent /\ Incumbent(i, p).idempotent)
<1>1. NoIntent \notin p.commits
  BY IntentAssumption DEF Envelopes
<1>2. CASE KeyClash(i, p)
  BY <1>1, <1>2, IntentFields DEF KeyClash, Raises, Clash, Incumbent, KeyIncumbent, IndexesSound
<1>3. CASE ScopeClash(i, p)
  BY <1>1, <1>3 DEF ScopeClash, Raises, Clash, Incumbent
<1>. QED
  BY <1>2, <1>3 DEF Clash

\* The envelope with one more conflict differs in that field only.
LEMMA ConflictFields ==
  ASSUME NEW p \in Envelopes, NEW i \in Intents, IndexesSound(p),
         Clash(i, p), ~ Raises(i, p)
  PROVE  /\ NextPayload(i, p) \in Envelopes
         /\ NextPayload(i, p).commits = p.commits
         /\ NextPayload(i, p).idempotency = p.idempotency
         /\ NextPayload(i, p).heads = p.heads
         /\ NextPayload(i, p).conflicts = p.conflicts \cup {ConflictOf(i, p)}
         /\ ConflictOf(i, p).parties = {Incumbent(i, p), i}
<1>1. Incumbent(i, p) \in Intents
  BY ClashIncumbent DEF Envelopes
<1>2. ConflictOf(i, p) \in [scope : Scopes, parties : SUBSET Intents, reason : {"key", "scope"}]
  BY <1>1, IntentFields DEF ConflictOf
<1>. QED
  BY <1>2 DEF NextPayload, Envelopes, ConflictOf

\* Whatever commit hands to the store is a sound envelope that has lost nothing.
LEMMA NextPayloadSound ==
  ASSUME NEW p \in Envelopes, NEW i \in Intents, IndexesSound(p), Exclusion(p),
         ~ Converges(i, p), ~ Raises(i, p)
  PROVE  /\ NextPayload(i, p) \in Envelopes
         /\ IndexesSound(NextPayload(i, p)) /\ Exclusion(NextPayload(i, p))
         /\ p.commits \subseteq NextPayload(i, p).commits
         /\ p.conflicts \subseteq NextPayload(i, p).conflicts
<1>1. CASE Clash(i, p)
  BY <1>1, ConflictFields DEF IndexesSound, Exclusion
<1>2. CASE ~ Clash(i, p)
  BY <1>2, CommitIntoFields, CommitIntoSound DEF NextPayload
<1>. QED
  BY <1>1, <1>2

-----------------------------------------------------------------------------
(* The steps.                                                               *)

\* The initial state satisfies the invariant.
LEMMA InitIInv == Init => IInv
<1>. SUFFICES ASSUME Init PROVE IInv
  OBVIOUS
<1>1. StoreInv
  BY StoreInitInv DEF Init
<1>2. payload = EmptyEnvelope /\ EmptyEnvelope \in Envelopes
  BY DEF Init, StoreInit, EmptyEnvelope, Envelopes
<1>3. TypeOK
  BY <1>1, <1>2 DEF Init, TypeOK, StoreInv
<1>4. IndexesSound(payload) /\ Exclusion(payload)
  BY <1>2 DEF EmptyEnvelope, IndexesSound, Exclusion
<1>5. LeasesSound /\ CallsSound /\ DurableDecisions
  BY DEF Init, LeasesSound, CallsSound, CallSound, DurableDecisions, Idle
<1>. QED
  BY <1>1, <1>3, <1>4, <1>5 DEF IInv

\* A step that leaves the store alone and replaces one thread's call preserves
\* the invariant when the new call is sound: the other calls see no change.
LEMMA OnlyCallChanges ==
  ASSUME IInv, UNCHANGED <<storeVars, decisions>>,
         NEW t \in Threads, NEW c \in Calls \cup {Idle},
         call' = [call EXCEPT ![t] = c],
         lease' \in [Writers -> Epochs \cup {NoEpoch}], LeasesSound',
         refused' \in SUBSET Intents,
         CallSound(t)'
  PROVE  IInv'
<1>1. /\ epoch' = epoch /\ revision' = revision /\ payload' = payload
      /\ granted' = granted /\ receipts' = receipts /\ decisions' = decisions
  BY DEF storeVars
<1>2. StoreInv'
  BY <1>1, StoreStutter DEF IInv
<1>3. TypeOK'
  BY <1>1, <1>2 DEF IInv, TypeOK, StoreInv
<1>4. IndexesSound(payload)' /\ Exclusion(payload)' /\ DurableDecisions'
  BY <1>1 DEF IInv, IndexesSound, Exclusion, DurableDecisions
<1>5. CallsSound'
  <2>. SUFFICES ASSUME NEW v \in Threads, v # t PROVE CallSound(v)'
    BY DEF CallsSound
  <2>1. call'[v] = call[v]
    BY DEF IInv, TypeOK
  <2>. QED
    BY <1>1, <2>1 DEF IInv, CallsSound, CallSound
<1>. QED
  BY <1>2, <1>3, <1>4, <1>5 DEF IInv

\* The current step of a call in progress may be replaced by a later one.
LEMMA MoveToCall ==
  ASSUME IInv, NEW t \in Threads, call[t].at \in Steps, NEW step \in Steps, MoveTo(t, step)
  PROVE  /\ call[t] \in Calls
         /\ [call[t] EXCEPT !.at = step] \in Calls
         /\ call' = [call EXCEPT ![t] = [call[t] EXCEPT !.at = step]]
         /\ call'[t] = [call[t] EXCEPT !.at = step]
<1>1. call[t] \in Calls
  BY DEF IInv, TypeOK, Idle, Steps
<1>. QED
  BY <1>1 DEF IInv, TypeOK, MoveTo, Calls

\* A call that ends without a write preserves the invariant.
LEMMA AbandonStep ==
  ASSUME IInv, NEW t \in Threads, Abandon(t), UNCHANGED <<storeVars, decisions>>,
         lease' \in [Writers -> Epochs \cup {NoEpoch}], LeasesSound',
         refused' \in SUBSET Intents
  PROVE  IInv'
<1>1. call' = [call EXCEPT ![t] = Idle] /\ call'[t] = Idle
  BY DEF Abandon, IInv, TypeOK
<1>2. CallSound(t)'
  BY <1>1 DEF CallSound, Idle
<1>. QED
  BY <1>1, <1>2, OnlyCallChanges

LEMMA LeaseUnchanged ==
  ASSUME IInv, lease' = lease
  PROVE  lease' \in [Writers -> Epochs \cup {NoEpoch}] /\ LeasesSound'
BY DEF IInv, TypeOK, LeasesSound

\* acquire preserves the invariant.
LEMMA AcquireStep ==
  ASSUME IInv, NEW w \in Writers, NEW expected, Acquire(w, expected)
  PROVE  IInv'
<1>1. StoreInv'
  BY AcquireEpochInv DEF Acquire, IInv
<1>2. /\ revision' = revision /\ payload' = payload /\ call' = call
      /\ decisions' = decisions /\ refused' = refused
      /\ lease' = [lease EXCEPT ![w] = SuccessorEpoch(w)]
  BY DEF Acquire, AcquireEpoch
<1>3. SuccessorEpoch(w) \in Epochs /\ SuccessorEpoch(w).writer = w
  BY SuccessorEpochType DEF Acquire, AcquireEpoch, IInv, StoreInv, SuccessorEpoch
<1>4. TypeOK' /\ LeasesSound'
  BY <1>1, <1>2, <1>3 DEF IInv, TypeOK, StoreInv, LeasesSound
<1>5. IndexesSound(payload)' /\ Exclusion(payload)' /\ DurableDecisions' /\ CallsSound'
  BY <1>2 DEF IInv, IndexesSound, Exclusion, DurableDecisions, CallsSound, CallSound
<1>. QED
  BY <1>1, <1>4, <1>5 DEF IInv

\* Entering commit preserves the invariant.
LEMMA BeginCommitStep ==
  ASSUME IInv, NEW t \in Threads, NEW w \in Writers, NEW i \in Intents,
         NEW expected \in 0..MaxRevision, BeginCommit(t, w, i, expected)
  PROVE  IInv'
<1>. DEFINE c == [at |-> "revision", intent |-> i, expected |-> expected,
                  epoch |-> lease[w], copy |-> EmptyEnvelope]
<1>1. lease[w] \in Epochs /\ lease[w].writer = w /\ i.writer = IdOf[w]
  BY DEF BeginCommit, IsCurrentEpoch, IInv, TypeOK, LeasesSound
<1>2. EmptyEnvelope \in Envelopes
  BY DEF EmptyEnvelope, Envelopes
<1>3. c \in Calls
  BY <1>1, <1>2 DEF Calls, Steps
<1>4. /\ call' = [call EXCEPT ![t] = c] /\ call'[t] = c
      /\ UNCHANGED <<storeVars, decisions>> /\ lease' = lease /\ refused' = refused
  BY DEF BeginCommit, IInv, TypeOK
<1>5. CallSound(t)'
  BY <1>1, <1>4 DEF CallSound
<1>6. refused' \in SUBSET Intents
  BY <1>4 DEF IInv, TypeOK
<1>. HIDE DEF c
<1>. QED
  BY <1>3, <1>4, <1>5, <1>6, LeaseUnchanged, OnlyCallChanges

\* The early comparison preserves the invariant; what it tells the call lasts,
\* for revisions never go back.
LEMMA CheckStep ==
  ASSUME IInv, NEW t \in Threads, CheckRevision(t)
  PROVE  IInv'
<1>1. /\ UNCHANGED <<storeVars, decisions>> /\ lease' = lease
      /\ refused' \in SUBSET Intents /\ revision' = revision
  BY DEF CheckRevision, IInv, TypeOK, storeVars
<1>2. CASE Abandon(t)
  BY <1>1, <1>2, LeaseUnchanged, AbandonStep
<1>3. ASSUME call[t].at = "revision", call[t].expected = revision, MoveTo(t, "read")
      PROVE  IInv'
  <2>. DEFINE c == [call[t] EXCEPT !.at = "read"]
  <2>1. call[t] \in Calls /\ c \in Calls /\ call' = [call EXCEPT ![t] = c] /\ call'[t] = c
    BY <1>3, MoveToCall DEF Steps
  <2>2. /\ c.at = "read" /\ c.intent = call[t].intent /\ c.epoch = call[t].epoch
        /\ c.expected = call[t].expected
    BY <2>1 DEF Calls
  <2>3. revision \in Nat
    BY StoreAssumption DEF IInv, StoreInv, StoreTypeOK
  <2>4. CallSound(t)'
    BY <1>1, <1>3, <2>1, <2>2, <2>3 DEF IInv, CallsSound, CallSound, Idle
  <2>. HIDE DEF c
  <2>. QED
    BY <1>1, <2>1, <2>4, LeaseUnchanged, OnlyCallChanges
<1>. QED
  BY <1>2, <1>3 DEF CheckRevision

\* Reading the payload preserves the invariant: the copy is the payload now, and
\* the call goes on to write only if it found nothing to report.
LEMMA ReadPayloadStep ==
  ASSUME IInv, NEW t \in Threads, ReadPayload(t)
  PROVE  IInv'
<1>. DEFINE i == call[t].intent
            next == IF Converges(i, payload) \/ AlreadyRecorded(i, payload)
                    THEN "answer" ELSE "store"
            c == [call[t] EXCEPT !.at = next, !.copy = payload]
<1>1. call[t].at = "read" /\ call[t] \in Calls /\ i \in Intents
  BY DEF ReadPayload, IInv, TypeOK, Idle, Calls
<1>2. /\ UNCHANGED <<storeVars, decisions>> /\ lease' = lease
      /\ revision' = revision /\ payload' = payload
  BY DEF ReadPayload, storeVars
<1>3. CASE Raises(i, payload)
  <2>1. Abandon(t) /\ refused' \in SUBSET Intents
    BY <1>1, <1>3 DEF ReadPayload, IInv, TypeOK
  <2>. QED
    BY <1>2, <2>1, LeaseUnchanged, AbandonStep
<1>4. CASE ~ Raises(i, payload)
  <2>1. call' = [call EXCEPT ![t] = c] /\ refused' = refused
    BY <1>4 DEF ReadPayload
  <2>2. payload \in Envelopes
    BY DEF IInv, TypeOK
  <2>3. /\ c \in Calls
        /\ c.at = next /\ c.copy = payload /\ c.intent = i /\ c.epoch = call[t].epoch
        /\ c.expected = call[t].expected
    BY <1>1, <2>2 DEF Calls, Steps
  <2>4. call'[t] = c
    BY <2>1 DEF IInv, TypeOK
  <2>5. refused' \in SUBSET Intents
    BY <2>1 DEF IInv, TypeOK
  <2>6. i.writer = IdOf[call[t].epoch.writer] /\ call[t].expected <= revision
    BY <1>1 DEF IInv, CallsSound, CallSound, Idle
  <2>. HIDE DEF c
  <2>7. CallSound(t)'
    BY <1>2, <1>4, <2>3, <2>4, <2>6 DEF CallSound
  <2>. QED
    BY <1>2, <2>1, <2>3, <2>5, <2>7, LeaseUnchanged, OnlyCallChanges
<1>. QED
  BY <1>3, <1>4

\* What w's write amounts to when the store accepts it: the payload it was
\* derived from is the payload it replaces.
LEMMA StorePayloadFacts ==
  ASSUME IInv, NEW t \in Threads, StorePayload(t)
  PROVE  /\ call[t].intent \in Intents /\ call[t].copy = payload
         /\ call[t].intent.writer = IdOf[epoch.writer] /\ epoch \in Epochs
         /\ ~ Converges(call[t].intent, payload) /\ ~ Raises(call[t].intent, payload)
         /\ payload' = NextPayload(call[t].intent, payload)
         /\ epoch' = epoch /\ revision' = revision + 1 /\ StoreInv'
<1>1. ConditionalCommit(call[t].epoch, call[t].expected, NextPayload(call[t].intent, call[t].copy))
  BY DEF StorePayload
<1>2. call[t] \in Calls
  BY DEF StorePayload, IInv, TypeOK, Idle
<1>3. /\ StoreInv' /\ revision' = revision + 1 /\ call[t].expected = revision
      /\ payload' = NextPayload(call[t].intent, call[t].copy)
  BY <1>1, ConditionalCommitInv DEF IInv
<1>4. call[t].epoch = epoch /\ epoch' = epoch
  BY <1>1 DEF ConditionalCommit, WriteAllowed, IsCurrentEpoch
<1>. QED
  BY <1>2, <1>3, <1>4 DEF StorePayload, IInv, CallsSound, CallSound, Idle, Calls

\* The store's write preserves the invariant.
LEMMA StorePayloadStep ==
  ASSUME IInv, NEW t \in Threads, StorePayload(t)
  PROVE  IInv'
<1>. DEFINE i == call[t].intent
<1>1. /\ i \in Intents /\ call[t].copy = payload /\ payload \in Envelopes
      /\ ~ Converges(i, payload) /\ ~ Raises(i, payload)
      /\ payload' = NextPayload(i, payload)
      /\ revision' = revision + 1 /\ StoreInv'
      /\ IndexesSound(payload) /\ Exclusion(payload)
  BY StorePayloadFacts DEF IInv, TypeOK
<1>2. /\ payload' \in Envelopes
      /\ IndexesSound(payload)' /\ Exclusion(payload)'
      /\ payload.commits \subseteq payload'.commits
      /\ payload.conflicts \subseteq payload'.conflicts
  BY <1>1, NextPayloadSound DEF IndexesSound, Exclusion
<1>3. lease' = lease /\ refused' = refused /\ call' = [call EXCEPT ![t] = Idle]
  BY DEF StorePayload, Abandon
<1>4. revision \in Nat /\ revision' \in 0..MaxRevision
  BY <1>1, StoreAssumption DEF StoreInv, StoreTypeOK, IInv
<1>5. DurableDecisions' /\ decisions' \subseteq Decisions
  <2>1. CASE Clash(i, payload)
    <3>. DEFINE d == DecisionOf(t, "CONFLICT_RECONCILIATION_REQUIRED",
                                Incumbent(i, payload))
    <3>1. decisions' = decisions \cup {d}
      BY <1>1, <2>1 DEF StorePayload
    <3>2. /\ Incumbent(i, payload) \in payload.commits
          /\ payload'.commits = payload.commits
          /\ ConflictOf(i, payload) \in payload'.conflicts
          /\ ConflictOf(i, payload).parties = {Incumbent(i, payload), i}
      BY <1>1, <2>1, ClashIncumbent, ConflictFields
    <3>3. /\ d.authority = Incumbent(i, payload) /\ d.intent = i
          /\ d.status = "CONFLICT_RECONCILIATION_REQUIRED"
      BY DEF DecisionOf
    <3>4. d \in Decisions
      BY <1>1, <1>4, <3>2 DEF DecisionOf, Decisions, Statuses, Envelopes
    <3>. HIDE DEF d
    <3>. QED
      BY <1>2, <3>1, <3>2, <3>3, <3>4 DEF IInv, TypeOK, DurableDecisions
  <2>2. CASE ~ Clash(i, payload)
    <3>. DEFINE d == DecisionOf(t, "COMMITTED", i)
    <3>1. decisions' = decisions \cup {d}
      BY <1>1, <2>2 DEF StorePayload
    <3>2. i \in payload'.commits
      BY <1>1, <2>2, CommitIntoFields DEF NextPayload
    <3>3. d.authority = i /\ d.intent = i /\ d.status = "COMMITTED"
      BY DEF DecisionOf
    <3>4. d \in Decisions
      BY <1>1, <1>4 DEF DecisionOf, Decisions, Statuses
    <3>. HIDE DEF d
    <3>. QED
      BY <1>2, <3>1, <3>2, <3>3, <3>4 DEF IInv, TypeOK, DurableDecisions
  <2>. QED
    BY <2>1, <2>2
<1>6. TypeOK'
  BY <1>1, <1>2, <1>3, <1>5 DEF IInv, TypeOK, StoreInv
<1>7. LeasesSound'
  BY <1>3 DEF IInv, LeasesSound
<1>8. CallsSound'
  <2>. SUFFICES ASSUME NEW v \in Threads PROVE CallSound(v)'
    BY DEF CallsSound
  <2>1. CASE v = t
    <3>1. call'[v] = Idle
      BY <1>3, <2>1 DEF IInv, TypeOK
    <3>. QED
      BY <3>1 DEF CallSound, Idle
  <2>2. CASE v # t
    <3>1. call'[v] = call[v] /\ CallSound(v)
      BY <1>3, <2>2 DEF IInv, TypeOK, CallsSound
    <3>2. call[v].at \in {"read", "store"} => call[v].expected \in Nat
      BY StoreAssumption DEF IInv, TypeOK, Calls, Idle
    <3>. QED
      BY <1>1, <1>2, <1>4, <3>1, <3>2 DEF CallSound
  <2>. QED
    BY <2>1, <2>2
<1>. QED
  BY <1>1, <1>2, <1>5, <1>6, <1>7, <1>8 DEF IInv

\* What a call that answers from its copy reports is still so in the store.
LEMMA AnswerFacts ==
  ASSUME IInv, NEW t \in Threads, call[t].at = "answer"
  PROVE  LET i == call[t].intent
             p == call[t].copy
         IN /\ call[t] \in Calls /\ i \in Intents
            /\ Incumbent(i, p) \in payload.commits
            /\ \/ /\ Converges(i, p)
                  /\ Semantic(Incumbent(i, p)) = Semantic(i)
                  /\ i.key # NoKey
               \/ /\ ~ Converges(i, p)
                  /\ ConflictOf(i, p) \in payload.conflicts
<1>. DEFINE i == call[t].intent
            p == call[t].copy
<1>1. call[t] \in Calls
  BY DEF IInv, TypeOK, Idle
<1>2. i \in Intents /\ p \in Envelopes
  BY <1>1 DEF Calls
<1>3. NoIntent \notin p.commits
  BY <1>2, IntentAssumption DEF Envelopes
<1>4. /\ Converges(i, p) \/ AlreadyRecorded(i, p)
      /\ p.commits \subseteq payload.commits
      /\ p.conflicts \subseteq payload.conflicts
  BY DEF IInv, CallsSound, CallSound
<1>. HIDE DEF i, p
<1>5. CASE Converges(i, p)
  <2>1. KeyIncumbent(i, p) # NoIntent /\ KeyIncumbent(i, p) \in payload.commits
    BY <1>3, <1>4, <1>5 DEF Converges
  <2>2. Incumbent(i, p) = KeyIncumbent(i, p) /\ i.key # NoKey
    BY <2>1 DEF Incumbent, KeyIncumbent
  <2>3. Semantic(Incumbent(i, p)) = Semantic(i)
    BY <1>5, <2>2 DEF Converges
  <2>. QED
    BY <1>1, <1>2, <1>5, <2>1, <2>2, <2>3 DEF i, p
<1>6. CASE ~ Converges(i, p) /\ AlreadyRecorded(i, p)
  <2>1. Incumbent(i, p) \in p.commits
    BY <1>3, <1>6 DEF AlreadyRecorded, Clash, KeyClash, ScopeClash, Incumbent
  <2>2. ConflictOf(i, p) \in p.conflicts
    BY <1>6 DEF AlreadyRecorded
  <2>. QED
    BY <1>1, <1>2, <1>4, <1>6, <2>1, <2>2 DEF i, p
<1>. QED
  BY <1>1, <1>2, <1>4, <1>5, <1>6 DEF i, p

\* Answering from the copy preserves the invariant.
LEMMA AnswerFromCopyStep ==
  ASSUME IInv, NEW t \in Threads, AnswerFromCopy(t)
  PROVE  IInv'
<1>. DEFINE i == call[t].intent
            p == call[t].copy
            status == IF Converges(i, p) THEN "DUPLICATE_CONVERGED"
                                         ELSE "CONFLICT_RECONCILIATION_REQUIRED"
            d == DecisionOf(t, status, Incumbent(i, p))
<1>1. call[t].at = "answer" /\ decisions' = decisions \cup {d}
  BY DEF AnswerFromCopy
<1>2. /\ epoch' = epoch /\ revision' = revision /\ payload' = payload
      /\ granted' = granted /\ receipts' = receipts
      /\ lease' = lease /\ refused' = refused /\ call' = [call EXCEPT ![t] = Idle]
  BY DEF AnswerFromCopy, storeVars, Abandon
<1>3. /\ i \in Intents
      /\ Incumbent(i, p) \in payload.commits
      /\ \/ Converges(i, p) /\ Semantic(Incumbent(i, p)) = Semantic(i)
         \/ ~ Converges(i, p) /\ ConflictOf(i, p) \in payload.conflicts
  BY <1>1, AnswerFacts
<1>4. ConflictOf(i, p).parties = {Incumbent(i, p), i}
  BY DEF ConflictOf
<1>5. /\ d.intent = i /\ d.authority = Incumbent(i, p) /\ d.status = status
  BY DEF DecisionOf
<1>6. d \in Decisions
  BY <1>3 DEF DecisionOf, Decisions, Statuses, IInv, TypeOK, StoreTypeOK, Envelopes
<1>7. DurableDecisions' /\ decisions' \subseteq Decisions
  <2>. HIDE DEF d, i, p
  <2>. QED
    BY <1>1, <1>2, <1>3, <1>4, <1>5, <1>6 DEF IInv, TypeOK, DurableDecisions
<1>8. StoreInv'
  BY <1>2, StoreStutter DEF IInv
<1>9. TypeOK'
  BY <1>2, <1>7, <1>8 DEF IInv, TypeOK, StoreInv
<1>10. IndexesSound(payload)' /\ Exclusion(payload)' /\ LeasesSound'
  BY <1>2 DEF IInv, IndexesSound, Exclusion, LeasesSound
<1>11. CallsSound'
  BY <1>2 DEF IInv, TypeOK, CallsSound, CallSound, Idle
<1>. QED
  BY <1>7, <1>8, <1>9, <1>10, <1>11 DEF IInv

\* A refused write preserves the invariant.
LEMMA StoreConflictStep ==
  ASSUME IInv, NEW t \in Threads, StoreConflict(t)
  PROVE  IInv'
<1>1. /\ Abandon(t) /\ UNCHANGED <<storeVars, decisions>> /\ lease' = lease
      /\ refused' \in SUBSET Intents
  BY DEF StoreConflict, IInv, TypeOK
<1>. QED
  BY <1>1, LeaseUnchanged, AbandonStep

\* The death of a process preserves the invariant: it only ends calls.
LEMMA CrashStep ==
  ASSUME IInv, NEW w \in Writers, Crash(w)
  PROVE  IInv'
<1>1. /\ epoch' = epoch /\ revision' = revision /\ payload' = payload
      /\ granted' = granted /\ receipts' = receipts
      /\ decisions' = decisions /\ refused' = refused
      /\ lease' = [lease EXCEPT ![w] = NoEpoch]
  BY DEF Crash, storeVars
<1>2. /\ call' \in [Threads -> Calls \cup {Idle}]
      /\ \A t \in Threads : call'[t] \in {call[t], Idle}
  BY DEF Crash, IInv, TypeOK
<1>3. StoreInv'
  BY <1>1, StoreStutter DEF IInv
<1>4. TypeOK' /\ LeasesSound'
  BY <1>1, <1>2, <1>3 DEF IInv, TypeOK, StoreInv, LeasesSound
<1>5. IndexesSound(payload)' /\ Exclusion(payload)' /\ DurableDecisions'
  BY <1>1 DEF IInv, IndexesSound, Exclusion, DurableDecisions
<1>6. ASSUME NEW t \in Threads PROVE CallSound(t)'
  <2>1. CASE call'[t] = call[t]
    BY <1>1, <2>1 DEF IInv, CallsSound, CallSound
  <2>2. CASE call'[t] = Idle
    BY <2>2 DEF CallSound, Idle
  <2>. QED
    BY <1>2, <2>1, <2>2
<1>. QED
  BY <1>3, <1>4, <1>5, <1>6 DEF IInv, CallsSound

\* A step that changes nothing preserves the invariant.
LEMMA StutterStep ==
  ASSUME IInv, UNCHANGED vars
  PROVE  IInv'
<1>1. StoreInv'
  BY StoreStutter DEF IInv, vars
<1>. QED
  BY <1>1 DEF IInv, TypeOK, StoreInv, IndexesSound, Exclusion, LeasesSound, CallsSound,
              CallSound, DurableDecisions, vars

\* Every step preserves the invariant.
LEMMA NextIInv == IInv /\ [Next]_vars => IInv'
<1>. SUFFICES ASSUME IInv, [Next]_vars PROVE IInv'
  OBVIOUS
<1>1. CASE UNCHANGED vars
  BY <1>1, StutterStep
<1>2. ASSUME NEW w \in Writers, (\E expected \in 0..MaxEpoch : Acquire(w, expected)) \/ Crash(w)
      PROVE  IInv'
  BY <1>2, AcquireStep, CrashStep
<1>3. ASSUME NEW t \in Threads,
             \/ \E w \in Writers, i \in Intents, expected \in 0..MaxRevision :
                  BeginCommit(t, w, i, expected)
             \/ CheckRevision(t) \/ ReadPayload(t) \/ StorePayload(t)
             \/ StoreConflict(t) \/ AnswerFromCopy(t)
      PROVE  IInv'
  BY <1>3, BeginCommitStep, CheckStep, ReadPayloadStep, StorePayloadStep,
     StoreConflictStep, AnswerFromCopyStep
<1>. QED
  BY <1>1, <1>2, <1>3 DEF Next

\* The inductive invariant holds in every behaviour of the coordinator.
THEOREM Invariance == Spec => []IInv
BY InitIInv, NextIInv, PTL DEF Spec

\* Every variable keeps its type.
THEOREM TypeCorrectness == Spec => []TypeOK
BY Invariance, PTL DEF IInv

\* A fenced writer never writes again: each epoch owns a slice of the revisions.
THEOREM Fencing == Spec => []EpochsSliceRevisions
<1>1. IInv => EpochsSliceRevisions
  BY DEF IInv, StoreInv
<1>. QED
  BY <1>1, Invariance, PTL

\* The store accepts a write only while the copy behind it is still the payload,
\* so no commit overwrites another (commit's compare-and-swap).
THEOREM NoLostUpdate == Spec => []FreshCopyWhenWriteAllowed
<1>1. IInv => FreshCopyWhenWriteAllowed
  BY DEF IInv, CallsSound, CallSound, FreshCopyWhenWriteAllowed, WriteAllowed
<1>. QED
  BY <1>1, Invariance, PTL

\* A non-idempotent intent is alone in its scope.
THEOREM NonIdempotentAlone == Spec => []ExclusiveNonIdempotent
<1>1. IInv => ExclusiveNonIdempotent
  BY DEF IInv, Exclusion, ExclusiveNonIdempotent
<1>. QED
  BY <1>1, Invariance, PTL

\* A key belongs to one committed intent.
THEOREM KeysConverge == Spec => []OneIntentPerKey
<1>1. IInv => OneIntentPerKey
  BY DEF IInv, IndexesSound, OneIntentPerKey
<1>. QED
  BY <1>1, Invariance, PTL

\* Decisions stay true for ever.
THEOREM DecisionsLast == Spec => []DurableDecisions
BY Invariance, PTL DEF IInv

-----------------------------------------------------------------------------
(* The coordinator implements the atomic registry.                          *)

\* The conflicts the registry sees.
RecordedPairs == {[parties |-> c.parties, reason |-> c.reason] : c \in payload.conflicts}

\* A conflict added to the payload is one pair added to the registry.
LEMMA ConflictMap ==
  ASSUME NEW c, payload'.conflicts = payload.conflicts \cup {c}
  PROVE  RecordedPairs' = RecordedPairs \cup {[parties |-> c.parties, reason |-> c.reason]}
BY DEF RecordedPairs

\* The store's write is the registry's Commit or Refuse.
LEMMA StorePayloadMap ==
  ASSUME IInv, NEW t \in Threads, StorePayload(t)
  PROVE  \E i \in Intents : Registry!Commit(epoch.writer, i) \/ Registry!Refuse(epoch.writer, i)
<1>1. PICK i \in Intents : i = call[t].intent
  BY StorePayloadFacts
<1>2. /\ call[t].copy = payload /\ payload \in Envelopes
      /\ i.writer = IdOf[epoch.writer] /\ epoch' = epoch
      /\ ~ Converges(i, payload) /\ ~ Raises(i, payload)
      /\ payload' = NextPayload(i, payload)
      /\ IndexesSound(payload) /\ Exclusion(payload)
  BY <1>1, StorePayloadFacts DEF IInv, TypeOK
<1>3. CASE Clash(i, payload)
  <2>1. /\ Incumbent(i, payload) \in payload.commits
        /\ Incumbent(i, payload).scope = i.scope
        /\ \/ i.key # NoKey /\ Incumbent(i, payload).key = i.key
           \/ ~ (i.idempotent /\ Incumbent(i, payload).idempotent)
    BY <1>2, <1>3, ClashIncumbent
  <2>2. PICK j \in payload.commits : j = Incumbent(i, payload)
    BY <2>1
  <2>3. PICK c : c = ConflictOf(i, payload)
    OBVIOUS
  <2>4. /\ payload'.commits = payload.commits
        /\ payload'.conflicts = payload.conflicts \cup {c}
        /\ c.parties = {i, j}
    BY <1>2, <1>3, <2>2, <2>3, ConflictFields
  <2>5. c.reason \in {"key", "scope"}
    BY <2>3 DEF ConflictOf
  <2>6. Registry!Exclusive(i, j) /\ i.scope = j.scope
    BY <2>1, <2>2 DEF Registry!Exclusive, Registry!SameKey
  <2>7. PICK d : d = DecisionOf(t, "CONFLICT_RECONCILIATION_REQUIRED", j)
    OBVIOUS
  <2>8. decisions' = decisions \cup {d}
    BY <1>1, <1>2, <1>3, <2>2, <2>7 DEF StorePayload
  <2>10. Registry!Answer(i, "CONFLICT_RECONCILIATION_REQUIRED", j)
    BY <1>1, <2>7, <2>8 DEF DecisionOf, Registry!Answer
  <2>11. RecordedPairs' = RecordedPairs \cup {[parties |-> {i, j}, reason |-> c.reason]}
    BY <2>4, ConflictMap
  <2>. QED
    BY <1>2, <2>2, <2>4, <2>5, <2>6, <2>10, <2>11 DEF Registry!Refuse, RecordedPairs
<1>4. CASE ~ Clash(i, payload)
  <2>1. /\ \A j \in payload.commits : i.key # NoKey => j.key # i.key
        /\ \A j \in payload.commits : i.scope = j.scope => i.idempotent /\ j.idempotent
    BY <1>2, <1>4, NothingInTheWay
  <2>2. Registry!Admissible(i)
    BY <2>1 DEF Registry!Admissible, Registry!Exclusive, Registry!SameKey
  <2>3. /\ payload'.commits = payload.commits \cup {i}
        /\ payload'.conflicts = payload.conflicts
    BY <1>2, <1>4, CommitIntoFields DEF NextPayload
  <2>4. PICK d : d = DecisionOf(t, "COMMITTED", i)
    OBVIOUS
  <2>5. decisions' = decisions \cup {d}
    BY <1>1, <1>2, <1>4, <2>4 DEF StorePayload
  <2>7. Registry!Answer(i, "COMMITTED", i)
    BY <1>1, <2>4, <2>5 DEF DecisionOf, Registry!Answer
  <2>. QED
    BY <1>2, <2>2, <2>3, <2>7 DEF Registry!Commit
<1>. QED
  BY <1>3, <1>4

\* An answer from the copy is the registry's Converge or Report.
LEMMA AnswerFromCopyMap ==
  ASSUME IInv, NEW t \in Threads, AnswerFromCopy(t)
  PROVE  \E i \in Intents : Registry!Converge(i) \/ Registry!Report(i)
<1>1. payload' = payload /\ epoch' = epoch /\ call[t].at = "answer"
  BY DEF AnswerFromCopy, storeVars
<1>2. PICK i \in Intents : i = call[t].intent
  BY <1>1, AnswerFacts
<1>3. PICK p : p = call[t].copy
  OBVIOUS
<1>4. PICK j \in payload.commits : j = Incumbent(i, p)
  BY <1>1, <1>2, <1>3, AnswerFacts
<1>5. \/ Converges(i, p) /\ Semantic(j) = Semantic(i) /\ i.key # NoKey
      \/ ~ Converges(i, p) /\ ConflictOf(i, p) \in payload.conflicts
  BY <1>1, <1>2, <1>3, <1>4, AnswerFacts
<1>6. CASE Converges(i, p)
  <2>1. PICK d : d = DecisionOf(t, "DUPLICATE_CONVERGED", j)
    OBVIOUS
  <2>2. decisions' = decisions \cup {d}
    BY <1>2, <1>3, <1>4, <1>6, <2>1 DEF AnswerFromCopy
  <2>4. Registry!Answer(i, "DUPLICATE_CONVERGED", j)
    BY <1>2, <2>1, <2>2 DEF DecisionOf, Registry!Answer
  <2>5. Registry!SameKey(i, j) /\ Registry!Semantic(i) = Registry!Semantic(j)
    BY <1>5, <1>6 DEF Registry!SameKey, Registry!Semantic, Semantic
  <2>. QED
    BY <1>1, <2>4, <2>5 DEF Registry!Converge
<1>7. CASE ~ Converges(i, p)
  <2>1. PICK d : d = DecisionOf(t, "CONFLICT_RECONCILIATION_REQUIRED", j)
    OBVIOUS
  <2>2. decisions' = decisions \cup {d}
    BY <1>2, <1>3, <1>4, <1>7, <2>1 DEF AnswerFromCopy
  <2>4. Registry!Answer(i, "CONFLICT_RECONCILIATION_REQUIRED", j)
    BY <1>2, <2>1, <2>2 DEF DecisionOf, Registry!Answer
  <2>5. PICK c \in payload.conflicts : c.parties = {i, j}
    BY <1>4, <1>5, <1>7 DEF ConflictOf
  <2>6. PICK r : r = [parties |-> c.parties, reason |-> c.reason]
    OBVIOUS
  <2>7. r \in RecordedPairs /\ r.parties = {i, j}
    BY <2>5, <2>6 DEF RecordedPairs
  <2>. QED
    BY <1>1, <2>4, <2>7 DEF Registry!Report, RecordedPairs
<1>. QED
  BY <1>6, <1>7

\* Every step of the coordinator is a step of the registry or a stutter.
LEMMA StepMap == IInv /\ [Next]_vars => [Registry!Next]_(Registry!vars)
<1>. SUFFICES ASSUME IInv, [Next]_vars
              PROVE  Registry!Next \/ UNCHANGED <<payload, epoch, decisions>>
  BY DEF Registry!vars
<1>1. CASE UNCHANGED vars
  BY <1>1 DEF vars
<1>2. ASSUME NEW w \in Writers, NEW expected \in 0..MaxEpoch, Acquire(w, expected)
      PROVE  Registry!Grant(w)
  BY <1>2 DEF Acquire, AcquireEpoch, SuccessorEpoch, Registry!Grant
<1>3. ASSUME NEW w \in Writers, Crash(w)
      PROVE  UNCHANGED <<payload, epoch, decisions>>
  BY <1>3 DEF Crash, storeVars
<1>4. ASSUME NEW t \in Threads,
             \/ \E w \in Writers, i \in Intents, expected \in 0..MaxRevision :
                  BeginCommit(t, w, i, expected)
             \/ CheckRevision(t) \/ ReadPayload(t) \/ StoreConflict(t)
      PROVE  UNCHANGED <<payload, epoch, decisions>>
  BY <1>4 DEF BeginCommit, CheckRevision, ReadPayload, StoreConflict, storeVars
<1>5. ASSUME NEW t \in Threads, StorePayload(t) PROVE Registry!Next
  <2>1. epoch.writer \in Writers
    BY <1>5, StorePayloadFacts DEF Epochs
  <2>. QED
    BY <1>5, <2>1, StorePayloadMap DEF Registry!Next
<1>6. ASSUME NEW t \in Threads, AnswerFromCopy(t) PROVE Registry!Next
  BY <1>6, AnswerFromCopyMap DEF Registry!Next
<1>. QED
  BY <1>1, <1>2, <1>3, <1>4, <1>5, <1>6 DEF Next, Registry!Next

\* The initial state is one of the registry's.
LEMMA InitMap == Init => Registry!Init
BY DEF Init, StoreInit, EmptyEnvelope, NoEpoch, Registry!Init

\* Every behaviour of the coordinator, its steps interleaved and its processes
\* crashing, is a behaviour of the registry that decides in one step.
THEOREM Refinement == Spec => ImplementsRegistry
BY InitMap, StepMap, Invariance, PTL DEF Spec, ImplementsRegistry, Registry!Spec
=============================================================================
