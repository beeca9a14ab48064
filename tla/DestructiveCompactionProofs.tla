-------------------- MODULE DestructiveCompactionProofs --------------------
(***************************************************************************)
(* Proofs about DestructiveCompaction: its types, that no commit touches   *)
(* the authoritative content, that the switches form one chain, and that a *)
(* compaction that nobody has overtaken can always be taken up again.      *)
(***************************************************************************)
EXTENDS DestructiveCompaction, TLAPS

-----------------------------------------------------------------------------
(* The types of the store.                                                  *)

\* The empty store, whatever its payload.
LEMMA StoreInitType ==
  ASSUME NEW p, StoreInit(p)
  PROVE  StoreTypeOK
BY StoreAssumption DEF StoreInit, StoreTypeOK

\* acquire_epoch builds an epoch with the next number.
LEMMA AcquireEpochType ==
  ASSUME StoreTypeOK, NEW w \in Writers, NEW expected, AcquireEpoch(w, expected)
  PROVE  StoreTypeOK'
<1>1. epoch.number \in 0..MaxEpoch /\ epoch.number + 1 \in 1..MaxEpoch
  BY StoreAssumption DEF StoreTypeOK, Epochs, NoEpoch, AcquireEpoch
<1>2. SuccessorEpoch(w) \in Epochs
  BY <1>1 DEF StoreTypeOK, SuccessorEpoch, Epochs
<1>. QED
  BY <1>2 DEF AcquireEpoch, StoreTypeOK

\* conditional_commit replaces the payload and moves the revision by one.
LEMMA ConditionalCommitType ==
  ASSUME StoreTypeOK, NEW e, NEW expected, NEW p, ConditionalCommit(e, expected, p)
  PROVE  /\ StoreTypeOK'
         /\ revision' = revision + 1 /\ payload' = p /\ expected = revision
<1>1. e \in Epochs
  BY DEF ConditionalCommit, WriteAllowed, IsCurrentEpoch, StoreTypeOK
<1>2. [epoch |-> e, expected |-> revision, committed |-> revision + 1] \in Receipts
  BY <1>1, StoreAssumption DEF ConditionalCommit, StoreTypeOK, Receipts
<1>3. StoreTypeOK'
  BY <1>2, StoreAssumption DEF ConditionalCommit, StoreTypeOK
<1>. QED
  BY <1>3 DEF ConditionalCommit, WriteAllowed

\* What leaves the store's bookkeeping alone.
LEMMA StoreStutterType ==
  ASSUME StoreTypeOK, UNCHANGED <<epoch, revision, granted, receipts>>
  PROVE  StoreTypeOK'
BY DEF StoreTypeOK

-----------------------------------------------------------------------------
(* The payload of the store.                                                *)

\* The phases, as a commit sees them: n is what the phase that comes next for
\* compaction c, under epoch e, makes of the payload.
NextPhase(c, e, n) ==
  \/ \E q \in Requests : /\ q.id = c
                         /\ payload.compactions[c] = NoCompaction
                         /\ MayPrepare(q)
                         /\ n = PreparedCopy(q)
  \/ /\ Recoverable(payload, c)
     /\ \/ /\ payload.compactions[c].phase = Prepared
           /\ n = ShadowCopy(c, payload.compactions[c].content)
        \/ payload.compactions[c].phase = ShadowWritten /\ n = SwitchCopy(c, e)
        \/ payload.compactions[c].phase = SwitchCommitted /\ n = RetiredCopy(c)
        \/ payload.compactions[c].phase = SourceRetired /\ n = VerifiedCopy(c)

\* What the pointer designates is among the representations.
PointerPresent == payload.pointer # NoRep => payload.reps[payload.pointer] # NoContent

\* Every switch was made at a revision that has passed.
SwitchesPast == \A c \in Switched : payload.compactions[c].switch.expected < revision

\* The chain of switches and the recovery of the compactions are not inductive
\* alone: that a switch is later than those before it takes SwitchesPast, and
\* that a prepare which meets its own source leaves it alone takes PointerPresent.
PayloadInv ==
  /\ PointerPresent
  /\ SwitchesPast
  /\ SwitchesChain
  /\ RecoverableUnlessOvertaken

\* What a request, a compaction and the payload consist of.
LEMMA PayloadFields ==
  ASSUME TypeOK
  PROVE  /\ payload.pointer \in Reps \cup {NoRep}
         /\ payload.reps \in [Reps -> Contents \cup {NoContent}]
         /\ payload.compactions \in [Compactions -> Records \cup {NoCompaction}]
         /\ \A c \in Known : /\ c \in Compactions
                             /\ payload.compactions[c] \in Records
         /\ \A q \in Requests : /\ q.id \in Compactions /\ q.source \in Reps
                                /\ q.target \in Reps /\ q.content \in Contents
BY CompactionAssumption DEF TypeOK, Payloads, Known

\* The five phases are five numbers in order.
LEMMA Phases ==
  /\ Prepared \in Prepared..Verified /\ ShadowWritten \in Prepared..Verified
  /\ SwitchCommitted \in Prepared..Verified /\ SourceRetired \in Prepared..Verified
  /\ Verified \in Prepared..Verified
  /\ Prepared..Verified \subseteq Nat
BY DEF Prepared, ShadowWritten, SwitchCommitted, SourceRetired, Verified

\* A representation put under an id, or taken away from it.
Put(reps, r, x) == [reps EXCEPT ![r] = x]

\* What a prepare makes of the payload, field by field.
LEMMA PreparedFields ==
  ASSUME TypeOK, NEW q \in Requests, NEW n, n = PreparedCopy(q)
  PROVE  /\ n \in Payloads
         /\ n.pointer = q.source
         /\ n.reps = Put(payload.reps, q.source, q.content)
         /\ n.compactions[q.id] = [phase |-> Prepared, source |-> q.source, target |-> q.target,
                                   content |-> q.content, switch |-> NoSwitch]
         /\ \A d \in Compactions : d # q.id => n.compactions[d] = payload.compactions[d]
<1>. DEFINE new == [phase |-> Prepared, source |-> q.source, target |-> q.target,
                    content |-> q.content, switch |-> NoSwitch]
<1>1. NoSwitch \in Switches
  BY StoreAssumption DEF NoSwitch, Switches
<1>2. new \in Records
  BY <1>1, Phases, PayloadFields DEF Records
<1>. HIDE DEF new
<1>3. n = [pointer |-> q.source, reps |-> [payload.reps EXCEPT ![q.source] = q.content],
           compactions |-> [payload.compactions EXCEPT ![q.id] = new]]
  BY DEF PreparedCopy, new
<1>4. n \in Payloads
  BY <1>2, <1>3, PayloadFields DEF Payloads
<1>5. n.compactions = [payload.compactions EXCEPT ![q.id] = new]
  BY <1>3
<1>. QED
  BY <1>3, <1>4, <1>5, PayloadFields DEF new, Put

\* The state a phase leaves a compaction in, the rest of it as it was.
After(c, phase, switch) ==
  [phase |-> phase, source |-> payload.compactions[c].source,
   target |-> payload.compactions[c].target,
   content |-> payload.compactions[c].content, switch |-> switch]

\* A change of phase alone, field by field.
LEMMA AtPhaseFields ==
  ASSUME TypeOK, NEW c \in Known, NEW phase \in Prepared..Verified
  PROVE  AtPhase(c, phase) =
           [pointer |-> payload.pointer, reps |-> payload.reps,
            compactions |-> [payload.compactions EXCEPT
              ![c] = After(c, phase, payload.compactions[c].switch)]]
<1>. DEFINE r == payload.compactions[c]
<1>1. payload = [pointer |-> payload.pointer, reps |-> payload.reps,
                 compactions |-> payload.compactions]
  BY DEF TypeOK, Payloads
<1>2. c \in DOMAIN payload.compactions /\ r \in Records
  BY PayloadFields
<1>3. [r EXCEPT !.phase = phase] = After(c, phase, r.switch)
  BY <1>2 DEF Records, After
<1>4. AtPhase(c, phase) = [payload EXCEPT !.compactions =
         [payload.compactions EXCEPT ![c] = [r EXCEPT !.phase = phase]]]
  BY DEF AtPhase
<1>. HIDE DEF r
<1>. QED
  BY <1>1, <1>3, <1>4 DEF r

\* A function stays one between the same sets when a value of the right set is put in.
LEMMA UpdateType ==
  ASSUME NEW A, NEW S, NEW f \in [A -> S], NEW a, NEW v \in S
  PROVE  [f EXCEPT ![a] = v] \in [A -> S]
OBVIOUS

\* What the four later phases make of the payload, field by field.
LEMMA ShadowFields ==
  ASSUME TypeOK, NEW c \in Known, NEW x \in Contents, NEW n, n = ShadowCopy(c, x)
  PROVE  /\ n \in Payloads
         /\ n.pointer = payload.pointer
         /\ n.reps = Put(payload.reps, payload.compactions[c].target, x)
         /\ n.compactions[c] = After(c, ShadowWritten, payload.compactions[c].switch)
         /\ \A d \in Compactions : d # c => n.compactions[d] = payload.compactions[d]
<1>1. n = [pointer |-> payload.pointer,
           reps |-> [payload.reps EXCEPT ![payload.compactions[c].target] = x],
           compactions |-> [payload.compactions EXCEPT
             ![c] = After(c, ShadowWritten, payload.compactions[c].switch)]]
  BY AtPhaseFields, Phases DEF ShadowCopy
<1>2. After(c, ShadowWritten, payload.compactions[c].switch) \in Records
  BY PayloadFields, Phases DEF After, Records
<1>3. n \in Payloads
  <2>1. n.reps \in [Reps -> Contents \cup {NoContent}]
    <3>1. n.reps = Put(payload.reps, payload.compactions[c].target, x)
      BY <1>1 DEF Put
    <3>2. /\ payload.reps \in [Reps -> Contents \cup {NoContent}]
          /\ x \in Contents \cup {NoContent}
      BY PayloadFields
    <3>. QED
      BY <3>1, <3>2, UpdateType DEF Put
  <2>2. n.compactions \in [Compactions -> Records \cup {NoCompaction}]
    BY <1>1, <1>2, PayloadFields
  <2>. QED
    BY <1>1, <2>1, <2>2, PayloadFields DEF Payloads
<1>4. \A d \in Compactions : n.compactions[d] =
        IF d = c THEN After(c, ShadowWritten, payload.compactions[c].switch)
                 ELSE payload.compactions[d]
  BY <1>1, PayloadFields
<1>. QED
  BY <1>1, <1>3, <1>4, PayloadFields DEF Put

LEMMA SwitchFields ==
  ASSUME TypeOK, NEW c \in Known, NEW e \in Epochs, NEW n, n = SwitchCopy(c, e)
  PROVE  /\ n \in Payloads
         /\ n.pointer = payload.compactions[c].target
         /\ n.reps = payload.reps
         /\ n.compactions[c] = After(c, SwitchCommitted, Switch(e, revision))
         /\ \A d \in Compactions : d # c => n.compactions[d] = payload.compactions[d]
<1>. DEFINE C == payload.compactions
            D == [C EXCEPT ![c].phase = SwitchCommitted, ![c].switch = Switch(e, revision)]
<1>1. c \in Compactions /\ C[c] \in Records /\ C \in [Compactions -> Records \cup {NoCompaction}]
  BY PayloadFields
<1>2. D[c] = After(c, SwitchCommitted, Switch(e, revision))
  BY <1>1 DEF Records, After
<1>3. \A d \in Compactions : d # c => D[d] = C[d]
  BY <1>1
<1>4. n.pointer = C[c].target /\ n.reps = payload.reps /\ n.compactions = D
  BY DEF SwitchCopy
<1>5. Switch(e, revision) \in Switches
  BY DEF Switch, Switches, TypeOK, StoreTypeOK
<1>6. D[c] \in Records
  BY <1>1, <1>2, <1>5, Phases DEF After, Records
<1>7. D \in [Compactions -> Records \cup {NoCompaction}]
  BY <1>1, <1>3, <1>6
<1>8. n = [pointer |-> C[c].target, reps |-> payload.reps, compactions |-> D]
  BY DEF SwitchCopy
<1>9. C[c].target \in Reps
  BY <1>1 DEF Records
<1>. HIDE DEF C, D
<1>10. n \in Payloads
  BY <1>7, <1>8, <1>9, PayloadFields DEF Payloads
<1>. QED
  BY <1>2, <1>3, <1>4, <1>10 DEF C

LEMMA RetiredFields ==
  ASSUME TypeOK, NEW c \in Known, NEW n, n = RetiredCopy(c)
  PROVE  /\ n \in Payloads
         /\ n.pointer = payload.pointer
         /\ n.reps = Put(payload.reps, payload.compactions[c].source, NoContent)
         /\ n.compactions[c] = After(c, SourceRetired, payload.compactions[c].switch)
         /\ \A d \in Compactions : d # c => n.compactions[d] = payload.compactions[d]
<1>1. n = [pointer |-> payload.pointer,
           reps |-> [payload.reps EXCEPT ![payload.compactions[c].source] = NoContent],
           compactions |-> [payload.compactions EXCEPT
             ![c] = After(c, SourceRetired, payload.compactions[c].switch)]]
  BY AtPhaseFields, Phases DEF RetiredCopy
<1>2. After(c, SourceRetired, payload.compactions[c].switch) \in Records
  BY PayloadFields, Phases DEF After, Records
<1>3. n \in Payloads
  <2>1. n.reps \in [Reps -> Contents \cup {NoContent}]
    <3>1. n.reps = Put(payload.reps, payload.compactions[c].source, NoContent)
      BY <1>1 DEF Put
    <3>. QED
      BY <3>1, UpdateType, PayloadFields DEF Put
  <2>2. n.compactions \in [Compactions -> Records \cup {NoCompaction}]
    BY <1>1, <1>2, PayloadFields
  <2>. QED
    BY <1>1, <2>1, <2>2, PayloadFields DEF Payloads
<1>4. \A d \in Compactions : n.compactions[d] =
        IF d = c THEN After(c, SourceRetired, payload.compactions[c].switch)
                 ELSE payload.compactions[d]
  BY <1>1, PayloadFields
<1>. QED
  BY <1>1, <1>3, <1>4, PayloadFields DEF Put

LEMMA VerifiedFields ==
  ASSUME TypeOK, NEW c \in Known, NEW n, n = VerifiedCopy(c)
  PROVE  /\ n \in Payloads
         /\ n.pointer = payload.pointer
         /\ n.reps = payload.reps
         /\ n.compactions[c] = After(c, Verified, payload.compactions[c].switch)
         /\ \A d \in Compactions : d # c => n.compactions[d] = payload.compactions[d]
<1>1. n = [pointer |-> payload.pointer, reps |-> payload.reps,
           compactions |-> [payload.compactions EXCEPT
             ![c] = After(c, Verified, payload.compactions[c].switch)]]
  BY AtPhaseFields, Phases DEF VerifiedCopy
<1>2. After(c, Verified, payload.compactions[c].switch) \in Records
  BY PayloadFields, Phases DEF After, Records
<1>3. n \in Payloads
  BY <1>1, <1>2, PayloadFields DEF Payloads
<1>4. \A d \in Compactions : n.compactions[d] =
        IF d = c THEN After(c, Verified, payload.compactions[c].switch)
                 ELSE payload.compactions[d]
  BY <1>1, PayloadFields
<1>. QED
  BY <1>1, <1>3, <1>4, PayloadFields

\* A compaction that can be taken up is known, and what it holds.
LEMMA RecoverableFacts ==
  ASSUME TypeOK, NEW c \in Compactions, Recoverable(payload, c)
  PROVE  LET r == payload.compactions[c] IN
         /\ c \in Known /\ r \in Records
         /\ r.source \in Reps /\ r.target \in Reps /\ r.content \in Contents
         /\ r.phase \in Prepared..Verified
         /\ r.source # r.target
         /\ payload.pointer = IF r.phase <= ShadowWritten THEN r.source ELSE r.target
         /\ payload.reps[r.source] = IF r.phase <= SwitchCommitted THEN r.content ELSE NoContent
         /\ payload.reps[r.target] = IF r.phase = Prepared THEN NoContent ELSE r.content
<1>1. c \in Known
  BY DEF Recoverable, Known
<1>. QED
  BY <1>1, PayloadFields DEF Recoverable, WellFormed, Records

\* The phases one by one: a prepare, a shadow, a switch, a retirement or a
\* verification of c, each with what it leaves.
LEMMA PhaseCases ==
  ASSUME TypeOK, NEW c \in Compactions, NEW e \in Epochs, NEW n, NextPhase(c, e, n)
  PROVE  \/ \E q \in Requests : /\ q.id = c /\ c \notin Known
                                /\ MayPrepare(q) /\ n = PreparedCopy(q)
         \/ /\ Recoverable(payload, c) /\ payload.compactions[c].phase = Prepared
            /\ n = ShadowCopy(c, payload.compactions[c].content)
         \/ /\ Recoverable(payload, c) /\ payload.compactions[c].phase = ShadowWritten
            /\ n = SwitchCopy(c, e)
         \/ /\ Recoverable(payload, c) /\ payload.compactions[c].phase = SwitchCommitted
            /\ n = RetiredCopy(c)
         \/ /\ Recoverable(payload, c) /\ payload.compactions[c].phase = SourceRetired
            /\ n = VerifiedCopy(c)
BY DEF NextPhase, Known

\* No phase changes what the pointer designates, or lets it designate nothing.
LEMMA PhaseKeepsAuthority ==
  ASSUME TypeOK, PointerPresent, NEW c \in Compactions, NEW e \in Epochs,
         NEW n, NextPhase(c, e, n)
  PROVE  /\ n \in Payloads
         /\ n.reps[n.pointer] # NoContent
         /\ payload.pointer # NoRep => n.reps[n.pointer] = payload.reps[payload.pointer]
<1>. DEFINE r == payload.compactions[c]
            Goal == /\ n \in Payloads
                    /\ n.reps[n.pointer] # NoContent
                    /\ payload.pointer # NoRep => n.reps[n.pointer] = payload.reps[payload.pointer]
<1>1. \A x \in Contents : x # NoContent
  BY CompactionAssumption
<1>2. Prepared = 1 /\ ShadowWritten = 2 /\ SwitchCommitted = 3 /\ SourceRetired = 4 /\ Verified = 5
  BY DEF Prepared, ShadowWritten, SwitchCommitted, SourceRetired, Verified
<1>3. ASSUME NEW q \in Requests, q.id = c, MayPrepare(q), n = PreparedCopy(q) PROVE Goal
  <2>1. n \in Payloads /\ n.pointer = q.source /\ n.reps[q.source] = q.content
    <3>1. n \in Payloads /\ n.pointer = q.source
          /\ n.reps = Put(payload.reps, q.source, q.content)
      BY <1>3, PreparedFields
    <3>2. q.source \in Reps /\ payload.reps \in [Reps -> Contents \cup {NoContent}]
      BY PayloadFields
    <3>. QED
      BY <3>1, <3>2 DEF Put
  <2>2. payload.pointer # NoRep => payload.pointer = q.source /\ payload.reps[q.source] = q.content
    BY <1>3 DEF MayPrepare, PointerPresent
  <2>. QED
    BY <1>1, <2>1, <2>2, PayloadFields
<1>4. ASSUME Recoverable(payload, c), r.phase = Prepared, n = ShadowCopy(c, r.content) PROVE Goal
  <2>1. n \in Payloads /\ n.pointer = payload.pointer
        /\ n.reps = Put(payload.reps, r.target, r.content)
    BY <1>4, RecoverableFacts, ShadowFields
  <2>2. payload.pointer = r.source /\ r.source # r.target /\ payload.reps[r.source] = r.content
        /\ r.content \in Contents /\ r.source \in Reps
    BY <1>2, <1>4, RecoverableFacts
  <2>. QED
    BY <1>1, <2>1, <2>2, PayloadFields DEF Put
<1>5. ASSUME Recoverable(payload, c), r.phase = ShadowWritten, n = SwitchCopy(c, e) PROVE Goal
  <2>1. n \in Payloads /\ n.pointer = r.target /\ n.reps = payload.reps
    BY <1>5, RecoverableFacts, SwitchFields
  <2>2. payload.pointer = r.source /\ payload.reps[r.source] = r.content
        /\ payload.reps[r.target] = r.content /\ r.content \in Contents
    BY <1>2, <1>5, RecoverableFacts
  <2>. QED
    BY <1>1, <2>1, <2>2
<1>6. ASSUME Recoverable(payload, c), r.phase = SwitchCommitted, n = RetiredCopy(c) PROVE Goal
  <2>1. n \in Payloads /\ n.pointer = payload.pointer
        /\ n.reps = Put(payload.reps, r.source, NoContent)
    BY <1>6, RecoverableFacts, RetiredFields
  <2>2. payload.pointer = r.target /\ r.source # r.target /\ payload.reps[r.target] = r.content
        /\ r.content \in Contents /\ r.target \in Reps
    BY <1>2, <1>6, RecoverableFacts
  <2>. QED
    BY <1>1, <2>1, <2>2, PayloadFields DEF Put
<1>7. ASSUME Recoverable(payload, c), r.phase = SourceRetired, n = VerifiedCopy(c) PROVE Goal
  <2>1. n \in Payloads /\ n.pointer = payload.pointer /\ n.reps = payload.reps
    BY <1>7, RecoverableFacts, VerifiedFields
  <2>2. payload.pointer = r.target /\ payload.reps[r.target] = r.content /\ r.content \in Contents
    BY <1>2, <1>7, RecoverableFacts
  <2>. QED
    BY <1>1, <2>1, <2>2
<1>. QED
  BY <1>3, <1>4, <1>5, <1>6, <1>7, PhaseCases

\* Every phase leaves its compaction known and one that can be taken up.
LEMMA PhaseLeavesRecoverable ==
  ASSUME TypeOK, NEW c \in Compactions, NEW e \in Epochs, NEW n, NextPhase(c, e, n)
  PROVE  Recoverable(n, c)
<1>. DEFINE r == payload.compactions[c]
<1>1. \A x \in Contents : x # NoContent
  BY CompactionAssumption
<1>2. Prepared = 1 /\ ShadowWritten = 2 /\ SwitchCommitted = 3 /\ SourceRetired = 4 /\ Verified = 5
  BY DEF Prepared, ShadowWritten, SwitchCommitted, SourceRetired, Verified
<1>3. \A x \in Records : x # NoCompaction
  BY NoRecordAssumption
<1>4. ASSUME Recoverable(payload, c), r.phase # Prepared
      PROVE  r.switch # NoSwitch <=> r.phase >= SwitchCommitted
  BY <1>4 DEF Recoverable, WellFormed
<1>5. ASSUME NEW phase \in Prepared..Verified, NEW switch \in Switches, r \in Records
      PROVE  After(c, phase, switch) \in Records
  BY <1>5 DEF After, Records
<1>6. ASSUME NEW q \in Requests, q.id = c, MayPrepare(q), n = PreparedCopy(q)
      PROVE  Recoverable(n, c)
  <2>1. /\ n.pointer = q.source
        /\ n.reps = Put(payload.reps, q.source, q.content)
        /\ n.compactions[c] = [phase |-> Prepared, source |-> q.source, target |-> q.target,
                               content |-> q.content, switch |-> NoSwitch]
        /\ n \in Payloads
    BY <1>6, PreparedFields
  <2>2. /\ q.source \in Reps /\ q.target \in Reps /\ q.content \in Contents
        /\ payload.reps \in [Reps -> Contents \cup {NoContent}]
    BY PayloadFields
  <2>3. q.source # q.target /\ payload.reps[q.target] = NoContent
    BY <1>6 DEF MayPrepare
  <2>4. n.compactions[c] # NoCompaction
    <3>1. NoSwitch \in Switches
      BY StoreAssumption DEF NoSwitch, Switches
    <3>2. n.compactions[c] \in Records
      BY <2>1, <2>2, <3>1, Phases DEF Records
    <3>. QED
      BY <1>3, <3>2
  <2>5. n.reps[q.source] = q.content /\ n.reps[q.target] = NoContent
    BY <2>1, <2>2, <2>3 DEF Put
  <2>. QED
    BY <1>2, <2>1, <2>3, <2>4, <2>5 DEF Recoverable, WellFormed
<1>7. ASSUME Recoverable(payload, c), r.phase = Prepared, n = ShadowCopy(c, r.content)
      PROVE  Recoverable(n, c)
  <2>1. /\ n.pointer = payload.pointer
        /\ n.reps = Put(payload.reps, r.target, r.content)
        /\ n.compactions[c] = After(c, ShadowWritten, r.switch)
    BY <1>7, RecoverableFacts, ShadowFields
  <2>2. /\ r \in Records /\ r.source # r.target /\ r.source \in Reps /\ r.target \in Reps
        /\ payload.pointer = r.source /\ payload.reps[r.source] = r.content
    BY <1>2, <1>7, RecoverableFacts
  <2>3. r.switch = NoSwitch
    BY <1>2, <1>7 DEF Recoverable, WellFormed
  <2>4. n.reps[r.source] = r.content /\ n.reps[r.target] = r.content
    BY <2>1, <2>2, PayloadFields DEF Put
  <2>5. After(c, ShadowWritten, r.switch) # NoCompaction
    BY <1>3, <1>5, <2>2, Phases DEF Records
  <2>. QED
    BY <1>2, <2>1, <2>2, <2>3, <2>4, <2>5 DEF Recoverable, WellFormed, After
<1>8. ASSUME Recoverable(payload, c), r.phase = ShadowWritten, n = SwitchCopy(c, e)
      PROVE  Recoverable(n, c)
  <2>1. /\ n.pointer = r.target /\ n.reps = payload.reps
        /\ n.compactions[c] = After(c, SwitchCommitted, Switch(e, revision))
    BY <1>8, RecoverableFacts, SwitchFields
  <2>2. /\ r \in Records /\ r.source # r.target
        /\ payload.reps[r.source] = r.content /\ payload.reps[r.target] = r.content
    BY <1>2, <1>8, RecoverableFacts
  <2>3. Switch(e, revision) \in Switches /\ Switch(e, revision) # NoSwitch
    <3>1. Switch(e, revision) \in Switches
      BY DEF Switch, Switches, TypeOK, StoreTypeOK
    <3>2. e.number # NoEpoch.number
      BY StoreAssumption DEF Epochs, NoEpoch
    <3>3. Switch(e, revision).epoch = e /\ NoSwitch.epoch = NoEpoch
      BY DEF Switch, NoSwitch
    <3>. QED
      BY <3>1, <3>2, <3>3
  <2>4. After(c, SwitchCommitted, Switch(e, revision)) # NoCompaction
    BY <1>3, <1>5, <2>2, <2>3, Phases
  <2>. QED
    BY <1>2, <2>1, <2>2, <2>3, <2>4 DEF Recoverable, WellFormed, After
<1>9. ASSUME Recoverable(payload, c), r.phase = SwitchCommitted, n = RetiredCopy(c)
      PROVE  Recoverable(n, c)
  <2>1. /\ n.pointer = payload.pointer
        /\ n.reps = Put(payload.reps, r.source, NoContent)
        /\ n.compactions[c] = After(c, SourceRetired, r.switch)
    BY <1>9, RecoverableFacts, RetiredFields
  <2>2. /\ r \in Records /\ r.source # r.target /\ r.source \in Reps /\ r.target \in Reps
        /\ payload.pointer = r.target /\ payload.reps[r.target] = r.content
    BY <1>2, <1>9, RecoverableFacts
  <2>3. r.switch # NoSwitch
    BY <1>2, <1>9, <1>4
  <2>4. n.reps[r.source] = NoContent /\ n.reps[r.target] = r.content
    BY <2>1, <2>2, PayloadFields DEF Put
  <2>5. After(c, SourceRetired, r.switch) # NoCompaction
    BY <1>3, <1>5, <2>2, Phases DEF Records
  <2>. QED
    BY <1>2, <2>1, <2>2, <2>3, <2>4, <2>5 DEF Recoverable, WellFormed, After
<1>10. ASSUME Recoverable(payload, c), r.phase = SourceRetired, n = VerifiedCopy(c)
       PROVE  Recoverable(n, c)
  <2>1. /\ n.pointer = payload.pointer /\ n.reps = payload.reps
        /\ n.compactions[c] = After(c, Verified, r.switch)
    BY <1>10, RecoverableFacts, VerifiedFields
  <2>2. /\ r \in Records /\ r.source # r.target
        /\ payload.pointer = r.target /\ payload.reps[r.target] = r.content
        /\ payload.reps[r.source] = NoContent
    BY <1>2, <1>10, RecoverableFacts
  <2>3. r.switch # NoSwitch
    BY <1>2, <1>10, <1>4
  <2>4. After(c, Verified, r.switch) # NoCompaction
    BY <1>3, <1>5, <2>2, Phases DEF Records
  <2>. QED
    BY <1>2, <2>1, <2>2, <2>3, <2>4 DEF Recoverable, WellFormed, After
<1>. QED
  BY <1>6, <1>7, <1>8, <1>9, <1>10, PhaseCases

\* A phase of c leaves the record of every other compaction.
LEMMA PhaseLeavesOthers ==
  ASSUME TypeOK, NEW c \in Compactions, NEW e \in Epochs, NEW n, NextPhase(c, e, n),
         NEW d \in Compactions, d # c
  PROVE  n.compactions[d] = payload.compactions[d]
<1>. DEFINE r == payload.compactions[c]
<1>1. ASSUME NEW q \in Requests, q.id = c, n = PreparedCopy(q)
      PROVE  n.compactions[d] = payload.compactions[d]
  BY <1>1, PreparedFields
<1>2. ASSUME Recoverable(payload, c) PROVE c \in Known /\ r.content \in Contents
  BY <1>2, RecoverableFacts
<1>3. ASSUME Recoverable(payload, c), n = ShadowCopy(c, r.content)
      PROVE  n.compactions[d] = payload.compactions[d]
  BY <1>2, <1>3, ShadowFields
<1>4. ASSUME Recoverable(payload, c), n = SwitchCopy(c, e)
      PROVE  n.compactions[d] = payload.compactions[d]
  BY <1>2, <1>4, SwitchFields
<1>5. ASSUME Recoverable(payload, c), n = RetiredCopy(c)
      PROVE  n.compactions[d] = payload.compactions[d]
  BY <1>2, <1>5, RetiredFields
<1>6. ASSUME Recoverable(payload, c), n = VerifiedCopy(c)
      PROVE  n.compactions[d] = payload.compactions[d]
  BY <1>2, <1>6, VerifiedFields
<1>. QED
  BY <1>1, <1>3, <1>4, <1>5, <1>6, PhaseCases

\* What a phase does to the compactions: the others stay, its own keeps its ends
\* and moves on, and it is switched by this phase, or by none.
LEMMA PhaseRecords ==
  ASSUME TypeOK, PointerPresent, NEW c \in Compactions, NEW e \in Epochs,
         NEW n, NextPhase(c, e, n)
  PROVE  /\ \A d \in Compactions : d # c => n.compactions[d] = payload.compactions[d]
         /\ n.compactions[c] \in Records
         /\ c \in Known => /\ n.compactions[c].source = payload.compactions[c].source
                           /\ n.compactions[c].target = payload.compactions[c].target
                           /\ n.compactions[c].phase >= payload.compactions[c].phase
         /\ \/ /\ payload.pointer # NoRep => n.pointer = payload.pointer
               /\ \/ c \notin Known /\ n.compactions[c].phase < SwitchCommitted
                  \/ /\ c \in Known
                     /\ n.compactions[c].switch = payload.compactions[c].switch
                     /\ n.compactions[c].phase >= SwitchCommitted <=> c \in Switched
            \/ /\ c \in Known /\ c \notin Switched
               /\ n.compactions[c].phase >= SwitchCommitted
               /\ n.compactions[c].switch.expected = revision
               /\ payload.pointer = payload.compactions[c].source
               /\ n.pointer = payload.compactions[c].target
<1>. DEFINE r == payload.compactions[c]
            m == n.compactions[c]
<1>1. Prepared = 1 /\ ShadowWritten = 2 /\ SwitchCommitted = 3 /\ SourceRetired = 4 /\ Verified = 5
  BY DEF Prepared, ShadowWritten, SwitchCommitted, SourceRetired, Verified
<1>2. m \in Records
  <2>1. n.compactions[c] # NoCompaction
    BY PhaseLeavesRecoverable DEF Recoverable
  <2>2. n \in Payloads
    BY PhaseKeepsAuthority
  <2>. QED
    BY <2>1, <2>2 DEF Payloads
<1>3. ASSUME NEW q \in Requests, q.id = c, c \notin Known, MayPrepare(q), n = PreparedCopy(q)
      PROVE  /\ payload.pointer # NoRep => n.pointer = payload.pointer
             /\ m.phase < SwitchCommitted
  <2>1. /\ n.pointer = q.source
        /\ m = [phase |-> Prepared, source |-> q.source, target |-> q.target,
                content |-> q.content, switch |-> NoSwitch]
    BY <1>3, PreparedFields
  <2>2. payload.pointer # NoRep => payload.pointer = q.source
    BY <1>3 DEF MayPrepare
  <2>. QED
    BY <1>1, <2>1, <2>2
<1>4. ASSUME Recoverable(payload, c), r.phase = Prepared, n = ShadowCopy(c, r.content)
      PROVE  /\ n.pointer = payload.pointer
             /\ m = After(c, ShadowWritten, r.switch) /\ c \in Known /\ c \notin Switched
  <2>1. c \in Known /\ r.content \in Contents
    BY <1>4, RecoverableFacts
  <2>2. c \notin Switched
    BY <1>1, <1>4, <2>1 DEF Switched, PhaseOf
  <2>. QED
    BY <1>1, <1>4, <2>1, <2>2, RecoverableFacts, ShadowFields
<1>5. ASSUME Recoverable(payload, c), r.phase = ShadowWritten, n = SwitchCopy(c, e)
      PROVE  /\ payload.pointer = r.source /\ n.pointer = r.target
             /\ m = After(c, SwitchCommitted, Switch(e, revision))
             /\ c \in Known /\ c \notin Switched
  <2>1. c \in Known /\ r.content \in Contents
    BY <1>5, RecoverableFacts
  <2>2. c \notin Switched
    BY <1>1, <1>5, <2>1 DEF Switched, PhaseOf
  <2>. QED
    BY <1>1, <1>5, <2>1, <2>2, RecoverableFacts, SwitchFields
<1>6. ASSUME Recoverable(payload, c), r.phase = SwitchCommitted, n = RetiredCopy(c)
      PROVE  /\ n.pointer = payload.pointer
             /\ m = After(c, SourceRetired, r.switch) /\ c \in Known /\ c \in Switched
  <2>1. c \in Known /\ r.content \in Contents
    BY <1>6, RecoverableFacts
  <2>2. c \in Switched
    BY <1>1, <1>6, <2>1 DEF Switched, PhaseOf
  <2>. QED
    BY <1>1, <1>6, <2>1, <2>2, RecoverableFacts, RetiredFields
<1>7. ASSUME Recoverable(payload, c), r.phase = SourceRetired, n = VerifiedCopy(c)
      PROVE  /\ n.pointer = payload.pointer
             /\ m = After(c, Verified, r.switch) /\ c \in Known /\ c \in Switched
  <2>1. c \in Known /\ r.content \in Contents
    BY <1>7, RecoverableFacts
  <2>2. c \in Switched
    BY <1>1, <1>7, <2>1 DEF Switched, PhaseOf
  <2>. QED
    BY <1>1, <1>7, <2>1, <2>2, RecoverableFacts, VerifiedFields
<1>. HIDE DEF r, m
<1>8. \A phase, switch : /\ After(c, phase, switch).phase = phase
                         /\ After(c, phase, switch).switch = switch
                         /\ After(c, phase, switch).source = r.source
                         /\ After(c, phase, switch).target = r.target
  BY DEF After, r
<1>9. Switch(e, revision).expected = revision
  BY DEF Switch
<1>10. \A d \in Compactions : d # c => n.compactions[d] = payload.compactions[d]
  BY PhaseLeavesOthers
<1>11. CASE \E q \in Requests : /\ q.id = c /\ c \notin Known
                                /\ MayPrepare(q) /\ n = PreparedCopy(q)
  BY <1>2, <1>3, <1>11, <1>10 DEF r, m
<1>12. CASE Recoverable(payload, c) /\ r.phase = Prepared /\ n = ShadowCopy(c, r.content)
  BY <1>1, <1>2, <1>4, <1>8, <1>12, <1>10 DEF r, m
<1>13. CASE Recoverable(payload, c) /\ r.phase = ShadowWritten /\ n = SwitchCopy(c, e)
  BY <1>1, <1>2, <1>5, <1>8, <1>9, <1>13, <1>10 DEF r, m
<1>14. CASE Recoverable(payload, c) /\ r.phase = SwitchCommitted /\ n = RetiredCopy(c)
  BY <1>1, <1>2, <1>6, <1>8, <1>14, <1>10 DEF r, m
<1>15. CASE Recoverable(payload, c) /\ r.phase = SourceRetired /\ n = VerifiedCopy(c)
  BY <1>1, <1>2, <1>7, <1>8, <1>15, <1>10 DEF r, m
<1>. QED
  BY <1>11, <1>12, <1>13, <1>14, <1>15, PhaseCases DEF r

\* A phase of c leaves another compaction d as it was taken up before, or has
\* overtaken it.
LEMMA PhaseElsewhere ==
  ASSUME TypeOK, PointerPresent, NEW c \in Compactions, NEW e \in Epochs,
         NEW n, NextPhase(c, e, n), NEW d \in Compactions, d # c, Recoverable(payload, d)
  PROVE  LET m == n.compactions[c]
             ours == {payload.compactions[d].source, payload.compactions[d].target}
         IN \/ Recoverable(n, d)
            \/ m.phase >= ShadowWritten /\ m.target \in ours
            \/ m.phase >= SwitchCommitted /\ m.source \in ours
<1>. DEFINE r == payload.compactions[c]
            o == payload.compactions[d]
            m == n.compactions[c]
            Goal == \/ Recoverable(n, d)
                    \/ m.phase >= ShadowWritten /\ m.target \in {o.source, o.target}
                    \/ m.phase >= SwitchCommitted /\ m.source \in {o.source, o.target}
<1>1. Prepared = 1 /\ ShadowWritten = 2 /\ SwitchCommitted = 3 /\ SourceRetired = 4 /\ Verified = 5
  BY DEF Prepared, ShadowWritten, SwitchCommitted, SourceRetired, Verified
<1>2. /\ o \in Records /\ o.source \in Reps /\ o.target \in Reps
      /\ payload.pointer \in {o.source, o.target}
  BY RecoverableFacts
<1>3. n.compactions[d] = o
  BY PhaseRecords
<1>4. ASSUME n.pointer = payload.pointer,
             n.reps[o.source] = payload.reps[o.source], n.reps[o.target] = payload.reps[o.target]
      PROVE  Goal
  BY <1>3, <1>4 DEF Recoverable
<1>5. ASSUME NEW q \in Requests, q.id = c, MayPrepare(q), n = PreparedCopy(q)
      PROVE  Goal
  <2>1. n.pointer = q.source /\ n.reps = Put(payload.reps, q.source, q.content)
    BY <1>5, PreparedFields
  <2>2. payload.pointer # NoRep
    BY <1>2, CompactionAssumption
  <2>3. payload.pointer = q.source /\ payload.reps[q.source] = q.content
    BY <1>5, <2>2 DEF MayPrepare, PointerPresent
  <2>4. n.reps[o.source] = payload.reps[o.source] /\ n.reps[o.target] = payload.reps[o.target]
    BY <1>2, <2>1, <2>3, PayloadFields DEF Put
  <2>. QED
    BY <1>4, <2>1, <2>3, <2>4
<1>6. ASSUME Recoverable(payload, c), r.phase = Prepared, n = ShadowCopy(c, r.content)
      PROVE  Goal
  <2>1. /\ n.pointer = payload.pointer
        /\ n.reps = Put(payload.reps, r.target, r.content)
        /\ m = After(c, ShadowWritten, r.switch)
    BY <1>6, RecoverableFacts, ShadowFields
  <2>2. CASE r.target \in {o.source, o.target}
    BY <1>1, <2>1, <2>2 DEF After
  <2>3. CASE r.target \notin {o.source, o.target}
    <3>1. n.reps[o.source] = payload.reps[o.source] /\ n.reps[o.target] = payload.reps[o.target]
      BY <1>2, <2>1, <2>3, PayloadFields DEF Put
    <3>. QED
      BY <1>4, <2>1, <3>1
  <2>. QED
    BY <2>2, <2>3
<1>7. ASSUME Recoverable(payload, c), r.phase = ShadowWritten, n = SwitchCopy(c, e)
      PROVE  Goal
  <2>1. m = After(c, SwitchCommitted, Switch(e, revision))
    BY <1>7, RecoverableFacts, SwitchFields
  <2>2. payload.pointer = r.source
    BY <1>1, <1>7, RecoverableFacts
  <2>. QED
    BY <1>1, <1>2, <2>1, <2>2 DEF After
<1>8. ASSUME Recoverable(payload, c), r.phase = SwitchCommitted, n = RetiredCopy(c)
      PROVE  Goal
  <2>1. /\ n.pointer = payload.pointer
        /\ n.reps = Put(payload.reps, r.source, NoContent)
        /\ m = After(c, SourceRetired, r.switch)
    BY <1>8, RecoverableFacts, RetiredFields
  <2>2. CASE r.source \in {o.source, o.target}
    BY <1>1, <2>1, <2>2 DEF After
  <2>3. CASE r.source \notin {o.source, o.target}
    <3>1. n.reps[o.source] = payload.reps[o.source] /\ n.reps[o.target] = payload.reps[o.target]
      BY <1>2, <2>1, <2>3, PayloadFields DEF Put
    <3>. QED
      BY <1>4, <2>1, <3>1
  <2>. QED
    BY <2>2, <2>3
<1>9. ASSUME Recoverable(payload, c), r.phase = SourceRetired, n = VerifiedCopy(c)
      PROVE  Goal
  <2>1. n.pointer = payload.pointer /\ n.reps = payload.reps
    BY <1>9, RecoverableFacts, VerifiedFields
  <2>. QED
    BY <1>4, <2>1
<1>. QED
  BY <1>5, <1>6, <1>7, <1>8, <1>9, PhaseCases

-----------------------------------------------------------------------------
(* A commit of the next phase.                                              *)

\* Once the store has taken a phase of c, what it holds is as before or better,
\* and the authority is where it was.
LEMMA CommittedPhase ==
  ASSUME TypeOK, PayloadInv, NEW c \in Compactions, NEW e \in Epochs,
         NextPhase(c, e, payload'), revision' = revision + 1
  PROVE  /\ PayloadInv'
         /\ payload' \in Payloads
         /\ payload'.compactions[c] \in Records
         /\ payload.pointer # NoRep =>
              payload'.reps[payload'.pointer] = payload.reps[payload.pointer]
<1>. DEFINE C == payload.compactions
            D == payload'.compactions
<1>1. /\ payload' \in Payloads
      /\ payload'.reps[payload'.pointer] # NoContent
      /\ payload.pointer # NoRep =>
           payload'.reps[payload'.pointer] = payload.reps[payload.pointer]
  BY PhaseKeepsAuthority DEF PayloadInv
<1>2. /\ \A d \in Compactions : d # c => D[d] = C[d]
      /\ D[c] \in Records
      /\ c \in Known => D[c].source = C[c].source /\ D[c].target = C[c].target
                        /\ D[c].phase >= C[c].phase
  BY PhaseRecords DEF PayloadInv
<1>3. \/ /\ payload.pointer # NoRep => payload'.pointer = payload.pointer
         /\ \/ c \notin Known /\ D[c].phase < SwitchCommitted
            \/ /\ c \in Known /\ D[c].switch = C[c].switch
               /\ D[c].phase >= SwitchCommitted <=> c \in Switched
      \/ /\ c \in Known /\ c \notin Switched
         /\ D[c].phase >= SwitchCommitted /\ D[c].switch.expected = revision
         /\ payload.pointer = C[c].source /\ payload'.pointer = C[c].target
  BY PhaseRecords DEF PayloadInv
<1>4. c \in Known' /\ Known' = Known \cup {c}
  <2>1. D[c] # NoCompaction
    BY <1>2, NoRecordAssumption
  <2>. QED
    BY <1>2, <2>1 DEF Known
<1>5. /\ revision \in Nat
      /\ \A d \in Known : C[d] \in Records /\ C[d].phase \in Nat /\ C[d].switch.expected \in Nat
      /\ D[c].phase \in Nat
      /\ \A d \in Known : C[d].target \in Reps
      /\ ShadowWritten = 2 /\ SwitchCommitted = 3
  BY <1>2, PayloadFields, Phases, StoreAssumption
  DEF TypeOK, StoreTypeOK, Records, Switches, ShadowWritten, SwitchCommitted
<1>6. \A d \in Compactions : d # c => (d \in Switched' <=> d \in Switched)
  BY <1>2, <1>4 DEF Switched, PhaseOf
<1>7. \A d \in Switched : d \in Known /\ C[d].switch.expected < revision
  BY DEF PayloadInv, SwitchesPast, Switched
<1>. HIDE DEF C, D
<1>8. PointerPresent'
  BY <1>1 DEF PointerPresent
<1>9. c \in Switched' <=> D[c].phase >= SwitchCommitted
  BY <1>4 DEF Switched, PhaseOf, D
<1>10. \A d \in Switched' : d \in Compactions
  BY DEF Switched, Known
<1>11. SwitchesPast'
  <2>. SUFFICES ASSUME NEW d \in Switched' PROVE D[d].switch.expected < revision + 1
    BY DEF SwitchesPast, D
  <2>1. CASE d # c
    BY <1>2, <1>5, <1>6, <1>7, <1>10, <2>1
  <2>2. CASE d = c
    BY <1>3, <1>5, <1>7, <1>9, <2>2
  <2>. QED
    BY <2>1, <2>2
<1>12. SwitchesChain'
  <2>1. /\ \A a, d \in Switched : a # d => C[a].switch.expected # C[d].switch.expected
        /\ \A a, d \in Switched :
             /\ C[a].switch.expected < C[d].switch.expected
             /\ \A b \in Switched : ~ (C[a].switch.expected < C[b].switch.expected
                                       /\ C[b].switch.expected < C[d].switch.expected)
             => C[a].target = C[d].source
        /\ \A a \in Switched :
             (\A d \in Switched : C[d].switch.expected <= C[a].switch.expected)
               => payload.pointer = C[a].target
    BY DEF PayloadInv, SwitchesChain, C
  <2>2. SUFFICES
        /\ \A a, d \in Switched' : a # d => D[a].switch.expected # D[d].switch.expected
        /\ \A a, d \in Switched' :
             /\ D[a].switch.expected < D[d].switch.expected
             /\ \A b \in Switched' : ~ (D[a].switch.expected < D[b].switch.expected
                                        /\ D[b].switch.expected < D[d].switch.expected)
             => D[a].target = D[d].source
        /\ \A a \in Switched' :
             (\A d \in Switched' : D[d].switch.expected <= D[a].switch.expected)
               => payload'.pointer = D[a].target
    BY DEF SwitchesChain, D
  <2>3. CASE /\ payload.pointer # NoRep => payload'.pointer = payload.pointer
             /\ Switched' = Switched
             /\ \A d \in Switched : /\ D[d].switch = C[d].switch
                                    /\ D[d].source = C[d].source /\ D[d].target = C[d].target
    <3>1. \A a \in Switched : C[a].target # NoRep
      BY <1>5, <1>7, CompactionAssumption
    <3>. QED
      BY <2>1, <2>3, <3>1
  <2>4. CASE /\ c \notin Switched /\ Switched' = Switched \cup {c}
             /\ D[c].switch.expected = revision
             /\ payload.pointer = D[c].source /\ payload'.pointer = D[c].target
             /\ \A d \in Switched : D[d] = C[d]
    <3>1. \A d \in Switched : D[d].switch.expected < D[c].switch.expected
                              /\ D[d].switch.expected \in Nat /\ D[c].switch.expected \in Nat
      BY <1>5, <1>7, <2>4
    <3>2. \A a \in Switched :
            (\A d \in Switched : D[d].switch.expected <= D[a].switch.expected)
              => D[a].target = D[c].source
      BY <2>1, <2>4
    <3>3. \A a, d \in Switched' : a # d => D[a].switch.expected # D[d].switch.expected
      BY <2>1, <2>4, <3>1
    <3>4. ASSUME NEW a \in Switched', NEW d \in Switched',
                 D[a].switch.expected < D[d].switch.expected,
                 \A b \in Switched' : ~ (D[a].switch.expected < D[b].switch.expected
                                         /\ D[b].switch.expected < D[d].switch.expected)
          PROVE  D[a].target = D[d].source
      <4>1. CASE d = c
        <5>1. a \in Switched
          BY <2>4, <3>1, <3>4, <4>1
        <5>2. \A b \in Switched : D[b].switch.expected <= D[a].switch.expected
          BY <2>4, <3>1, <3>4, <4>1, <5>1
        <5>. QED
          BY <3>2, <4>1, <5>1, <5>2
      <4>2. CASE d # c
        <5>1. d \in Switched /\ a \in Switched
          BY <2>4, <3>1, <3>4, <4>2
        <5>2. \A b \in Switched : ~ (C[a].switch.expected < C[b].switch.expected
                                     /\ C[b].switch.expected < C[d].switch.expected)
          BY <2>4, <3>4, <5>1
        <5>. QED
          BY <2>1, <2>4, <3>4, <5>1, <5>2
      <4>. QED
        BY <4>1, <4>2
    <3>5. \A a \in Switched' :
            (\A d \in Switched' : D[d].switch.expected <= D[a].switch.expected)
              => payload'.pointer = D[a].target
      BY <2>4, <3>1
    <3>. QED
      BY <3>3, <3>4, <3>5
  <2>5. CASE c \notin Known /\ D[c].phase < SwitchCommitted
             /\ (payload.pointer # NoRep => payload'.pointer = payload.pointer)
    <3>1. c \notin Switched /\ c \notin Switched'
      BY <1>5, <1>7, <1>9, <2>5
    <3>2. Switched' = Switched
      BY <1>6, <1>7, <1>10, <3>1 DEF Known
    <3>. QED
      BY <1>2, <1>7, <2>3, <2>5, <3>1, <3>2 DEF Known
  <2>6. CASE /\ c \in Known /\ D[c].switch = C[c].switch
             /\ D[c].phase >= SwitchCommitted <=> c \in Switched
             /\ (payload.pointer # NoRep => payload'.pointer = payload.pointer)
    <3>1. c \in Switched' <=> c \in Switched
      BY <1>9, <2>6
    <3>2. Switched \subseteq Compactions /\ Switched' \subseteq Compactions
      BY <1>7, <1>10 DEF Known
    <3>3. Switched' = Switched
      BY <1>6, <3>1, <3>2
    <3>. QED
      BY <1>2, <1>7, <2>3, <2>6, <3>3 DEF Known
  <2>7. CASE /\ c \in Known /\ c \notin Switched
             /\ D[c].phase >= SwitchCommitted /\ D[c].switch.expected = revision
             /\ payload.pointer = C[c].source /\ payload'.pointer = C[c].target
    <3>1. Switched' = Switched \cup {c}
      BY <1>6, <1>7, <1>9, <1>10, <2>7 DEF Known
    <3>. QED
      BY <1>2, <1>7, <2>4, <2>7, <3>1 DEF Known
  <2>. QED
    BY <1>3, <2>5, <2>6, <2>7 DEF C, D
<1>13. RecoverableUnlessOvertaken'
  <2>1. Recoverable(payload', c)
    BY PhaseLeavesRecoverable
  <2>. SUFFICES ASSUME NEW d \in Known, d # c
                PROVE  Recoverable(payload', d) \/ \E b \in Known' \ {d} : Overtakes(b, d)'
    BY <1>4, <2>1 DEF RecoverableUnlessOvertaken
  <2>2. d \in Compactions /\ D[d] = C[d]
    BY <1>2 DEF Known, C, D
  <2>3. CASE Recoverable(payload, d)
    <3>1. \/ Recoverable(payload', d)
          \/ D[c].phase >= ShadowWritten /\ D[c].target \in {C[d].source, C[d].target}
          \/ D[c].phase >= SwitchCommitted /\ D[c].source \in {C[d].source, C[d].target}
      BY <2>2, <2>3, PhaseElsewhere DEF PayloadInv, C, D
    <3>2. CASE D[c].phase >= ShadowWritten /\ D[c].target \in {C[d].source, C[d].target}
      <4>1. Overtakes(c, d)'
        BY <2>2, <3>2 DEF Overtakes, PhaseOf, C, D
      <4>. QED
        BY <1>4, <4>1
    <3>3. CASE D[c].phase >= SwitchCommitted /\ D[c].source \in {C[d].source, C[d].target}
      <4>1. Overtakes(c, d)'
        BY <1>9, <2>2, <3>3 DEF Overtakes, PhaseOf, C, D
      <4>. QED
        BY <1>4, <4>1
    <3>. QED
      BY <3>1, <3>2, <3>3
  <2>4. CASE ~ Recoverable(payload, d)
    <3>1. PICK b \in Known \ {d} : Overtakes(b, d)
      BY <2>4 DEF PayloadInv, RecoverableUnlessOvertaken
    <3>2. /\ b \in Known' /\ D[b].source = C[b].source /\ D[b].target = C[b].target
          /\ D[b].phase >= C[b].phase
      <4>1. CASE b = c
        BY <1>2, <1>4, <3>1, <4>1 DEF C, D
      <4>2. CASE b # c
        <5>1. D[b] = C[b]
          BY <1>2, <3>1, <4>2 DEF Known
        <5>. QED
          BY <1>4, <1>5, <3>1, <5>1
      <4>. QED
        BY <4>1, <4>2
    <3>3. C[b].phase \in Nat /\ D[b].phase \in Nat
      BY <1>2, <1>5, <3>1 DEF Known
    <3>4. Overtakes(b, d)'
      BY <1>5, <2>2, <3>1, <3>2, <3>3 DEF Overtakes, PhaseOf, Switched, C, D
    <3>. QED
      BY <3>1, <3>2, <3>4
  <2>. QED
    BY <2>3, <2>4
<1>. QED
  BY <1>1, <1>2, <1>8, <1>11, <1>12, <1>13 DEF PayloadInv, D

-----------------------------------------------------------------------------
(* The calls.                                                               *)

\* A copy that the store would still take is the next phase of what it holds.
StagedFresh(s) ==
  s.at = "commit" =>
    /\ s.expected <= revision
    /\ s.expected = revision => NextPhase(s.id, s.epoch, s.copy)

CallsFresh == \A k \in Callers : StagedFresh(call[k])

\* PayloadInv speaks of the store alone, and is kept because every copy that can
\* be committed was made, by a phase, of exactly the payload that it replaces.
IInv == TypeOK /\ PayloadInv /\ CallsFresh

\* What is fresh stays so while the payload and the revision stay.
LEMMA FreshStays ==
  ASSUME UNCHANGED <<payload, revision>>, NEW t, StagedFresh(t)
  PROVE  StagedFresh(t)'
BY DEF StagedFresh, NextPhase, MayPrepare, PreparedCopy, ShadowCopy, SwitchCopy,
       RetiredCopy, VerifiedCopy, AtPhase

\* What one step of one caller leaves, when it is not a commit: the store's
\* payload and revision as they were, and a call that carries nothing to commit,
\* or something fresh.
LEMMA QuietStep ==
  ASSUME IInv, NEW k \in Callers, NEW s \in Steps, call' = [call EXCEPT ![k] = s],
         UNCHANGED <<storeVars, memory, durable>>, StagedFresh(s)
  PROVE  IInv'
<1>1. StoreTypeOK'
  BY StoreStutterType DEF IInv, TypeOK, storeVars
<1>2. TypeOK'
  BY DEF IInv, TypeOK, StoreTypeOK, storeVars
<1>3. PayloadInv'
  BY DEF IInv, PayloadInv, PointerPresent, SwitchesPast, SwitchesChain,
         RecoverableUnlessOvertaken, Switched, Known, PhaseOf, Overtakes, storeVars
<1>4. \A l \in Callers : StagedFresh(call[l]) /\ call[l] \in Steps
  BY DEF IInv, CallsFresh, TypeOK
<1>5. ASSUME NEW t, StagedFresh(t) PROVE StagedFresh(t)'
  BY <1>5, FreshStays DEF storeVars
<1>6. CallsFresh'
  <2>. SUFFICES ASSUME NEW l \in Callers PROVE StagedFresh(call[l])'
    BY DEF CallsFresh
  <2>1. call'[l] = IF l = k THEN s ELSE call[l]
    BY DEF IInv, TypeOK
  <2>. QED
    BY <1>4, <1>5, <2>1 DEF StagedFresh
<1>. QED
  BY <1>1, <1>2, <1>3, <1>6 DEF IInv

\* Preparing a commit of the next phase.
LEMMA StageIsQuiet ==
  ASSUME IInv, NEW k \in Callers, NEW e \in granted, NEW c \in Compactions, NEW n,
         NextPhase(c, e, n), Begin(k), Stage(k, e, c, n)
  PROVE  IInv'
<1>. DEFINE s == [at |-> "commit", id |-> c, epoch |-> e, expected |-> revision, copy |-> n]
<1>1. e \in Epochs /\ revision \in 0..MaxRevision /\ revision <= revision
  BY StoreAssumption DEF IInv, TypeOK, StoreTypeOK
<1>2. n \in Payloads
  BY <1>1, PhaseKeepsAuthority DEF IInv, PayloadInv
<1>3. s \in Steps
  BY <1>1, <1>2 DEF Steps
<1>4. StagedFresh(s)
  BY <1>1 DEF StagedFresh
<1>. HIDE DEF s
<1>5. call' = [call EXCEPT ![k] = s] /\ UNCHANGED <<storeVars, memory, durable>>
  BY DEF Begin, Stage, s
<1>. QED
  BY <1>3, <1>4, <1>5, QuietStep

\* Going on to observe a state of a compaction.
LEMMA ObserveIsQuiet ==
  ASSUME IInv, NEW k \in Callers, NEW c \in Compactions, NEW state \in Records,
         Observe(k, c, state), UNCHANGED <<storeVars, memory, durable>>
  PROVE  IInv'
<1>. DEFINE s == IF k \in Kernels THEN [at |-> "pointer", id |-> c, state |-> state] ELSE Idle
<1>1. s \in Steps /\ s.at # "commit"
  BY DEF Steps, Idle
<1>2. StagedFresh(s)
  BY <1>1 DEF StagedFresh
<1>. HIDE DEF s
<1>3. call' = [call EXCEPT ![k] = s]
  BY DEF Observe, s
<1>. QED
  BY <1>1, <1>2, <1>3, QuietStep

\* Answering with the state that a compaction is in.
LEMMA AnswerIsQuiet ==
  ASSUME IInv, NEW k \in Callers, NEW c \in Compactions, Resume(k, c),
         Observe(k, c, payload.compactions[c])
  PROVE  IInv'
<1>1. payload.compactions[c] \in Records
  BY RecoverableFacts DEF IInv, Resume
<1>2. UNCHANGED <<storeVars, memory, durable>>
  BY DEF Resume, Begin
<1>. QED
  BY <1>1, <1>2, ObserveIsQuiet

\* The idle step is one, and carries nothing to commit.
LEMMA IdleIsQuiet ==
  ASSUME IInv, NEW k \in Callers, call' = [call EXCEPT ![k] = Idle],
         UNCHANGED <<storeVars, memory, durable>>
  PROVE  IInv'
<1>1. Idle \in Steps /\ StagedFresh(Idle)
  BY DEF Steps, StagedFresh, Idle
<1>. QED
  BY <1>1, QuietStep

\* What a call carries at each of its steps.
LEMMA StepFields ==
  ASSUME NEW s \in Steps
  PROVE  /\ s.at = "commit" => /\ s.id \in Compactions /\ s.epoch \in Epochs
                               /\ s.expected \in 0..MaxRevision /\ s.copy \in Payloads
         /\ s.at = "pointer" => s.id \in Compactions /\ s.state \in Records
         /\ s.at = "revision" => /\ s.id \in Compactions /\ s.state \in Records
                                 /\ s.pointer \in Reps \cup {NoRep}
         /\ s.at = "ids" => /\ s.id \in Compactions /\ s.state \in Records
                            /\ s.revision \in 0..MaxRevision
BY DEF Steps, Idle

\* A new observation of a compaction in place of an old one keeps the type.
LEMMA AcceptedType ==
  ASSUME NEW m \in [Compactions -> Observations], NEW c \in Compactions, NEW o \in Observations
  PROVE  Accepted(m, c, o) \in [Compactions -> Observations]
BY DEF Accepted

\* What changes the memories and the files alone, their types apart.
LEMMA FilesStep ==
  ASSUME IInv, NEW k \in Callers, call' = [call EXCEPT ![k] = Idle] \/ UNCHANGED call,
         UNCHANGED storeVars,
         memory' \in [Kernels -> [Compactions -> Observations]],
         durable' \in [Kernels -> [Compactions -> Observations] \cup {Unreadable}]
  PROVE  IInv'
<1>1. StoreTypeOK'
  BY StoreStutterType DEF IInv, TypeOK, storeVars
<1>2. Idle \in Steps /\ StagedFresh(Idle)
  BY DEF Steps, StagedFresh, Idle
<1>3. TypeOK'
  BY <1>2 DEF IInv, TypeOK, StoreTypeOK, storeVars
<1>4. PayloadInv'
  BY DEF IInv, PayloadInv, PointerPresent, SwitchesPast, SwitchesChain,
         RecoverableUnlessOvertaken, Switched, Known, PhaseOf, Overtakes, storeVars
<1>5. ASSUME NEW t, StagedFresh(t) PROVE StagedFresh(t)'
  BY <1>5, FreshStays DEF storeVars
<1>6. CallsFresh'
  <2>. SUFFICES ASSUME NEW l \in Callers PROVE StagedFresh(call[l])'
    BY DEF CallsFresh
  <2>1. call'[l] = Idle \/ call'[l] = call[l]
    BY DEF IInv, TypeOK
  <2>. QED
    BY <1>2, <1>5, <2>1 DEF StagedFresh, IInv, CallsFresh
<1>. QED
  BY <1>1, <1>3, <1>4, <1>6 DEF IInv

\* The commit of a call: the one step that changes the payload.
LEMMA CommitKeeps ==
  ASSUME IInv, NEW k \in Callers, Commit(k)
  PROVE  /\ IInv'
         /\ payload.pointer # NoRep =>
              payload'.reps[payload'.pointer] = payload.reps[payload.pointer]
<1>. DEFINE s == call[k]
<1>1. /\ s \in Steps /\ s.at = "commit" /\ StagedFresh(s)
      /\ s.id \in Compactions /\ s.epoch \in Epochs
  BY StepFields DEF IInv, TypeOK, CallsFresh, Commit
<1>2. ConditionalCommit(s.epoch, s.expected, s.copy)
  BY DEF Commit
<1>3. StoreTypeOK' /\ revision' = revision + 1 /\ payload' = s.copy /\ s.expected = revision
  BY <1>2, ConditionalCommitType DEF IInv, TypeOK
<1>4. NextPhase(s.id, s.epoch, payload')
  BY <1>1, <1>3 DEF StagedFresh
<1>5. /\ PayloadInv' /\ payload' \in Payloads /\ payload'.compactions[s.id] \in Records
      /\ payload.pointer # NoRep =>
           payload'.reps[payload'.pointer] = payload.reps[payload.pointer]
  BY <1>1, <1>3, <1>4, CommittedPhase DEF IInv
<1>6. revision \in Nat
  BY StoreAssumption DEF IInv, TypeOK, StoreTypeOK
<1>7. \A l \in Callers : StagedFresh(call[l]) /\ call[l] \in Steps
  BY DEF IInv, CallsFresh, TypeOK
<1>. DEFINE o == IF k \in Kernels
                 THEN [at |-> "pointer", id |-> s.id, state |-> payload'.compactions[s.id]]
                 ELSE Idle
<1>8. call' = [call EXCEPT ![k] = o] /\ UNCHANGED <<memory, durable>>
  BY <1>3 DEF Commit, Observe
<1>9. o \in Steps /\ o.at # "commit"
  BY <1>1, <1>5 DEF Steps, Idle
<1>. HIDE DEF o
<1>10. TypeOK'
  BY <1>3, <1>5, <1>8, <1>9 DEF IInv, TypeOK
<1>11. CallsFresh'
  <2>. SUFFICES ASSUME NEW l \in Callers PROVE StagedFresh(call[l])'
    BY DEF CallsFresh
  <2>1. call'[l] = IF l = k THEN o ELSE call[l]
    BY <1>8 DEF IInv, TypeOK
  <2>2. call[l].at = "commit" => call[l].expected <= revision /\ call[l].expected \in Nat
    BY <1>7, StepFields, StoreAssumption DEF StagedFresh
  <2>. QED
    BY <1>3, <1>6, <1>9, <2>1, <2>2 DEF StagedFresh
<1>. QED
  BY <1>3, <1>5, <1>10, <1>11 DEF IInv

-----------------------------------------------------------------------------
(* The steps.                                                               *)

\* The empty store, before any caller did anything.
LEMMA InitInv == Init => IInv
<1>. SUFFICES ASSUME Init PROVE IInv
  OBVIOUS
<1>1. StoreTypeOK
  BY StoreInitType DEF Init
<1>2. payload = EmptyPayload /\ \A c \in Compactions : payload.compactions[c] = NoCompaction
  BY DEF Init, StoreInit, EmptyPayload
<1>3. Known = {} /\ Switched = {} /\ payload.pointer = NoRep
  BY <1>2 DEF Known, Switched, EmptyPayload
<1>4. PayloadInv
  BY <1>3 DEF PayloadInv, PointerPresent, SwitchesPast, SwitchesChain, RecoverableUnlessOvertaken
<1>5. EmptyPayload \in Payloads
  BY DEF EmptyPayload, Payloads
<1>6. NoObservation \in Observations
  BY StoreAssumption DEF NoObservation, Observations
<1>7. Idle \in Steps /\ Idle.at # "commit"
  BY DEF Steps, Idle
<1>8. TypeOK
  BY <1>1, <1>2, <1>5, <1>6, <1>7 DEF TypeOK, Init
<1>9. CallsFresh
  BY <1>7 DEF CallsFresh, StagedFresh, Init
<1>. QED
  BY <1>1, <1>4, <1>8, <1>9 DEF IInv

\* What each operation of the coordinator prepares is the next phase.
LEMMA OperationKeeps ==
  ASSUME IInv, NEW k \in Callers, NEW e \in granted
  PROVE  /\ \A q \in Requests : Prepare(k, e, q) => IInv'
         /\ \A c \in Compactions :
              /\ \A x \in Contents : WriteShadow(k, e, c, x) => IInv'
              /\ CommitSwitch(k, e, c) => IInv'
              /\ RetireSource(k, e, c) => IInv'
              /\ Verify(k, e, c) => IInv'
<1>1. ASSUME NEW q \in Requests, Prepare(k, e, q) PROVE IInv'
  <2>1. q.id \in Compactions
    BY CompactionAssumption
  <2>2. CASE Resume(k, q.id) /\ Observe(k, q.id, payload.compactions[q.id])
    BY <2>1, <2>2, AnswerIsQuiet
  <2>3. CASE /\ Begin(k) /\ payload.compactions[q.id] = NoCompaction /\ MayPrepare(q)
             /\ Stage(k, e, q.id, PreparedCopy(q))
    <3>1. NextPhase(q.id, e, PreparedCopy(q))
      BY <2>3 DEF NextPhase
    <3>. QED
      BY <2>1, <2>3, <3>1, StageIsQuiet
  <2>. QED
    BY <1>1, <2>2, <2>3 DEF Prepare
<1>2. ASSUME NEW c \in Compactions, NEW phase, Resume(k, c), AlreadyAt(k, c, phase)
      PROVE  IInv'
  BY <1>2, AnswerIsQuiet DEF AlreadyAt
<1>3. ASSUME NEW c \in Compactions, NEW n, Resume(k, c), NextPhase(c, e, n), Stage(k, e, c, n)
      PROVE  IInv'
  BY <1>3, StageIsQuiet DEF Resume
<1>4. ASSUME NEW c \in Compactions, NEW x \in Contents, WriteShadow(k, e, c, x) PROVE IInv'
  <2>1. CASE AlreadyAt(k, c, ShadowWritten)
    BY <1>2, <1>4, <2>1 DEF WriteShadow
  <2>2. CASE payload.compactions[c].phase = Prepared /\ Stage(k, e, c, ShadowCopy(c, x))
    <3>1. NextPhase(c, e, ShadowCopy(c, x))
      BY <1>4, <2>2 DEF WriteShadow, Resume, NextPhase
    <3>. QED
      BY <1>3, <1>4, <2>2, <3>1 DEF WriteShadow
  <2>. QED
    BY <1>4, <2>1, <2>2 DEF WriteShadow
<1>5. ASSUME NEW c \in Compactions, CommitSwitch(k, e, c) PROVE IInv'
  <2>1. CASE AlreadyAt(k, c, SwitchCommitted)
    BY <1>2, <1>5, <2>1 DEF CommitSwitch
  <2>2. CASE payload.compactions[c].phase = ShadowWritten /\ Stage(k, e, c, SwitchCopy(c, e))
    <3>1. NextPhase(c, e, SwitchCopy(c, e))
      BY <1>5, <2>2 DEF CommitSwitch, Resume, NextPhase
    <3>. QED
      BY <1>3, <1>5, <2>2, <3>1 DEF CommitSwitch
  <2>. QED
    BY <1>5, <2>1, <2>2 DEF CommitSwitch
<1>6. ASSUME NEW c \in Compactions, RetireSource(k, e, c) PROVE IInv'
  <2>1. CASE AlreadyAt(k, c, SourceRetired)
    BY <1>2, <1>6, <2>1 DEF RetireSource
  <2>2. CASE payload.compactions[c].phase = SwitchCommitted /\ Stage(k, e, c, RetiredCopy(c))
    <3>1. NextPhase(c, e, RetiredCopy(c))
      BY <1>6, <2>2 DEF RetireSource, Resume, NextPhase
    <3>. QED
      BY <1>3, <1>6, <2>2, <3>1 DEF RetireSource
  <2>. QED
    BY <1>6, <2>1, <2>2 DEF RetireSource
<1>7. ASSUME NEW c \in Compactions, Verify(k, e, c) PROVE IInv'
  <2>1. CASE AlreadyAt(k, c, Verified)
    BY <1>2, <1>7, <2>1 DEF Verify
  <2>2. CASE payload.compactions[c].phase = SourceRetired /\ Stage(k, e, c, VerifiedCopy(c))
    <3>1. NextPhase(c, e, VerifiedCopy(c))
      BY <1>7, <2>2 DEF Verify, Resume, NextPhase
    <3>. QED
      BY <1>3, <1>7, <2>2, <3>1 DEF Verify
  <2>. QED
    BY <1>7, <2>1, <2>2 DEF Verify
<1>. QED
  BY <1>1, <1>4, <1>5, <1>6, <1>7

\* What a kernel does with its observation, its files and its process.
LEMMA KernelKeeps ==
  ASSUME IInv, NEW k \in Kernels
  PROVE  /\ ReadPointer(k) => IInv'
         /\ ReadRevision(k) => IInv'
         /\ Record(k) => IInv'
         /\ JournalFails(k) => IInv'
         /\ SaveSnapshot(k) => IInv'
<1>1. /\ k \in Callers /\ call[k] \in Steps
      /\ memory \in [Kernels -> [Compactions -> Observations]]
      /\ durable \in [Kernels -> [Compactions -> Observations] \cup {Unreadable}]
      /\ payload.pointer \in Reps \cup {NoRep} /\ revision \in 0..MaxRevision
  BY CompactionAssumption, PayloadFields DEF IInv, TypeOK, StoreTypeOK
<1>2. ASSUME ReadPointer(k) PROVE IInv'
  <2>. DEFINE s == [at |-> "revision", id |-> call[k].id, state |-> call[k].state,
                    pointer |-> payload.pointer]
  <2>1. s \in Steps /\ StagedFresh(s)
    BY <1>1, <1>2, StepFields DEF ReadPointer, Steps, StagedFresh
  <2>2. call' = [call EXCEPT ![k] = s] /\ UNCHANGED <<storeVars, memory, durable>>
    BY <1>2 DEF ReadPointer
  <2>. QED
    BY <1>1, <2>1, <2>2, QuietStep
<1>3. ASSUME ReadRevision(k) PROVE IInv'
  <2>. DEFINE s == [at |-> "ids", id |-> call[k].id, state |-> call[k].state,
                    pointer |-> call[k].pointer, revision |-> revision]
  <2>1. s \in Steps /\ StagedFresh(s)
    BY <1>1, <1>3, StepFields DEF ReadRevision, Steps, StagedFresh
  <2>2. call' = [call EXCEPT ![k] = s] /\ UNCHANGED <<storeVars, memory, durable>>
    BY <1>3 DEF ReadRevision
  <2>. QED
    BY <1>1, <2>1, <2>2, QuietStep
<1>4. ASSUME Record(k) PROVE IInv'
  <2>. DEFINE c == call[k].id
              o == [state |-> call[k].state, revision |-> call[k].revision]
  <2>1. c \in Compactions /\ o \in Observations
    BY <1>1, <1>4, StepFields DEF Record, Observations
  <2>2. /\ Accepted(memory[k], c, o) \in [Compactions -> Observations]
        /\ durable[k] # Unreadable =>
             Accepted(durable[k], c, o) \in [Compactions -> Observations]
    BY <1>1, <2>1, AcceptedType
  <2>. HIDE DEF c, o
  <2>3. /\ \/ memory' = memory
           \/ memory' = [memory EXCEPT ![k] = memory[k]]
           \/ memory' = [memory EXCEPT ![k] = Accepted(memory[k], c, o)]
        /\ \/ durable' = durable
           \/ durable' = [durable EXCEPT ![k] = Unreadable]
           \/ /\ durable[k] # Unreadable
              /\ durable' = [durable EXCEPT ![k] = Accepted(durable[k], c, o)]
    BY <1>4 DEF Record, c, o
  <2>4. memory' \in [Kernels -> [Compactions -> Observations]]
    BY <1>1, <2>2, <2>3
  <2>5. durable' \in [Kernels -> [Compactions -> Observations] \cup {Unreadable}]
    BY <1>1, <2>2, <2>3
  <2>6. call' = [call EXCEPT ![k] = Idle] /\ UNCHANGED storeVars
    BY <1>4 DEF Record
  <2>. QED
    BY <1>1, <2>4, <2>5, <2>6, FilesStep
<1>5. ASSUME JournalFails(k) PROVE IInv'
  BY <1>1, <1>5, IdleIsQuiet DEF JournalFails
<1>6. ASSUME SaveSnapshot(k) PROVE IInv'
  <2>1. durable' \in [Kernels -> [Compactions -> Observations] \cup {Unreadable}]
    BY <1>1, <1>6 DEF SaveSnapshot
  <2>. QED
    BY <1>1, <1>6, <2>1, FilesStep DEF SaveSnapshot
<1>. QED
  BY <1>2, <1>3, <1>4, <1>5, <1>6

\* Refusals and crashes, of a kernel or of another caller.
LEMMA CallerKeeps ==
  ASSUME IInv, NEW k \in Callers
  PROVE  (Refusal(k) => IInv') /\ (CrashAndOpen(k) => IInv')
<1>1. ASSUME Refusal(k) PROVE IInv'
  BY <1>1, IdleIsQuiet DEF Refusal
<1>2. ASSUME CrashAndOpen(k) PROVE IInv'
  <2>1. /\ memory \in [Kernels -> [Compactions -> Observations]]
        /\ durable \in [Kernels -> [Compactions -> Observations] \cup {Unreadable}]
    BY DEF IInv, TypeOK
  <2>2. memory' \in [Kernels -> [Compactions -> Observations]]
    <3>1. CASE k \notin Kernels
      BY <1>2, <2>1, <3>1 DEF CrashAndOpen
    <3>2. CASE k \in Kernels
      <4>1. durable[k] \in [Compactions -> Observations]
        BY <1>2, <2>1, <3>2 DEF CrashAndOpen
      <4>. QED
        BY <1>2, <2>1, <3>2, <4>1 DEF CrashAndOpen
    <3>. QED
      BY <3>1, <3>2
  <2>. QED
    BY <1>2, <2>1, <2>2, FilesStep DEF CrashAndOpen
<1>. QED
  BY <1>1, <1>2

\* An epoch granted to whoever drives the callers.
LEMMA AcquireKeeps ==
  ASSUME IInv, NEW w \in Writers, NEW expected \in 0..MaxEpoch, Acquire(w, expected)
  PROVE  IInv'
<1>1. StoreTypeOK'
  BY AcquireEpochType DEF IInv, TypeOK, Acquire
<1>2. UNCHANGED <<revision, payload, memory, call, durable>>
  BY DEF Acquire, AcquireEpoch
<1>3. TypeOK'
  BY <1>1, <1>2 DEF IInv, TypeOK
<1>4. PayloadInv'
  BY <1>2 DEF IInv, PayloadInv, PointerPresent, SwitchesPast, SwitchesChain,
              RecoverableUnlessOvertaken, Switched, Known, PhaseOf, Overtakes
<1>5. CallsFresh'
  <2>1. ASSUME NEW t, StagedFresh(t) PROVE StagedFresh(t)'
    BY <1>2, <2>1, FreshStays
  <2>. QED
    BY <1>2, <2>1 DEF IInv, CallsFresh, StagedFresh
<1>. QED
  BY <1>1, <1>3, <1>4, <1>5 DEF IInv

\* Nothing but a commit touches the payload.
LEMMA OthersKeepPayload ==
  ASSUME Next, ~ \E k \in Callers : Commit(k)
  PROVE  UNCHANGED payload
<1>1. ASSUME NEW w, NEW expected, Acquire(w, expected) PROVE UNCHANGED payload
  BY <1>1 DEF Acquire, AcquireEpoch
<1>2. ASSUME NEW k, Begin(k) PROVE UNCHANGED payload
  BY <1>2 DEF Begin, storeVars
<1>3. ASSUME NEW k, NEW e, NEW q, Prepare(k, e, q) PROVE Begin(k)
  BY <1>3 DEF Prepare, Resume
<1>4. ASSUME NEW k, NEW e, NEW c, NEW x, WriteShadow(k, e, c, x) PROVE Begin(k)
  BY <1>4 DEF WriteShadow, Resume
<1>5. ASSUME NEW k, NEW e, NEW c,
             CommitSwitch(k, e, c) \/ RetireSource(k, e, c) \/ Verify(k, e, c)
      PROVE  Begin(k)
  BY <1>5 DEF CommitSwitch, RetireSource, Verify, Resume
<1>6. ASSUME NEW k, Refusal(k) \/ CrashAndOpen(k) PROVE UNCHANGED payload
  BY <1>6 DEF Refusal, CrashAndOpen, storeVars
<1>7. ASSUME NEW k, ReadPointer(k) \/ ReadRevision(k) \/ JournalFails(k) \/ SaveSnapshot(k)
      PROVE  UNCHANGED payload
  BY <1>7 DEF ReadPointer, ReadRevision, JournalFails, SaveSnapshot, storeVars
<1>8. ASSUME NEW k, Record(k) PROVE UNCHANGED payload
  BY <1>8 DEF Record, storeVars
<1>. QED
  BY <1>1, <1>2, <1>3, <1>4, <1>5, <1>6, <1>7, <1>8 DEF Next

\* Every step keeps the invariant.
LEMMA NextInv == IInv /\ [Next]_vars => IInv'
<1>. SUFFICES ASSUME IInv, [Next]_vars PROVE IInv'
  OBVIOUS
<1>1. CASE UNCHANGED vars
  <2>1. StoreTypeOK'
    BY <1>1, StoreStutterType DEF IInv, TypeOK, vars, storeVars
  <2>2. TypeOK' /\ PayloadInv'
    BY <1>1 DEF IInv, TypeOK, StoreTypeOK, PayloadInv, PointerPresent, SwitchesPast,
                SwitchesChain, RecoverableUnlessOvertaken, Switched, Known, PhaseOf,
                Overtakes, vars, storeVars
  <2>3. CallsFresh'
    <3>1. ASSUME NEW t, StagedFresh(t) PROVE StagedFresh(t)'
      BY <1>1, <3>1, FreshStays DEF vars, storeVars
    <3>. QED
      BY <1>1, <3>1 DEF IInv, CallsFresh, StagedFresh, vars, storeVars
  <2>. QED
    BY <2>1, <2>2, <2>3 DEF IInv
<1>2. CASE Next
  BY <1>2, AcquireKeeps, OperationKeeps, CommitKeeps, KernelKeeps, CallerKeeps DEF Next
<1>. QED
  BY <1>1, <1>2

\* The store's payload, the memories, the calls in progress and the files keep
\* their types.
THEOREM TypeCorrect == Spec => []TypeOK
<1>1. IInv => TypeOK
  BY DEF IInv
<1>. QED
  BY <1>1, InitInv, NextInv, PTL DEF Spec

\* The switches of any number of compactions, started and taken up by anyone,
\* form one chain that ends at the pointer.
THEOREM ChainOfSwitches == Spec => []SwitchesChain
<1>1. IInv => SwitchesChain
  BY DEF IInv, PayloadInv
<1>. QED
  BY <1>1, InitInv, NextInv, PTL DEF Spec

\* Wherever the callers stop, a compaction can be taken up again unless another
\* one has overtaken it.
THEOREM Recovery == Spec => []RecoverableUnlessOvertaken
<1>1. IInv => RecoverableUnlessOvertaken
  BY DEF IInv, PayloadInv
<1>. QED
  BY <1>1, InitInv, NextInv, PTL DEF Spec

\* The content that is authoritative is there and is never changed or removed, by
\* no phase of any compaction, whoever commits it and however late.
THEOREM AuthorityIsKept == Spec => AuthorityKept
<1>1. IInv /\ [Next]_vars =>
        [payload.pointer # NoRep =>
           /\ payload.reps[payload.pointer] # NoContent
           /\ payload'.reps[payload'.pointer] = payload.reps[payload.pointer]]_vars
  <2>. SUFFICES ASSUME IInv, Next, payload.pointer # NoRep
                PROVE  /\ payload.reps[payload.pointer] # NoContent
                       /\ payload'.reps[payload'.pointer] = payload.reps[payload.pointer]
    OBVIOUS
  <2>1. payload.reps[payload.pointer] # NoContent
    BY DEF IInv, PayloadInv, PointerPresent
  <2>2. CASE \E k \in Callers : Commit(k)
    BY <2>1, <2>2, CommitKeeps
  <2>3. CASE ~ \E k \in Callers : Commit(k)
    BY <2>1, <2>3, OthersKeepPayload
  <2>. QED
    BY <2>2, <2>3
<1>. QED
  BY <1>1, InitInv, NextInv, PTL DEF Spec, AuthorityKept

\* Whatever is lost between the store and the journal, and whatever is refused, a
\* restart of a kernel gives the observations it had, or is refused.
THEOREM RestartGivesObservations == Spec => []ReplayAgrees
<1>1. Init => ReplayAgrees
  BY DEF Init, ReplayAgrees
<1>2. TypeOK /\ ReplayAgrees /\ [Next]_vars => ReplayAgrees'
  <2>. SUFFICES ASSUME TypeOK, ReplayAgrees, [Next]_vars, NEW l \in Kernels
                PROVE  durable'[l] \in {memory'[l], Unreadable}
    BY DEF ReplayAgrees
  <2>1. durable[l] \in {memory[l], Unreadable} /\ l \in DOMAIN memory /\ l \in DOMAIN durable
    BY DEF TypeOK, ReplayAgrees
  <2>2. ASSUME NEW k \in Kernels, Record(k) PROVE durable'[l] \in {memory'[l], Unreadable}
    BY <2>1, <2>2 DEF Record
  <2>3. ASSUME NEW k \in Kernels, SaveSnapshot(k)
        PROVE  durable'[l] \in {memory'[l], Unreadable}
    BY <2>1, <2>3 DEF SaveSnapshot
  <2>4. ASSUME NEW k \in Callers, CrashAndOpen(k)
        PROVE  durable'[l] \in {memory'[l], Unreadable}
    BY <2>1, <2>4 DEF CrashAndOpen
  <2>5. CASE UNCHANGED <<memory, durable>>
    BY <2>1, <2>5
  <2>6. \/ UNCHANGED <<memory, durable>>
        \/ \E k \in Kernels : Record(k) \/ SaveSnapshot(k)
        \/ \E k \in Callers : CrashAndOpen(k)
    BY DEF Next, Acquire, Prepare, WriteShadow, CommitSwitch, RetireSource, Verify,
           Resume, Begin, Commit, Refusal, ReadPointer, ReadRevision, JournalFails, vars
  <2>. QED
    BY <2>2, <2>3, <2>4, <2>5, <2>6
<1>. QED
  BY <1>1, <1>2, TypeCorrect, PTL DEF Spec

=============================================================================
