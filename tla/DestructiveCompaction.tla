----------------------- MODULE DestructiveCompaction -----------------------
(***************************************************************************)
(* Destructive compaction (destructive_compaction.py) and its observation  *)
(* by kernels (destructive_compaction_runtime.py): a representation of the *)
(* semantics is replaced by another in five phases, each of them one       *)
(* conditional commit to the shared production store, after which the      *)
(* kernel that asked for it observes the store and journals what it saw.   *)
(*                                                                         *)
(* A caller does one operation at a time; between the reads and the write  *)
(* of one operation the other callers may act.  The content of a           *)
(* representation (archive, retained references, semantic digests) is one  *)
(* value, equal when all of these are.  _read_snapshot reads the revision  *)
(* before and after the payload and raises when they differ, so that a     *)
(* successful one is an atomic read; an operation that raises before it    *)
(* wrote anything is not an action.                                        *)
(***************************************************************************)
EXTENDS ProductionStore

CONSTANTS
  Callers,       \* whoever runs the operations of a coordinator ...
  Kernels,       \* ... and those of them that observe and journal what they did
  Compactions,   \* compaction ids
  NoCompaction,
  Reps,          \* representation ids
  NoRep,         \* the pointer before the first prepare
  Contents,      \* what an archive with its references can hold
  Requests,      \* the arguments with which prepare may be called
  NoContent,     \* the content of an id that is not among the representations
  Unreadable     \* what files give whose replay is refused

\* None of the absent values is one of those it stands beside.
ASSUME CompactionAssumption ==
  /\ Kernels \subseteq Callers
  /\ NoRep \notin Reps
  /\ NoContent \notin Contents
  /\ Requests \subseteq [id : Compactions, source : Reps, target : Reps, content : Contents]

VARIABLES
  memory,   \* destructive_compaction_observations of each kernel
  call,     \* the operation each caller is executing
  durable   \* what replaying the files of each kernel gives

vars == <<storeVars, memory, call, durable>>

-----------------------------------------------------------------------------
(* The payload: representations, compactions and the production pointer.    *)

Prepared == 1
ShadowWritten == 2
SwitchCommitted == 3
SourceRetired == 4
Verified == 5

NoSwitch == [epoch |-> NoEpoch, expected |-> 0]

Switches == [epoch : Epochs \cup {NoEpoch}, expected : 0..MaxRevision]

Records == [phase : Prepared..Verified, source : Reps, target : Reps,
            content : Contents, switch : Switches]

ASSUME NoRecordAssumption == NoCompaction \notin Records

Payloads == [pointer : Reps \cup {NoRep},
             reps : [Reps -> Contents \cup {NoContent}],
             compactions : [Compactions -> Records \cup {NoCompaction}]]

\* SwitchReceipt.create.  The revision it says was committed is the next one.
Switch(e, expected) == [epoch |-> e, expected |-> expected]

\* A compaction is its phase, source, target and content, and its switch receipt; its
\* retirement manifest says nothing that these do not.
EmptyPayload ==
  [pointer |-> NoRep,
   reps |-> [r \in Reps |-> NoContent],
   compactions |-> [c \in Compactions |-> NoCompaction]]

\* DestructiveCompactionState.from_payload
WellFormed(r) ==
  /\ r.source # r.target
  /\ r.switch # NoSwitch <=> r.phase >= SwitchCommitted

\* _recover_payload: the state of c if the payload bears it out.
Recoverable(p, c) ==
  LET r == p.compactions[c]
      source == p.reps[r.source]
      target == p.reps[r.target]
  IN /\ r # NoCompaction
     /\ WellFormed(r)
     /\ p.pointer = IF r.phase <= ShadowWritten THEN r.source ELSE r.target
     /\ source = IF r.phase <= SwitchCommitted THEN r.content ELSE NoContent
     /\ target = IF r.phase = Prepared THEN NoContent ELSE r.content

AtPhase(c, phase) == [payload EXCEPT !.compactions[c].phase = phase]

\* What each phase makes of the payload.
PreparedCopy(q) ==
  [pointer |-> q.source,
   reps |-> [payload.reps EXCEPT ![q.source] = q.content],
   compactions |-> [payload.compactions EXCEPT ![q.id] =
     [phase |-> Prepared, source |-> q.source, target |-> q.target,
      content |-> q.content, switch |-> NoSwitch]]]

ShadowCopy(c, x) ==
  [AtPhase(c, ShadowWritten) EXCEPT !.reps[payload.compactions[c].target] = x]

SwitchCopy(c, e) ==
  [pointer |-> payload.compactions[c].target,
   reps |-> payload.reps,
   compactions |-> [payload.compactions EXCEPT
     ![c].phase = SwitchCommitted, ![c].switch = Switch(e, revision)]]

RetiredCopy(c) ==
  [AtPhase(c, SourceRetired) EXCEPT !.reps[payload.compactions[c].source] = NoContent]

VerifiedCopy(c) == AtPhase(c, Verified)

-----------------------------------------------------------------------------
(* What a kernel keeps of a compaction, and its replay.                     *)

NoObservation == [state |-> NoCompaction, revision |-> 0]

Observations == [state : Records \cup {NoCompaction}, revision : 0..MaxRevision]

\* _accept_observation: what it raises at.  The identity of the representations
\* is part of the state, which also the same phase has to repeat.
Refused(o, old) ==
  /\ old # NoObservation
  /\ \/ o.state.phase < old.state.phase
     \/ o.state.phase = old.state.phase /\ o.state # old.state
     \/ o.state.phase > old.state.phase /\ o.revision <= old.revision
     \/ <<o.state.source, o.state.target>> # <<old.state.source, old.state.target>>

Accepted(m, c, o) ==
  IF m[c] # NoObservation /\ m[c].state = o.state THEN m ELSE [m EXCEPT ![c] = o]

\* DestructiveCompactionObservation.create: what a phase may look like.
Presentable(r, pointer, ids) ==
  /\ pointer = IF r.phase <= ShadowWritten THEN r.source ELSE r.target
  /\ ids = CASE r.phase = Prepared -> {r.source}
             [] r.phase \in {ShadowWritten, SwitchCommitted} -> {r.source, r.target}
             [] r.phase >= SourceRetired -> {r.target}

-----------------------------------------------------------------------------
Idle == [at |-> "idle"]

Init ==
  /\ StoreInit(EmptyPayload)
  /\ memory = [k \in Kernels |-> [c \in Compactions |-> NoObservation]]
  /\ durable = memory
  /\ call = [k \in Callers |-> Idle]

\* acquire_epoch, for whoever drives the kernels.
Acquire(w, expected) ==
  /\ AcquireEpoch(w, expected)
  /\ UNCHANGED <<memory, call, durable>>

-----------------------------------------------------------------------------
(* The operations.  Each reads the payload and either prepares a commit of   *)
(* the next phase or, when that phase is durable already, goes on to observe *)
(* the state it found; the epoch is then not looked at.                      *)

Stage(k, e, c, next) ==
  call' = [call EXCEPT ![k] =
    [at |-> "commit", id |-> c, epoch |-> e, expected |-> revision, copy |-> next]]

Observe(k, c, state) ==
  call' = [call EXCEPT ![k] =
    IF k \in Kernels THEN [at |-> "pointer", id |-> c, state |-> state] ELSE Idle]

AlreadyAt(k, c, phase) ==
  /\ payload.compactions[c].phase >= phase
  /\ Observe(k, c, payload.compactions[c])

Begin(k) == call[k] = Idle /\ UNCHANGED <<storeVars, memory, durable>>

Resume(k, c) == Begin(k) /\ Recoverable(payload, c)

\* The source is the authoritative representation, or the first one, with
\* exactly the content presented; the target is new.
MayPrepare(q) ==
  /\ q.source # q.target
  /\ payload.pointer \in {NoRep, q.source}
  /\ payload.reps[q.source] \in {NoContent, q.content}
  /\ payload.reps[q.target] = NoContent

\* prepare.  An id already in use returns its state, whatever the arguments.
Prepare(k, e, q) ==
  \/ Resume(k, q.id) /\ Observe(k, q.id, payload.compactions[q.id])
  \/ /\ Begin(k)
     /\ payload.compactions[q.id] = NoCompaction
     /\ MayPrepare(q)
     /\ Stage(k, e, q.id, PreparedCopy(q))

\* A fault of the step below: the phase is left for a later commit.
UnphasedShadow(k, e, c, x) ==
  LET r == payload.compactions[c] IN
  /\ Resume(k, c)
  /\ r.phase = Prepared
  /\ Stage(k, e, c, [payload EXCEPT !.reps[r.target] = x])

\* write_shadow
WriteShadow(k, e, c, x) ==
  /\ Resume(k, c)
  /\ x = payload.compactions[c].content
  /\ \/ AlreadyAt(k, c, ShadowWritten)
     \/ /\ payload.compactions[c].phase = Prepared
        /\ Stage(k, e, c, ShadowCopy(c, x))

\* A fault of the step below: what was prepared is not looked at again.
UnrecoveredSwitch(k, e, c) ==
  /\ Begin(k)
  /\ payload.compactions[c] # NoCompaction /\ payload.compactions[c].phase = ShadowWritten
  /\ Stage(k, e, c, SwitchCopy(c, e))

\* commit_switch: the receipt is made out before the store has acknowledged.
CommitSwitch(k, e, c) ==
  /\ Resume(k, c)
  /\ \/ AlreadyAt(k, c, SwitchCommitted)
     \/ /\ payload.compactions[c].phase = ShadowWritten
        /\ Stage(k, e, c, SwitchCopy(c, e))

\* A fault of the step below: the source goes as soon as its shadow is written.
EagerRetireSource(k, e, c) ==
  /\ Resume(k, c)
  /\ payload.compactions[c].phase \in {ShadowWritten, SwitchCommitted}
  /\ Stage(k, e, c, RetiredCopy(c))

\* retire_source
RetireSource(k, e, c) ==
  /\ Resume(k, c)
  /\ \/ AlreadyAt(k, c, SourceRetired)
     \/ /\ payload.compactions[c].phase = SwitchCommitted
        /\ Stage(k, e, c, RetiredCopy(c))

\* verify
Verify(k, e, c) ==
  /\ Resume(k, c)
  /\ \/ AlreadyAt(k, c, Verified)
     \/ /\ payload.compactions[c].phase = SourceRetired
        /\ Stage(k, e, c, VerifiedCopy(c))

-----------------------------------------------------------------------------
\* _commit: the store takes the phase ...
Commit(k) ==
  /\ call[k].at = "commit"
  /\ ConditionalCommit(call[k].epoch, call[k].expected, call[k].copy)
  /\ Observe(k, call[k].id, call[k].copy.compactions[call[k].id])
  /\ UNCHANGED <<memory, durable>>

\* ... or refuses it, and the operation raises StorageConflict.
Refusal(k) ==
  /\ call[k].at = "commit"
  /\ ~ WriteAllowed(call[k].epoch, call[k].expected)
  /\ call' = [call EXCEPT ![k] = Idle]
  /\ UNCHANGED <<storeVars, memory, durable>>

\* _observe reads the pointer, then the revision, then the representations.
ReadPointer(k) ==
  /\ call[k].at = "pointer"
  /\ call' = [call EXCEPT ![k] =
       [at |-> "revision", id |-> @.id, state |-> @.state, pointer |-> payload.pointer]]
  /\ UNCHANGED <<storeVars, memory, durable>>

ReadRevision(k) ==
  /\ call[k].at = "revision"
  /\ call' = [call EXCEPT ![k] =
       [at |-> "ids", id |-> @.id, state |-> @.state, pointer |-> @.pointer, revision |-> revision]]
  /\ UNCHANGED <<storeVars, memory, durable>>

Exposed == {r \in Reps : payload.reps[r] # NoContent}

\* A fault of the step below: the memory advances before the append.
MemoryFirst(k) ==
  LET o == [state |-> call[k].state, revision |-> call[k].revision]
  IN /\ call[k].at = "ids"
     /\ call' = [call EXCEPT ![k] = Idle]
     /\ memory' = [memory EXCEPT ![k] = Accepted(@, call[k].id, o)]
     /\ UNCHANGED <<storeVars, durable>>

\* The observation is journalled, then accepted: one step, for between the two
\* only this kernel reads either.  An observation that cannot be put together,
\* or that is the one already held, is not journalled.
Record(k) ==
  LET c == call[k].id
      o == [state |-> call[k].state, revision |-> call[k].revision]
  IN /\ call[k].at = "ids"
     /\ call' = [call EXCEPT ![k] = Idle]
     /\ IF ~ Presentable(o.state, call[k].pointer, Exposed) \/ memory[k][c].state = o.state
        THEN UNCHANGED <<memory, durable>>
        ELSE /\ memory' = [memory EXCEPT ![k] = IF Refused(o, @[c]) THEN @ ELSE Accepted(@, c, o)]
             /\ durable' = [durable EXCEPT ![k] =
                  IF @ = Unreadable \/ Refused(o, @[c]) THEN Unreadable ELSE Accepted(@, c, o)]
     /\ UNCHANGED storeVars

\* The append raises (or fault_after was asked for): the phase is durable in
\* the store and unknown to the kernel.
JournalFails(k) ==
  /\ call[k].at = "ids"
  /\ call' = [call EXCEPT ![k] = Idle]
  /\ UNCHANGED <<storeVars, memory, durable>>

\* save_snapshot: what was journalled before it is not replayed again.
SaveSnapshot(k) ==
  /\ call[k] = Idle
  /\ durable' = [durable EXCEPT ![k] = memory[k]]
  /\ UNCHANGED <<storeVars, memory, call>>

\* The process of a caller dies at any step of its operation; of a kernel, the
\* files are opened again, which their replay must allow.
CrashAndOpen(k) ==
  /\ call' = [call EXCEPT ![k] = Idle]
  /\ IF k \in Kernels
       THEN durable[k] # Unreadable /\ memory' = [memory EXCEPT ![k] = durable[k]]
       ELSE UNCHANGED memory
  /\ UNCHANGED <<storeVars, durable>>

Next ==
  \/ \E w \in Writers, expected \in 0..MaxEpoch : Acquire(w, expected)
  \/ \E k \in Callers, e \in granted, q \in Requests : Prepare(k, e, q)
  \/ \E k \in Callers, e \in granted, c \in Compactions :
       \/ \E x \in Contents : WriteShadow(k, e, c, x)
       \/ CommitSwitch(k, e, c)
       \/ RetireSource(k, e, c)
       \/ Verify(k, e, c)
  \/ \E k \in Callers : Commit(k) \/ Refusal(k) \/ CrashAndOpen(k)
  \/ \E k \in Kernels :
       \/ ReadPointer(k)
       \/ ReadRevision(k)
       \/ Record(k)
       \/ JournalFails(k)
       \/ SaveSnapshot(k)

Spec == Init /\ [][Next]_vars

-----------------------------------------------------------------------------
(* Types.                                                                   *)

Steps ==
  {Idle}
  \cup [at : {"commit"}, id : Compactions, epoch : Epochs, expected : 0..MaxRevision,
        copy : Payloads]
  \cup [at : {"pointer"}, id : Compactions, state : Records]
  \cup [at : {"revision"}, id : Compactions, state : Records, pointer : Reps \cup {NoRep}]
  \cup [at : {"ids"}, id : Compactions, state : Records, pointer : Reps \cup {NoRep},
        revision : 0..MaxRevision]

TypeOK ==
  /\ StoreTypeOK
  /\ payload \in Payloads
  /\ memory \in [Kernels -> [Compactions -> Observations]]
  /\ durable \in [Kernels -> [Compactions -> Observations] \cup {Unreadable}]
  /\ call \in [Callers -> Steps]

-----------------------------------------------------------------------------
(* Safety.                                                                  *)

Known == {c \in Compactions : payload.compactions[c] # NoCompaction}
PhaseOf(c) == payload.compactions[c].phase
Switched == {c \in Known : PhaseOf(c) >= SwitchCommitted}

\* What the pointer designates is there, and no commit of any phase by anyone
\* ever changes or removes the content that is authoritative (the retirement of
\* retire_source included, DC06 to DC08).
AuthorityKept ==
  [][payload.pointer # NoRep =>
       /\ payload.reps[payload.pointer] # NoContent
       /\ payload'.reps[payload'.pointer] = payload.reps[payload.pointer]]_vars

\* The switches form one chain: each starts at the representation at which the
\* one before it ended, and the pointer is at the end of the last; two
\* compactions of one source never both switch (commit_switch).
SwitchesChain ==
  /\ \A c, d \in Switched :
       LET from == payload.compactions[c].switch.expected
           to == payload.compactions[d].switch.expected
       IN /\ c # d => from # to
          /\ from < to /\ (\A b \in Switched : ~ (from < payload.compactions[b].switch.expected
                                                    /\ payload.compactions[b].switch.expected < to))
             => payload.compactions[c].target = payload.compactions[d].source
  /\ \A c \in Switched :
       (\A d \in Switched :
          payload.compactions[d].switch.expected <= payload.compactions[c].switch.expected)
         => payload.pointer = payload.compactions[c].target

\* d has written over what c needs, or moved the authority away from it.
Overtakes(d, c) ==
  LET ours == {payload.compactions[c].source, payload.compactions[c].target}
  IN \/ PhaseOf(d) >= ShadowWritten /\ payload.compactions[d].target \in ours
     \/ d \in Switched /\ payload.compactions[d].source \in ours

\* A crash between any two phases leaves a compaction that can be taken up
\* again, unless another compaction has overtaken it (recover).
RecoverableUnlessOvertaken ==
  \A c \in Known : Recoverable(payload, c) \/ \E d \in Known \ {c} : Overtakes(d, c)

\* A restart of a kernel that can be opened restores the observations it had
\* (_emit_observation and _replay_observation).
ReplayAgrees == \A k \in Kernels : durable[k] \in {memory[k], Unreadable}

=============================================================================
