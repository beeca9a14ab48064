----------------------- MODULE KernelAuthorityProofs -----------------------
(***************************************************************************)
(* Proofs about KernelAuthority: its types, that opening a kernel's files  *)
(* gives its memory, and that at most one kernel knows the epoch now held. *)
(***************************************************************************)
EXTENDS KernelAuthority, TLAPS

-----------------------------------------------------------------------------
(* The store.                                                               *)

\* Every epoch that was granted is numbered up to the one now held.
GrantedUpToHeld == \A g \in granted : g.number <= epoch.number

StoreInv == StoreTypeOK /\ GrantedUpToHeld

\* The empty store satisfies the invariant, whatever its payload.
LEMMA StoreInitInv ==
  ASSUME NEW p, StoreInit(p)
  PROVE  StoreInv
BY StoreAssumption DEF StoreInit, StoreInv, StoreTypeOK, GrantedUpToHeld

\* The epoch acquire_epoch builds is a well-formed one.
LEMMA SuccessorEpochType ==
  ASSUME StoreTypeOK, epoch.number < MaxEpoch, NEW w \in Writers
  PROVE  SuccessorEpoch(w) \in Epochs
<1>1. epoch.number \in 0..MaxEpoch
  BY StoreAssumption DEF StoreTypeOK, Epochs, NoEpoch
<1>2. epoch.number + 1 \in 1..MaxEpoch
  BY <1>1, StoreAssumption
<1>. QED
  BY <1>1, <1>2 DEF StoreTypeOK, SuccessorEpoch, Epochs

\* acquire_epoch grants the next number.
LEMMA AcquireEpochInv ==
  ASSUME StoreInv, NEW w \in Writers, NEW expected, AcquireEpoch(w, expected)
  PROVE  StoreInv'
<1>. DEFINE new == SuccessorEpoch(w)
<1>1. new \in Epochs
  BY SuccessorEpochType DEF StoreInv, AcquireEpoch
<1>2. /\ epoch' = new /\ granted' = granted \cup {new} /\ revision' = revision
      /\ receipts' = receipts
  BY DEF AcquireEpoch
<1>3. StoreTypeOK'
  BY <1>1, <1>2 DEF StoreInv, StoreTypeOK
<1>4. new.number = epoch.number + 1
  BY DEF SuccessorEpoch
<1>5. epoch.number \in Nat /\ \A g \in granted : g.number \in Nat
  BY StoreAssumption DEF StoreInv, StoreTypeOK, Epochs, NoEpoch
<1>. HIDE DEF new
<1>6. GrantedUpToHeld'
  BY <1>2, <1>4, <1>5 DEF StoreInv, GrantedUpToHeld
<1>. QED
  BY <1>3, <1>6 DEF StoreInv

\* conditional_commit leaves the epochs as they are.
LEMMA ConditionalCommitInv ==
  ASSUME StoreInv, NEW e, NEW expected, NEW p, ConditionalCommit(e, expected, p)
  PROVE  StoreInv'
<1>1. e \in Epochs
  BY DEF ConditionalCommit, WriteAllowed, IsCurrentEpoch, StoreInv, StoreTypeOK
<1>2. [epoch |-> e, expected |-> revision, committed |-> revision + 1] \in Receipts
  BY <1>1, StoreAssumption DEF ConditionalCommit, StoreInv, StoreTypeOK, Receipts
<1>. QED
  BY <1>2, StoreAssumption
  DEF ConditionalCommit, StoreInv, StoreTypeOK, GrantedUpToHeld

\* What leaves the store's bookkeeping alone preserves the invariant.
LEMMA StoreStutter ==
  ASSUME StoreInv, UNCHANGED <<epoch, revision, granted, receipts>>
  PROVE  StoreInv'
BY DEF StoreInv, StoreTypeOK, GrantedUpToHeld

-----------------------------------------------------------------------------
(* Type correctness.                                                        *)

\* A memory is not a lost one and a kernel is up: what the type alone does not
\* say of the two variables together.
UpHasMemory == \A k \in Kernels : op[k] # Down => memory[k] \in Memories
ReadableIsMemory == \A k \in Kernels : durable[k] # Unreadable => durable[k] \in Memories

TypeInv == TypeOK /\ StoreInv /\ UpHasMemory /\ ReadableIsMemory

\* The memory of a kernel that has done nothing is well formed.
LEMMA EmptyMemoryType == EmptyMemory \in Memories
BY DEF EmptyMemory, Memories

\* A reducer turns a memory into a memory.
LEMMA ApplyType ==
  ASSUME NEW x \in Entries, NEW m \in Memories
  PROVE  Apply(x, m) \in Memories
<1>1. CASE x.kind = "acquired"
  <2>1. x.epoch \in Epochs
    BY DEF Entries
  <2>2. [m EXCEPT !.observed = @ \cup {x.epoch}, !.latest = x.epoch] \in Memories
    BY <2>1 DEF Memories
  <2>. QED
    BY <1>1, <2>2 DEF Apply
<1>2. CASE x.kind = "committed"
  <2>1. x.epoch \in Epochs
    BY DEF Entries
  <2>2. [m EXCEPT !.commits = @ \cup {x.epoch}] \in Memories
    BY <2>1 DEF Memories
  <2>. QED
    BY <1>2, <2>2 DEF Apply
<1>3. CASE x.kind = "bound"
  <2>1. x.epoch \in Epochs /\ x.auth \in Auths
    BY <1>3 DEF Entries
  <2>2. [m EXCEPT !.bound[x.auth] = x.epoch] \in Memories
    BY <2>1 DEF Memories
  <2>. QED
    BY <1>3, <2>2 DEF Apply
<1>. QED
  BY <1>1, <1>2, <1>3 DEF Entries

\* So does replaying an entry, unless it is refused.
LEMMA ReplayedType ==
  ASSUME NEW x \in Entries, NEW d, d # Unreadable => d \in Memories
  PROVE  /\ Replayed(x, d) # Unreadable => Replayed(x, d) \in Memories
         /\ Replayed(x, d) \in Memories \cup {Unreadable}
BY ApplyType DEF Replayed

\* The entries the three journalling operations build are well formed.
LEMMA EntryTypes ==
  ASSUME NEW e \in Epochs
  PROVE  /\ Acquired(e) \in Entries
         /\ Committed(e) \in Entries
         /\ \A a \in Auths : Bound(a, e) \in Entries
BY DEF Acquired, Committed, Bound, Entries

\* The steps an operation goes through are among those of the type.
LEMMA StepTypes ==
  ASSUME NEW x \in Entries
  PROVE  /\ Idle \in Steps /\ Down \in Steps
         /\ [at |-> "journal", entry |-> x] \in Steps
         /\ [at |-> "accept", entry |-> x] \in Steps
BY DEF Steps

\* An operation that is to be journalled or accepted carries an entry.
LEMMA PendingEntry ==
  ASSUME NEW s \in Steps, s.at \in {"journal", "accept"}
  PROVE  /\ s.entry \in Entries
         /\ [s EXCEPT !.at = "accept"] = [at |-> "accept", entry |-> s.entry]
<1>1. s \in [at : {"journal", "accept"}, entry : Entries]
  BY DEF Steps, Idle, Down
<1>. QED
  BY <1>1

\* The types hold of the initial state.
LEMMA InitTypes == Init => TypeInv
<1>. SUFFICES ASSUME Init PROVE TypeInv
  OBVIOUS
<1>1. StoreInv
  BY StoreInitInv DEF Init
<1>2. Idle \in Steps
  BY DEF Steps
<1>. QED
  BY <1>1, <1>2, EmptyMemoryType
  DEF TypeInv, TypeOK, StoreInv, Init, UpHasMemory, ReadableIsMemory

\* What changes one kernel's step alone, and does not bring it up, keeps them.
LEMMA ProceedTypes ==
  ASSUME TypeInv, NEW k \in Kernels, NEW step \in Steps, Proceed(k, step),
         op[k] # Down, StoreInv', UNCHANGED <<memory, durable>>
  PROVE  TypeInv'
BY DEF TypeInv, TypeOK, StoreInv, UpHasMemory, ReadableIsMemory, Proceed

\* Every step keeps the types.
LEMMA NextTypes == TypeInv /\ [Next]_vars => TypeInv'
<1>. SUFFICES ASSUME TypeInv, [Next]_vars PROVE TypeInv'
  OBVIOUS
<1>. USE DEF TypeInv
<1>1. ASSUME UNCHANGED storeVars PROVE StoreInv'
  BY <1>1, StoreStutter DEF storeVars
<1>2. ASSUME NEW k \in Kernels, op[k].at \in {"idle", "journal", "accept", "execute"}
      PROVE  op[k] # Down
  BY <1>2 DEF Down
<1>3. ASSUME NEW k \in Kernels, op[k] # Down PROVE memory[k] \in Memories
  BY <1>3 DEF UpHasMemory
<1>4. CASE UNCHANGED vars
  <2>1. StoreInv'
    BY <1>1, <1>4 DEF vars, storeVars
  <2>. QED
    BY <2>1, <1>4 DEF vars, TypeOK, StoreInv, UpHasMemory, ReadableIsMemory
<1>5. ASSUME NEW k \in Kernels, NEW w \in Writers, NEW expected \in 0..MaxEpoch,
             AcquireAuthorityEpoch(k, w, expected)
      PROVE  TypeInv'
  <2>. USE <1>5 DEF AcquireAuthorityEpoch
  <2>1. SuccessorEpoch(w) \in Epochs
    BY SuccessorEpochType DEF AcquireEpoch, StoreInv
  <2>2. StoreInv'
    BY AcquireEpochInv
  <2>3. [at |-> "journal", entry |-> Acquired(SuccessorEpoch(w))] \in Steps
    BY <2>1, EntryTypes, StepTypes
  <2>. QED
    BY <1>2, <2>2, <2>3, ProceedTypes DEF Idle
<1>6. ASSUME NEW k \in Kernels, NEW e \in granted, ConditionalCorrectnessCommit(k, e)
      PROVE  TypeInv'
  <2>. USE <1>6 DEF ConditionalCorrectnessCommit
  <2>1. StoreInv'
    BY <1>1, ConditionalCommitInv
  <2>2. [at |-> "journal", entry |-> Committed(e)] \in Steps
    BY EntryTypes, StepTypes DEF TypeOK, StoreTypeOK
  <2>. QED
    BY <1>2, <2>1, <2>2, ProceedTypes DEF Idle
<1>7. ASSUME NEW k \in Kernels, NEW a \in Auths, NEW e \in granted, BindAuthorization(k, a, e)
      PROVE  TypeInv'
  <2>. USE <1>7 DEF BindAuthorization
  <2>1. [at |-> "journal", entry |-> Bound(a, e)] \in Steps
    BY EntryTypes, StepTypes DEF TypeOK, StoreTypeOK
  <2>. QED
    BY <1>1, <1>2, <2>1, ProceedTypes DEF Idle
<1>8. ASSUME NEW k \in Kernels, Journal(k) PROVE TypeInv'
  <2>. USE <1>8 DEF Journal
  <2>1. op[k].entry \in Entries /\ [op[k] EXCEPT !.at = "accept"] \in Steps
    <3>1. op[k] \in Steps /\ op[k].at \in {"journal", "accept"}
      BY DEF TypeOK
    <3>2. /\ op[k].entry \in Entries
          /\ [op[k] EXCEPT !.at = "accept"] = [at |-> "accept", entry |-> op[k].entry]
      BY <3>1, PendingEntry
    <3>. QED
      BY <3>2, StepTypes
  <2>2. durable[k] # Unreadable => durable[k] \in Memories
    BY DEF ReadableIsMemory
  <2>3. durable'[k] = Replayed(op[k].entry, durable[k])
    BY DEF TypeOK
  <2>4. /\ durable'[k] # Unreadable => durable'[k] \in Memories
        /\ durable'[k] \in Memories \cup {Unreadable}
    BY <2>1, <2>2, <2>3, ReplayedType
  <2>5. TypeOK' /\ ReadableIsMemory'
    BY <1>1, <2>1, <2>4 DEF TypeOK, StoreInv, ReadableIsMemory, Proceed
  <2>. QED
    BY <1>1, <1>2, <2>5 DEF TypeOK, UpHasMemory, Proceed
<1>9. ASSUME NEW k \in Kernels, JournalFails(k) PROVE TypeInv'
  BY <1>1, <1>2, <1>9, ProceedTypes DEF JournalFails, Steps
<1>10. ASSUME NEW k \in Kernels, Accept(k) PROVE TypeInv'
  <2>. USE <1>10 DEF Accept
  <2>1. op[k].entry \in Entries /\ memory[k] \in Memories /\ Idle \in Steps
    BY <1>2, <1>3, PendingEntry DEF TypeOK, Steps
  <2>2. memory'[k] \in Memories
    BY <2>1, ApplyType DEF TypeOK
  <2>3. TypeOK' /\ UpHasMemory'
    BY <1>1, <2>1, <2>2 DEF TypeOK, StoreInv, UpHasMemory, Proceed
  <2>. QED
    BY <1>1, <2>3 DEF ReadableIsMemory
<1>11. ASSUME NEW k \in Kernels, NEW a \in Auths, CheckBinding(k, a) PROVE TypeInv'
  <2>. USE <1>11 DEF CheckBinding
  <2>1. memory[k].bound[a] \in Epochs
    BY <1>2, <1>3 DEF Idle, CurrentBinding, Memories
  <2>2. [at |-> "execute", auth |-> a, epoch |-> memory[k].bound[a]] \in Steps
    BY <2>1 DEF Steps
  <2>. QED
    BY <1>1, <1>2, <2>2, ProceedTypes DEF Idle
<1>12. ASSUME NEW k \in Kernels, ExecuteAdapter(k) PROVE TypeInv'
  BY <1>1, <1>2, <1>12, ProceedTypes DEF ExecuteAdapter, Steps
<1>13. ASSUME NEW k \in Kernels, SaveSnapshot(k) PROVE TypeInv'
  <2>. USE <1>13 DEF SaveSnapshot
  <2>1. memory[k] \in Memories
    BY <1>2, <1>3 DEF Idle
  <2>2. TypeOK' /\ ReadableIsMemory'
    BY <1>1, <2>1 DEF TypeOK, StoreInv, ReadableIsMemory
  <2>. QED
    BY <1>1, <2>2 DEF UpHasMemory
<1>14. ASSUME NEW k \in Kernels, Crash(k) PROVE TypeInv'
  <2>. USE <1>14 DEF Crash
  <2>1. Down \in Steps
    BY DEF Steps
  <2>2. TypeOK' /\ UpHasMemory'
    BY <1>1, <2>1 DEF TypeOK, StoreInv, UpHasMemory, Proceed
  <2>. QED
    BY <1>1, <2>2 DEF ReadableIsMemory
<1>15. ASSUME NEW k \in Kernels, Reopen(k) PROVE TypeInv'
  <2>. USE <1>15 DEF Reopen
  <2>1. durable[k] \in Memories /\ Idle \in Steps
    BY DEF ReadableIsMemory, Steps
  <2>2. TypeOK' /\ UpHasMemory'
    BY <1>1, <2>1 DEF TypeOK, StoreInv, UpHasMemory, Proceed
  <2>. QED
    BY <1>1, <2>2 DEF ReadableIsMemory
<1>. QED
  BY <1>4, <1>5, <1>6, <1>7, <1>8, <1>9, <1>10, <1>11, <1>12, <1>13, <1>14, <1>15
  DEF Next

\* The memories, the operations in progress and the files of the kernels, and the
\* store they share, keep their types.
THEOREM TypeCorrect == Spec => []TypeOK
<1>1. Init => TypeInv
  BY InitTypes
<1>2. TypeInv /\ [Next]_vars => TypeInv'
  BY NextTypes
<1>3. TypeInv => TypeOK
  BY DEF TypeInv
<1>. QED
  BY <1>1, <1>2, <1>3, PTL DEF Spec

-----------------------------------------------------------------------------
(* Opening the files gives the memory.                                      *)

\* ReplayMatchesMemory is not inductive: between the append and the update of the
\* memory the files are one entry ahead, and they stay readable or not as that
\* entry is acceptable to the memory.
FilesFollowMemory ==
  \A k \in Kernels :
    /\ op[k].at \in {"idle", "journal", "execute"} => durable[k] \in {memory[k], Unreadable}
    /\ op[k].at = "accept" =>
         durable[k] \in {Replayed(op[k].entry, memory[k]), Unreadable}

\* Every step keeps the files in step with the memory.
LEMMA NextFollows == TypeInv /\ FilesFollowMemory /\ [Next]_vars => FilesFollowMemory'
<1>. SUFFICES ASSUME TypeInv, FilesFollowMemory, [Next]_vars, NEW l \in Kernels
              PROVE  /\ op'[l].at \in {"idle", "journal", "execute"} =>
                          durable'[l] \in {memory'[l], Unreadable}
                     /\ op'[l].at = "accept" =>
                          durable'[l] \in {Replayed(op'[l].entry, memory'[l]), Unreadable}
  BY DEF FilesFollowMemory
<1>. DEFINE Goal == /\ op'[l].at \in {"idle", "journal", "execute"} =>
                         durable'[l] \in {memory'[l], Unreadable}
                    /\ op'[l].at = "accept" =>
                         durable'[l] \in {Replayed(op'[l].entry, memory'[l]), Unreadable}
<1>1. /\ op \in [Kernels -> Steps]
      /\ DOMAIN memory = Kernels /\ DOMAIN durable = Kernels /\ DOMAIN op = Kernels
  BY DEF TypeInv, TypeOK
<1>2. ASSUME op'[l] = op[l], memory'[l] = memory[l], durable'[l] = durable[l] PROVE Goal
  BY <1>2 DEF FilesFollowMemory
<1>3. ASSUME NEW k \in Kernels, op[k].at \in {"idle", "journal", "execute"},
             NEW step, step.at \in {"idle", "journal", "execute"}, Proceed(k, step),
             UNCHANGED <<memory, durable>>
      PROVE  Goal
  BY <1>1, <1>3 DEF FilesFollowMemory, Proceed
<1>4. CASE UNCHANGED vars
  BY <1>2, <1>4 DEF vars
<1>5. ASSUME NEW k \in Kernels, NEW w \in Writers, NEW expected \in 0..MaxEpoch,
             AcquireAuthorityEpoch(k, w, expected)
      PROVE  Goal
  BY <1>3, <1>5 DEF AcquireAuthorityEpoch, Idle
<1>6. ASSUME NEW k \in Kernels, NEW e \in granted, ConditionalCorrectnessCommit(k, e)
      PROVE  Goal
  BY <1>3, <1>6 DEF ConditionalCorrectnessCommit, Idle
<1>7. ASSUME NEW k \in Kernels, NEW a \in Auths, NEW e \in granted, BindAuthorization(k, a, e)
      PROVE  Goal
  BY <1>3, <1>7 DEF BindAuthorization, Idle
<1>8. ASSUME NEW k \in Kernels, Journal(k) PROVE Goal
  <2>. USE <1>8 DEF Journal
  <2>1. CASE k # l
    BY <1>1, <1>2, <2>1 DEF Proceed
  <2>2. CASE k = l
    <3>1. op[l].at = "journal" /\ durable[l] \in {memory[l], Unreadable}
      BY <2>2 DEF FilesFollowMemory
    <3>2. [op[l] EXCEPT !.at = "accept"] = [at |-> "accept", entry |-> op[l].entry]
      BY <1>1, <3>1, PendingEntry
    <3>3. op'[l].at = "accept" /\ op'[l].entry = op[l].entry
      BY <1>1, <2>2, <3>2 DEF Proceed
    <3>4. durable'[l] = Replayed(op[l].entry, durable[l]) /\ memory'[l] = memory[l]
      BY <1>1, <2>2
    <3>5. Replayed(op[l].entry, Unreadable) = Unreadable
      BY DEF Replayed
    <3>. QED
      BY <3>1, <3>3, <3>4, <3>5
  <2>. QED
    BY <2>1, <2>2
<1>9. ASSUME NEW k \in Kernels, JournalFails(k) PROVE Goal
  BY <1>3, <1>9 DEF JournalFails, Idle
<1>10. ASSUME NEW k \in Kernels, Accept(k) PROVE Goal
  <2>. USE <1>10 DEF Accept
  <2>1. CASE k # l
    BY <1>1, <1>2, <2>1 DEF Proceed
  <2>2. CASE k = l
    <3>1. op[l].at = "accept" /\ durable'[l] = durable[l]
      BY <2>2
    <3>2. durable[l] \in {Replayed(op[l].entry, memory[l]), Unreadable}
      BY <3>1 DEF FilesFollowMemory
    <3>3. Replayed(op[l].entry, memory[l]) \in {memory'[l], Unreadable}
      BY <1>1, <2>2 DEF Replayed
    <3>4. op'[l].at = "idle"
      BY <1>1, <2>2 DEF Proceed, Idle
    <3>. QED
      BY <3>1, <3>2, <3>3, <3>4
  <2>. QED
    BY <2>1, <2>2
<1>11. ASSUME NEW k \in Kernels, NEW a \in Auths, CheckBinding(k, a) PROVE Goal
  BY <1>3, <1>11 DEF CheckBinding, Idle
<1>12. ASSUME NEW k \in Kernels, ExecuteAdapter(k) PROVE Goal
  BY <1>3, <1>12 DEF ExecuteAdapter, Idle
<1>13. ASSUME NEW k \in Kernels, SaveSnapshot(k) PROVE Goal
  BY <1>1, <1>2, <1>13 DEF SaveSnapshot, Idle
<1>14. ASSUME NEW k \in Kernels, Crash(k) PROVE Goal
  BY <1>1, <1>2, <1>14 DEF Crash, Proceed, Down
<1>15. ASSUME NEW k \in Kernels, Reopen(k) PROVE Goal
  BY <1>1, <1>2, <1>15 DEF Reopen, Proceed, Idle
<1>. QED
  BY <1>4, <1>5, <1>6, <1>7, <1>8, <1>9, <1>10, <1>11, <1>12, <1>13, <1>14, <1>15 DEF Next

\* However the operations of the kernels interleave, fail or are cut by a crash,
\* opening the files of a kernel that is between two operations gives its memory
\* or is refused; it never gives another memory.
THEOREM FilesGiveMemory == Spec => []ReplayMatchesMemory
<1>1. Init => TypeInv /\ FilesFollowMemory
  BY InitTypes DEF Init, FilesFollowMemory, Idle
<1>2. TypeInv /\ FilesFollowMemory /\ [Next]_vars => (TypeInv /\ FilesFollowMemory)'
  BY NextTypes, NextFollows
<1>3. TypeInv /\ FilesFollowMemory => ReplayMatchesMemory
  BY DEF FilesFollowMemory, ReplayMatchesMemory, Idle
<1>. QED
  BY <1>1, <1>2, <1>3, PTL DEF Spec

-----------------------------------------------------------------------------
(* One kernel at most knows an epoch.                                       *)

\* The epochs kernel k knows of or may come to know without the store: those of
\* its memory, those its files hold, and the one it has acquired and not accepted.
Reach(k) ==
  (IF op[k] # Down THEN memory[k].observed ELSE {})
  \cup (IF durable[k] # Unreadable THEN durable[k].observed ELSE {})
  \cup {e \in Epochs : op[k].at \in {"journal", "accept"} /\ op[k].entry = Acquired(e)}

\* SoleAuthority follows from more: no granted epoch, current or not, is ever
\* within the reach of two kernels, and only granted ones are within reach.
KnowledgeApart ==
  /\ \A k \in Kernels : Reach(k) \subseteq granted
  /\ \A k, l \in Kernels : k # l => Reach(k) \cap Reach(l) = {}

\* A reducer adds to the observed epochs at most the one acquired.
LEMMA ApplyObserves ==
  ASSUME NEW x \in Entries, NEW m \in Memories
  PROVE  Apply(x, m).observed \subseteq
           m.observed \cup (IF x.kind = "acquired" THEN {x.epoch} ELSE {})
<1>1. CASE x.kind = "acquired"
  BY <1>1 DEF Apply, Memories
<1>2. CASE x.kind = "committed"
  BY <1>2 DEF Apply, Memories
<1>3. CASE x.kind = "bound"
  BY <1>3 DEF Apply, Memories
<1>. QED
  BY <1>1, <1>2, <1>3 DEF Entries

\* An entry that records an acquisition is the one built for its epoch.
LEMMA AcquiredEntry ==
  ASSUME NEW x \in Entries, x.kind = "acquired"
  PROVE  x = Acquired(x.epoch)
BY DEF Entries, Acquired

\* So replaying or accepting the entry that is pending puts nothing new in reach.
LEMMA PendingObserves ==
  ASSUME TypeInv, NEW k \in Kernels, op[k].at \in {"journal", "accept"}, NEW m \in Memories
  PROVE  Apply(op[k].entry, m).observed \subseteq m.observed \cup Reach(k)
<1>1. op[k].entry \in Entries
  BY PendingEntry DEF TypeInv, TypeOK
<1>2. op[k].entry.kind = "acquired" =>
        /\ op[k].entry = Acquired(op[k].entry.epoch)
        /\ op[k].entry.epoch \in Epochs
  BY <1>1, AcquiredEntry DEF Entries
<1>3. op[k].entry.kind = "acquired" => op[k].entry.epoch \in Reach(k)
  BY <1>2 DEF Reach
<1>. QED
  BY <1>1, <1>3, ApplyObserves

\* Apart from acquiring an epoch, no step puts anything new within the reach of
\* any kernel.
LEMMA ReachShrinks ==
  ASSUME TypeInv, [Next]_vars, NEW l \in Kernels,
         ~ \E k \in Kernels, w \in Writers, expected \in 0..MaxEpoch :
             AcquireAuthorityEpoch(k, w, expected)
  PROVE  /\ Reach(l)' \subseteq Reach(l)
         /\ granted' = granted
<1>. DEFINE Goal == Reach(l)' \subseteq Reach(l) /\ granted' = granted
<1>1. /\ op \in [Kernels -> Steps]
      /\ DOMAIN memory = Kernels /\ DOMAIN durable = Kernels /\ DOMAIN op = Kernels
  BY DEF TypeInv, TypeOK
<1>2. ASSUME op'[l] = op[l], memory'[l] = memory[l], durable'[l] = durable[l],
             granted' = granted
      PROVE  Goal
  BY <1>2 DEF Reach
<1>3. ASSUME NEW k \in Kernels, op[k] # Down, NEW step, Proceed(k, step),
             \A e \in Epochs : step.at \in {"journal", "accept"} => step.entry # Acquired(e),
             UNCHANGED <<memory, durable, granted>>
      PROVE  Goal
  BY <1>1, <1>3 DEF Reach, Proceed
<1>4. CASE UNCHANGED vars
  BY <1>2, <1>4 DEF vars
<1>5. ASSUME NEW k \in Kernels, NEW e \in granted, ConditionalCorrectnessCommit(k, e)
      PROVE  Goal
  <2>1. granted' = granted
    BY <1>5 DEF ConditionalCorrectnessCommit, ConditionalCommit, storeVars
  <2>2. \A f \in Epochs : Committed(e) # Acquired(f)
    BY DEF Committed, Acquired
  <2>. QED
    BY <1>3, <1>5, <2>1, <2>2 DEF ConditionalCorrectnessCommit, Idle, Down
<1>6. ASSUME NEW k \in Kernels, NEW a \in Auths, NEW e \in granted, BindAuthorization(k, a, e)
      PROVE  Goal
  <2>1. \A f \in Epochs : Bound(a, e) # Acquired(f)
    BY DEF Bound, Acquired
  <2>. QED
    BY <1>3, <1>6, <2>1 DEF BindAuthorization, Idle, Down, storeVars
<1>7. ASSUME NEW k \in Kernels, Journal(k) PROVE Goal
  <2>. USE <1>7 DEF Journal
  <2>1. CASE k # l
    BY <1>1, <1>2, <2>1 DEF Proceed, storeVars
  <2>2. CASE k = l
    <3>1. [op[l] EXCEPT !.at = "accept"] = [at |-> "accept", entry |-> op[l].entry]
      BY <1>1, <2>2, PendingEntry
    <3>2. op'[l].at = "accept" /\ op'[l].entry = op[l].entry /\ op[l] # Down
      BY <1>1, <2>2, <3>1 DEF Proceed, Down
    <3>3. ASSUME durable'[l] # Unreadable
          PROVE  durable'[l].observed \subseteq Reach(l)
      <4>1. durable[l] # Unreadable /\ durable'[l] = Apply(op[l].entry, durable[l])
        BY <1>1, <2>2, <3>3 DEF Replayed
      <4>2. durable[l] \in Memories
        BY <4>1 DEF TypeInv, ReadableIsMemory
      <4>3. durable[l].observed \subseteq Reach(l)
        BY <4>1 DEF Reach
      <4>. QED
        BY <2>2, <4>1, <4>2, <4>3, PendingObserves
    <3>. QED
      BY <2>2, <3>2, <3>3 DEF Reach, storeVars
  <2>. QED
    BY <2>1, <2>2
<1>8. ASSUME NEW k \in Kernels, JournalFails(k) PROVE Goal
  BY <1>3, <1>8 DEF JournalFails, Idle, Down, storeVars
<1>9. ASSUME NEW k \in Kernels, Accept(k) PROVE Goal
  <2>. USE <1>9 DEF Accept
  <2>1. CASE k # l
    BY <1>1, <1>2, <2>1 DEF Proceed, storeVars
  <2>2. CASE k = l
    <3>1. op'[l] = Idle /\ op[l] # Down
      BY <1>1, <2>2 DEF Proceed, Down
    <3>2. memory[l] \in Memories /\ memory[l].observed \subseteq Reach(l)
      BY <3>1 DEF TypeInv, UpHasMemory, Reach
    <3>3. memory'[l].observed \subseteq Reach(l)
      BY <1>1, <2>2, <3>2, PendingObserves
    <3>. QED
      BY <2>2, <3>1, <3>3 DEF Reach, Idle, storeVars
  <2>. QED
    BY <2>1, <2>2
<1>10. ASSUME NEW k \in Kernels, NEW a \in Auths, CheckBinding(k, a) PROVE Goal
  BY <1>3, <1>10 DEF CheckBinding, Idle, Down, storeVars
<1>11. ASSUME NEW k \in Kernels, ExecuteAdapter(k) PROVE Goal
  BY <1>3, <1>11 DEF ExecuteAdapter, Idle, Down, storeVars
<1>12. ASSUME NEW k \in Kernels, SaveSnapshot(k) PROVE Goal
  BY <1>1, <1>12 DEF SaveSnapshot, Idle, Down, Reach, storeVars
<1>13. ASSUME NEW k \in Kernels, Crash(k) PROVE Goal
  BY <1>1, <1>13 DEF Crash, Proceed, Down, Reach, storeVars
<1>14. ASSUME NEW k \in Kernels, Reopen(k) PROVE Goal
  BY <1>1, <1>14 DEF Reopen, Proceed, Idle, Reach, storeVars
<1>. QED
  BY <1>4, <1>5, <1>6, <1>7, <1>8, <1>9, <1>10, <1>11, <1>12, <1>13, <1>14 DEF Next

\* Acquiring an epoch puts in the reach of the kernel that acquires it one that
\* was not granted before, hence in nobody's reach.
LEMMA AcquisitionKeepsApart ==
  ASSUME TypeInv, KnowledgeApart, NEW k \in Kernels, NEW w \in Writers,
         NEW expected \in 0..MaxEpoch, AcquireAuthorityEpoch(k, w, expected)
  PROVE  KnowledgeApart'
<1>. DEFINE new == SuccessorEpoch(w)
<1>1. new \in Epochs /\ new \notin granted
  <2>1. new \in Epochs
    BY SuccessorEpochType DEF TypeInv, StoreInv, AcquireAuthorityEpoch, AcquireEpoch
  <2>2. new.number = epoch.number + 1
    BY DEF SuccessorEpoch
  <2>3. epoch.number \in Nat
    BY StoreAssumption DEF TypeInv, StoreInv, StoreTypeOK, Epochs, NoEpoch
  <2>4. \A g \in granted : g.number <= epoch.number
    BY DEF TypeInv, StoreInv, GrantedUpToHeld
  <2>. HIDE DEF new
  <2>. QED
    BY <2>1, <2>2, <2>3, <2>4
<1>2. granted' = granted \cup {new}
  BY DEF AcquireAuthorityEpoch, AcquireEpoch
<1>3. /\ op' = [op EXCEPT ![k] = [at |-> "journal", entry |-> Acquired(new)]]
      /\ op[k] = Idle /\ UNCHANGED <<memory, durable>>
  BY DEF AcquireAuthorityEpoch, Proceed
<1>4. op \in [Kernels -> Steps]
  BY DEF TypeInv, TypeOK
<1>. HIDE DEF new
<1>5. \A l \in Kernels : l # k => Reach(l)' = Reach(l)
  BY <1>3, <1>4 DEF Reach
<1>6. Reach(k)' \subseteq Reach(k) \cup {new}
  <2>1. \A e \in Epochs : Acquired(new) = Acquired(e) => e = new
    BY DEF Acquired
  <2>. QED
    BY <1>3, <1>4, <2>1 DEF Reach, Idle, Down
<1>. QED
  BY <1>1, <1>2, <1>5, <1>6 DEF KnowledgeApart

\* Every step keeps the knowledge of the kernels apart.
LEMMA NextApart == TypeInv /\ KnowledgeApart /\ [Next]_vars => KnowledgeApart'
<1>. SUFFICES ASSUME TypeInv, KnowledgeApart, [Next]_vars PROVE KnowledgeApart'
  OBVIOUS
<1>1. CASE \E k \in Kernels, w \in Writers, expected \in 0..MaxEpoch :
             AcquireAuthorityEpoch(k, w, expected)
  BY <1>1, AcquisitionKeepsApart
<1>2. CASE ~ \E k \in Kernels, w \in Writers, expected \in 0..MaxEpoch :
               AcquireAuthorityEpoch(k, w, expected)
  <2>1. \A l \in Kernels : Reach(l)' \subseteq Reach(l) /\ granted' = granted
    BY <1>2, ReachShrinks
  <2>. QED
    BY <2>1 DEF KnowledgeApart
<1>. QED
  BY <1>1, <1>2

\* Whatever is acquired, journalled, lost in a crash and read back, at most one
\* kernel knows the epoch that the store now holds.
THEOREM OneKernelHolds == Spec => []SoleAuthority
<1>1. Init => TypeInv /\ KnowledgeApart
  <2>. SUFFICES ASSUME Init PROVE KnowledgeApart
    BY InitTypes
  <2>1. \A k \in Kernels : Reach(k) = {}
    BY DEF Init, Reach, EmptyMemory, Idle
  <2>. QED
    BY <2>1 DEF KnowledgeApart
<1>2. TypeInv /\ KnowledgeApart /\ [Next]_vars => (TypeInv /\ KnowledgeApart)'
  BY NextTypes, NextApart
<1>3. TypeInv /\ KnowledgeApart => SoleAuthority
  BY DEF KnowledgeApart, Reach, SoleAuthority
<1>. QED
  BY <1>1, <1>2, <1>3, PTL DEF Spec

=============================================================================
