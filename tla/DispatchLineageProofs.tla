------------------------ MODULE DispatchLineageProofs ------------------------
(***************************************************************************)
(* Dispatch compares revisions, and the argument is about their sequences: *)
(* a revision that comes about now has a later sequence than every         *)
(* revision an authorization is bound to (Dated), so that what has gone    *)
(* stale stays stale.  What a restart restores differs from the memory in  *)
(* the sequences, but not in which bindings are up to date (Same).  And    *)
(* each entry of the journal that changes what an authorization rests on   *)
(* has left it stale (Recorded).                                           *)
(*                                                                         *)
(* A live operation leaves what the replay of its entries into the memory  *)
(* leaves, up to the flush of a pending commit; so one lemma about the     *)
(* replay of an entry (Step) serves the memory, the files and every crash  *)
(* in between.                                                             *)
(***************************************************************************)
EXTENDS DispatchLineage, TLAPS

-----------------------------------------------------------------------------
(* A kernel k without a pending commit, whose journal is J.                   *)

Bound(k, u) == k.auth[u].binding # NoBinding
ProofBound(k, u) == k.auth[u].proof # NoBinding
BasisOf(k, u) == Basis(k.auth[u].action, k.auth[u].grants)

\* The regimes that there have been before the entry n + 1.
RegimesUpTo(k, n) == (0..n) \cup k.applied

\* Every revision is of what its object says, and none is later than now.
Dated(k, n) ==
  /\ \A o \in Objects : k.revision[o].of = k.content[o] /\ k.revision[o].seq <= n
  /\ \A d \in Kinds : k.regime[d] \in RegimesUpTo(k, n)

\* An authorization is bound to revisions and regimes that there have been.
BoundBefore(k, n) ==
  \A u \in Auths :
    /\ Bound(k, u) =>
         /\ \A o \in Objects :
              IF o \in BasisOf(k, u)
              THEN /\ k.auth[u].binding.revision[o] \in Revisions
                   /\ k.auth[u].binding.revision[o].seq <= n
              ELSE k.auth[u].binding.revision[o] = NoBinding
         /\ \A d \in Kinds : k.auth[u].binding.regime[d] \in RegimesUpTo(k, n)
    /\ ProofBound(k, u) => \A s \in Sources : k.auth[u].proof[s].seq <= n

EnteredAt(J, p, u) == J[p].event = "action.authorized" /\ J[p].auth = u

\* The journal tells what the registered objects say and what was authorized; whatever it
\* tells of since then that an authorization rests on has left it stale.
RecordedAt(k, J, p, u) ==
  /\ EnteredAt(J, p, u)
  /\ \A q \in 1..Len(J) : EnteredAt(J, q, u) => q = p
  /\ J[p].action = k.auth[u].action /\ J[p].grants = k.auth[u].grants
  /\ ProofBound(k, u) <=> Proven(J, p)
  /\ \A i \in (p + 1)..Len(J) : Disturbs(J, i, p) => ~ Current(k, u)

Recorded(k, J) ==
  /\ \A o \in Registered : Says(J, o, k.content[o], Len(J) + 1)
  /\ \A u \in Auths :
       /\ k.tx[u] = "none" => \A q \in 1..Len(J) : ~ EnteredAt(J, q, u)
       /\ k.tx[u] # "none" /\ ~ Bound(k, u) => u \in k.recheck
       /\ k.tx[u] # "none" /\ Bound(k, u) => \E p \in 1..Len(J) : RecordedAt(k, J, p, u)

Settled(k, J) ==
  /\ k \in Kernels /\ k.pending = 0
  /\ Dated(k, Len(J)) /\ BoundBefore(k, Len(J)) /\ Recorded(k, J)

\* A kernel that may have a pending commit, later than all that is bound.
Sound(k, J) ==
  /\ k \in Kernels
  /\ k.pending # 0 =>
       /\ k.pending <= Len(J)
       /\ k.revision[Canonical].of # k.content[Canonical]
       /\ \A u \in Auths : Bound(k, u) => k.auth[u].binding.revision[Canonical].seq < k.pending
  /\ Settled(Flush(k), J)

\* Two kernels that agree, but for the sequences of their revisions.
SameAuth(k, d, u) ==
  /\ k.auth[u].action = d.auth[u].action /\ k.auth[u].grants = d.auth[u].grants
  /\ k.auth[u].mission = d.auth[u].mission /\ k.auth[u].canonical = d.auth[u].canonical
  /\ Bound(k, u) <=> Bound(d, u)
  /\ ProofBound(k, u) <=> ProofBound(d, u)
  /\ Bound(k, u) =>
       /\ k.auth[u].binding.regime = d.auth[u].binding.regime
       /\ \A o \in BasisOf(k, u) : k.auth[u].binding.revision[o] = k.revision[o]
                                    <=> d.auth[u].binding.revision[o] = d.revision[o]
  /\ ProofBound(k, u) =>
       \A s \in Sources : k.auth[u].proof[s] = k.revision[s] <=> d.auth[u].proof[s] = d.revision[s]

Same(k, d) ==
  /\ k.content = d.content /\ k.regime = d.regime /\ k.tx = d.tx
  /\ k.recheck = d.recheck /\ k.applied = d.applied
  /\ \A u \in Auths : SameAuth(k, d, u)

Follows(k, d, J) == Sound(k, J) /\ Sound(d, J) /\ Same(Flush(k), Flush(d))

IInv == TypeOK /\ kernel.pending = 0 /\ Follows(kernel, durable, journal)

-----------------------------------------------------------------------------
(* Kernels and journals.                                                      *)

LEMMA KernelFields ==
  ASSUME NEW k \in Kernels
  PROVE  /\ k.content \in [Objects -> Nat] /\ k.revision \in [Objects -> Revisions]
         /\ k.regime \in [Kinds -> Regimes] /\ k.auth \in [Auths -> Authorizations]
         /\ k.tx \in [Auths -> States]
         /\ k.recheck \subseteq Auths /\ k.applied \subseteq Manifests /\ k.pending \in Nat
BY DEF Kernels

LEMMA RevisionParts ==
  ASSUME NEW n, NEW c
  PROVE  Revision(n, c).seq = n /\ Revision(n, c).of = c
BY DEF Revision

LEMMA BasisObjects ==
  /\ Mission \in Objects /\ Canonical \in Objects /\ Mission # Canonical
  /\ Sources \subseteq Objects /\ Registered \subseteq Objects
  /\ Mission \notin Registered /\ Canonical \notin Registered /\ Canonical \notin Sources
  /\ \A a \in Actions, G \in SUBSET Grants : Basis(a, G) \subseteq Objects
BY LineageAssumption DEF Objects, Registered, Basis

\* What is appended to a journal leaves what was there.
LEMMA JournalGrows ==
  ASSUME NEW J \in Seq(Entries), NEW e \in Entries
  PROVE  /\ Append(J, e) \in Seq(Entries) /\ Len(J) \in Nat /\ Len(Append(J, e)) = Len(J) + 1
         /\ \A i \in 1..Len(J) : Append(J, e)[i] = J[i]
         /\ Append(J, e)[Len(J) + 1] = e
OBVIOUS

LEMMA SaysKept ==
  ASSUME NEW J \in Seq(Entries), NEW e \in Entries, NEW o, NEW c, NEW i \in 1..(Len(J) + 1)
  PROVE  Says(Append(J, e), o, c, i) <=> Says(J, o, c, i)
<1> DEFINE said == {j \in 1..(i - 1) : J[j].event = "defined" /\ J[j].object = o}
           later == {j \in 1..(i - 1) : Append(J, e)[j].event = "defined"
                                         /\ Append(J, e)[j].object = o}
<1>1. \A j \in 1..(i - 1) : Append(J, e)[j] = J[j]
  BY JournalGrows
<1>2. later = said
  BY <1>1
<1>3. \A j \in said : Append(J, e)[j] = J[j]
  BY <1>1
<1> QED
  BY <1>2, <1>3 DEF Says

\* The entry itself says what it defines, and nothing of other objects.
LEMMA SaysNow ==
  ASSUME NEW J \in Seq(Entries), NEW e \in Entries, NEW o, NEW c
  PROVE  Says(Append(J, e), o, c, Len(J) + 2)
           <=> IF e.event = "defined" /\ e.object = o THEN c = e.content
               ELSE Says(J, o, c, Len(J) + 1)
<1> DEFINE J2 == Append(J, e)
           n == Len(J) + 1
           said == {j \in 1..(n - 1) : J[j].event = "defined" /\ J[j].object = o}
           now == {j \in 1..(n + 1 - 1) : J2[j].event = "defined" /\ J2[j].object = o}
<1>1. n \in Nat /\ (n - 1) = Len(J) /\ (n + 1 - 1) = n /\ Len(J) + 2 = n + 1
      /\ (\A j \in 1..(n - 1) : J2[j] = J[j]) /\ J2[n] = e
  BY JournalGrows
<1>2. 1..(n + 1 - 1) = (1..(n - 1)) \cup {n} /\ n \notin 1..(n - 1)
  BY <1>1
<1> HIDE DEF J2
<1>3. CASE e.event = "defined" /\ e.object = o
  <2>1. n \in now /\ \A j \in now : j <= n
    BY <1>1, <1>2, <1>3
  <2>2. \A j \in now : (\A l \in now : l <= j) => j = n
    BY <1>1, <2>1
  <2> QED
    BY <1>1, <1>3, <2>1, <2>2 DEF Says, J2
<1>4. CASE ~ (e.event = "defined" /\ e.object = o)
  <2>1. now = said
    BY <1>1, <1>2, <1>4
  <2>2. \A j \in said : J2[j] = J[j]
    BY <1>1
  <2> QED
    BY <1>1, <1>4, <2>1, <2>2 DEF Says, J2
<1> QED
  BY <1>3, <1>4

LEMMA ProvenKept ==
  ASSUME NEW J \in Seq(Entries), NEW e \in Entries, NEW p \in 1..Len(J)
  PROVE  Proven(Append(J, e), p)
           <=> Proven(J, p) \/ (p = Len(J) /\ e.event = "proof.authorization_bound")
<1> DEFINE J2 == Append(J, e)
<1>1. /\ Len(J) \in Nat /\ Len(J2) = Len(J) + 1
      /\ p < Len(J) => J2[p + 1] = J[p + 1]
      /\ p = Len(J) => J2[p + 1] = e
  BY JournalGrows
<1>2. Proven(J2, p) <=> p < Len(J2) /\ J2[p + 1].event = "proof.authorization_bound"
  BY DEF Proven
<1>3. Proven(J, p) <=> p < Len(J) /\ J[p + 1].event = "proof.authorization_bound"
  BY DEF Proven
<1>. SUFFICES Proven(J2, p)
               <=> Proven(J, p) \/ (p = Len(J) /\ e.event = "proof.authorization_bound")
  OBVIOUS
<1> HIDE DEF J2
<1>4. (p < Len(J) \/ p = Len(J)) /\ p < Len(J2)
  BY <1>1
<1>5. CASE p < Len(J)
  <2>1. J2[p + 1] = J[p + 1] /\ p # Len(J)
    BY <1>1, <1>5
  <2> QED
    BY <1>4, <1>5, <2>1 DEF Proven
<1>6. CASE p = Len(J)
  <2>1. J2[p + 1] = e /\ ~ p < Len(J)
    BY <1>1, <1>6
  <2> QED
    BY <1>2, <1>3, <1>4, <1>6, <2>1
<1> QED
  BY <1>4, <1>5, <1>6

LEMMA ProvenSame ==
  ASSUME NEW J \in Seq(Entries), NEW e \in Entries, NEW p \in 1..Len(J),
         e.event # "proof.authorization_bound"
  PROVE  Proven(Append(J, e), p) <=> Proven(J, p)
<1>1. Proven(Append(J, e), p)
        <=> Proven(J, p) \/ (p = Len(J) /\ e.event = "proof.authorization_bound")
  BY ProvenKept
<1>2. Proven(J, p) \in BOOLEAN /\ Proven(Append(J, e), p) \in BOOLEAN
  BY DEF Proven
<1> QED
  BY <1>1, <1>2

LEMMA DisturbsKept ==
  ASSUME NEW J \in Seq(Entries), NEW e \in Entries, NEW p \in 1..Len(J), NEW i \in 1..Len(J),
         Proven(Append(J, e), p) <=> Proven(J, p)
  PROVE  Disturbs(Append(J, e), i, p) <=> Disturbs(J, i, p)
<1>1. Append(J, e)[i] = J[i] /\ Append(J, e)[p] = J[p] /\ i \in 1..(Len(J) + 1)
  BY JournalGrows
<1>2. \A o, c : Says(Append(J, e), o, c, i) <=> Says(J, o, c, i)
  BY <1>1, SaysKept
<1> QED
  BY <1>1, <1>2 DEF Disturbs

\* A binding is current when each of its parts is.
LEMMA CurrentParts ==
  ASSUME NEW k \in Kernels, NEW n, BoundBefore(k, n), NEW u \in Auths
  PROVE  Current(k, u) <=>
           /\ Bound(k, u) =>
                /\ k.auth[u].binding.regime = k.regime
                /\ \A o \in BasisOf(k, u) : k.auth[u].binding.revision[o] = k.revision[o]
           /\ ProofBound(k, u) => \A s \in Sources : k.auth[u].proof[s] = k.revision[s]
<1> DEFINE a == k.auth[u]
<1>1. a \in Authorizations /\ k.revision \in [Objects -> Revisions]
  BY KernelFields
<1>2. BasisOf(k, u) \subseteq Objects
  BY <1>1, BasisObjects DEF BasisOf, Authorizations
<1>3. CurrentBinding(k, u) <=>
        (Bound(k, u) => /\ a.binding.regime = k.regime
                        /\ \A o \in BasisOf(k, u) : a.binding.revision[o] = k.revision[o])
  <2>1. CASE ~ Bound(k, u)
    BY <2>1 DEF CurrentBinding, Bound
  <2>2. CASE Bound(k, u)
    <3> DEFINE rev == [o \in Objects |-> IF o \in BasisOf(k, u) THEN k.revision[o] ELSE NoBinding]
    <3>1. a.binding \in Bindings
      BY <1>1, <2>2 DEF Authorizations, Bound
    <3>2. a.binding = [revision |-> a.binding.revision, regime |-> a.binding.regime]
          /\ a.binding.revision = [o \in Objects |-> a.binding.revision[o]]
      BY <3>1 DEF Bindings
    <3>3. Binding(k, a.action, a.grants) = [revision |-> rev, regime |-> k.regime]
      BY DEF Binding, BasisOf
    <3>4. \A o \in Objects : o \notin BasisOf(k, u) => a.binding.revision[o] = NoBinding
      BY <2>2 DEF BoundBefore
    <3>5. a.binding.revision = rev
            <=> \A o \in BasisOf(k, u) : a.binding.revision[o] = k.revision[o]
      BY <1>2, <3>2, <3>4
    <3>6. a.binding = Binding(k, a.action, a.grants)
            <=> a.binding.revision = rev /\ a.binding.regime = k.regime
      BY <3>2, <3>3
    <3> QED
      BY <2>2, <3>5, <3>6 DEF CurrentBinding, Bound
  <2> QED
    BY <2>1, <2>2
<1>4. CurrentProof(k, u) <=>
        (ProofBound(k, u) => \A s \in Sources : a.proof[s] = k.revision[s])
  <2>1. ProofBound(k, u) => a.proof = [s \in Sources |-> a.proof[s]]
    BY <1>1 DEF ProofBound, Authorizations, Proofs
  <2> QED
    BY <2>1 DEF CurrentProof, ProofBound, ProofBinding
<1> QED
  BY <1>3, <1>4 DEF Current

-----------------------------------------------------------------------------
(* What most entries do to a settled kernel: some objects get a revision, or  *)
(* a regime gets one, at the sequence of the entry; no binding changes.       *)

Advances(k, l, n) ==
  /\ l \in Kernels /\ l.pending = 0 /\ l.auth = k.auth
  /\ \A u \in Auths : l.tx[u] = "none" <=> k.tx[u] = "none"
  /\ k.recheck \subseteq l.recheck /\ k.applied \subseteq l.applied
  /\ \A o \in Objects :
       \/ l.revision[o] = k.revision[o] /\ l.content[o] = k.content[o]
       \/ l.revision[o] = Revision(n, l.content[o])
  /\ \A d \in Kinds : l.regime[d] = k.regime[d] \/ l.regime[d] \in {n} \cup (l.applied \ k.applied)

LEMMA Fields ==
  ASSUME NEW k, NEW l, NEW n, Advances(k, l, n), NEW u
  PROVE  /\ Bound(l, u) <=> Bound(k, u)
         /\ ProofBound(l, u) <=> ProofBound(k, u)
         /\ BasisOf(l, u) = BasisOf(k, u)
         /\ l.auth[u] = k.auth[u]
BY DEF Advances, Bound, ProofBound, BasisOf

LEMMA DatedAdvance ==
  ASSUME NEW k \in Kernels, NEW l, NEW m \in Nat, Advances(k, l, m + 1),
         Dated(k, m), BoundBefore(k, m)
  PROVE  Dated(l, m + 1) /\ BoundBefore(l, m + 1)
<1>1. \A r \in RegimesUpTo(k, m) : r \in RegimesUpTo(l, m + 1)
  BY DEF Advances, RegimesUpTo
<1>2. k.revision \in [Objects -> Revisions] /\ l.content \in [Objects -> Nat]
  BY KernelFields DEF Advances
<1>3. Dated(l, m + 1)
  <2>1. ASSUME NEW o \in Objects
        PROVE  l.revision[o].of = l.content[o] /\ l.revision[o].seq <= m + 1
    <3>1. k.revision[o].of = k.content[o] /\ k.revision[o].seq <= m /\ k.revision[o].seq \in Nat
      BY <1>2 DEF Dated, Revisions
    <3>2. \/ l.revision[o] = k.revision[o] /\ l.content[o] = k.content[o]
          \/ l.revision[o] = Revision(m + 1, l.content[o])
      BY DEF Advances
    <3> QED
      BY <3>1, <3>2, RevisionParts
  <2>2. ASSUME NEW d \in Kinds PROVE l.regime[d] \in RegimesUpTo(l, m + 1)
    <3>1. k.regime[d] \in RegimesUpTo(l, m + 1)
      BY <1>1 DEF Dated
    <3>2. m + 1 \in RegimesUpTo(l, m + 1) /\ l.applied \subseteq RegimesUpTo(l, m + 1)
      BY DEF RegimesUpTo
    <3> QED
      BY <3>1, <3>2 DEF Advances
  <2> QED
    BY <2>1, <2>2 DEF Dated
<1>4. BoundBefore(l, m + 1)
  <2> SUFFICES ASSUME NEW u \in Auths PROVE BoundBefore(l, m + 1)!(u)
    BY DEF BoundBefore
  <2>0. l.auth[u] = k.auth[u] /\ BasisOf(l, u) = BasisOf(k, u) /\ k.auth[u] \in Authorizations
        /\ (Bound(l, u) <=> Bound(k, u)) /\ (ProofBound(l, u) <=> ProofBound(k, u))
    BY Fields, KernelFields
  <2>1. ASSUME Bound(l, u), NEW o \in Objects
        PROVE  IF o \in BasisOf(l, u)
               THEN /\ l.auth[u].binding.revision[o] \in Revisions
                    /\ l.auth[u].binding.revision[o].seq <= m + 1
               ELSE l.auth[u].binding.revision[o] = NoBinding
    BY <2>0, <2>1 DEF BoundBefore, Revisions
  <2>2. ASSUME Bound(l, u), NEW d \in Kinds
        PROVE  l.auth[u].binding.regime[d] \in RegimesUpTo(l, m + 1)
    BY <1>1, <2>0, <2>2 DEF BoundBefore
  <2>3. ASSUME ProofBound(l, u), NEW s \in Sources PROVE l.auth[u].proof[s].seq <= m + 1
    <3>1. k.auth[u].proof[s].seq <= m /\ k.auth[u].proof[s].seq \in Nat
      BY <2>0, <2>3 DEF BoundBefore, ProofBound, Authorizations, Proofs, Revisions
    <3> QED
      BY <2>0, <3>1
  <2> QED
    BY <2>1, <2>2, <2>3
<1> QED
  BY <1>3, <1>4

\* What is bound is earlier than what changes now.
LEMMA ChangedIsNew ==
  ASSUME NEW k \in Kernels, NEW l, NEW m \in Nat, Advances(k, l, m + 1), BoundBefore(k, m),
         NEW u \in Auths
  PROVE  /\ \A o \in BasisOf(k, u) :
              Bound(k, u) /\ l.revision[o].seq = m + 1
                => k.auth[u].binding.revision[o] # l.revision[o]
         /\ \A s \in Sources :
              ProofBound(k, u) /\ l.revision[s].seq = m + 1 => k.auth[u].proof[s] # l.revision[s]
         /\ \A d \in Kinds :
              Bound(k, u) /\ l.regime[d] \notin RegimesUpTo(k, m)
                => k.auth[u].binding.regime # l.regime
<1>0. k.auth[u] \in Authorizations /\ BasisOf(k, u) \subseteq Objects
  BY KernelFields, BasisObjects DEF BasisOf, Authorizations
<1>1. \A o \in BasisOf(k, u) : Bound(k, u) =>
        k.auth[u].binding.revision[o].seq \in Nat /\ k.auth[u].binding.revision[o].seq <= m
  BY <1>0 DEF BoundBefore, Revisions
<1>2. \A s \in Sources : ProofBound(k, u) =>
        k.auth[u].proof[s].seq \in Nat /\ k.auth[u].proof[s].seq <= m
  BY <1>0 DEF BoundBefore, ProofBound, Authorizations, Proofs, Revisions
<1>3. \A d \in Kinds : Bound(k, u) => k.auth[u].binding.regime[d] \in RegimesUpTo(k, m)
  BY DEF BoundBefore
<1> QED
  BY <1>1, <1>2, <1>3

\* What has gone stale stays stale.
LEMMA StaleAdvance ==
  ASSUME NEW k \in Kernels, NEW l, NEW m \in Nat, Advances(k, l, m + 1),
         Dated(k, m), BoundBefore(k, m), NEW u \in Auths, ~ Current(k, u)
  PROVE  ~ Current(l, u)
<1>0. /\ l \in Kernels /\ BoundBefore(l, m + 1) /\ l.auth[u] = k.auth[u]
      /\ (Bound(l, u) <=> Bound(k, u)) /\ (ProofBound(l, u) <=> ProofBound(k, u))
      /\ BasisOf(l, u) = BasisOf(k, u) /\ BasisOf(k, u) \subseteq Objects
      /\ k.auth[u] \in Authorizations
      /\ l.regime \in [Kinds -> Regimes] /\ k.regime \in [Kinds -> Regimes]
  BY Fields, DatedAdvance, KernelFields, BasisObjects DEF Advances, BasisOf, Authorizations
<1>1. \A o \in Objects : l.revision[o] = k.revision[o] \/ l.revision[o].seq = m + 1
  <2> SUFFICES ASSUME NEW o \in Objects
               PROVE  l.revision[o] = k.revision[o] \/ l.revision[o].seq = m + 1
    OBVIOUS
  <2>1. l.revision[o] = k.revision[o] \/ l.revision[o] = Revision(m + 1, l.content[o])
    BY DEF Advances
  <2> QED
    BY <2>1, RevisionParts
<1>2. \A d \in Kinds : l.regime[d] = k.regime[d] \/ l.regime[d] \notin RegimesUpTo(k, m)
  <2>1. m + 1 \notin RegimesUpTo(k, m)
    BY KernelFields, LineageAssumption DEF RegimesUpTo
  <2>2. \A x \in l.applied \ k.applied : x \notin RegimesUpTo(k, m)
    BY <1>0, KernelFields, LineageAssumption DEF RegimesUpTo
  <2> QED
    BY <2>1, <2>2 DEF Advances
<1>3. l.regime = k.regime \/ \E d \in Kinds : l.regime[d] \notin RegimesUpTo(k, m)
  BY <1>0, <1>2
<1> QED
  BY <1>0, <1>1, <1>3, CurrentParts, ChangedIsNew, BasisObjects

\* The entry e tells what is new in l: the object it defines, the version it gives, the
\* regime it moves.
Tells(k, l, e, n) ==
  /\ e.event = "mission.revised" => l.revision[Mission].seq = n
  /\ e.event = "canonical.committed" => l.revision[Canonical].seq = n
  /\ e.event \in {"semantic.regime_revised", "migration.schema_root_switched"} =>
       \E d \in Kinds : l.regime[d] \notin RegimesUpTo(k, n - 1)
  /\ e.event = "defined" =>
       /\ e.object \in Registered
       /\ e.content # k.content[e.object] => l.revision[e.object].seq = n
  /\ \A o \in Registered :
       l.content[o] = IF e.event = "defined" /\ e.object = o THEN e.content ELSE k.content[o]
  /\ e.event \notin {"action.authorized", "proof.authorization_bound"}

\* An entry that changes what an authorization rests on leaves it stale.
LEMMA DisturbedIsStale ==
  ASSUME NEW J \in Seq(Entries), NEW e \in Entries, NEW k, Settled(k, J),
         NEW l, Advances(k, l, Len(J) + 1), Tells(k, l, e, Len(J) + 1),
         NEW u \in Auths, Bound(k, u), NEW p \in 1..Len(J), RecordedAt(k, J, p, u),
         Disturbs(Append(J, e), Len(J) + 1, p)
  PROVE  ~ Current(l, u)
<1> DEFINE n == Len(J) + 1
<1>11. /\ Len(J) \in Nat /\ n - 1 = Len(J) /\ k \in Kernels /\ l \in Kernels
      /\ Dated(k, Len(J)) /\ BoundBefore(k, Len(J))
  BY JournalGrows DEF Settled, Advances
<1>12. BoundBefore(l, n)
  BY <1>11, DatedAdvance
<1>0. l.auth[u] = k.auth[u] /\ Bound(l, u) /\ BasisOf(l, u) = BasisOf(k, u)
      /\ (ProofBound(l, u) <=> ProofBound(k, u))
  BY Fields
<1>1. Append(J, e)[n] = e /\ Append(J, e)[p] = J[p]
  BY JournalGrows
<1>2. Proven(Append(J, e), p) <=> ProofBound(k, u)
  <2>1. e.event # "proof.authorization_bound"
    BY DEF Tells
  <2>2. ProofBound(k, u) <=> Proven(J, p)
    BY DEF RecordedAt
  <2>3. Proven(Append(J, e), p) <=> Proven(J, p)
    BY <2>1, ProvenSame
  <2> QED
    BY <2>2, <2>3 DEF ProofBound
<1>13. Current(l, u) =>
        /\ k.auth[u].binding.regime = l.regime
        /\ \A o \in BasisOf(k, u) : k.auth[u].binding.revision[o] = l.revision[o]
        /\ ProofBound(k, u) => \A s \in Sources : k.auth[u].proof[s] = l.revision[s]
  BY <1>11, <1>12, <1>0, CurrentParts
<1>14. /\ \A o \in BasisOf(k, u) :
           l.revision[o].seq = n => k.auth[u].binding.revision[o] # l.revision[o]
      /\ \A s \in Sources :
           ProofBound(k, u) /\ l.revision[s].seq = n => k.auth[u].proof[s] # l.revision[s]
  BY <1>11, ChangedIsNew
<1>15. ASSUME NEW d \in Kinds, l.regime[d] \notin RegimesUpTo(k, Len(J))
       PROVE  k.auth[u].binding.regime # l.regime
  BY <1>11, <1>15, ChangedIsNew
<1>3. Mission \in BasisOf(k, u) /\ Canonical \in BasisOf(k, u)
      /\ J[p].action \in BasisOf(k, u) /\ J[p].grants \subseteq BasisOf(k, u)
  BY DEF BasisOf, Basis, RecordedAt
<1>4. ASSUME NEW o \in BasisOf(k, u), l.revision[o].seq = n PROVE ~ Current(l, u)
  BY <1>4, <1>13, <1>14
<1>5. ASSUME NEW s \in Sources, l.revision[s].seq = n, ProofBound(k, u) PROVE ~ Current(l, u)
  BY <1>5, <1>13, <1>14
<1>6. ASSUME NEW d \in Kinds, l.regime[d] \notin RegimesUpTo(k, Len(J)) PROVE ~ Current(l, u)
  BY <1>6, <1>13, <1>15
<1>7. CASE e.event \in {"mission.revised", "canonical.committed",
                        "semantic.regime_revised", "migration.schema_root_switched"}
  BY <1>11, <1>3, <1>4, <1>6, <1>7 DEF Tells
<1>8. CASE /\ e.event = "defined" /\ ~ Says(Append(J, e), e.object, e.content, n)
           /\ e.object \in {J[p].action} \cup J[p].grants
                             \cup (IF Proven(Append(J, e), p) THEN Sources ELSE {})
  <2>1. e.object \in Registered
    BY <1>8 DEF Tells
  <2>2. ~ Says(J, e.object, e.content, n)
    BY <1>11, <1>8, SaysKept
  <2>3. Says(J, e.object, k.content[e.object], n)
    BY <2>1 DEF Settled, Recorded
  <2>4. l.revision[e.object].seq = n
    BY <1>8, <2>2, <2>3 DEF Tells
  <2> QED
    BY <1>2, <1>3, <1>4, <1>5, <1>8, <2>4
<1> QED
  BY <1>1, <1>7, <1>8 DEF Disturbs

LEMMA SettledAdvance ==
  ASSUME NEW J \in Seq(Entries), NEW e \in Entries, NEW k, Settled(k, J),
         NEW l, Advances(k, l, Len(J) + 1), Tells(k, l, e, Len(J) + 1)
  PROVE  Settled(l, Append(J, e))
<1> DEFINE n == Len(J) + 1
           J2 == Append(J, e)
<1>0. /\ Len(J) \in Nat /\ Len(J2) = n /\ k \in Kernels /\ l \in Kernels /\ l.pending = 0
      /\ Dated(k, Len(J)) /\ BoundBefore(k, Len(J))
      /\ \A i \in 1..Len(J) : J2[i] = J[i]
      /\ J2[n] = e
  BY JournalGrows DEF Settled, Advances
<1>1. Dated(l, n) /\ BoundBefore(l, n)
  BY <1>0, DatedAdvance
<1>2. ASSUME NEW o \in Registered PROVE Says(J2, o, l.content[o], n + 1)
  <2>1. Says(J, o, k.content[o], n)
    BY DEF Settled, Recorded
  <2>2. n + 1 = Len(J) + 2
    BY <1>0
  <2> QED
    BY <2>1, <2>2, SaysNow DEF Tells
<1>3. ASSUME NEW u \in Auths, NEW q \in 1..n
      PROVE  EnteredAt(J2, q, u) => q # n /\ EnteredAt(J, q, u)
  BY <1>0 DEF EnteredAt, Tells
<1>4. ASSUME NEW u \in Auths, l.tx[u] # "none", Bound(l, u)
      PROVE  \E p \in 1..n : RecordedAt(l, J2, p, u)
  <2>1. k.tx[u] # "none" /\ Bound(k, u) /\ l.auth[u] = k.auth[u]
        /\ (ProofBound(l, u) <=> ProofBound(k, u))
    BY <1>4, Fields DEF Advances
  <2>2. PICK p \in 1..Len(J) : RecordedAt(k, J, p, u)
    BY <2>1 DEF Settled, Recorded
  <2>3. Proven(J2, p) <=> Proven(J, p)
    <3>1. e.event # "proof.authorization_bound"
      BY DEF Tells
    <3> QED
      BY <3>1, ProvenSame
  <2>4. ASSUME NEW i \in (p + 1)..n, Disturbs(J2, i, p) PROVE ~ Current(l, u)
    <3>1. CASE i = n
      BY <2>1, <2>2, <2>4, <3>1, DisturbedIsStale
    <3>2. CASE i # n
      <4>1. i \in (p + 1)..Len(J) /\ i \in 1..Len(J)
        BY <1>0, <3>2
      <4>2. Disturbs(J, i, p)
        BY <2>3, <2>4, <4>1, DisturbsKept
      <4> QED
        BY <1>0, <2>2, <4>1, <4>2, StaleAdvance DEF RecordedAt
    <3> QED
      BY <3>1, <3>2
  <2>5. p \in 1..n /\ J2[p] = J[p]
    BY <1>0
  <2>6. \A q \in 1..n : EnteredAt(J2, q, u) => q = p
    <3>1. \A q \in 1..n : q # n => q \in 1..Len(J)
      BY <1>0
    <3> QED
      BY <1>3, <2>2, <3>1 DEF RecordedAt
  <2>7. /\ EnteredAt(J2, p, u) /\ (ProofBound(l, u) <=> Proven(J2, p))
        /\ J2[p].action = l.auth[u].action /\ J2[p].grants = l.auth[u].grants
    BY <2>1, <2>2, <2>3, <2>5 DEF RecordedAt, EnteredAt
  <2> QED
    BY <1>0, <2>4, <2>5, <2>6, <2>7 DEF RecordedAt
<1>5. ASSUME NEW u \in Auths, l.tx[u] = "none", NEW q \in 1..n PROVE ~ EnteredAt(J2, q, u)
  <2>1. k.tx[u] = "none"
    BY <1>5 DEF Advances
  <2>2. q # n => q \in 1..Len(J)
    BY <1>0
  <2> QED
    BY <1>3, <2>1, <2>2 DEF Settled, Recorded
<1>6. ASSUME NEW u \in Auths, l.tx[u] # "none", ~ Bound(l, u) PROVE u \in l.recheck
  BY <1>6, Fields DEF Settled, Recorded, Advances
<1>7. Len(J2) + 1 = n + 1
  BY <1>0
<1> HIDE DEF J2, n
<1>8. Recorded(l, J2)
  BY <1>0, <1>2, <1>4, <1>5, <1>6, <1>7 DEF Recorded
<1> QED
  BY <1>0, <1>1, <1>8 DEF Settled, J2

-----------------------------------------------------------------------------
(* What the replay of an entry leaves, field by field, when the entry is one  *)
(* that the kernel writes.                                                    *)

LEMMA EntryFields ==
  ASSUME NEW e \in Entries
  PROVE  /\ e.event = "mission.revised" => e.version \in Nat
         /\ e.event = "defined" => e.object \in Registered /\ e.content \in Contents
         /\ e.event = "semantic.regime_revised" => e.kind \in Kinds /\ e.revision \in Nat
         /\ e.event = "migration.schema_root_switched" =>
              e.manifest \in Manifests /\ e.withdrawn \subseteq Auths
         /\ e.event = "action.authorized" =>
              /\ e.auth \in Auths /\ e.action \in Actions /\ e.grants \in SUBSET Grants
              /\ e.mission \in Nat /\ e.canonical \in Nat
         /\ e.event = "canonical.committed" => e.auth \in Auths /\ e.version \in Nat
         /\ e.event = "action.reconciled" => e.auth \in Auths
         /\ e.event = "action.cancellation_recorded" =>
              e.auth \in Auths /\ e.source \in States /\ e.result \in States
         /\ e.event \in {"proof.authorization_bound", "action.dispatch_recorded",
                         "action.reconciliation_required", "action.outcome_observed"}
              => e.auth \in Auths
BY DEF Entries

\* The guards of the operations, as the entries they write show them.
Admissible(k, J, e) ==
  /\ e.event = "mission.revised" => e.version = k.content[Mission] + 1
  /\ e.event = "semantic.regime_revised" =>
       e.parent = k.regime[e.kind] /\ e.revision = Len(J) + 1
  /\ e.event = "migration.schema_root_switched" =>
       e.manifest \notin k.applied /\ e.source = k.regime[Schema]
  /\ e.event = "action.authorized" => k.tx[e.auth] = "none"
  /\ e.event = "proof.authorization_bound" =>
       /\ Len(J) > 0 /\ EnteredAt(J, Len(J), e.auth) /\ k.tx[e.auth] # "none"
       /\ Bound(k, e.auth) /\ ~ ProofBound(k, e.auth)
  /\ e.event = "action.cancellation_recorded" =>
       /\ k.tx[e.auth] = e.source /\ e.source # "none"
       /\ e.result \notin {"none", "dispatch_recorded"}
  /\ e.event = "canonical.committed" => e.version = k.content[Canonical] + 1

Passive == {"snapshot.saved", "state.relocated", "recovery.model_class_uncertain"}

NextContent(k, e) ==
  CASE e.event = "mission.revised" -> [k.content EXCEPT ![Mission] = e.version]
    [] e.event = "canonical.committed" -> [k.content EXCEPT ![Canonical] = e.version]
    [] e.event = "defined" -> [k.content EXCEPT ![e.object] = e.content]
    [] OTHER -> k.content

\* A new revision for what says something new.
Redated(k, content, n) ==
  [o \in Objects |-> IF content[o] # k.content[o] THEN Revision(n, content[o]) ELSE k.revision[o]]

NextRevision(k, e, n) == Redated(k, NextContent(k, e), n)

NextRegime(k, e) ==
  CASE e.event = "semantic.regime_revised" -> [k.regime EXCEPT ![e.kind] = e.revision]
    [] e.event = "migration.schema_root_switched" -> [k.regime EXCEPT ![Schema] = e.manifest]
    [] OTHER -> k.regime

NextAuth(k, e) ==
  CASE e.event = "action.authorized" -> [k.auth EXCEPT ![e.auth] = Issued(k, e)]
    [] e.event = "proof.authorization_bound" ->
         [k.auth EXCEPT ![e.auth].proof = ProofBinding(k)]
    [] OTHER -> k.auth

Moved(tx, u, from, to) == IF tx[u] \in from THEN [tx EXCEPT ![u] = to] ELSE tx

NextTx(k, e) ==
  CASE e.event = "action.authorized" -> [k.tx EXCEPT ![e.auth] = "authorized"]
    [] e.event = "action.dispatch_recorded" ->
         Moved(k.tx, e.auth, {"authorized", "reconciled_not_applied"}, "dispatch_recorded")
    [] e.event = "action.reconciliation_required" ->
         Moved(k.tx, e.auth, {"dispatch_recorded"}, "reconciliation_required")
    [] e.event = "action.outcome_observed" ->
         Moved(k.tx, e.auth, {"dispatch_recorded"}, "outcome_observed")
    [] e.event = "action.reconciled" ->
         Moved(k.tx, e.auth, {"reconciliation_required"},
               IF e.applied THEN "reconciled_applied" ELSE "reconciled_not_applied")
    [] e.event = "action.cancellation_recorded" -> [k.tx EXCEPT ![e.auth] = e.result]
    [] e.event = "canonical.committed" ->
         Moved(k.tx, e.auth, {"outcome_observed", "reconciled_applied"}, "committed")
    [] OTHER -> k.tx

NextRecheck(k, e) ==
  IF e.event = "migration.schema_root_switched" THEN k.recheck \cup e.withdrawn ELSE k.recheck

NextApplied(k, e) ==
  IF e.event = "migration.schema_root_switched" THEN k.applied \cup {e.manifest} ELSE k.applied

\* l is k with the entry e replayed and nothing pending.
Becomes(k, l, e, n) ==
  /\ l \in Kernels /\ l.pending = 0
  /\ l.content = NextContent(k, e) /\ l.revision = NextRevision(k, e, n)
  /\ l.regime = NextRegime(k, e) /\ l.auth = NextAuth(k, e) /\ l.tx = NextTx(k, e)
  /\ l.recheck = NextRecheck(k, e) /\ l.applied = NextApplied(k, e)

LEMMA Updates ==
  ASSUME NEW k \in Kernels
  PROVE  /\ \A x \in [Objects -> Nat] : [k EXCEPT !.content = x] \in Kernels
         /\ \A x \in [Objects -> Revisions] : [k EXCEPT !.revision = x] \in Kernels
         /\ \A x \in [Kinds -> Regimes] : [k EXCEPT !.regime = x] \in Kernels
         /\ \A x \in [Auths -> Authorizations] : [k EXCEPT !.auth = x] \in Kernels
         /\ \A x \in [Auths -> States] : [k EXCEPT !.tx = x] \in Kernels
         /\ \A x \in SUBSET Auths : [k EXCEPT !.recheck = x] \in Kernels
         /\ \A x \in SUBSET Manifests : [k EXCEPT !.applied = x] \in Kernels
         /\ \A x \in Nat : [k EXCEPT !.pending = x] \in Kernels
BY DEF Kernels

LEMMA RevisionType ==
  ASSUME NEW n \in Nat, NEW c \in Nat
  PROVE  Revision(n, c) \in Revisions
BY DEF Revision, Revisions

\* The revisions after os are registered.
Registration(k, os, n) ==
  [o \in Objects |-> IF o \in os /\ k.revision[o].of # k.content[o]
                       THEN Revision(n, k.content[o]) ELSE k.revision[o]]

\* Registering what has a new content.
LEMMA Registering ==
  ASSUME NEW k \in Kernels, NEW os \in SUBSET Objects, NEW n \in Nat
  PROVE  /\ Register(k, os, n) \in Kernels
         /\ Register(k, os, n).revision = Registration(k, os, n)
         /\ Register(k, os, n) = [k EXCEPT !.revision = Register(k, os, n).revision]
<1> DEFINE new == Registration(k, os, n)
<1>1. Register(k, os, n) = [k EXCEPT !.revision = new]
  BY DEF Register, Registration
<1>2. k.content \in [Objects -> Nat] /\ k.revision \in [Objects -> Revisions]
  BY KernelFields
<1>3. \A o \in Objects : Revision(n, k.content[o]) \in Revisions
  BY <1>2, RevisionType
<1>4. new \in [Objects -> Revisions]
  BY <1>2, <1>3 DEF Registration
<1>5. [k EXCEPT !.revision = new].revision = new
  BY DEF Kernels
<1> HIDE DEF new
<1>6. [k EXCEPT !.revision = new] \in Kernels
  BY <1>4, Updates
<1>7. Register(k, os, n).revision = new
  BY <1>1, <1>5
<1> QED
  BY <1>1, <1>6, <1>7 DEF new

\* Fields that the registration of a revision leaves alone.
LEMMA RevisionUpdate ==
  ASSUME NEW k \in Kernels, NEW x, NEW l, l = [k EXCEPT !.revision = x]
  PROVE  /\ l.revision = x /\ l.content = k.content /\ l.regime = k.regime
         /\ l.auth = k.auth /\ l.tx = k.tx /\ l.recheck = k.recheck
         /\ l.applied = k.applied /\ l.pending = k.pending
BY DEF Kernels

LEMMA ContentUpdate ==
  ASSUME NEW k \in Kernels, NEW x, NEW l, l = [k EXCEPT !.content = x]
  PROVE  /\ l.content = x /\ l.revision = k.revision /\ l.regime = k.regime
         /\ l.auth = k.auth /\ l.tx = k.tx /\ l.recheck = k.recheck
         /\ l.applied = k.applied /\ l.pending = k.pending
BY DEF Kernels

\* An object of a kernel with current revisions says something.
LEMMA Defining ==
  ASSUME NEW k \in Kernels, NEW m, Dated(k, m), NEW o \in Objects, NEW c \in Nat, NEW n \in Nat,
         NEW content, content = [k.content EXCEPT ![o] = c]
  PROVE  LET l == Define(k, o, c, n)
         IN /\ l \in Kernels
            /\ l.content = content
            /\ l.revision = Redated(k, content, n)
            /\ l.regime = k.regime /\ l.auth = k.auth /\ l.tx = k.tx
            /\ l.recheck = k.recheck /\ l.applied = k.applied /\ l.pending = k.pending
<1> DEFINE said == [k EXCEPT !.content = content]
           l == Define(k, o, c, n)
           new == Redated(k, content, n)
<1>1. k.content \in [Objects -> Nat]
  BY KernelFields
<1>2. content \in [Objects -> Nat]
      /\ \A x \in Objects : content[x] = IF x = o THEN c ELSE k.content[x]
  BY <1>1
<1>3. l = Register(said, {o}, n)
  BY DEF Define
<1>4. said \in Kernels
  BY <1>2, Updates
<1>5. /\ said.content = content /\ said.revision = k.revision /\ said.regime = k.regime
      /\ said.auth = k.auth /\ said.tx = k.tx /\ said.recheck = k.recheck
      /\ said.applied = k.applied /\ said.pending = k.pending
  BY ContentUpdate
<1> DEFINE rev == Registration(said, {o}, n)
<1> HIDE DEF said
<1>6. l \in Kernels /\ l.revision = rev /\ l = [said EXCEPT !.revision = l.revision]
  <2>1. {o} \in SUBSET Objects
    OBVIOUS
  <2> HIDE DEF l
  <2> QED
    BY <1>3, <1>4, <2>1, Registering
<1> HIDE DEF l
<1>7. /\ l.content = said.content /\ l.regime = said.regime
      /\ l.auth = said.auth /\ l.tx = said.tx /\ l.recheck = said.recheck
      /\ l.applied = said.applied /\ l.pending = said.pending
  BY <1>4, <1>6, RevisionUpdate
<1>8. \A x \in Objects : x \in {o} /\ k.revision[x].of # content[x] <=> content[x] # k.content[x]
  BY <1>2 DEF Dated
<1>9. l.revision = new
  BY <1>5, <1>6, <1>8 DEF Redated, Registration
<1> SUFFICES /\ l \in Kernels /\ l.content = content /\ l.revision = new
             /\ l.regime = k.regime /\ l.auth = k.auth /\ l.tx = k.tx
             /\ l.recheck = k.recheck /\ l.applied = k.applied /\ l.pending = k.pending
  BY DEF l
<1> QED
  BY <1>5, <1>6, <1>7, <1>9

LEMMA TxUpdate ==
  ASSUME NEW k \in Kernels, NEW x \in [Auths -> States], NEW l, l = [k EXCEPT !.tx = x]
  PROVE  /\ l \in Kernels /\ l.tx = x
         /\ l.revision = k.revision /\ l.content = k.content /\ l.regime = k.regime
         /\ l.auth = k.auth /\ l.recheck = k.recheck
         /\ l.applied = k.applied /\ l.pending = k.pending
<1>1. l \in Kernels
  BY Updates
<1>2. /\ l.tx = x
      /\ l.revision = k.revision /\ l.content = k.content /\ l.regime = k.regime
      /\ l.auth = k.auth /\ l.recheck = k.recheck
      /\ l.applied = k.applied /\ l.pending = k.pending
  BY DEF Kernels
<1> QED
  BY <1>1, <1>2

LEMMA MovedType ==
  ASSUME NEW tx \in [Auths -> States], NEW u \in Auths, NEW from, NEW to \in States
  PROVE  Moved(tx, u, from, to) \in [Auths -> States]
BY DEF Moved

LEMMA Moving ==
  ASSUME NEW k \in Kernels, NEW u \in Auths, NEW from, NEW to \in States
  PROVE  Move(k, u, from, to) = [k EXCEPT !.tx = Moved(k.tx, u, from, to)]
<1>1. CASE k.tx[u] \in from
  BY <1>1 DEF Move, Moved
<1>2. CASE k.tx[u] \notin from
  <2>1. Moved(k.tx, u, from, to) = k.tx /\ Move(k, u, from, to) = k
    BY <1>2 DEF Move, Moved
  <2>2. [k EXCEPT !.tx = k.tx] = k
    BY DEF Kernels
  <2> QED
    BY <2>1, <2>2
<1> QED
  BY <1>1, <1>2

LEMMA SameContent ==
  ASSUME NEW k \in Kernels, NEW e, NEW n,
         e.event \notin {"mission.revised", "canonical.committed", "defined"}
  PROVE  NextContent(k, e) = k.content /\ NextRevision(k, e, n) = k.revision
<1>1. NextContent(k, e) = k.content
  BY DEF NextContent
<1>2. k.revision = [o \in Objects |-> k.revision[o]]
  BY KernelFields
<1> QED
  BY <1>1, <1>2 DEF NextRevision, Redated

LEMMA BecomesSaid ==
  ASSUME NEW J \in Seq(Entries), NEW e \in Entries, NEW k, Settled(k, J), Admissible(k, J, e),
         e.event \in {"mission.revised", "defined"}
  PROVE  /\ Becomes(k, Flush(ReduceFlushed(k, e, Len(J) + 1)), e, Len(J) + 1)
         /\ Flush(ReduceFlushed(k, e, Len(J) + 1)) = ReduceFlushed(k, e, Len(J) + 1)
<1> DEFINE n == Len(J) + 1
<1>1. k \in Kernels /\ k.pending = 0 /\ Dated(k, Len(J)) /\ n \in Nat
  BY DEF Settled
<1>2. PICK o \in Objects, c \in Nat : /\ ReduceFlushed(k, e, n) = Define(k, o, c, n)
                                      /\ NextContent(k, e) = [k.content EXCEPT ![o] = c]
  <2>1. CASE e.event = "mission.revised"
    <3>1. e.version \in Nat /\ e.version = k.content[Mission] + 1 /\ Mission \in Objects
      BY <2>1, EntryFields, BasisObjects DEF Admissible
    <3>2. ReduceFlushed(k, e, n) = Define(k, Mission, e.version, n)
      BY <2>1, <3>1 DEF ReduceFlushed, ReplayRevised
    <3>3. NextContent(k, e) = [k.content EXCEPT ![Mission] = e.version]
      BY <2>1 DEF NextContent
    <3> QED
      BY <3>1, <3>2, <3>3
  <2>2. CASE e.event = "defined"
    <3>1. e.object \in Objects /\ e.content \in Nat
      BY <2>2, EntryFields, BasisObjects, LineageAssumption
    <3>2. ReduceFlushed(k, e, n) = Define(k, e.object, e.content, n)
      BY <2>2 DEF ReduceFlushed, ReplayDefined
    <3>3. NextContent(k, e) = [k.content EXCEPT ![e.object] = e.content]
      BY <2>2 DEF NextContent
    <3> QED
      BY <3>1, <3>2, <3>3
  <2> QED
    BY <2>1, <2>2
<1> DEFINE l == Define(k, o, c, n)
<1>3. /\ l \in Kernels
      /\ l.content = NextContent(k, e)
      /\ l.revision = NextRevision(k, e, n)
      /\ l.regime = k.regime /\ l.auth = k.auth /\ l.tx = k.tx
      /\ l.recheck = k.recheck /\ l.applied = k.applied /\ l.pending = k.pending
  <2> DEFINE content == NextContent(k, e)
             new == Redated(k, content, n)
  <2>1. new = NextRevision(k, e, n)
    BY DEF NextRevision
  <2>2. content = [k.content EXCEPT ![o] = c]
    BY <1>2
  <2> HIDE DEF content, n
  <2>3. /\ l \in Kernels /\ l.content = content /\ l.revision = new
        /\ l.regime = k.regime /\ l.auth = k.auth /\ l.tx = k.tx
        /\ l.recheck = k.recheck /\ l.applied = k.applied /\ l.pending = k.pending
    BY <1>1, <2>2, Defining
  <2> QED
    BY <2>1, <2>3 DEF content
<1>4. /\ NextRegime(k, e) = k.regime /\ NextAuth(k, e) = k.auth /\ NextTx(k, e) = k.tx
      /\ NextRecheck(k, e) = k.recheck /\ NextApplied(k, e) = k.applied
  BY DEF NextRegime, NextAuth, NextTx, NextRecheck, NextApplied
<1> HIDE DEF l
<1>5. Flush(l) = l
  BY <1>1, <1>3 DEF Flush
<1>6. Becomes(k, l, e, n)
  BY <1>1, <1>3, <1>4 DEF Becomes
<1> QED
  BY <1>2, <1>5, <1>6 DEF l

\* Entries that move a semantic regime.
LEMMA BecomesRegime ==
  ASSUME NEW J \in Seq(Entries), NEW e \in Entries, NEW k, Settled(k, J), Admissible(k, J, e),
         e.event \in {"semantic.regime_revised", "migration.schema_root_switched"}
  PROVE  /\ Becomes(k, Flush(ReduceFlushed(k, e, Len(J) + 1)), e, Len(J) + 1)
         /\ Flush(ReduceFlushed(k, e, Len(J) + 1)) = ReduceFlushed(k, e, Len(J) + 1)
<1> DEFINE n == Len(J) + 1
           l == ReduceFlushed(k, e, n)
<1>1. k \in Kernels /\ k.pending = 0 /\ n \in Nat
  BY DEF Settled
<1>2. /\ k.regime \in [Kinds -> Regimes] /\ k.recheck \subseteq Auths
      /\ k.applied \subseteq Manifests
  BY <1>1, KernelFields
<1>3. NextContent(k, e) = k.content /\ NextRevision(k, e, n) = k.revision
  BY <1>1, SameContent
<1>4. NextAuth(k, e) = k.auth /\ NextTx(k, e) = k.tx
  BY DEF NextAuth, NextTx
<1>5. /\ l \in Kernels /\ l.pending = 0
      /\ l.content = k.content /\ l.revision = k.revision /\ l.auth = k.auth /\ l.tx = k.tx
      /\ l.regime = NextRegime(k, e)
      /\ l.recheck = NextRecheck(k, e) /\ l.applied = NextApplied(k, e)
  <2>1. CASE e.event = "semantic.regime_revised"
    <3> DEFINE x == [k.regime EXCEPT ![e.kind] = e.revision]
    <3>1. e.kind \in Kinds /\ e.revision \in Regimes /\ k.regime[e.kind] = e.parent
      BY <2>1, EntryFields DEF Admissible, Regimes
    <3>2. l = [k EXCEPT !.regime = x]
      BY <2>1, <3>1 DEF ReduceFlushed, ReplayRegime
    <3>3. x \in [Kinds -> Regimes]
      BY <1>2, <3>1
    <3>4. /\ NextRegime(k, e) = x /\ NextRecheck(k, e) = k.recheck
          /\ NextApplied(k, e) = k.applied
      BY <2>1 DEF NextRegime, NextRecheck, NextApplied
    <3> HIDE DEF x, l
    <3>5. l \in Kernels
      BY <1>1, <3>2, <3>3, Updates
    <3>6. /\ l.regime = x /\ l.pending = 0 /\ l.recheck = k.recheck /\ l.applied = k.applied
          /\ l.content = k.content /\ l.revision = k.revision /\ l.auth = k.auth /\ l.tx = k.tx
      BY <1>1, <3>2 DEF Kernels
    <3> QED
      BY <3>4, <3>5, <3>6
  <2>2. CASE e.event = "migration.schema_root_switched"
    <3> DEFINE x == [k.regime EXCEPT ![Schema] = e.manifest]
               a == k.applied \cup {e.manifest}
               r == k.recheck \cup e.withdrawn
    <3>1. e.manifest \in Manifests /\ e.withdrawn \subseteq Auths /\ k.regime[Schema] = e.source
      BY <2>2, EntryFields DEF Admissible
    <3>2. l = [k EXCEPT !.regime = x, !.applied = a, !.recheck = r]
      BY <2>2, <3>1 DEF ReduceFlushed, ReplayMigrated
    <3>3. x \in [Kinds -> Regimes] /\ a \in SUBSET Manifests /\ r \in SUBSET Auths
      BY <1>2, <3>1 DEF Regimes
    <3>4. NextRegime(k, e) = x /\ NextRecheck(k, e) = r /\ NextApplied(k, e) = a
      BY <2>2 DEF NextRegime, NextRecheck, NextApplied
    <3> HIDE DEF x, a, r, l
    <3>5. l \in Kernels
      BY <1>1, <3>2, <3>3 DEF Kernels
    <3>6. /\ l.regime = x /\ l.pending = 0 /\ l.recheck = r /\ l.applied = a
          /\ l.content = k.content /\ l.revision = k.revision /\ l.auth = k.auth /\ l.tx = k.tx
      BY <1>1, <3>2 DEF Kernels
    <3> QED
      BY <3>4, <3>5, <3>6
  <2> QED
    BY <2>1, <2>2
<1> HIDE DEF l, n
<1>6. Flush(l) = l
  BY <1>5 DEF Flush
<1>7. Becomes(k, l, e, n)
  BY <1>3, <1>4, <1>5 DEF Becomes
<1> QED
  BY <1>6, <1>7 DEF l, n

\* Entries that move a transaction.
LEMMA BecomesMoved ==
  ASSUME NEW J \in Seq(Entries), NEW e \in Entries, NEW k, Settled(k, J), Admissible(k, J, e),
         e.event \in {"action.dispatch_recorded", "action.reconciliation_required",
                      "action.outcome_observed", "action.reconciled",
                      "action.cancellation_recorded"}
  PROVE  /\ Becomes(k, Flush(ReduceFlushed(k, e, Len(J) + 1)), e, Len(J) + 1)
         /\ Flush(ReduceFlushed(k, e, Len(J) + 1)) = ReduceFlushed(k, e, Len(J) + 1)
<1> DEFINE n == Len(J) + 1
           l == ReduceFlushed(k, e, n)
<1>1. k \in Kernels /\ k.pending = 0 /\ n \in Nat
  BY DEF Settled
<1>2. k.tx \in [Auths -> States] /\ e.auth \in Auths
  BY <1>1, KernelFields, EntryFields
<1>3. NextContent(k, e) = k.content /\ NextRevision(k, e, n) = k.revision
  BY <1>1, SameContent
<1>4. /\ NextAuth(k, e) = k.auth /\ NextRegime(k, e) = k.regime
      /\ NextRecheck(k, e) = k.recheck /\ NextApplied(k, e) = k.applied
  BY DEF NextAuth, NextRegime, NextRecheck, NextApplied
<1>5. l = [k EXCEPT !.tx = NextTx(k, e)] /\ NextTx(k, e) \in [Auths -> States]
  <2>1. CASE e.event = "action.dispatch_recorded"
    <3>1. l = Move(k, e.auth, {"authorized", "reconciled_not_applied"}, "dispatch_recorded")
      BY <2>1 DEF ReduceFlushed
    <3>2. NextTx(k, e)
            = Moved(k.tx, e.auth, {"authorized", "reconciled_not_applied"}, "dispatch_recorded")
      BY <2>1 DEF NextTx
    <3>3. "dispatch_recorded" \in States
      BY DEF States
    <3> QED
      BY <1>1, <1>2, <3>1, <3>2, <3>3, Moving, MovedType
  <2>2. CASE e.event = "action.reconciliation_required"
    <3>1. l = Move(k, e.auth, {"dispatch_recorded"}, "reconciliation_required")
      BY <2>2 DEF ReduceFlushed
    <3>2. NextTx(k, e) = Moved(k.tx, e.auth, {"dispatch_recorded"}, "reconciliation_required")
      BY <2>2 DEF NextTx
    <3>3. "reconciliation_required" \in States
      BY DEF States
    <3> QED
      BY <1>1, <1>2, <3>1, <3>2, <3>3, Moving, MovedType
  <2>3. CASE e.event = "action.outcome_observed"
    <3>1. l = Move(k, e.auth, {"dispatch_recorded"}, "outcome_observed")
      BY <2>3 DEF ReduceFlushed
    <3>2. NextTx(k, e) = Moved(k.tx, e.auth, {"dispatch_recorded"}, "outcome_observed")
      BY <2>3 DEF NextTx
    <3>3. "outcome_observed" \in States
      BY DEF States
    <3> QED
      BY <1>1, <1>2, <3>1, <3>2, <3>3, Moving, MovedType
  <2>4. CASE e.event = "action.reconciled"
    <3> DEFINE to == IF e.applied THEN "reconciled_applied" ELSE "reconciled_not_applied"
    <3>1. l = Move(k, e.auth, {"reconciliation_required"}, to)
      BY <2>4 DEF ReduceFlushed, ReplayReconciled
    <3>2. NextTx(k, e) = Moved(k.tx, e.auth, {"reconciliation_required"}, to)
      BY <2>4 DEF NextTx
    <3>3. to \in States
      BY DEF States
    <3> QED
      BY <1>1, <1>2, <3>1, <3>2, <3>3, Moving, MovedType
  <2>5. CASE e.event = "action.cancellation_recorded"
    <3>1. k.tx[e.auth] \in {e.source} /\ e.result \in States
      BY <2>5, EntryFields DEF Admissible
    <3>2. l = [k EXCEPT !.tx = [k.tx EXCEPT ![e.auth] = e.result]]
      BY <2>5, <3>1 DEF ReduceFlushed, MoveOrRaise
    <3>3. NextTx(k, e) = [k.tx EXCEPT ![e.auth] = e.result]
      BY <2>5 DEF NextTx
    <3> QED
      BY <1>2, <3>1, <3>2, <3>3
  <2> QED
    BY <2>1, <2>2, <2>3, <2>4, <2>5
<1> HIDE DEF l, n
<1>6. /\ l \in Kernels /\ l.tx = NextTx(k, e)
      /\ l.revision = k.revision /\ l.content = k.content /\ l.regime = k.regime
      /\ l.auth = k.auth /\ l.recheck = k.recheck
      /\ l.applied = k.applied /\ l.pending = 0
  BY <1>1, <1>5, TxUpdate
<1>7. Flush(l) = l
  BY <1>6 DEF Flush
<1>8. Becomes(k, l, e, n)
  BY <1>3, <1>4, <1>6 DEF Becomes
<1> QED
  BY <1>7, <1>8 DEF l, n

LEMMA IssuedType ==
  ASSUME NEW k \in Kernels, NEW e \in Entries, e.event = "action.authorized"
  PROVE  /\ Issued(k, e) \in Authorizations
         /\ Issued(k, e).binding = Binding(k, e.action, e.grants)
         /\ Issued(k, e).binding # NoBinding /\ Issued(k, e).proof = NoBinding
         /\ Issued(k, e).action = e.action /\ Issued(k, e).grants = e.grants
<1>1. k.revision \in [Objects -> Revisions] /\ k.regime \in [Kinds -> Regimes]
  BY KernelFields
<1>2. Binding(k, e.action, e.grants) \in Bindings
  BY <1>1 DEF Binding, Bindings
<1>3. Binding(k, e.action, e.grants) # NoBinding
  BY <1>2, LineageAssumption
<1>4. /\ e.action \in Actions /\ e.grants \in SUBSET Grants /\ e.mission \in Nat
      /\ e.canonical \in Nat
  BY EntryFields
<1>5. Issued(k, e) \in Authorizations
  BY <1>2, <1>4 DEF Issued, Authorizations
<1> QED
  BY <1>3, <1>5 DEF Issued

LEMMA ProofBindingType ==
  ASSUME NEW k \in Kernels
  PROVE  ProofBinding(k) \in Proofs /\ ProofBinding(k) # NoBinding
<1>1. k.revision \in [Objects -> Revisions] /\ Sources \subseteq Objects
  BY KernelFields, BasisObjects
<1>2. ProofBinding(k) \in Proofs
  BY <1>1 DEF ProofBinding, Proofs
<1> QED
  BY <1>2, LineageAssumption

\* Entries that issue an authorization or the proof that it carries.
LEMMA BecomesIssued ==
  ASSUME NEW J \in Seq(Entries), NEW e \in Entries, NEW k, Settled(k, J), Admissible(k, J, e),
         e.event \in {"action.authorized", "proof.authorization_bound"}
  PROVE  /\ Becomes(k, Flush(ReduceFlushed(k, e, Len(J) + 1)), e, Len(J) + 1)
         /\ Flush(ReduceFlushed(k, e, Len(J) + 1)) = ReduceFlushed(k, e, Len(J) + 1)
<1> DEFINE n == Len(J) + 1
           l == ReduceFlushed(k, e, n)
           x == NextAuth(k, e)
           t == NextTx(k, e)
<1>1. k \in Kernels /\ k.pending = 0 /\ n \in Nat
  BY DEF Settled
<1>2. k.tx \in [Auths -> States] /\ k.auth \in [Auths -> Authorizations] /\ e.auth \in Auths
  BY <1>1, KernelFields, EntryFields
<1>3. NextContent(k, e) = k.content /\ NextRevision(k, e, n) = k.revision
  BY <1>1, SameContent
<1>4. /\ NextRegime(k, e) = k.regime
      /\ NextRecheck(k, e) = k.recheck /\ NextApplied(k, e) = k.applied
  BY DEF NextRegime, NextRecheck, NextApplied
<1>5. l = [k EXCEPT !.auth = x, !.tx = t]
      /\ x \in [Auths -> Authorizations] /\ t \in [Auths -> States]
  <2>1. CASE e.event = "action.authorized"
    <3>1. l = [k EXCEPT !.auth = [k.auth EXCEPT ![e.auth] = Issued(k, e)],
                        !.tx = [k.tx EXCEPT ![e.auth] = "authorized"]]
      BY <2>1 DEF ReduceFlushed, ReplayAuthorized, Admissible
    <3>2. x = [k.auth EXCEPT ![e.auth] = Issued(k, e)]
          /\ t = [k.tx EXCEPT ![e.auth] = "authorized"]
      BY <2>1 DEF NextAuth, NextTx
    <3>3. Issued(k, e) \in Authorizations
      BY <1>1, <2>1, IssuedType
    <3> QED
      BY <1>2, <3>1, <3>2, <3>3 DEF States
  <2>2. CASE e.event = "proof.authorization_bound"
    <3> DEFINE a == [k.auth[e.auth] EXCEPT !.proof = ProofBinding(k)]
    <3>1. l = [k EXCEPT !.auth = [k.auth EXCEPT ![e.auth] = a]]
      BY <2>2 DEF ReduceFlushed, ReplayProofBound
    <3>2. x = [k.auth EXCEPT ![e.auth] = a] /\ t = k.tx
      BY <2>2 DEF NextAuth, NextTx
    <3>3. ProofBinding(k) \in Proofs
      BY <1>1, ProofBindingType
    <3>4. a \in Authorizations
      BY <1>2, <3>3 DEF Authorizations
    <3> HIDE DEF a, x, t, l
    <3>5. x \in [Auths -> Authorizations]
      BY <1>2, <3>2, <3>4
    <3>6. [k EXCEPT !.auth = x, !.tx = k.tx] = [k EXCEPT !.auth = x]
      BY <1>1 DEF Kernels
    <3> QED
      BY <1>2, <3>1, <3>2, <3>5, <3>6
  <2> QED
    BY <2>1, <2>2
<1> HIDE DEF l, n, x, t
<1>6. /\ l.tx = t /\ l.auth = x
      /\ l.revision = k.revision /\ l.content = k.content /\ l.regime = k.regime
      /\ l.recheck = k.recheck /\ l.applied = k.applied /\ l.pending = 0
  BY <1>1, <1>5 DEF Kernels
<1>7. l \in Kernels
  BY <1>1, <1>5 DEF Kernels
<1>8. Flush(l) = l
  BY <1>6 DEF Flush
<1>9. Becomes(k, l, e, n)
  BY <1>3, <1>4, <1>6, <1>7 DEF Becomes, x, t
<1> QED
  BY <1>8, <1>9 DEF l, n

\* A commit: its revision comes with the flush.
LEMMA BecomesCommitted ==
  ASSUME NEW J \in Seq(Entries), NEW e \in Entries, NEW k, Settled(k, J), Admissible(k, J, e),
         e.event = "canonical.committed"
  PROVE  /\ ReduceFlushed(k, e, Len(J) + 1) \in Kernels
         /\ ReduceFlushed(k, e, Len(J) + 1).pending = Len(J) + 1
         /\ ReduceFlushed(k, e, Len(J) + 1).content = NextContent(k, e)
         /\ ReduceFlushed(k, e, Len(J) + 1).revision = k.revision
         /\ ReduceFlushed(k, e, Len(J) + 1).auth = k.auth
         /\ Becomes(k, Flush(ReduceFlushed(k, e, Len(J) + 1)), e, Len(J) + 1)
<1> DEFINE n == Len(J) + 1
           r == ReduceFlushed(k, e, n)
           c == NextContent(k, e)
           t == NextTx(k, e)
           l == Flush(r)
<1>1. k \in Kernels /\ k.pending = 0 /\ n \in Nat /\ n # 0 /\ Dated(k, Len(J))
  BY JournalGrows DEF Settled
<1>2. /\ k.tx \in [Auths -> States] /\ k.content \in [Objects -> Nat] /\ e.auth \in Auths
      /\ e.version \in Nat /\ Canonical \in Objects
  BY <1>1, KernelFields, EntryFields, BasisObjects
<1>3. /\ NextRegime(k, e) = k.regime /\ NextAuth(k, e) = k.auth
      /\ NextRecheck(k, e) = k.recheck /\ NextApplied(k, e) = k.applied
  BY DEF NextRegime, NextAuth, NextRecheck, NextApplied
<1>4. c = [k.content EXCEPT ![Canonical] = e.version] /\ c \in [Objects -> Nat]
  BY <1>2 DEF NextContent
<1>5. t \in [Auths -> States]
      /\ Move(k, e.auth, {"outcome_observed", "reconciled_applied"}, "committed")
           = [k EXCEPT !.tx = t]
  <2>1. t = Moved(k.tx, e.auth, {"outcome_observed", "reconciled_applied"}, "committed")
    BY DEF NextTx
  <2>2. "committed" \in States
    BY DEF States
  <2> QED
    BY <1>1, <1>2, <2>1, <2>2, Moving, MovedType
<1>6. r = [[k EXCEPT !.tx = t] EXCEPT !.content = c, !.pending = n]
  <2>1. r = [[k EXCEPT !.tx = t] EXCEPT !.content[Canonical] = e.version, !.pending = n]
    BY <1>5 DEF ReduceFlushed, ReplayCommitted
  <2>2. [k EXCEPT !.tx = t].content = k.content
    BY <1>1 DEF Kernels
  <2> QED
    BY <1>4, <2>1, <2>2
<1> HIDE DEF t, c, n, r, l
<1>7. /\ r.content = c /\ r.pending = n /\ r.tx = t /\ r.revision = k.revision
      /\ r.regime = k.regime /\ r.auth = k.auth /\ r.recheck = k.recheck
      /\ r.applied = k.applied
  BY <1>1, <1>6 DEF Kernels
<1>8. r \in Kernels
  BY <1>1, <1>4, <1>5, <1>6 DEF Kernels
<1> DEFINE g == Register(r, {Canonical}, n)
<1>9. /\ g \in Kernels /\ g = [r EXCEPT !.revision = g.revision]
      /\ g.revision = Registration(r, {Canonical}, n)
  <2>1. {Canonical} \in SUBSET Objects
    BY <1>2
  <2> QED
    BY <1>1, <1>8, <2>1, Registering
<1>10. l = [g EXCEPT !.pending = 0]
  BY <1>1, <1>7 DEF Flush, l
<1>11. g.revision = NextRevision(k, e, n)
  <2>1. \A o \in Objects : o \in {Canonical} /\ k.revision[o].of # c[o] <=> c[o] # k.content[o]
    BY <1>1, <1>2, <1>4 DEF Dated
  <2> HIDE DEF g
  <2> QED
    BY <1>7, <1>9, <2>1 DEF NextRevision, Redated, Registration, c
<1> HIDE DEF g
<1>12. /\ g.content = c /\ g.tx = t
       /\ g.regime = k.regime /\ g.auth = k.auth /\ g.recheck = k.recheck
       /\ g.applied = k.applied
  <2>1. /\ g.content = r.content /\ g.tx = r.tx
        /\ g.regime = r.regime /\ g.auth = r.auth /\ g.recheck = r.recheck
        /\ g.applied = r.applied
    BY <1>8, <1>9, RevisionUpdate
  <2> QED
    BY <1>7, <2>1
<1>13. /\ l.content = c /\ l.tx = t /\ l.pending = 0 /\ l.revision = g.revision
       /\ l.regime = k.regime /\ l.auth = k.auth /\ l.recheck = k.recheck
       /\ l.applied = k.applied
  BY <1>9, <1>10, <1>12 DEF Kernels
<1>14. l \in Kernels
  BY <1>9, <1>10, Updates
<1>15. Becomes(k, l, e, n)
  BY <1>3, <1>11, <1>13, <1>14 DEF Becomes, c, t
<1> SUFFICES /\ r \in Kernels /\ r.pending = n /\ r.content = c
             /\ r.revision = k.revision /\ r.auth = k.auth /\ Becomes(k, l, e, n)
  BY DEF r, n, c, l
<1> QED
  BY <1>7, <1>8, <1>15

LEMMA Events ==
  ASSUME NEW e \in Entries, e.event \notin Passive
  PROVE  e.event \in {"mission.revised", "defined", "semantic.regime_revised",
                      "migration.schema_root_switched", "action.authorized",
                      "canonical.committed", "action.reconciled",
                      "action.cancellation_recorded", "proof.authorization_bound",
                      "action.dispatch_recorded", "action.reconciliation_required",
                      "action.outcome_observed"}
BY DEF Entries, Passive

LEMMA Becoming ==
  ASSUME NEW J \in Seq(Entries), NEW e \in Entries, NEW k, Settled(k, J), Admissible(k, J, e),
         e.event \notin Passive
  PROVE  /\ Becomes(k, Flush(ReduceFlushed(k, e, Len(J) + 1)), e, Len(J) + 1)
         /\ e.event # "canonical.committed" =>
              Flush(ReduceFlushed(k, e, Len(J) + 1)) = ReduceFlushed(k, e, Len(J) + 1)
<1>1. CASE e.event \in {"mission.revised", "defined"}
  BY <1>1, BecomesSaid
<1>2. CASE e.event \in {"semantic.regime_revised", "migration.schema_root_switched"}
  BY <1>2, BecomesRegime
<1>3. CASE e.event \in {"action.authorized", "proof.authorization_bound"}
  BY <1>3, BecomesIssued
<1>4. CASE e.event = "canonical.committed"
  BY <1>4, BecomesCommitted
<1>5. CASE e.event \in {"action.dispatch_recorded", "action.reconciliation_required",
                        "action.outcome_observed", "action.reconciled",
                        "action.cancellation_recorded"}
  BY <1>5, BecomesMoved
<1> QED
  BY <1>1, <1>2, <1>3, <1>4, <1>5, Events

\* How an entry moves the transactions.
LEMMA TxMoves ==
  ASSUME NEW J, NEW e \in Entries, NEW k \in Kernels, Admissible(k, J, e), NEW u \in Auths
  PROVE  /\ k.tx[u] # "none" => NextTx(k, e)[u] # "none"
         /\ k.tx[u] = "none" /\ NextTx(k, e)[u] # "none" =>
              e.event = "action.authorized" /\ e.auth = u
         /\ NextTx(k, e)[u] = "dispatch_recorded" =>
              k.tx[u] = "dispatch_recorded" \/ e.event = "action.dispatch_recorded"
         /\ e.event = "action.authorized" =>
              NextTx(k, e)[u] = IF u = e.auth THEN "authorized" ELSE k.tx[u]
<1>1. k.tx \in [Auths -> States]
  BY KernelFields
<1>2. CASE e.event = "action.authorized"
  <2>1. NextTx(k, e) = [k.tx EXCEPT ![e.auth] = "authorized"]
    BY <1>2 DEF NextTx
  <2> QED
    BY <1>1, <1>2, <2>1
<1>3. CASE e.event = "action.cancellation_recorded"
  <2>1. NextTx(k, e) = [k.tx EXCEPT ![e.auth] = e.result]
    BY <1>3 DEF NextTx
  <2>2. k.tx[e.auth] # "none" /\ e.result \notin {"none", "dispatch_recorded"}
    BY <1>3 DEF Admissible
  <2> QED
    BY <1>1, <1>3, <2>1, <2>2
<1>4. CASE e.event \in {"action.dispatch_recorded", "action.reconciliation_required",
                        "action.outcome_observed", "action.reconciled", "canonical.committed"}
  <2>1. PICK from, to :
          /\ NextTx(k, e) = Moved(k.tx, e.auth, from, to) /\ "none" \notin from /\ to # "none"
          /\ to = "dispatch_recorded" => e.event = "action.dispatch_recorded"
    <3>1. CASE e.event = "action.dispatch_recorded"
      BY <3>1 DEF NextTx
    <3>2. CASE e.event = "action.reconciliation_required"
      BY <3>2 DEF NextTx
    <3>3. CASE e.event = "action.outcome_observed"
      BY <3>3 DEF NextTx
    <3>4. CASE e.event = "action.reconciled"
      BY <3>4 DEF NextTx
    <3>5. CASE e.event = "canonical.committed"
      BY <3>5 DEF NextTx
    <3> QED
      BY <1>4, <3>1, <3>2, <3>3, <3>4, <3>5
  <2> QED
    BY <1>1, <1>4, <2>1 DEF Moved
<1>5. CASE e.event \notin {"action.authorized", "action.cancellation_recorded",
                           "action.dispatch_recorded", "action.reconciliation_required",
                           "action.outcome_observed", "action.reconciled", "canonical.committed"}
  BY <1>5 DEF NextTx
<1> QED
  BY <1>2, <1>3, <1>4, <1>5

LEMMA Advancing ==
  ASSUME NEW J \in Seq(Entries), NEW e \in Entries, NEW k, Settled(k, J), Admissible(k, J, e),
         NEW l, Becomes(k, l, e, Len(J) + 1),
         e.event \notin {"action.authorized", "proof.authorization_bound"}
  PROVE  Advances(k, l, Len(J) + 1) /\ Tells(k, l, e, Len(J) + 1)
<1> DEFINE n == Len(J) + 1
<1>1. k \in Kernels /\ n \in Nat /\ Len(J) \in Nat /\ n - 1 = Len(J) /\ Dated(k, Len(J))
      /\ k.content \in [Objects -> Nat] /\ k.regime \in [Kinds -> Regimes]
      /\ k.applied \subseteq Manifests
  BY JournalGrows, KernelFields DEF Settled
<1>2. l \in Kernels /\ l.pending = 0 /\ l.auth = k.auth
  BY DEF Becomes, NextAuth
<1>3. ASSUME NEW u \in Auths PROVE l.tx[u] = "none" <=> k.tx[u] = "none"
  BY <1>1, TxMoves DEF Becomes
<1>4. k.recheck \subseteq l.recheck /\ k.applied \subseteq l.applied
  BY DEF Becomes, NextRecheck, NextApplied
<1>5. \A o \in Objects : l.revision[o] = IF l.content[o] # k.content[o]
                           THEN Revision(n, l.content[o]) ELSE k.revision[o]
  BY DEF Becomes, NextRevision, Redated
<1>6. ASSUME NEW o \in Objects
      PROVE  \/ l.revision[o] = k.revision[o] /\ l.content[o] = k.content[o]
             \/ l.revision[o] = Revision(n, l.content[o])
  BY <1>5
<1>7. \A d \in Kinds : l.regime[d] = k.regime[d] \/ l.regime[d] \in {n} \cup (l.applied \ k.applied)
  <2>1. CASE e.event = "semantic.regime_revised"
    <3>1. l.regime = [k.regime EXCEPT ![e.kind] = n]
      BY <2>1 DEF Becomes, NextRegime, Admissible
    <3> QED
      BY <1>1, <3>1
  <2>2. CASE e.event = "migration.schema_root_switched"
    <3>1. /\ l.regime = [k.regime EXCEPT ![Schema] = e.manifest]
          /\ l.applied = k.applied \cup {e.manifest} /\ e.manifest \notin k.applied
      BY <2>2 DEF Becomes, NextRegime, NextApplied, Admissible
    <3> QED
      BY <1>1, <3>1
  <2>3. CASE e.event \notin {"semantic.regime_revised", "migration.schema_root_switched"}
    BY <2>3 DEF Becomes, NextRegime
  <2> QED
    BY <2>1, <2>2, <2>3
<1>8. Advances(k, l, n)
  <2> HIDE DEF n
  <2> QED
    BY <1>2, <1>3, <1>4, <1>6, <1>7 DEF Advances
<1>9. Tells(k, l, e, n)
  <2>1. ASSUME e.event = "mission.revised" PROVE l.revision[Mission].seq = n
    <3>1. l.content = [k.content EXCEPT ![Mission] = k.content[Mission] + 1]
      BY <2>1 DEF Becomes, NextContent, Admissible
    <3>2. Mission \in Objects /\ l.content[Mission] # k.content[Mission]
      BY <1>1, <3>1, BasisObjects
    <3> QED
      BY <1>5, <3>2, RevisionParts
  <2>2. ASSUME e.event = "canonical.committed" PROVE l.revision[Canonical].seq = n
    <3>1. l.content = [k.content EXCEPT ![Canonical] = k.content[Canonical] + 1]
      BY <2>2 DEF Becomes, NextContent, Admissible
    <3>2. Canonical \in Objects /\ l.content[Canonical] # k.content[Canonical]
      BY <1>1, <3>1, BasisObjects
    <3> QED
      BY <1>5, <3>2, RevisionParts
  <2>3. ASSUME e.event = "semantic.regime_revised"
        PROVE  \E d \in Kinds : l.regime[d] \notin RegimesUpTo(k, Len(J))
    <3>1. l.regime = [k.regime EXCEPT ![e.kind] = n] /\ e.kind \in Kinds
      BY <2>3, EntryFields DEF Becomes, NextRegime, Admissible
    <3>2. l.regime[e.kind] = n
      BY <1>1, <3>1
    <3>3. n \notin RegimesUpTo(k, Len(J))
      BY <1>1, LineageAssumption DEF RegimesUpTo
    <3> QED
      BY <3>1, <3>2, <3>3
  <2>4. ASSUME e.event = "migration.schema_root_switched"
        PROVE  \E d \in Kinds : l.regime[d] \notin RegimesUpTo(k, Len(J))
    <3>1. /\ l.regime = [k.regime EXCEPT ![Schema] = e.manifest]
          /\ e.manifest \notin k.applied /\ e.manifest \in Manifests
      BY <2>4, EntryFields DEF Becomes, NextRegime, Admissible
    <3>2. Schema \in Kinds /\ l.regime[Schema] = e.manifest
      BY <1>1, <3>1, LineageAssumption
    <3>3. e.manifest \notin RegimesUpTo(k, Len(J))
      BY <1>1, <3>1, LineageAssumption DEF RegimesUpTo
    <3> QED
      BY <3>2, <3>3
  <2>5. ASSUME NEW o \in Registered
        PROVE  l.content[o]
                 = IF e.event = "defined" /\ e.object = o THEN e.content ELSE k.content[o]
    <3>1. o \in Objects /\ o # Mission /\ o # Canonical
      BY BasisObjects
    <3>2. l.content = NextContent(k, e)
      BY DEF Becomes
    <3>3. CASE e.event = "defined"
      BY <1>1, <3>1, <3>2, <3>3 DEF NextContent
    <3>4. CASE e.event # "defined"
      BY <1>1, <3>1, <3>2, <3>4 DEF NextContent
    <3> QED
      BY <3>3, <3>4
  <2>6. ASSUME e.event = "defined"
        PROVE  /\ e.object \in Registered
               /\ e.content # k.content[e.object] => l.revision[e.object].seq = n
    <3>1. e.object \in Registered /\ e.object \in Objects
      BY <2>6, EntryFields, BasisObjects
    <3>2. l.content[e.object] = e.content
      BY <2>5, <2>6, <3>1
    <3> QED
      BY <1>5, <3>1, <3>2, RevisionParts
  <2> HIDE DEF n
  <2> QED
    BY <1>1, <2>1, <2>2, <2>3, <2>4, <2>5, <2>6 DEF Tells
<1> QED
  BY <1>8, <1>9

-----------------------------------------------------------------------------
(* Entries that issue an authorization, or the proof that it carries.         *)

\* An authorization with its proof.
Proved(k, e) == [k.auth[e.auth] EXCEPT !.proof = ProofBinding(k)]

LEMMA IssuedFields ==
  ASSUME NEW J \in Seq(Entries), NEW e \in Entries, NEW k, Settled(k, J),
         NEW l, Becomes(k, l, e, Len(J) + 1),
         e.event \in {"action.authorized", "proof.authorization_bound"}
  PROVE  /\ l.content = k.content /\ l.revision = k.revision /\ l.regime = k.regime
         /\ l.recheck = k.recheck /\ l.applied = k.applied
         /\ l.auth \in [Auths -> Authorizations] /\ e.auth \in Auths
         /\ \A v \in Auths : v # e.auth => l.auth[v] = k.auth[v] /\ l.tx[v] = k.tx[v]
         /\ e.event = "action.authorized" =>
              l.auth[e.auth] = Issued(k, e) /\ l.tx[e.auth] = "authorized"
         /\ e.event = "proof.authorization_bound" =>
              l.auth[e.auth] = Proved(k, e) /\ l.tx[e.auth] = k.tx[e.auth]
<1>1. k \in Kernels /\ k.auth \in [Auths -> Authorizations] /\ k.tx \in [Auths -> States]
  BY KernelFields DEF Settled
<1>2. l.content = k.content /\ l.revision = k.revision
  BY <1>1, SameContent DEF Becomes
<1>3. l.regime = k.regime /\ l.recheck = k.recheck /\ l.applied = k.applied
  BY DEF Becomes, NextRegime, NextRecheck, NextApplied
<1>4. l.auth \in [Auths -> Authorizations] /\ e.auth \in Auths
  BY KernelFields, EntryFields DEF Becomes
<1>5. CASE e.event = "action.authorized"
  <2>1. /\ l.auth = [k.auth EXCEPT ![e.auth] = Issued(k, e)]
        /\ l.tx = [k.tx EXCEPT ![e.auth] = "authorized"]
    BY <1>5 DEF Becomes, NextAuth, NextTx
  <2> QED
    BY <1>1, <1>2, <1>3, <1>4, <1>5, <2>1
<1>6. CASE e.event = "proof.authorization_bound"
  <2>1. l.auth = [k.auth EXCEPT ![e.auth] = Proved(k, e)] /\ l.tx = k.tx
    BY <1>6 DEF Becomes, NextAuth, NextTx, Proved
  <2> QED
    BY <1>1, <1>2, <1>3, <1>4, <1>6, <2>1
<1> QED
  BY <1>5, <1>6

\* The other authorizations stay as they are.
LEMMA OthersCurrent ==
  ASSUME NEW k, NEW l, NEW v, l.revision = k.revision, l.regime = k.regime,
         l.auth[v] = k.auth[v]
  PROVE  Current(l, v) <=> Current(k, v)
<1>1. /\ Binding(l, l.auth[v].action, l.auth[v].grants)
            = Binding(k, k.auth[v].action, k.auth[v].grants)
      /\ ProofBinding(l) = ProofBinding(k)
  BY DEF Binding, ProofBinding
<1> QED
  BY <1>1 DEF Current, CurrentBinding, CurrentProof

\* What an authorization is bound to stays before what comes later.
BoundAt(k, n, u) ==
  /\ Bound(k, u) =>
       /\ \A o \in Objects :
            IF o \in BasisOf(k, u)
            THEN /\ k.auth[u].binding.revision[o] \in Revisions
                 /\ k.auth[u].binding.revision[o].seq <= n
            ELSE k.auth[u].binding.revision[o] = NoBinding
       /\ \A d \in Kinds : k.auth[u].binding.regime[d] \in RegimesUpTo(k, n)
  /\ ProofBound(k, u) => \A s \in Sources : k.auth[u].proof[s].seq <= n

LEMMA BoundBeforeParts ==
  ASSUME NEW k, NEW n
  PROVE  BoundBefore(k, n) <=> \A u \in Auths : BoundAt(k, n, u)
BY DEF BoundBefore, BoundAt

LEMMA BoundLater ==
  ASSUME NEW k \in Kernels, NEW l, NEW m \in Nat, NEW u \in Auths, BoundAt(k, m, u),
         l.auth[u] = k.auth[u], k.applied \subseteq l.applied
  PROVE  BoundAt(l, m + 1, u)
<1>1. /\ l.auth[u] = k.auth[u] /\ BasisOf(l, u) = BasisOf(k, u) /\ k.auth[u] \in Authorizations
      /\ (Bound(l, u) <=> Bound(k, u)) /\ (ProofBound(l, u) <=> ProofBound(k, u))
  BY KernelFields DEF BasisOf, Bound, ProofBound
<1>2. \A r \in RegimesUpTo(k, m) : r \in RegimesUpTo(l, m + 1)
  BY DEF RegimesUpTo
<1>3. ASSUME Bound(l, u), NEW o \in Objects
      PROVE  IF o \in BasisOf(l, u)
             THEN /\ l.auth[u].binding.revision[o] \in Revisions
                  /\ l.auth[u].binding.revision[o].seq <= m + 1
             ELSE l.auth[u].binding.revision[o] = NoBinding
  BY <1>1, <1>3 DEF BoundAt, Revisions
<1>4. ASSUME Bound(l, u), NEW d \in Kinds
      PROVE  l.auth[u].binding.regime[d] \in RegimesUpTo(l, m + 1)
  BY <1>1, <1>2, <1>4 DEF BoundAt
<1>5. ASSUME ProofBound(l, u), NEW s \in Sources PROVE l.auth[u].proof[s].seq <= m + 1
  <2>1. k.auth[u].proof[s].seq <= m /\ k.auth[u].proof[s].seq \in Nat
    BY <1>1, <1>5 DEF BoundAt, ProofBound, Authorizations, Proofs, Revisions
  <2> QED
    BY <1>1, <2>1
<1> QED
  BY <1>3, <1>4, <1>5 DEF BoundAt

LEMMA DatedLater ==
  ASSUME NEW k \in Kernels, NEW l, NEW m \in Nat, Dated(k, m), l.content = k.content,
         l.revision = k.revision, l.regime = k.regime, l.applied = k.applied
  PROVE  Dated(l, m + 1)
<1>1. \A r \in RegimesUpTo(k, m) : r \in RegimesUpTo(l, m + 1)
  BY DEF RegimesUpTo
<1>2. \A o \in Objects : k.revision[o].seq \in Nat
  BY KernelFields DEF Revisions
<1> QED
  BY <1>1, <1>2 DEF Dated

\* A new authorization is bound to what is current.
NewlyBound(k, u) ==
  /\ Bound(k, u) /\ ~ ProofBound(k, u) /\ k.auth[u].binding.regime = k.regime
  /\ \A o \in BasisOf(k, u) : k.auth[u].binding.revision[o] = k.revision[o]

LEMMA IssuedBound ==
  ASSUME NEW J \in Seq(Entries), NEW e \in Entries, NEW k, Settled(k, J),
         NEW l, Becomes(k, l, e, Len(J) + 1), e.event = "action.authorized"
  PROVE  BoundAt(l, Len(J) + 1, e.auth) /\ NewlyBound(l, e.auth)
<1> DEFINE u == e.auth
           n == Len(J) + 1
<1>0. e.event \in {"action.authorized", "proof.authorization_bound"}
  OBVIOUS
<1>1. /\ l.revision = k.revision /\ l.regime = k.regime /\ l.applied = k.applied
      /\ l.auth[u] = Issued(k, e) /\ u \in Auths
  BY <1>0, IssuedFields
<1>2. k \in Kernels /\ Dated(k, Len(J)) /\ Len(J) \in Nat
      /\ k.revision \in [Objects -> Revisions]
  BY JournalGrows, KernelFields DEF Settled
<1>3. /\ Issued(k, e).binding = Binding(k, e.action, e.grants)
      /\ Issued(k, e).binding # NoBinding /\ Issued(k, e).proof = NoBinding
      /\ Issued(k, e).action = e.action /\ Issued(k, e).grants = e.grants
  BY <1>2, IssuedType
<1>4. Bound(l, u) /\ ~ ProofBound(l, u) /\ BasisOf(l, u) = Basis(e.action, e.grants)
  BY <1>1, <1>3 DEF Bound, ProofBound, BasisOf
<1>5. /\ l.auth[u].binding.regime = k.regime
      /\ \A o \in Objects : l.auth[u].binding.revision[o]
                             = IF o \in BasisOf(l, u) THEN k.revision[o] ELSE NoBinding
  BY <1>1, <1>3, <1>4 DEF Binding
<1>6. BasisOf(l, u) \subseteq Objects
  BY <1>4, EntryFields, BasisObjects
<1>8. \A o \in Objects : k.revision[o].seq \in Nat /\ k.revision[o].seq <= Len(J)
  BY <1>2 DEF Dated, Revisions
<1>9. \A d \in Kinds : k.regime[d] \in RegimesUpTo(l, n)
  BY <1>1, <1>2 DEF Dated, RegimesUpTo
<1>10. BoundAt(l, n, u)
  BY <1>2, <1>4, <1>5, <1>8, <1>9 DEF BoundAt
<1> QED
  BY <1>1, <1>4, <1>5, <1>6, <1>10 DEF NewlyBound

\* A proof is of the sources as they are.
LEMMA ProvedBound ==
  ASSUME NEW J \in Seq(Entries), NEW e \in Entries, NEW k, Settled(k, J),
         NEW l, Becomes(k, l, e, Len(J) + 1), e.event = "proof.authorization_bound"
  PROVE  /\ BoundAt(l, Len(J) + 1, e.auth)
         /\ Bound(l, e.auth) <=> Bound(k, e.auth)
         /\ ProofBound(l, e.auth)
         /\ l.auth[e.auth].action = k.auth[e.auth].action
         /\ l.auth[e.auth].grants = k.auth[e.auth].grants
         /\ l.auth[e.auth].mission = k.auth[e.auth].mission
         /\ l.auth[e.auth].canonical = k.auth[e.auth].canonical
         /\ l.auth[e.auth].binding = k.auth[e.auth].binding
         /\ \A s \in Sources : l.auth[e.auth].proof[s] = l.revision[s]
<1> DEFINE u == e.auth
           n == Len(J) + 1
<1>0. e.event \in {"action.authorized", "proof.authorization_bound"}
  OBVIOUS
<1>1. /\ l.revision = k.revision /\ l.regime = k.regime /\ l.applied = k.applied
      /\ l.auth[u] = Proved(k, e) /\ u \in Auths
  BY <1>0, IssuedFields
<1>2. /\ k \in Kernels /\ Dated(k, Len(J)) /\ Len(J) \in Nat /\ BoundBefore(k, Len(J))
      /\ k.revision \in [Objects -> Revisions] /\ k.auth[u] \in Authorizations
  BY <1>1, JournalGrows, KernelFields DEF Settled
<1>3. /\ l.auth[u].action = k.auth[u].action /\ l.auth[u].grants = k.auth[u].grants
      /\ l.auth[u].mission = k.auth[u].mission /\ l.auth[u].canonical = k.auth[u].canonical
      /\ l.auth[u].binding = k.auth[u].binding /\ l.auth[u].proof = ProofBinding(k)
  BY <1>1, <1>2 DEF Authorizations, Proved
<1>4. \A s \in Sources : ProofBinding(k)[s] = k.revision[s]
  BY DEF ProofBinding
<1>5. ProofBinding(k) # NoBinding
  BY <1>2, ProofBindingType
<1>6. BoundAt(k, Len(J), u)
  BY <1>1, <1>2, BoundBeforeParts
<1>7. ASSUME Bound(l, u), NEW o \in Objects
      PROVE  IF o \in BasisOf(l, u)
             THEN /\ l.auth[u].binding.revision[o] \in Revisions
                  /\ l.auth[u].binding.revision[o].seq <= n
             ELSE l.auth[u].binding.revision[o] = NoBinding
  <2>1. Bound(k, u) /\ BasisOf(l, u) = BasisOf(k, u)
    BY <1>3, <1>7 DEF Bound, BasisOf
  <2>2. IF o \in BasisOf(k, u)
        THEN /\ k.auth[u].binding.revision[o] \in Revisions
             /\ k.auth[u].binding.revision[o].seq <= Len(J)
        ELSE k.auth[u].binding.revision[o] = NoBinding
    BY <1>6, <2>1 DEF BoundAt
  <2>3. k.auth[u].binding.revision[o] \in Revisions
          => k.auth[u].binding.revision[o].seq \in Nat
    BY DEF Revisions
  <2> QED
    BY <1>2, <1>3, <2>1, <2>2, <2>3
<1>8. ASSUME Bound(l, u), NEW d \in Kinds
      PROVE  l.auth[u].binding.regime[d] \in RegimesUpTo(l, n)
  BY <1>1, <1>2, <1>3, <1>6, <1>8 DEF BoundAt, Bound, RegimesUpTo
<1>9. ASSUME NEW s \in Sources PROVE l.auth[u].proof[s].seq <= n
  <2>1. s \in Objects
    BY BasisObjects
  <2>2. k.revision[s].seq \in Nat /\ k.revision[s].seq <= Len(J)
    BY <1>2, <2>1 DEF Dated, Revisions
  <2> QED
    BY <1>2, <1>3, <1>4, <2>2
<1>10. BoundAt(l, n, u)
  <2> HIDE DEF n
  <2> QED
    BY <1>7, <1>8, <1>9 DEF BoundAt
<1> QED
  BY <1>1, <1>3, <1>4, <1>5, <1>10 DEF Bound, ProofBound

\* What is recorded of another authorization stays recorded.
LEMMA OthersRecorded ==
  ASSUME NEW J \in Seq(Entries), NEW e \in Entries, NEW k, NEW l, NEW v, NEW p \in 1..Len(J),
         RecordedAt(k, J, p, v), l.revision = k.revision, l.regime = k.regime,
         l.auth[v] = k.auth[v], e.event \in {"action.authorized", "proof.authorization_bound"},
         e.auth # v
  PROVE  \/ p = Len(J) /\ e.event = "proof.authorization_bound"
         \/ RecordedAt(l, Append(J, e), p, v)
<1> DEFINE J2 == Append(J, e)
           n == Len(J) + 1
<1> SUFFICES ASSUME ~ (p = Len(J) /\ e.event = "proof.authorization_bound")
             PROVE  RecordedAt(l, J2, p, v)
  OBVIOUS
<1>1. /\ Len(J) \in Nat /\ Len(J2) = n /\ J2[n] = e /\ J2[p] = J[p] /\ p \in 1..n
      /\ \A q \in 1..n : q # n => q \in 1..Len(J) /\ J2[q] = J[q]
  BY JournalGrows
<1>2. Proven(J2, p) <=> Proven(J, p)
  <2>1. CASE e.event = "proof.authorization_bound"
    <3>1. p # Len(J)
      BY <2>1
    <3>2. Proven(J2, p) <=> Proven(J, p) \/ (p = Len(J) /\ e.event = "proof.authorization_bound")
      BY ProvenKept
    <3> QED
      BY <3>1, <3>2 DEF Proven
  <2>2. CASE e.event # "proof.authorization_bound"
    BY <2>2, ProvenSame
  <2> QED
    BY <2>1, <2>2
<1>3. Current(l, v) <=> Current(k, v)
  BY OthersCurrent
<1>4. ASSUME NEW i \in (p + 1)..n, Disturbs(J2, i, p) PROVE ~ Current(l, v)
  <2>1. CASE i = n
    BY <1>1, <1>4, <2>1 DEF Disturbs
  <2>2. CASE i # n
    <3>1. i \in (p + 1)..Len(J) /\ i \in 1..Len(J)
      BY <1>1, <2>2
    <3>2. Disturbs(J, i, p)
      BY <1>2, <1>4, <3>1, DisturbsKept
    <3>3. ~ Current(k, v)
      BY <3>1, <3>2 DEF RecordedAt
    <3> QED
      BY <1>3, <3>3 DEF Current
  <2> QED
    BY <2>1, <2>2
<1>5. ASSUME NEW q \in 1..n, EnteredAt(J2, q, v) PROVE q = p
  <2>1. q # n
    BY <1>1, <1>5 DEF EnteredAt
  <2> QED
    BY <1>1, <1>5, <2>1 DEF EnteredAt, RecordedAt
<1>6. /\ EnteredAt(J2, p, v) /\ (ProofBound(l, v) <=> Proven(J2, p))
      /\ J2[p].action = l.auth[v].action /\ J2[p].grants = l.auth[v].grants
  <2>1. ProofBound(l, v) <=> Proven(J, p)
    BY DEF RecordedAt, ProofBound
  <2> QED
    BY <1>1, <1>2, <2>1 DEF RecordedAt, EnteredAt, ProofBound
<1> HIDE DEF J2, n
<1> QED
  BY <1>1, <1>4, <1>5, <1>6 DEF RecordedAt

LEMMA SettledIssued ==
  ASSUME NEW J \in Seq(Entries), NEW e \in Entries, NEW k, Settled(k, J), Admissible(k, J, e),
         NEW l, Becomes(k, l, e, Len(J) + 1),
         e.event \in {"action.authorized", "proof.authorization_bound"}
  PROVE  /\ Settled(l, Append(J, e))
         /\ \A v \in Auths : k.tx[v] # "none" /\ ~ Current(k, v) => ~ Current(l, v)
<1> DEFINE J2 == Append(J, e)
           n == Len(J) + 1
           u == e.auth
<1>1. /\ Len(J) \in Nat /\ n \in Nat /\ Len(J2) = n /\ J2[n] = e
      /\ \A q \in 1..n : q # n => q \in 1..Len(J) /\ J2[q] = J[q]
  BY JournalGrows
<1>2. /\ l.content = k.content /\ l.revision = k.revision /\ l.regime = k.regime
      /\ l.recheck = k.recheck /\ l.applied = k.applied
      /\ l.auth \in [Auths -> Authorizations] /\ u \in Auths
      /\ \A v \in Auths : v # u => l.auth[v] = k.auth[v] /\ l.tx[v] = k.tx[v]
  BY IssuedFields
<1>3. /\ k \in Kernels /\ Dated(k, Len(J)) /\ BoundBefore(k, Len(J)) /\ Recorded(k, J)
      /\ l \in Kernels /\ l.pending = 0
  BY DEF Settled, Becomes
<1>4. Dated(l, n)
  BY <1>1, <1>2, <1>3, DatedLater
<1>5. BoundBefore(l, n)
  <2>1. BoundAt(l, n, u)
    BY IssuedBound, ProvedBound
  <2>2. ASSUME NEW v \in Auths, v # u PROVE BoundAt(l, n, v)
    <3>1. BoundAt(k, Len(J), v) /\ l.auth[v] = k.auth[v] /\ k.applied \subseteq l.applied
      BY <1>2, <1>3, <2>2, BoundBeforeParts
    <3> QED
      BY <1>1, <1>3, <3>1, BoundLater
  <2>3. \A v \in Auths : BoundAt(l, n, v)
    BY <2>1, <2>2
  <2> QED
    BY <2>3, BoundBeforeParts
<1>6. ASSUME NEW o \in Registered PROVE Says(J2, o, l.content[o], n + 1)
  <2>1. Says(J, o, l.content[o], Len(J) + 1) /\ n + 1 = Len(J) + 2 /\ e.event # "defined"
    BY <1>1, <1>2, <1>3 DEF Recorded
  <2> QED
    BY <2>1, SaysNow
<1>7. l.tx[u] # "none" /\ Bound(l, u)
  <2>1. CASE e.event = "action.authorized"
    BY <2>1, IssuedFields, IssuedBound DEF NewlyBound
  <2>2. CASE e.event = "proof.authorization_bound"
    <3>1. k.tx[u] # "none" /\ Bound(k, u)
      BY <2>2 DEF Admissible
    <3>2. l.tx[u] = k.tx[u]
      BY <2>2, IssuedFields
    <3> QED
      BY <2>2, <3>1, <3>2, ProvedBound
  <2> QED
    BY <2>1, <2>2
<1>8. ASSUME NEW v \in Auths, l.tx[v] = "none", NEW q \in 1..n PROVE ~ EnteredAt(J2, q, v)
  <2>1. v # u /\ k.tx[v] = "none"
    BY <1>2, <1>7, <1>8
  <2>2. CASE q = n
    BY <1>1, <2>1, <2>2 DEF EnteredAt
  <2>3. CASE q # n
    BY <1>1, <1>3, <2>1, <2>3 DEF EnteredAt, Recorded
  <2> QED
    BY <2>2, <2>3
<1>9. ASSUME NEW v \in Auths, l.tx[v] # "none", ~ Bound(l, v) PROVE v \in l.recheck
  <2>1. v # u
    BY <1>7, <1>9
  <2>2. k.tx[v] # "none" /\ ~ Bound(k, v)
    BY <1>2, <1>9, <2>1 DEF Bound
  <2> QED
    BY <1>2, <1>3, <2>2 DEF Recorded
<1>10. ASSUME NEW v \in Auths, v # u, l.tx[v] # "none", Bound(l, v)
       PROVE  \E p \in 1..n : RecordedAt(l, J2, p, v)
  <2>1. k.tx[v] # "none" /\ Bound(k, v) /\ l.auth[v] = k.auth[v]
    BY <1>2, <1>10 DEF Bound
  <2>2. PICK p \in 1..Len(J) : RecordedAt(k, J, p, v)
    BY <1>3, <2>1 DEF Recorded
  <2>3. e.event = "proof.authorization_bound" => p # Len(J)
    BY <1>10, <2>2 DEF Admissible, EnteredAt, RecordedAt
  <2>4. RecordedAt(l, J2, p, v)
    BY <1>2, <1>10, <2>1, <2>2, <2>3, OthersRecorded
  <2> QED
    BY <1>1, <2>4
<1>11. \E p \in 1..n : RecordedAt(l, J2, p, u)
  <2>1. CASE e.event = "action.authorized"
    <3>1. /\ l.auth[u].action = e.action /\ l.auth[u].grants = e.grants /\ ~ ProofBound(l, u)
      BY <1>3, <2>1, IssuedFields, IssuedType, IssuedBound DEF NewlyBound
    <3>2. n \in 1..n /\ EnteredAt(J2, n, u) /\ J2[n].action = e.action /\ J2[n].grants = e.grants
      BY <1>1, <2>1 DEF EnteredAt
    <3>3. ~ Proven(J2, n) /\ (n + 1)..n = {}
      BY <1>1 DEF Proven
    <3>4. ASSUME NEW q \in 1..n, EnteredAt(J2, q, u) PROVE q = n
      <4>1. k.tx[u] = "none"
        BY <2>1 DEF Admissible
      <4> QED
        BY <1>1, <1>2, <1>3, <3>4, <4>1 DEF EnteredAt, Recorded
    <3> HIDE DEF J2, n
    <3>5. RecordedAt(l, J2, n, u)
      BY <1>1, <3>1, <3>2, <3>3, <3>4 DEF RecordedAt
    <3> QED
      BY <3>2, <3>5
  <2>2. CASE e.event = "proof.authorization_bound"
    <3>1. /\ Len(J) > 0 /\ EnteredAt(J, Len(J), u) /\ k.tx[u] # "none"
          /\ Bound(k, u) /\ ~ ProofBound(k, u)
      BY <2>2 DEF Admissible
    <3>2. PICK p \in 1..Len(J) : RecordedAt(k, J, p, u)
      BY <1>2, <1>3, <3>1 DEF Recorded
    <3>3. p = Len(J)
      BY <1>1, <3>1, <3>2 DEF RecordedAt
    <3>4. /\ ProofBound(l, u) /\ l.auth[u].action = k.auth[u].action
          /\ l.auth[u].grants = k.auth[u].grants
      BY <2>2, ProvedBound
    <3>5. p \in 1..n /\ J2[p] = J[p] /\ p + 1 = n /\ p < n
      BY <1>1, <3>3
    <3>6. Proven(J2, p)
      BY <1>1, <2>2, <3>5 DEF Proven
    <3>7. ASSUME NEW q \in 1..n, EnteredAt(J2, q, u) PROVE q = p
      <4>1. q # n
        BY <1>1, <2>2, <3>7 DEF EnteredAt
      <4> QED
        BY <1>1, <3>2, <3>7, <4>1 DEF EnteredAt, RecordedAt
    <3>8. ASSUME NEW i \in (p + 1)..n PROVE ~ Disturbs(J2, i, p)
      <4>1. i = n
        BY <1>1, <3>5
      <4> QED
        BY <1>1, <2>2, <4>1 DEF Disturbs
    <3>9. /\ EnteredAt(J2, p, u)
          /\ J2[p].action = l.auth[u].action /\ J2[p].grants = l.auth[u].grants
      BY <3>2, <3>4, <3>5 DEF RecordedAt, EnteredAt
    <3> HIDE DEF J2, n
    <3>10. RecordedAt(l, J2, p, u)
      BY <1>1, <3>4, <3>6, <3>7, <3>8, <3>9 DEF RecordedAt
    <3> QED
      BY <3>5, <3>10
  <2> QED
    BY <2>1, <2>2
<1>12. ASSUME NEW v \in Auths, k.tx[v] # "none", ~ Current(k, v) PROVE ~ Current(l, v)
  <2>1. CASE v # u
    <3>1. l.auth[v] = k.auth[v]
      BY <1>2, <2>1
    <3> QED
      BY <1>2, <1>12, <3>1, OthersCurrent DEF Current
  <2>2. CASE v = u
    <3>1. e.event = "proof.authorization_bound" /\ ~ ProofBound(k, u)
      BY <1>12, <2>2 DEF Admissible
    <3>2. /\ l.auth[u].binding = k.auth[u].binding
          /\ l.auth[u].action = k.auth[u].action /\ l.auth[u].grants = k.auth[u].grants
      BY <3>1, ProvedBound
    <3>3. ~ CurrentBinding(k, u)
      BY <1>12, <2>2, <3>1 DEF Current, CurrentProof, ProofBound
    <3>4. Binding(l, l.auth[u].action, l.auth[u].grants)
            = Binding(k, k.auth[u].action, k.auth[u].grants)
      BY <1>2, <3>2 DEF Binding
    <3> QED
      BY <2>2, <3>2, <3>3, <3>4 DEF Current, CurrentBinding
  <2> QED
    BY <2>1, <2>2
<1> SUFFICES /\ Settled(l, J2)
             /\ \A v \in Auths : k.tx[v] # "none" /\ ~ Current(k, v) => ~ Current(l, v)
  OBVIOUS
<1> HIDE DEF J2, n
<1>13. Len(J2) + 1 = n + 1
  BY <1>1
<1>14. Recorded(l, J2)
  BY <1>1, <1>6, <1>8, <1>9, <1>10, <1>11, <1>13 DEF Recorded
<1> QED
  BY <1>1, <1>3, <1>4, <1>5, <1>12, <1>14 DEF Settled

-----------------------------------------------------------------------------
(* The replay of an entry into a kernel that may have a pending commit.       *)

LEMMA Flushed ==
  ASSUME NEW k \in Kernels
  PROVE  /\ Flush(k) \in Kernels /\ Flush(k).pending = 0
         /\ Flush(k).content = k.content /\ Flush(k).regime = k.regime
         /\ Flush(k).auth = k.auth /\ Flush(k).tx = k.tx
         /\ Flush(k).recheck = k.recheck /\ Flush(k).applied = k.applied
         /\ k.pending = 0 => Flush(k) = k
         /\ Flush(Flush(k)) = Flush(k)
         /\ k.pending # 0 => Flush(k).revision = Registration(k, {Canonical}, k.pending)
<1> DEFINE g == Register(k, {Canonical}, k.pending)
           l == Flush(k)
<1>1. CASE k.pending = 0
  BY <1>1 DEF Flush
<1>2. CASE k.pending # 0
  <2>1. l = [g EXCEPT !.pending = 0]
    BY <1>2 DEF Flush
  <2>2. k.pending \in Nat /\ {Canonical} \in SUBSET Objects
    BY KernelFields, BasisObjects
  <2>3. /\ g \in Kernels /\ g.revision = Registration(k, {Canonical}, k.pending)
        /\ g = [k EXCEPT !.revision = g.revision]
    BY <2>2, Registering
  <2> HIDE DEF g, l
  <2>4. /\ g.content = k.content /\ g.regime = k.regime /\ g.auth = k.auth /\ g.tx = k.tx
        /\ g.recheck = k.recheck /\ g.applied = k.applied
    BY <2>3, RevisionUpdate
  <2>5. l \in Kernels
    BY <2>1, <2>3, Updates
  <2>6. /\ l.pending = 0 /\ l.content = g.content /\ l.regime = g.regime /\ l.auth = g.auth
        /\ l.tx = g.tx /\ l.recheck = g.recheck /\ l.applied = g.applied
        /\ l.revision = g.revision
    BY <2>1, <2>3 DEF Kernels
  <2>7. Flush(l) = l
    BY <2>6 DEF Flush
  <2> SUFFICES /\ l \in Kernels /\ l.pending = 0
               /\ l.content = k.content /\ l.regime = k.regime
               /\ l.auth = k.auth /\ l.tx = k.tx
               /\ l.recheck = k.recheck /\ l.applied = k.applied
               /\ Flush(l) = l
               /\ l.revision = Registration(k, {Canonical}, k.pending)
    BY <1>2 DEF l
  <2> QED
    BY <2>3, <2>4, <2>5, <2>6, <2>7
<1> QED
  BY <1>1, <1>2

LEMMA PendingFlushed ==
  ASSUME NEW k \in Kernels, k.pending # 0, k.revision[Canonical].of # k.content[Canonical],
         NEW o \in Objects
  PROVE  Flush(k).revision[o] = IF o = Canonical THEN Revision(k.pending, k.content[Canonical])
                                ELSE k.revision[o]
<1>1. Flush(k).revision = Registration(k, {Canonical}, k.pending)
  BY Flushed
<1> QED
  BY <1>1 DEF Registration

\* What a step of the replay keeps.
Keeps(f, l, e) ==
  \A u \in Auths :
    /\ f.tx[u] # "none" => l.tx[u] # "none"
    /\ f.tx[u] # "none" /\ ~ Current(f, u) => ~ Current(l, u)
    /\ l.tx[u] = "dispatch_recorded" =>
         f.tx[u] = "dispatch_recorded" \/ e.event = "action.dispatch_recorded"

\* An entry that replays to nothing, or only moves the sequence of a commit.
LEMMA PassiveStep ==
  ASSUME NEW J \in Seq(Entries), NEW e \in Entries, NEW f, Settled(f, J), e.event \in Passive,
         NEW l, Advances(f, l, Len(J) + 1), l.content = f.content, l.tx = f.tx
  PROVE  Settled(l, Append(J, e)) /\ Keeps(f, l, e)
<1>1. e.event \in {"snapshot.saved", "state.relocated", "recovery.model_class_uncertain"}
  BY DEF Passive
<1>2. Tells(f, l, e, Len(J) + 1)
  BY <1>1 DEF Tells
<1>3. f \in Kernels /\ Dated(f, Len(J)) /\ BoundBefore(f, Len(J)) /\ Len(J) \in Nat
  BY JournalGrows DEF Settled
<1>4. \A u \in Auths : ~ Current(f, u) => ~ Current(l, u)
  BY <1>3, StaleAdvance
<1> QED
  BY <1>2, <1>4, SettledAdvance DEF Keeps

LEMMA ReduceCases ==
  ASSUME NEW k \in Kernels, NEW e \in Entries, NEW n
  PROVE  /\ e.event = "snapshot.saved" => Reduce(k, e, n) = k
         /\ e.event \in Passive \ {"snapshot.saved"} =>
              Reduce(k, e, n) = IF k.pending = 0 THEN k ELSE [k EXCEPT !.pending = n]
         /\ e.event \notin Passive => Reduce(k, e, n) = ReduceFlushed(Flush(k), e, n)
<1>1. k # Unreadable
  BY LineageAssumption
<1> QED
  BY <1>1 DEF Reduce, Passive, MovePending

LEMMA StandsStill ==
  ASSUME NEW f \in Kernels, f.pending = 0, NEW n
  PROVE  Advances(f, f, n)
BY DEF Advances

\* The sequence of a pending commit moves on.
LEMMA MovesPending ==
  ASSUME NEW J \in Seq(Entries), NEW e \in Entries, NEW k, Sound(k, J), k.pending # 0,
         e.event \in Passive, NEW m, m = [k EXCEPT !.pending = Len(J) + 1]
  PROVE  /\ Sound(m, Append(J, e)) /\ Keeps(Flush(k), Flush(m), e)
         /\ Advances(Flush(k), Flush(m), Len(J) + 1)
<1> DEFINE n == Len(J) + 1
           J2 == Append(J, e)
           f == Flush(k)
           l == Flush(m)
<1>1. /\ k \in Kernels /\ Settled(f, J) /\ k.pending <= Len(J)
      /\ k.revision[Canonical].of # k.content[Canonical]
      /\ \A u \in Auths : Bound(k, u) => k.auth[u].binding.revision[Canonical].seq < k.pending
  BY DEF Sound
<1>2. Len(J) \in Nat /\ n \in Nat /\ n # 0 /\ Len(J2) = n
  BY JournalGrows
<1>3. m \in Kernels /\ m.pending = n /\ m.content = k.content /\ m.revision = k.revision
      /\ m.regime = k.regime /\ m.auth = k.auth /\ m.tx = k.tx /\ m.recheck = k.recheck
      /\ m.applied = k.applied
  <2>1. m \in Kernels
    BY <1>1, <1>2, Updates
  <2> QED
    BY <1>1, <2>1 DEF Kernels
<1>4. /\ f \in Kernels /\ f.pending = 0 /\ f.content = k.content /\ f.regime = k.regime
      /\ f.auth = k.auth /\ f.tx = k.tx /\ f.recheck = k.recheck /\ f.applied = k.applied
  BY <1>1, Flushed
<1>5. /\ l \in Kernels /\ l.pending = 0 /\ l.content = k.content /\ l.regime = k.regime
      /\ l.auth = k.auth /\ l.tx = k.tx /\ l.recheck = k.recheck /\ l.applied = k.applied
  <2>1. /\ l \in Kernels /\ l.pending = 0 /\ l.content = m.content /\ l.regime = m.regime
        /\ l.auth = m.auth /\ l.tx = m.tx /\ l.recheck = m.recheck /\ l.applied = m.applied
    BY <1>3, Flushed
  <2> QED
    BY <1>3, <2>1
<1>6. ASSUME NEW o \in Objects
      PROVE  \/ l.revision[o] = f.revision[o] /\ l.content[o] = f.content[o]
             \/ l.revision[o] = Revision(n, l.content[o])
  <2>1. f.revision[o] = IF o = Canonical THEN Revision(k.pending, k.content[Canonical])
                        ELSE k.revision[o]
    BY <1>1, PendingFlushed
  <2>2. l.revision[o] = IF o = Canonical THEN Revision(n, k.content[Canonical])
                        ELSE k.revision[o]
    <3>1. /\ m.pending # 0 /\ m.revision[Canonical].of # m.content[Canonical]
      BY <1>1, <1>2, <1>3
    <3>2. l.revision[o] = IF o = Canonical THEN Revision(m.pending, m.content[Canonical])
                          ELSE m.revision[o]
      BY <1>3, <3>1, PendingFlushed
    <3> QED
      BY <1>3, <3>2
  <2> QED
    BY <1>4, <1>5, <2>1, <2>2
<1>7. Advances(f, l, n)
  <2> HIDE DEF f, l, n
  <2> QED
    BY <1>4, <1>5, <1>6 DEF Advances
<1>8. Settled(l, J2) /\ Keeps(f, l, e)
  BY <1>1, <1>4, <1>5, <1>7, PassiveStep
<1>9. \A u \in Auths : Bound(m, u) => m.auth[u].binding.revision[Canonical].seq < n
  <2>1. ASSUME NEW u \in Auths, Bound(m, u)
        PROVE  m.auth[u].binding.revision[Canonical].seq < n
    <3>1. Bound(k, u) /\ k.auth[u] \in Authorizations
      BY <1>1, <1>3, <2>1, KernelFields DEF Bound
    <3>2. Bound(f, u) /\ f.auth[u] = k.auth[u] /\ Canonical \in BasisOf(f, u)
          /\ Canonical \in Objects
      BY <1>4, <3>1, BasisObjects DEF Bound, BasisOf, Basis
    <3>3. k.auth[u].binding.revision[Canonical] \in Revisions
          /\ k.auth[u].binding.revision[Canonical].seq <= Len(J)
      BY <1>1, <3>2 DEF Settled, BoundBefore
    <3>4. k.auth[u].binding.revision[Canonical].seq \in Nat
      BY <3>3 DEF Revisions
    <3> QED
      BY <1>2, <1>3, <3>3, <3>4
  <2> QED
    BY <2>1
<1> SUFFICES Sound(m, J2) /\ Keeps(f, l, e) /\ Advances(f, l, n)
  OBVIOUS
<1>10. m.revision[Canonical].of # m.content[Canonical] /\ m.pending <= Len(J2)
  BY <1>1, <1>2, <1>3
<1>11. Settled(Flush(m), J2)
  BY <1>8
<1> HIDE DEF J2, n, f, l
<1>12. Sound(m, J2)
  BY <1>3, <1>9, <1>10, <1>11 DEF Sound
<1> QED
  BY <1>7, <1>8, <1>12

\* An entry that changes something, replayed into a settled kernel.
LEMMA ActiveStep ==
  ASSUME NEW J \in Seq(Entries), NEW e \in Entries, NEW f, Settled(f, J), Admissible(f, J, e),
         e.event \notin Passive,
         NEW m, m = ReduceFlushed(f, e, Len(J) + 1)
  PROVE  /\ Sound(m, Append(J, e)) /\ Keeps(f, Flush(m), e)
         /\ Becomes(f, Flush(m), e, Len(J) + 1)
<1> DEFINE n == Len(J) + 1
           J2 == Append(J, e)
           l == Flush(m)
<1>1. Becomes(f, l, e, n)
  BY Becoming
<1>2. /\ f \in Kernels /\ Dated(f, Len(J)) /\ BoundBefore(f, Len(J)) /\ Len(J) \in Nat
      /\ n \in Nat /\ n # 0 /\ Len(J2) = n
  BY JournalGrows DEF Settled
<1>3. Settled(l, J2)
      /\ \A v \in Auths : f.tx[v] # "none" /\ ~ Current(f, v) => ~ Current(l, v)
  <2>1. CASE e.event \in {"action.authorized", "proof.authorization_bound"}
    BY <1>1, <2>1, SettledIssued
  <2>2. CASE e.event \notin {"action.authorized", "proof.authorization_bound"}
    <3>1. Advances(f, l, Len(J) + 1) /\ Tells(f, l, e, Len(J) + 1)
      BY <1>1, <2>2, Advancing
    <3>2. Settled(l, J2)
      BY <3>1, SettledAdvance
    <3>3. \A u \in Auths : ~ Current(f, u) => ~ Current(l, u)
      BY <1>2, <3>1, StaleAdvance
    <3> QED
      BY <3>2, <3>3
  <2> QED
    BY <2>1, <2>2
<1>4. l.tx = NextTx(f, e)
  BY <1>1 DEF Becomes
<1>5. Keeps(f, l, e)
  <2>1. ASSUME NEW u \in Auths
        PROVE  /\ f.tx[u] # "none" => l.tx[u] # "none"
               /\ l.tx[u] = "dispatch_recorded" =>
                    f.tx[u] = "dispatch_recorded" \/ e.event = "action.dispatch_recorded"
    BY <1>2, <1>4, TxMoves
  <2> QED
    BY <1>3, <2>1 DEF Keeps
<1>6. Sound(m, J2)
  <2>1. CASE e.event = "canonical.committed"
    <3>1. /\ m \in Kernels /\ m.pending = n /\ m.content = NextContent(f, e)
          /\ m.revision = f.revision /\ m.auth = f.auth
      BY <2>1, BecomesCommitted
    <3>2. m.content[Canonical] = f.content[Canonical] + 1 /\ f.content[Canonical] \in Nat
      <4>1. NextContent(f, e) = [f.content EXCEPT ![Canonical] = f.content[Canonical] + 1]
        BY <2>1 DEF NextContent, Admissible
      <4> QED
        BY <1>2, <3>1, <4>1, KernelFields, BasisObjects
    <3>3. m.revision[Canonical].of # m.content[Canonical]
      BY <1>2, <3>1, <3>2, BasisObjects DEF Dated
    <3>4. ASSUME NEW u \in Auths, Bound(m, u)
          PROVE  m.auth[u].binding.revision[Canonical].seq < n
      <4>1. Bound(f, u) /\ Canonical \in BasisOf(f, u) /\ Canonical \in Objects
        BY <3>1, <3>4, BasisObjects DEF Bound, BasisOf, Basis
      <4>2. f.auth[u].binding.revision[Canonical] \in Revisions
            /\ f.auth[u].binding.revision[Canonical].seq <= Len(J)
        BY <1>2, <4>1 DEF BoundBefore
      <4>3. f.auth[u].binding.revision[Canonical].seq \in Nat
        BY <4>2 DEF Revisions
      <4> QED
        BY <1>2, <3>1, <4>2, <4>3
    <3>5. m.pending <= Len(J2)
      BY <1>2, <3>1
    <3> HIDE DEF n, J2
    <3> QED
      BY <1>3, <3>1, <3>3, <3>4, <3>5 DEF Sound
  <2>2. CASE e.event # "canonical.committed"
    <3>1. m \in Kernels /\ m.pending = 0
      <4>1. l = m
        BY <2>2, Becoming
      <4> QED
        BY <1>1, <4>1 DEF Becomes
    <3> QED
      BY <1>3, <3>1 DEF Sound
  <2> QED
    BY <2>1, <2>2
<1> QED
  BY <1>1, <1>5, <1>6

LEMMA SoundStep ==
  ASSUME NEW J \in Seq(Entries), NEW e \in Entries, NEW k, Sound(k, J),
         Admissible(Flush(k), J, e)
  PROVE  /\ Sound(Reduce(k, e, Len(J) + 1), Append(J, e))
         /\ Keeps(Flush(k), Flush(Reduce(k, e, Len(J) + 1)), e)
<1> DEFINE n == Len(J) + 1
           m == Reduce(k, e, n)
           J2 == Append(J, e)
<1>1. k \in Kernels /\ Settled(Flush(k), J)
  BY DEF Sound
<1>2. CASE e.event \notin Passive
  <2>1. m = ReduceFlushed(Flush(k), e, Len(J) + 1)
    BY <1>1, <1>2, ReduceCases
  <2> HIDE DEF m
  <2>2. Sound(m, J2) /\ Keeps(Flush(k), Flush(m), e)
    BY <1>1, <1>2, <2>1, ActiveStep
  <2> QED
    BY <2>2 DEF m
<1>3. CASE e.event \in Passive
  <2>1. CASE e.event # "snapshot.saved" /\ k.pending # 0
    <3>1. m = [k EXCEPT !.pending = Len(J) + 1]
      BY <1>1, <1>3, <2>1, ReduceCases
    <3> HIDE DEF m
    <3>2. Sound(m, J2) /\ Keeps(Flush(k), Flush(m), e)
      BY <1>3, <2>1, <3>1, MovesPending
    <3> QED
      BY <3>2 DEF m
  <2>2. CASE ~ (e.event # "snapshot.saved" /\ k.pending # 0)
    <3>1. m = k
      BY <1>1, <1>3, <2>2, ReduceCases
    <3>2. Flush(k) \in Kernels /\ Flush(k).pending = 0
      BY <1>1, Flushed
    <3>3. Advances(Flush(k), Flush(k), n)
      BY <3>2, StandsStill
    <3>4. Settled(Flush(k), J2) /\ Keeps(Flush(k), Flush(k), e)
      BY <1>1, <1>3, <3>3, PassiveStep
    <3>5. k.pending # 0 => k.pending <= Len(J) /\ Len(J) \in Nat /\ Len(J2) = Len(J) + 1
                           /\ k.pending \in Nat
      BY <1>1, JournalGrows, KernelFields DEF Sound
    <3>6. k.pending # 0 => k.pending <= Len(J2)
      BY <3>5
    <3> HIDE DEF J2
    <3>7. Sound(k, J2)
      BY <3>4, <3>6 DEF Sound
    <3> QED
      BY <3>1, <3>4, <3>7 DEF J2
  <2> QED
    BY <2>1, <2>2
<1> QED
  BY <1>2, <1>3

-----------------------------------------------------------------------------
(* The memory and the files stay the same, but for the sequences.             *)

LEMMA SameBasis ==
  ASSUME NEW f, NEW g, NEW u, SameAuth(f, g, u)
  PROVE  BasisOf(f, u) = BasisOf(g, u)
BY DEF SameAuth, BasisOf

LEMMA SameCurrent ==
  ASSUME NEW f \in Kernels, NEW g \in Kernels, NEW n, BoundBefore(f, n), BoundBefore(g, n),
         Same(f, g), NEW u \in Auths
  PROVE  Current(f, u) <=> Current(g, u)
<1>1. SameAuth(f, g, u) /\ BasisOf(f, u) = BasisOf(g, u) /\ f.regime = g.regime
  BY SameBasis DEF Same
<1>2. Current(f, u) <=>
        /\ Bound(f, u) =>
             /\ f.auth[u].binding.regime = f.regime
             /\ \A o \in BasisOf(f, u) : f.auth[u].binding.revision[o] = f.revision[o]
        /\ ProofBound(f, u) => \A s \in Sources : f.auth[u].proof[s] = f.revision[s]
  BY CurrentParts
<1>3. Current(g, u) <=>
        /\ Bound(g, u) =>
             /\ g.auth[u].binding.regime = g.regime
             /\ \A o \in BasisOf(g, u) : g.auth[u].binding.revision[o] = g.revision[o]
        /\ ProofBound(g, u) => \A s \in Sources : g.auth[u].proof[s] = g.revision[s]
  BY CurrentParts
<1>4. (Bound(f, u) <=> Bound(g, u)) /\ (ProofBound(f, u) <=> ProofBound(g, u))
  BY <1>1 DEF SameAuth
<1>5. Bound(f, u) =>
        /\ f.auth[u].binding.regime = g.auth[u].binding.regime
        /\ \A o \in BasisOf(f, u) : f.auth[u].binding.revision[o] = f.revision[o]
                                     <=> g.auth[u].binding.revision[o] = g.revision[o]
  BY <1>1 DEF SameAuth
<1>6. ProofBound(f, u) =>
        \A s \in Sources : f.auth[u].proof[s] = f.revision[s] <=> g.auth[u].proof[s] = g.revision[s]
  BY <1>1 DEF SameAuth
<1>7. CurrentBinding(f, u) \in BOOLEAN /\ CurrentBinding(g, u) \in BOOLEAN
  BY DEF CurrentBinding
<1>8. Current(f, u) \in BOOLEAN /\ Current(g, u) \in BOOLEAN
  BY DEF Current
<1> QED
  BY <1>1, <1>2, <1>3, <1>4, <1>5, <1>6, <1>8

LEMMA SameAdmissible ==
  ASSUME NEW f, NEW g, Same(f, g), NEW J, NEW e \in Entries, Admissible(f, J, e)
  PROVE  Admissible(g, J, e)
<1>1. /\ f.content = g.content /\ f.regime = g.regime /\ f.tx = g.tx /\ f.applied = g.applied
  BY DEF Same
<1>2. e.event = "proof.authorization_bound" =>
        /\ Bound(f, e.auth) => Bound(g, e.auth)
        /\ ~ ProofBound(f, e.auth) => ~ ProofBound(g, e.auth)
  BY EntryFields DEF Same, SameAuth
<1> QED
  BY <1>1, <1>2 DEF Admissible

LEMMA SameReflexive ==
  ASSUME NEW f
  PROVE  Same(f, f)
BY DEF Same, SameAuth, Bound, ProofBound

\* What does not move: all but the revision of the canonical state, and that only where no
\* authorization was bound to it.
Settles(f, l) ==
  /\ l.content = f.content /\ l.regime = f.regime /\ l.tx = f.tx /\ l.recheck = f.recheck
  /\ l.applied = f.applied /\ l.auth = f.auth
  /\ \A o \in Objects \ {Canonical} : l.revision[o] = f.revision[o]
  /\ \/ l.revision[Canonical] = f.revision[Canonical]
     \/ \A u \in Auths : Bound(f, u) =>
          f.auth[u].binding.revision[Canonical]
            \notin {f.revision[Canonical], l.revision[Canonical]}

LEMMA SettlesPassive ==
  ASSUME NEW J \in Seq(Entries), NEW e \in Entries, NEW k, Sound(k, J), e.event \in Passive
  PROVE  Settles(Flush(k), Flush(Reduce(k, e, Len(J) + 1)))
<1> DEFINE n == Len(J) + 1
           m == Reduce(k, e, n)
           f == Flush(k)
           l == Flush(m)
<1>1. k \in Kernels
  BY DEF Sound
<1>2. CASE e.event # "snapshot.saved" /\ k.pending # 0
  <2>1. m = [k EXCEPT !.pending = n]
    BY <1>1, <1>2, ReduceCases
  <2>2. /\ k.pending \in Nat /\ Len(J) \in Nat /\ n # 0 /\ k.pending <= Len(J) /\ n \in Nat
        /\ k.revision[Canonical].of # k.content[Canonical]
        /\ \A u \in Auths : Bound(k, u) => k.auth[u].binding.revision[Canonical].seq < k.pending
    BY <1>1, <1>2, JournalGrows, KernelFields DEF Sound
  <2>3. /\ m.pending = n /\ m.content = k.content /\ m.revision = k.revision
        /\ m.regime = k.regime /\ m.auth = k.auth /\ m.tx = k.tx /\ m.recheck = k.recheck
        /\ m.applied = k.applied
    BY <1>1, <2>1 DEF Kernels
  <2>4. m \in Kernels
    BY <1>1, <2>1, <2>2, Updates
  <2>5. /\ f.content = k.content /\ f.regime = k.regime
        /\ f.auth = k.auth /\ f.tx = k.tx /\ f.recheck = k.recheck /\ f.applied = k.applied
    BY <1>1, Flushed
  <2> HIDE DEF m
  <2>6. /\ l.content = m.content /\ l.regime = m.regime
        /\ l.auth = m.auth /\ l.tx = m.tx /\ l.recheck = m.recheck /\ l.applied = m.applied
    BY <2>4, Flushed
  <2>7. \A o \in Objects : f.revision[o] = IF o = Canonical
          THEN Revision(k.pending, k.content[Canonical]) ELSE k.revision[o]
    BY <1>1, <1>2, <2>2, PendingFlushed
  <2>8. \A o \in Objects : l.revision[o] = IF o = Canonical
          THEN Revision(n, k.content[Canonical]) ELSE k.revision[o]
    <3>1. \A o \in Objects : l.revision[o] = IF o = Canonical
            THEN Revision(m.pending, m.content[Canonical]) ELSE m.revision[o]
      BY <2>2, <2>3, <2>4, PendingFlushed
    <3> QED
      BY <2>3, <3>1
  <2>9. f.revision[Canonical].seq = k.pending /\ l.revision[Canonical].seq = n
    BY <2>7, <2>8, BasisObjects, RevisionParts
  <2>10. ASSUME NEW u \in Auths, Bound(f, u)
         PROVE  f.auth[u].binding.revision[Canonical]
                  \notin {f.revision[Canonical], l.revision[Canonical]}
    <3>1. Bound(k, u) /\ k.auth[u] \in Authorizations
      BY <1>1, <2>5, <2>10, KernelFields DEF Bound
    <3>2. k.auth[u].binding.revision[Canonical].seq < k.pending
      BY <2>2, <3>1
    <3>3. k.auth[u].binding.revision[Canonical] \in Revisions
      <4>1. Settled(f, J) /\ f.auth[u] = k.auth[u]
        BY <2>5 DEF Sound
      <4>2. Canonical \in BasisOf(f, u) /\ Canonical \in Objects
        BY BasisObjects DEF BasisOf, Basis
      <4> QED
        BY <2>10, <4>1, <4>2 DEF Settled, BoundBefore
    <3>4. k.auth[u].binding.revision[Canonical].seq \in Nat
      BY <3>3 DEF Revisions
    <3> QED
      BY <2>2, <2>5, <2>9, <3>2, <3>4
  <2> HIDE DEF f, l
  <2>11. Settles(f, l)
    BY <2>3, <2>5, <2>6, <2>7, <2>8, <2>10 DEF Settles
  <2> QED
    BY <2>11 DEF f, l, m, n
<1>3. CASE ~ (e.event # "snapshot.saved" /\ k.pending # 0)
  <2>1. m = k
    BY <1>1, <1>3, ReduceCases
  <2> QED
    BY <2>1 DEF Settles
<1> QED
  BY <1>2, <1>3

LEMMA SamePassive ==
  ASSUME NEW f \in Kernels, NEW g \in Kernels, Same(f, g),
         NEW l, NEW m, Settles(f, l), Settles(g, m)
  PROVE  Same(l, m)
<1>1. ASSUME NEW u \in Auths PROVE SameAuth(l, m, u)
  <2>1. SameAuth(f, g, u) /\ l.auth = f.auth /\ m.auth = g.auth
    BY DEF Same, Settles
  <2>2. /\ BasisOf(l, u) = BasisOf(f, u) /\ BasisOf(g, u) = BasisOf(f, u)
        /\ (Bound(l, u) <=> Bound(f, u)) /\ (Bound(m, u) <=> Bound(g, u))
        /\ (ProofBound(l, u) <=> ProofBound(f, u)) /\ (ProofBound(m, u) <=> ProofBound(g, u))
    BY <2>1 DEF SameAuth, BasisOf, Bound, ProofBound
  <2>3. /\ Bound(f, u) <=> Bound(g, u)
        /\ ProofBound(f, u) <=> ProofBound(g, u)
        /\ Bound(f, u) =>
             \A o \in BasisOf(f, u) : f.auth[u].binding.revision[o] = f.revision[o]
                                       <=> g.auth[u].binding.revision[o] = g.revision[o]
        /\ ProofBound(f, u) =>
             \A s \in Sources : f.auth[u].proof[s] = f.revision[s]
                                 <=> g.auth[u].proof[s] = g.revision[s]
    BY <2>1 DEF SameAuth
  <2>4. ASSUME Bound(l, u), NEW o \in BasisOf(l, u)
        PROVE  l.auth[u].binding.revision[o] = l.revision[o]
                 <=> m.auth[u].binding.revision[o] = m.revision[o]
    <3>1. Bound(f, u) /\ Bound(g, u) /\ o \in BasisOf(f, u)
      BY <2>2, <2>3, <2>4
    <3>2. f.auth[u].binding.revision[o] = f.revision[o]
            <=> g.auth[u].binding.revision[o] = g.revision[o]
      BY <2>3, <3>1
    <3>3. l.auth[u] = f.auth[u] /\ m.auth[u] = g.auth[u]
      BY <2>1
    <3>4. CASE o # Canonical
      <4>1. f.auth[u] \in Authorizations
        BY KernelFields
      <4>2. o \in Objects
        BY <3>1, <4>1, BasisObjects DEF BasisOf, Authorizations
      <4>3. l.revision[o] = f.revision[o] /\ m.revision[o] = g.revision[o]
        BY <3>4, <4>2 DEF Settles
      <4> QED
        BY <3>2, <3>3, <4>3
    <3>5. CASE o = Canonical
      <4>1. \/ l.revision[o] = f.revision[o]
            \/ f.auth[u].binding.revision[o] \notin {f.revision[o], l.revision[o]}
        BY <3>1, <3>5 DEF Settles
      <4>2. \/ m.revision[o] = g.revision[o]
            \/ g.auth[u].binding.revision[o] \notin {g.revision[o], m.revision[o]}
        BY <3>1, <3>5 DEF Settles
      <4> QED
        BY <3>2, <3>3, <4>1, <4>2
    <3> QED
      BY <3>4, <3>5
  <2>5. ASSUME ProofBound(l, u), NEW s \in Sources
        PROVE  l.auth[u].proof[s] = l.revision[s] <=> m.auth[u].proof[s] = m.revision[s]
    <3>1. s \in Objects /\ s # Canonical /\ ProofBound(f, u)
      BY <2>2, <2>5, BasisObjects
    <3>2. l.revision[s] = f.revision[s] /\ m.revision[s] = g.revision[s]
      BY <3>1 DEF Settles
    <3>3. l.auth[u] = f.auth[u] /\ m.auth[u] = g.auth[u]
      BY <2>1
    <3> QED
      BY <2>3, <3>1, <3>2, <3>3
  <2>6. /\ l.auth[u].action = m.auth[u].action /\ l.auth[u].grants = m.auth[u].grants
        /\ l.auth[u].mission = m.auth[u].mission /\ l.auth[u].canonical = m.auth[u].canonical
        /\ Bound(l, u) => l.auth[u].binding.regime = m.auth[u].binding.regime
    BY <2>1, <2>2 DEF SameAuth
  <2>7. (Bound(l, u) <=> Bound(m, u)) /\ (ProofBound(l, u) <=> ProofBound(m, u))
    BY <2>1, <2>3 DEF Bound, ProofBound
  <2> QED
    BY <2>4, <2>5, <2>6, <2>7 DEF SameAuth
<1> QED
  BY <1>1 DEF Same, Settles

\* An authorization that the entry does not issue, nor prove.
LEMMA SameUnissued ==
  ASSUME NEW J \in Seq(Entries), NEW e \in Entries, NEW f, NEW g, Settled(f, J), Settled(g, J),
         Same(f, g), NEW l, NEW m,
         Becomes(f, l, e, Len(J) + 1), Becomes(g, m, e, Len(J) + 1),
         NEW u \in Auths, l.auth[u] = f.auth[u], m.auth[u] = g.auth[u]
  PROVE  SameAuth(l, m, u)
<1> DEFINE n == Len(J) + 1
<1>1. /\ f \in Kernels /\ g \in Kernels /\ BoundAt(f, Len(J), u) /\ BoundAt(g, Len(J), u)
      /\ Len(J) \in Nat /\ n \in Nat
  BY JournalGrows, BoundBeforeParts DEF Settled
<1>2. SameAuth(f, g, u) /\ f.content = g.content
  BY DEF Same
<1>3. /\ BasisOf(l, u) = BasisOf(f, u) /\ BasisOf(g, u) = BasisOf(f, u)
      /\ (Bound(l, u) <=> Bound(f, u)) /\ (Bound(m, u) <=> Bound(g, u))
      /\ (ProofBound(l, u) <=> ProofBound(f, u)) /\ (ProofBound(m, u) <=> ProofBound(g, u))
  BY <1>2 DEF SameAuth, BasisOf, Bound, ProofBound
<1>4. /\ Bound(f, u) <=> Bound(g, u)
      /\ ProofBound(f, u) <=> ProofBound(g, u)
      /\ Bound(f, u) =>
           \A o \in BasisOf(f, u) : f.auth[u].binding.revision[o] = f.revision[o]
                                     <=> g.auth[u].binding.revision[o] = g.revision[o]
      /\ ProofBound(f, u) =>
           \A s \in Sources : f.auth[u].proof[s] = f.revision[s]
                               <=> g.auth[u].proof[s] = g.revision[s]
  BY <1>2 DEF SameAuth
<1>5. NextContent(g, e) = NextContent(f, e)
  BY <1>2 DEF NextContent
<1>6. ASSUME NEW o \in Objects
      PROVE  \/ l.revision[o] = f.revision[o] /\ m.revision[o] = g.revision[o]
             \/ l.revision[o].seq = n /\ m.revision[o].seq = n
  <2>1. /\ l.revision[o] = IF NextContent(f, e)[o] # f.content[o]
                             THEN Revision(n, NextContent(f, e)[o]) ELSE f.revision[o]
        /\ m.revision[o] = IF NextContent(f, e)[o] # f.content[o]
                             THEN Revision(n, NextContent(f, e)[o]) ELSE g.revision[o]
    BY <1>2, <1>5 DEF Becomes, NextRevision, Redated
  <2> QED
    BY <2>1, RevisionParts
<1>7. f.auth[u] \in Authorizations /\ g.auth[u] \in Authorizations
  BY <1>1, KernelFields
<1>8. ASSUME Bound(l, u), NEW o \in BasisOf(l, u)
      PROVE  l.auth[u].binding.revision[o] = l.revision[o]
               <=> m.auth[u].binding.revision[o] = m.revision[o]
  <2>1. Bound(f, u) /\ Bound(g, u) /\ o \in BasisOf(f, u) /\ o \in BasisOf(g, u)
    BY <1>3, <1>4, <1>8
  <2>2. o \in Objects
    BY <1>7, <2>1, BasisObjects DEF BasisOf, Authorizations
  <2>3. f.auth[u].binding.revision[o].seq # n /\ g.auth[u].binding.revision[o].seq # n
    BY <1>1, <2>1, <2>2 DEF BoundAt, Revisions
  <2> HIDE DEF n
  <2> QED
    BY <1>4, <1>6, <2>1, <2>2, <2>3
<1>9. ASSUME ProofBound(l, u), NEW s \in Sources
      PROVE  l.auth[u].proof[s] = l.revision[s] <=> m.auth[u].proof[s] = m.revision[s]
  <2>1. ProofBound(f, u) /\ ProofBound(g, u) /\ s \in Objects
    BY <1>3, <1>4, <1>9, BasisObjects
  <2>2. f.auth[u].proof[s] \in Revisions /\ g.auth[u].proof[s] \in Revisions
    BY <1>7, <2>1 DEF ProofBound, Authorizations, Proofs
  <2>3. f.auth[u].proof[s].seq # n /\ g.auth[u].proof[s].seq # n
    BY <1>1, <2>1, <2>2 DEF BoundAt, Revisions
  <2> HIDE DEF n
  <2> QED
    BY <1>4, <1>6, <2>1, <2>3
<1>10. /\ l.auth[u].action = m.auth[u].action /\ l.auth[u].grants = m.auth[u].grants
       /\ l.auth[u].mission = m.auth[u].mission /\ l.auth[u].canonical = m.auth[u].canonical
       /\ Bound(l, u) => l.auth[u].binding.regime = m.auth[u].binding.regime
       /\ (Bound(l, u) <=> Bound(m, u)) /\ (ProofBound(l, u) <=> ProofBound(m, u))
  BY <1>2, <1>3, <1>4 DEF SameAuth
<1> QED
  BY <1>8, <1>9, <1>10 DEF SameAuth

LEMMA SameBecomes ==
  ASSUME NEW J \in Seq(Entries), NEW e \in Entries, NEW f, NEW g, Settled(f, J), Settled(g, J),
         Same(f, g), NEW l, NEW m,
         Becomes(f, l, e, Len(J) + 1), Becomes(g, m, e, Len(J) + 1)
  PROVE  Same(l, m)
<1>1. /\ f.content = g.content /\ f.regime = g.regime /\ f.tx = g.tx
      /\ f.recheck = g.recheck /\ f.applied = g.applied
  BY DEF Same
<1>2. /\ NextContent(g, e) = NextContent(f, e) /\ NextRegime(g, e) = NextRegime(f, e)
      /\ NextTx(g, e) = NextTx(f, e) /\ NextRecheck(g, e) = NextRecheck(f, e)
      /\ NextApplied(g, e) = NextApplied(f, e)
  BY <1>1 DEF NextContent, NextRegime, NextTx, NextRecheck, NextApplied
<1>3. /\ l.content = m.content /\ l.regime = m.regime /\ l.tx = m.tx
      /\ l.recheck = m.recheck /\ l.applied = m.applied
  BY <1>2 DEF Becomes
<1>4. ASSUME NEW u \in Auths PROVE SameAuth(l, m, u)
  <2>1. CASE l.auth[u] = f.auth[u] /\ m.auth[u] = g.auth[u]
    BY <2>1, SameUnissued
  <2>2. CASE e.event = "action.authorized" /\ u = e.auth
    <3>1. NewlyBound(l, u)
      BY <2>2, IssuedBound
    <3>2. NewlyBound(m, u)
      BY <2>2, IssuedBound
    <3>3. e.event \in {"action.authorized", "proof.authorization_bound"}
      BY <2>2
    <3>4. l.auth[u] = Issued(f, e) /\ m.auth[u] = Issued(g, e)
      BY <2>2, <3>3, IssuedFields
    <3>5. /\ l.auth[u].action = m.auth[u].action /\ l.auth[u].grants = m.auth[u].grants
          /\ l.auth[u].mission = m.auth[u].mission /\ l.auth[u].canonical = m.auth[u].canonical
      BY <3>4 DEF Issued
    <3>6. BasisOf(l, u) = BasisOf(m, u)
      BY <3>5 DEF BasisOf
    <3> QED
      BY <1>3, <3>1, <3>2, <3>5, <3>6 DEF SameAuth, NewlyBound
  <2>3. CASE e.event = "proof.authorization_bound" /\ u = e.auth
    <3>1. /\ Bound(l, u) <=> Bound(f, u)
          /\ ProofBound(l, u) /\ l.auth[u].action = f.auth[u].action
          /\ l.auth[u].grants = f.auth[u].grants /\ l.auth[u].mission = f.auth[u].mission
          /\ l.auth[u].canonical = f.auth[u].canonical
          /\ l.auth[u].binding = f.auth[u].binding
          /\ \A s \in Sources : l.auth[u].proof[s] = l.revision[s]
      BY <2>3, ProvedBound
    <3>2. /\ Bound(m, u) <=> Bound(g, u)
          /\ ProofBound(m, u) /\ m.auth[u].action = g.auth[u].action
          /\ m.auth[u].grants = g.auth[u].grants /\ m.auth[u].mission = g.auth[u].mission
          /\ m.auth[u].canonical = g.auth[u].canonical
          /\ m.auth[u].binding = g.auth[u].binding
          /\ \A s \in Sources : m.auth[u].proof[s] = m.revision[s]
      BY <2>3, ProvedBound
    <3>3. e.event \in {"action.authorized", "proof.authorization_bound"}
      BY <2>3
    <3>4. l.revision = f.revision /\ m.revision = g.revision
      BY <3>3, IssuedFields
    <3>5. SameAuth(f, g, u) /\ BasisOf(l, u) = BasisOf(f, u)
      BY <3>1 DEF Same, BasisOf
    <3> QED
      BY <3>1, <3>2, <3>4, <3>5 DEF SameAuth
  <2>4. ASSUME e.event \in {"action.authorized", "proof.authorization_bound"}, u # e.auth
        PROVE  l.auth[u] = f.auth[u] /\ m.auth[u] = g.auth[u]
    BY <2>4, IssuedFields
  <2>5. ASSUME e.event \notin {"action.authorized", "proof.authorization_bound"}
        PROVE  l.auth[u] = f.auth[u] /\ m.auth[u] = g.auth[u]
    BY <2>5 DEF Becomes, NextAuth
  <2> QED
    BY <2>1, <2>2, <2>3, <2>4, <2>5
<1> QED
  BY <1>3, <1>4 DEF Same

\* One entry, replayed into the memory and into the files.
LEMMA Step ==
  ASSUME NEW J \in Seq(Entries), NEW e \in Entries, NEW k, NEW d, Follows(k, d, J),
         Admissible(Flush(k), J, e)
  PROVE  /\ Follows(Reduce(k, e, Len(J) + 1), Reduce(d, e, Len(J) + 1), Append(J, e))
         /\ Keeps(Flush(k), Flush(Reduce(k, e, Len(J) + 1)), e)
         /\ Keeps(Flush(d), Flush(Reduce(d, e, Len(J) + 1)), e)
<1> DEFINE n == Len(J) + 1
           f == Flush(k)
           g == Flush(d)
           l == Flush(Reduce(k, e, n))
           m == Flush(Reduce(d, e, n))
<1>1. /\ Sound(k, J) /\ Sound(d, J) /\ Same(f, g) /\ k \in Kernels /\ d \in Kernels
      /\ Settled(f, J) /\ Settled(g, J)
  BY DEF Follows, Sound
<1>2. Admissible(g, J, e)
  BY <1>1, SameAdmissible
<1>3. Sound(Reduce(k, e, n), Append(J, e)) /\ Keeps(f, l, e)
  BY <1>1, SoundStep
<1>4. Sound(Reduce(d, e, n), Append(J, e)) /\ Keeps(g, m, e)
  BY <1>1, <1>2, SoundStep
<1>5. Same(l, m)
  <2>1. CASE e.event \in Passive
    <3>1. Settles(f, l) /\ Settles(g, m)
      BY <1>1, <2>1, SettlesPassive
    <3>2. f \in Kernels /\ g \in Kernels
      BY <1>1 DEF Settled
    <3> HIDE DEF f, g, l, m
    <3> QED
      BY <1>1, <3>1, <3>2, SamePassive
  <2>2. CASE e.event \notin Passive
    <3>1. Reduce(k, e, n) = ReduceFlushed(f, e, n) /\ Reduce(d, e, n) = ReduceFlushed(g, e, n)
      BY <1>1, <2>2, ReduceCases
    <3>2. Becomes(f, Flush(ReduceFlushed(f, e, n)), e, n)
          /\ Becomes(g, Flush(ReduceFlushed(g, e, n)), e, n)
      BY <1>1, <1>2, <2>2, Becoming
    <3>3. Becomes(f, l, e, n) /\ Becomes(g, m, e, n)
      BY <3>1, <3>2
    <3> HIDE DEF f, g, l, m
    <3> QED
      BY <1>1, <3>3, SameBecomes
  <2> QED
    BY <2>1, <2>2
<1> QED
  BY <1>3, <1>4, <1>5 DEF Follows

-----------------------------------------------------------------------------
(* The entries of an operation, one after the other.                          *)

LEMMA ReplayNone ==
  ASSUME NEW k, NEW n \in Nat
  PROVE  Replay(k, <<>>, n) = k
<1> DEFINE Unrolled(f) == [i \in 0..Len(<<>>) |->
             IF i = 0 THEN k ELSE Reduce(f[i - 1], <<>>[i], n + i)]
           f == CHOOSE f : f = Unrolled(f)
           g == [i \in {0} |-> k]
<1>1. Len(<<>>) = 0 /\ 0..Len(<<>>) = {0}
  OBVIOUS
<1>2. Replay(k, <<>>, n) = f[0]
  BY <1>1 DEF Replay
<1>3. g = Unrolled(g)
  BY <1>1
<1>4. f = Unrolled(f)
  BY <1>3
<1> HIDE DEF f
<1> QED
  BY <1>1, <1>2, <1>4

LEMMA ReplayOne ==
  ASSUME NEW k, NEW n \in Nat, NEW e1 \in Entries
  PROVE  Replay(k, <<e1>>, n) = Reduce(k, e1, n + 1)
<1> DEFINE es == <<e1>>
           Unrolled(f) == [i \in 0..Len(es) |->
             IF i = 0 THEN k ELSE Reduce(f[i - 1], es[i], n + i)]
           f == CHOOSE f : f = Unrolled(f)
           r1 == Reduce(k, e1, n + 1)
           g == [i \in 0..Len(es) |-> IF i = 0 THEN k ELSE r1]
<1>1. Len(es) = 1 /\ 0..Len(es) = {0, 1} /\ es[1] = e1
  OBVIOUS
<1>2. Replay(k, es, n) = f[Len(es)]
  BY DEF Replay
<1>3. g = Unrolled(g)
  BY <1>1
<1>4. f = Unrolled(f)
  BY <1>3
<1> HIDE DEF f
<1>5. /\ f[0] = k
      /\ f[1] = Reduce(f[0], es[1], n + 1)
  BY <1>1, <1>4
<1> QED
  BY <1>1, <1>2, <1>5

LEMMA ReplayTwo ==
  ASSUME NEW k, NEW n \in Nat, NEW e1 \in Entries, NEW e2 \in Entries
  PROVE  Replay(k, <<e1, e2>>, n) = Reduce(Reduce(k, e1, n + 1), e2, n + 2)
<1> DEFINE es == <<e1, e2>>
           Unrolled(f) == [i \in 0..Len(es) |->
             IF i = 0 THEN k ELSE Reduce(f[i - 1], es[i], n + i)]
           f == CHOOSE f : f = Unrolled(f)
           r1 == Reduce(k, e1, n + 1)
           r2 == Reduce(r1, e2, n + 2)
           g == [i \in 0..Len(es) |-> IF i = 0 THEN k ELSE IF i = 1 THEN r1 ELSE r2]
<1>1. Len(es) = 2 /\ 0..Len(es) = {0, 1, 2} /\ es[1] = e1 /\ es[2] = e2
  OBVIOUS
<1>2. Replay(k, es, n) = f[Len(es)]
  BY DEF Replay
<1>3. g = Unrolled(g)
  BY <1>1
<1>4. f = Unrolled(f)
  BY <1>3
<1> HIDE DEF f
<1>5. /\ f[0] = k
      /\ f[1] = Reduce(f[0], es[1], n + 1)
      /\ f[2] = Reduce(f[1], es[2], n + 2)
  BY <1>1, <1>4
<1> QED
  BY <1>1, <1>2, <1>5

LEMMA ReplayThree ==
  ASSUME NEW k, NEW n \in Nat, NEW e1 \in Entries, NEW e2 \in Entries, NEW e3 \in Entries
  PROVE  Replay(k, <<e1, e2, e3>>, n) =
           Reduce(Reduce(Reduce(k, e1, n + 1), e2, n + 2), e3, n + 3)
<1> DEFINE es == <<e1, e2, e3>>
           Unrolled(f) == [i \in 0..Len(es) |->
             IF i = 0 THEN k ELSE Reduce(f[i - 1], es[i], n + i)]
           f == CHOOSE f : f = Unrolled(f)
           r1 == Reduce(k, e1, n + 1)
           r2 == Reduce(r1, e2, n + 2)
           r3 == Reduce(r2, e3, n + 3)
           g == [i \in 0..Len(es) |-> IF i = 0 THEN k ELSE IF i = 1 THEN r1
                                    ELSE IF i = 2 THEN r2 ELSE r3]
<1>1. Len(es) = 3 /\ 0..Len(es) = {0, 1, 2, 3}
      /\ es[1] = e1 /\ es[2] = e2 /\ es[3] = e3
  OBVIOUS
<1>2. Replay(k, es, n) = f[Len(es)]
  BY DEF Replay
<1>3. g = Unrolled(g)
  BY <1>1
<1>4. f = Unrolled(f)
  BY <1>3
<1> HIDE DEF f
<1>5. /\ f[0] = k
      /\ f[1] = Reduce(f[0], es[1], n + 1)
      /\ f[2] = Reduce(f[1], es[2], n + 2)
      /\ f[3] = Reduce(f[2], es[3], n + 3)
  BY <1>1, <1>4
<1> QED
  BY <1>1, <1>2, <1>5

LEMMA ReplayFour ==
  ASSUME NEW k, NEW n \in Nat, NEW es \in Seq(Entries), Len(es) = 4
  PROVE  Replay(k, es, n) =
           Reduce(Reduce(Reduce(Reduce(k, es[1], n + 1), es[2], n + 2), es[3], n + 3),
                  es[4], n + 4)
<1> DEFINE Unrolled(f) == [i \in 0..Len(es) |->
             IF i = 0 THEN k ELSE Reduce(f[i - 1], es[i], n + i)]
           f == CHOOSE f : f = Unrolled(f)
           r1 == Reduce(k, es[1], n + 1)
           r2 == Reduce(r1, es[2], n + 2)
           r3 == Reduce(r2, es[3], n + 3)
           r4 == Reduce(r3, es[4], n + 4)
           g == [i \in 0..Len(es) |-> IF i = 0 THEN k ELSE IF i = 1 THEN r1
                                    ELSE IF i = 2 THEN r2 ELSE IF i = 3 THEN r3 ELSE r4]
<1>1. Len(es) = 4 /\ 0..Len(es) = {0, 1, 2, 3, 4}
  OBVIOUS
<1>2. Replay(k, es, n) = f[Len(es)]
  BY DEF Replay
<1>3. g = Unrolled(g)
  BY <1>1
<1>4. f = Unrolled(f)
  BY <1>3
<1> HIDE DEF f
<1>5. /\ f[0] = k
      /\ f[1] = Reduce(f[0], es[1], n + 1)
      /\ f[2] = Reduce(f[1], es[2], n + 2)
      /\ f[3] = Reduce(f[2], es[3], n + 3)
      /\ f[4] = Reduce(f[3], es[4], n + 4)
  BY <1>1, <1>4
<1> QED
  BY <1>1, <1>2, <1>5

\* What an operation keeps; only dispatch records a dispatch.
Kept(f, l, dispatching) ==
  \A u \in Auths :
    /\ f.tx[u] # "none" => l.tx[u] # "none"
    /\ f.tx[u] # "none" /\ ~ Current(f, u) => ~ Current(l, u)
    /\ l.tx[u] = "dispatch_recorded" => f.tx[u] = "dispatch_recorded" \/ dispatching

\* After some entries of an operation: its journal J, the memory k if it went on to the
\* end, and the files d.
Reached(k, d, J, dispatching) ==
  /\ J \in Seq(Entries) /\ Follows(k, d, J)
  /\ Kept(kernel, Flush(k), dispatching) /\ Kept(kernel, Flush(d), dispatching)

\* What an operation may leave, in memory and in the files.
Good(dispatching) ==
  /\ kernel' \in Kernels /\ durable' \in Kernels /\ journal' \in Seq(Entries)
  /\ kernel'.pending = 0 /\ Follows(kernel', durable', journal')
  /\ Kept(kernel, kernel', dispatching)

LEMMA KeptStep ==
  ASSUME NEW f, NEW l, NEW m, NEW dispatching \in BOOLEAN, NEW e, Kept(f, l, dispatching),
         Keeps(l, m, e), e.event = "action.dispatch_recorded" => dispatching
  PROVE  Kept(f, m, dispatching)
BY DEF Kept, Keeps

LEMMA KeptReflexive ==
  ASSUME NEW f, NEW dispatching
  PROVE  Kept(f, f, dispatching)
BY DEF Kept

LEMMA FollowsParts ==
  ASSUME NEW k, NEW d, NEW J, Follows(k, d, J)
  PROVE  /\ k \in Kernels /\ d \in Kernels /\ Settled(Flush(k), J) /\ Settled(Flush(d), J)
         /\ Flush(k) \in Kernels /\ Flush(d) \in Kernels /\ Same(Flush(k), Flush(d))
         /\ BoundBefore(Flush(k), Len(J)) /\ BoundBefore(Flush(d), Len(J))
BY DEF Follows, Sound, Settled

LEMMA ReachedStart ==
  ASSUME IInv, NEW dispatching \in BOOLEAN
  PROVE  Reached(kernel, durable, journal, dispatching) /\ Flush(kernel) = kernel
<1> DEFINE g == Flush(durable)
<1>1. /\ journal \in Seq(Entries) /\ Follows(kernel, durable, journal) /\ kernel \in Kernels
      /\ Flush(kernel) = kernel
  BY Flushed DEF IInv, TypeOK
<1>2. Same(kernel, g) /\ BoundBefore(kernel, Len(journal)) /\ BoundBefore(g, Len(journal))
      /\ g \in Kernels
  BY <1>1, FollowsParts
<1> HIDE DEF g
<1>3. ASSUME NEW u \in Auths PROVE Current(kernel, u) <=> Current(g, u)
  BY <1>1, <1>2, SameCurrent
<1>4. kernel.tx = g.tx
  BY <1>2 DEF Same
<1>5. Kept(kernel, g, dispatching)
  BY <1>3, <1>4 DEF Kept, Current
<1>6. Kept(kernel, Flush(kernel), dispatching)
  BY <1>1, KeptReflexive
<1> QED
  BY <1>1, <1>5, <1>6 DEF Reached, g

LEMMA ReachedStep ==
  ASSUME NEW k, NEW d, NEW J, NEW dispatching \in BOOLEAN, Reached(k, d, J, dispatching),
         NEW e \in Entries, e.event = "action.dispatch_recorded" => dispatching,
         Admissible(Flush(k), J, e)
  PROVE  Reached(Reduce(k, e, Len(J) + 1), Reduce(d, e, Len(J) + 1), Append(J, e), dispatching)
<1> DEFINE l == Reduce(k, e, Len(J) + 1)
           m == Reduce(d, e, Len(J) + 1)
           J2 == Append(J, e)
<1>1. /\ J \in Seq(Entries) /\ Follows(k, d, J)
      /\ Kept(kernel, Flush(k), dispatching) /\ Kept(kernel, Flush(d), dispatching)
  BY DEF Reached
<1>2. Follows(l, m, J2) /\ Keeps(Flush(k), Flush(l), e) /\ Keeps(Flush(d), Flush(m), e)
  BY <1>1, Step
<1>3. J2 \in Seq(Entries)
  BY <1>1
<1> HIDE DEF l, m, J2
<1>4. Kept(kernel, Flush(l), dispatching) /\ Kept(kernel, Flush(m), dispatching)
  BY <1>1, <1>2, KeptStep
<1>5. Reached(l, m, J2, dispatching)
  BY <1>2, <1>3, <1>4 DEF Reached
<1> QED
  BY <1>5 DEF l, m, J2

LEMMA FlushedSound ==
  ASSUME NEW k, NEW J, Sound(k, J)
  PROVE  Sound(Flush(k), J) /\ Flush(Flush(k)) = Flush(k) /\ Flush(k).pending = 0
BY Flushed DEF Sound

\* The operation completes.
LEMMA FinishedMemory ==
  ASSUME NEW k, NEW d, NEW J, NEW dispatching \in BOOLEAN, Reached(k, d, J, dispatching),
         kernel' = Flush(k), durable' = d, journal' = J
  PROVE  Good(dispatching)
<1>1. /\ J \in Seq(Entries) /\ Follows(k, d, J) /\ Kept(kernel, Flush(k), dispatching)
      /\ Sound(k, J) /\ Sound(d, J) /\ Same(Flush(k), Flush(d))
  BY DEF Reached, Follows
<1>2. Sound(Flush(k), J) /\ Flush(Flush(k)) = Flush(k) /\ Flush(k).pending = 0
  BY <1>1, FlushedSound
<1>3. Follows(Flush(k), d, J)
  BY <1>1, <1>2 DEF Follows
<1>4. Flush(k) \in Kernels /\ d \in Kernels
  BY <1>1, FollowsParts
<1> QED
  BY <1>1, <1>2, <1>3, <1>4 DEF Good

\* The operation is cut short, and the files are read.
LEMMA FinishedFiles ==
  ASSUME NEW k, NEW d, NEW J, NEW dispatching \in BOOLEAN, Reached(k, d, J, dispatching),
         kernel' = Flush(d), durable' = d, journal' = J
  PROVE  Good(dispatching)
<1>1. /\ J \in Seq(Entries) /\ Follows(k, d, J) /\ Kept(kernel, Flush(d), dispatching)
      /\ Sound(d, J)
  BY DEF Reached, Follows
<1>2. Sound(Flush(d), J) /\ Flush(Flush(d)) = Flush(d) /\ Flush(d).pending = 0
  BY <1>1, FlushedSound
<1>3. Follows(Flush(d), d, J)
  BY <1>1, <1>2, SameReflexive DEF Follows
<1>4. Flush(d) \in Kernels /\ d \in Kernels
  BY <1>1, FollowsParts
<1> QED
  BY <1>1, <1>2, <1>3, <1>4 DEF Good

LEMMA RestoredIs ==
  ASSUME NEW k \in Kernels
  PROVE  Restored(k) = Flush(k)
BY LineageAssumption DEF Restored

\* A journal with entries appended, as an operation writes it.
LEMMA Appended ==
  ASSUME NEW J \in Seq(Entries), NEW e1 \in Entries, NEW e2 \in Entries, NEW e3 \in Entries,
         NEW e4 \in Entries
  PROVE  /\ J \o <<>> = J /\ J \o <<e1>> = Append(J, e1)
         /\ J \o <<e1, e2>> = Append(Append(J, e1), e2)
         /\ J \o <<e1, e2, e3>> = Append(Append(Append(J, e1), e2), e3)
         /\ J \o <<e1, e2, e3, e4>> = Append(Append(Append(Append(J, e1), e2), e3), e4)
OBVIOUS

LEMMA Prefixes ==
  ASSUME NEW es \in Seq(Entries)
  PROVE  /\ Len(es) >= 1 => SubSeq(es, 1, 1) = <<es[1]>>
         /\ Len(es) >= 2 => SubSeq(es, 1, 2) = <<es[1], es[2]>>
         /\ Len(es) >= 3 => SubSeq(es, 1, 3) = <<es[1], es[2], es[3]>>
<1>1. ASSUME Len(es) >= 1 PROVE SubSeq(es, 1, 1) = <<es[1]>>
  <2> DEFINE p == SubSeq(es, 1, 1)
  <2>1. p \in Seq(Entries) /\ Len(p) = 1 /\ p[1] = es[1]
    BY <1>1
  <2> HIDE DEF p
  <2>2. p = <<es[1]>>
    BY <2>1
  <2> QED
    BY <2>2 DEF p
<1>2. ASSUME Len(es) >= 2 PROVE SubSeq(es, 1, 2) = <<es[1], es[2]>>
  <2> DEFINE p == SubSeq(es, 1, 2)
  <2>1. p \in Seq(Entries) /\ Len(p) = 2 /\ p[1] = es[1] /\ p[2] = es[2]
    BY <1>2
  <2> HIDE DEF p
  <2>2. p = <<es[1], es[2]>>
    BY <2>1
  <2> QED
    BY <2>2 DEF p
<1>3. ASSUME Len(es) >= 3 PROVE SubSeq(es, 1, 3) = <<es[1], es[2], es[3]>>
  <2> DEFINE p == SubSeq(es, 1, 3)
  <2>1. p \in Seq(Entries) /\ Len(p) = 3 /\ p[1] = es[1] /\ p[2] = es[2] /\ p[3] = es[3]
    BY <1>3
  <2> HIDE DEF p
  <2>2. p = <<es[1], es[2], es[3]>>
    BY <2>1
  <2> QED
    BY <2>2 DEF p
<1> QED
  BY <1>1, <1>2, <1>3

LEMMA PerformsOne ==
  ASSUME IInv, NEW dispatching \in BOOLEAN, NEW x,
         NEW e1 \in Entries, e1.event = "action.dispatch_recorded" => dispatching,
         Admissible(kernel, journal, e1),
         NEW k1, k1 = Reduce(kernel, e1, Len(journal) + 1), NEW J1, J1 = Append(journal, e1),
         Performs(Flush(k1), <<e1>>, x)
  PROVE  Good(dispatching)
<1> DEFINE n == Len(journal)
           d1 == Reduce(durable, e1, n + 1)
<1>1. /\ Reached(kernel, durable, journal, dispatching) /\ Flush(kernel) = kernel
      /\ journal \in Seq(Entries) /\ n \in Nat
  BY ReachedStart DEF Reached
<1>2. J1 \in Seq(Entries) /\ Len(J1) = n + 1
  BY <1>1
<1>3. Reached(k1, d1, J1, dispatching)
  BY <1>1, ReachedStep
<1>4. /\ journal \o <<e1>> = J1 /\ Replay(durable, <<e1>>, n) = d1
  BY <1>1, Appended, ReplayOne
<1> HIDE DEF d1
<1>5. CASE Completes(Flush(k1), <<e1>>, x)
  <2>1. kernel' = Flush(k1) /\ journal' = J1 /\ durable' = d1
    BY <1>4, <1>5 DEF Completes
  <2> QED
    BY <1>3, <2>1, FinishedMemory
<1>6. CASE CutShort(<<e1>>)
  BY <1>6 DEF CutShort
<1> QED
  BY <1>5, <1>6 DEF Performs

LEMMA PerformsTwo ==
  ASSUME IInv, NEW dispatching \in BOOLEAN, NEW x,
         NEW e1 \in Entries, e1.event = "action.dispatch_recorded" => dispatching,
         Admissible(kernel, journal, e1),
         NEW k1, k1 = Reduce(kernel, e1, Len(journal) + 1), NEW J1, J1 = Append(journal, e1),
         NEW e2 \in Entries, e2.event = "action.dispatch_recorded" => dispatching,
         Admissible(Flush(k1), J1, e2),
         NEW k2, k2 = Reduce(k1, e2, Len(journal) + 2), NEW J2, J2 = Append(J1, e2),
         Performs(Flush(k2), <<e1, e2>>, x)
  PROVE  Good(dispatching)
<1> DEFINE n == Len(journal)
           d1 == Reduce(durable, e1, n + 1)
           d2 == Reduce(d1, e2, n + 2)
<1>1. /\ Reached(kernel, durable, journal, dispatching) /\ Flush(kernel) = kernel
      /\ journal \in Seq(Entries) /\ n \in Nat
  BY ReachedStart DEF Reached
<1>2. /\ J1 \in Seq(Entries) /\ Len(J1) = n + 1
      /\ J2 \in Seq(Entries) /\ Len(J2) = n + 2
  BY <1>1
<1>3. Reached(k1, d1, J1, dispatching)
  BY <1>1, ReachedStep
<1>4. Reached(k2, d2, J2, dispatching)
  <2>1. k2 = Reduce(k1, e2, Len(J1) + 1) /\ d2 = Reduce(d1, e2, Len(J1) + 1)
    BY <1>1, <1>2
  <2> HIDE DEF d1, d2
  <2> QED
    BY <1>3, <2>1, ReachedStep
<1>5. /\ journal \o <<e1>> = J1 /\ Replay(durable, <<e1>>, n) = d1
      /\ journal \o <<e1, e2>> = J2 /\ Replay(durable, <<e1, e2>>, n) = d2
  <2>1. journal \o <<e1>> = J1
    BY <1>1, Appended
  <2>2. Replay(durable, <<e1>>, n) = d1
    BY <1>1, ReplayOne
  <2>3. journal \o <<e1, e2>> = J2
    BY <1>1, Appended
  <2>4. Replay(durable, <<e1, e2>>, n) = d2
    BY <1>1, ReplayTwo
  <2> QED
    BY <2>1, <2>2, <2>3, <2>4
<1> HIDE DEF d1, d2
<1>6. CASE Completes(Flush(k2), <<e1, e2>>, x)
  <2>1. kernel' = Flush(k2) /\ journal' = J2 /\ durable' = d2
    BY <1>5, <1>6 DEF Completes
  <2> QED
    BY <1>4, <2>1, FinishedMemory
<1>7. CASE CutShort(<<e1, e2>>)
  <2>1. PICK i \in 1..(Len(<<e1, e2>>) - 1) :
          /\ journal' = journal \o SubSeq(<<e1, e2>>, 1, i)
          /\ durable' = Replay(durable, SubSeq(<<e1, e2>>, 1, i), n)
    BY <1>7 DEF CutShort
  <2>2. kernel' = Restored(durable')
    BY <1>7 DEF CutShort
  <2>3. i = 1
    OBVIOUS
  <2>4. CASE i = 1
    <3>1. SubSeq(<<e1, e2>>, 1, i) = <<e1>>
      <4> DEFINE es == <<e1, e2>>
      <4>1. es \in Seq(Entries) /\ Len(es) >= 1 /\ es[1] = e1
        OBVIOUS
      <4> HIDE DEF es
      <4>2. SubSeq(es, 1, 1) = <<es[1]>>
        BY <4>1, Prefixes
      <4>3. SubSeq(es, 1, 1) = <<e1>>
        BY <4>1, <4>2
      <4> QED
        BY <2>4, <4>3 DEF es
    <3>2. journal' = J1 /\ durable' = d1
      BY <1>5, <2>1, <3>1
    <3>3. d1 \in Kernels
      BY <1>3, FollowsParts DEF Reached
    <3>4. kernel' = Flush(d1)
      BY <2>2, <3>2, <3>3, RestoredIs
    <3> QED
      BY <1>3, <3>2, <3>4, FinishedFiles
  <2> QED
    BY <2>3, <2>4
<1> QED
  BY <1>6, <1>7 DEF Performs

LEMMA PerformsThree ==
  ASSUME IInv, NEW dispatching \in BOOLEAN, NEW x,
         NEW e1 \in Entries, e1.event = "action.dispatch_recorded" => dispatching,
         Admissible(kernel, journal, e1),
         NEW k1, k1 = Reduce(kernel, e1, Len(journal) + 1), NEW J1, J1 = Append(journal, e1),
         NEW e2 \in Entries, e2.event = "action.dispatch_recorded" => dispatching,
         Admissible(Flush(k1), J1, e2),
         NEW k2, k2 = Reduce(k1, e2, Len(journal) + 2), NEW J2, J2 = Append(J1, e2),
         NEW e3 \in Entries, e3.event = "action.dispatch_recorded" => dispatching,
         Admissible(Flush(k2), J2, e3),
         NEW k3, k3 = Reduce(k2, e3, Len(journal) + 3), NEW J3, J3 = Append(J2, e3),
         Performs(Flush(k3), <<e1, e2, e3>>, x)
  PROVE  Good(dispatching)
<1> DEFINE n == Len(journal)
           d1 == Reduce(durable, e1, n + 1)
           d2 == Reduce(d1, e2, n + 2)
           d3 == Reduce(d2, e3, n + 3)
<1>1. /\ Reached(kernel, durable, journal, dispatching) /\ Flush(kernel) = kernel
      /\ journal \in Seq(Entries) /\ n \in Nat
  BY ReachedStart DEF Reached
<1>2. /\ J1 \in Seq(Entries) /\ Len(J1) = n + 1
      /\ J2 \in Seq(Entries) /\ Len(J2) = n + 2
      /\ J3 \in Seq(Entries) /\ Len(J3) = n + 3
  BY <1>1
<1>3. Reached(k1, d1, J1, dispatching)
  BY <1>1, ReachedStep
<1>4. Reached(k2, d2, J2, dispatching)
  <2>1. k2 = Reduce(k1, e2, Len(J1) + 1) /\ d2 = Reduce(d1, e2, Len(J1) + 1)
    BY <1>1, <1>2
  <2> HIDE DEF d1, d2
  <2> QED
    BY <1>3, <2>1, ReachedStep
<1>5. Reached(k3, d3, J3, dispatching)
  <2>1. k3 = Reduce(k2, e3, Len(J2) + 1) /\ d3 = Reduce(d2, e3, Len(J2) + 1)
    BY <1>1, <1>2
  <2> HIDE DEF d2, d3
  <2> QED
    BY <1>4, <2>1, ReachedStep
<1>6. /\ journal \o <<e1>> = J1 /\ Replay(durable, <<e1>>, n) = d1
      /\ journal \o <<e1, e2>> = J2 /\ Replay(durable, <<e1, e2>>, n) = d2
      /\ journal \o <<e1, e2, e3>> = J3 /\ Replay(durable, <<e1, e2, e3>>, n) = d3
  <2>1. journal \o <<e1>> = J1
    BY <1>1, Appended
  <2>2. Replay(durable, <<e1>>, n) = d1
    BY <1>1, ReplayOne
  <2>3. journal \o <<e1, e2>> = J2
    BY <1>1, Appended
  <2>4. Replay(durable, <<e1, e2>>, n) = d2
    BY <1>1, ReplayTwo
  <2>5. journal \o <<e1, e2, e3>> = J3
    BY <1>1, Appended
  <2>6. Replay(durable, <<e1, e2, e3>>, n) = d3
    BY <1>1, ReplayThree
  <2> QED
    BY <2>1, <2>2, <2>3, <2>4, <2>5, <2>6
<1> HIDE DEF d1, d2, d3
<1>7. CASE Completes(Flush(k3), <<e1, e2, e3>>, x)
  <2>1. kernel' = Flush(k3) /\ journal' = J3 /\ durable' = d3
    BY <1>6, <1>7 DEF Completes
  <2> QED
    BY <1>5, <2>1, FinishedMemory
<1>8. CASE CutShort(<<e1, e2, e3>>)
  <2>1. PICK i \in 1..(Len(<<e1, e2, e3>>) - 1) :
          /\ journal' = journal \o SubSeq(<<e1, e2, e3>>, 1, i)
          /\ durable' = Replay(durable, SubSeq(<<e1, e2, e3>>, 1, i), n)
    BY <1>8 DEF CutShort
  <2>2. kernel' = Restored(durable')
    BY <1>8 DEF CutShort
  <2>3. i = 1 \/ i = 2
    OBVIOUS
  <2>4. CASE i = 1
    <3>1. SubSeq(<<e1, e2, e3>>, 1, i) = <<e1>>
      <4> DEFINE es == <<e1, e2, e3>>
      <4>1. es \in Seq(Entries) /\ Len(es) >= 1 /\ es[1] = e1
        OBVIOUS
      <4> HIDE DEF es
      <4>2. SubSeq(es, 1, 1) = <<es[1]>>
        BY <4>1, Prefixes
      <4>3. SubSeq(es, 1, 1) = <<e1>>
        BY <4>1, <4>2
      <4> QED
        BY <2>4, <4>3 DEF es
    <3>2. journal' = J1 /\ durable' = d1
      BY <1>6, <2>1, <3>1
    <3>3. d1 \in Kernels
      BY <1>3, FollowsParts DEF Reached
    <3>4. kernel' = Flush(d1)
      BY <2>2, <3>2, <3>3, RestoredIs
    <3> QED
      BY <1>3, <3>2, <3>4, FinishedFiles
  <2>5. CASE i = 2
    <3>1. SubSeq(<<e1, e2, e3>>, 1, i) = <<e1, e2>>
      <4> DEFINE es == <<e1, e2, e3>>
      <4>1. es \in Seq(Entries) /\ Len(es) >= 2 /\ es[1] = e1 /\ es[2] = e2
        OBVIOUS
      <4> HIDE DEF es
      <4>2. SubSeq(es, 1, 2) = <<es[1], es[2]>>
        BY <4>1, Prefixes
      <4>3. SubSeq(es, 1, 2) = <<e1, e2>>
        BY <4>1, <4>2
      <4> QED
        BY <2>5, <4>3 DEF es
    <3>2. journal' = J2 /\ durable' = d2
      BY <1>6, <2>1, <3>1
    <3>3. d2 \in Kernels
      BY <1>4, FollowsParts DEF Reached
    <3>4. kernel' = Flush(d2)
      BY <2>2, <3>2, <3>3, RestoredIs
    <3> QED
      BY <1>4, <3>2, <3>4, FinishedFiles
  <2> QED
    BY <2>3, <2>4, <2>5
<1> QED
  BY <1>7, <1>8 DEF Performs

LEMMA PerformsFour ==
  ASSUME IInv, NEW dispatching \in BOOLEAN, NEW x,
         NEW e1 \in Entries, e1.event = "action.dispatch_recorded" => dispatching,
         Admissible(kernel, journal, e1),
         NEW k1, k1 = Reduce(kernel, e1, Len(journal) + 1), NEW J1, J1 = Append(journal, e1),
         NEW e2 \in Entries, e2.event = "action.dispatch_recorded" => dispatching,
         Admissible(Flush(k1), J1, e2),
         NEW k2, k2 = Reduce(k1, e2, Len(journal) + 2), NEW J2, J2 = Append(J1, e2),
         NEW e3 \in Entries, e3.event = "action.dispatch_recorded" => dispatching,
         Admissible(Flush(k2), J2, e3),
         NEW k3, k3 = Reduce(k2, e3, Len(journal) + 3), NEW J3, J3 = Append(J2, e3),
         NEW e4 \in Entries, e4.event = "action.dispatch_recorded" => dispatching,
         Admissible(Flush(k3), J3, e4),
         NEW k4, k4 = Reduce(k3, e4, Len(journal) + 4), NEW J4, J4 = Append(J3, e4),
         Performs(Flush(k4), <<e1, e2, e3, e4>>, x)
  PROVE  Good(dispatching)
<1> DEFINE n == Len(journal)
           d1 == Reduce(durable, e1, n + 1)
           d2 == Reduce(d1, e2, n + 2)
           d3 == Reduce(d2, e3, n + 3)
           d4 == Reduce(d3, e4, n + 4)
<1>1. /\ Reached(kernel, durable, journal, dispatching) /\ Flush(kernel) = kernel
      /\ journal \in Seq(Entries) /\ n \in Nat
  BY ReachedStart DEF Reached
<1>2. /\ J1 \in Seq(Entries) /\ Len(J1) = n + 1
      /\ J2 \in Seq(Entries) /\ Len(J2) = n + 2
      /\ J3 \in Seq(Entries) /\ Len(J3) = n + 3
      /\ J4 \in Seq(Entries) /\ Len(J4) = n + 4
  BY <1>1
<1>3. Reached(k1, d1, J1, dispatching)
  BY <1>1, ReachedStep
<1>4. Reached(k2, d2, J2, dispatching)
  <2>1. k2 = Reduce(k1, e2, Len(J1) + 1) /\ d2 = Reduce(d1, e2, Len(J1) + 1)
    BY <1>1, <1>2
  <2> HIDE DEF d1, d2
  <2> QED
    BY <1>3, <2>1, ReachedStep
<1>5. Reached(k3, d3, J3, dispatching)
  <2>1. k3 = Reduce(k2, e3, Len(J2) + 1) /\ d3 = Reduce(d2, e3, Len(J2) + 1)
    BY <1>1, <1>2
  <2> HIDE DEF d2, d3
  <2> QED
    BY <1>4, <2>1, ReachedStep
<1>6. Reached(k4, d4, J4, dispatching)
  <2>1. k4 = Reduce(k3, e4, Len(J3) + 1) /\ d4 = Reduce(d3, e4, Len(J3) + 1)
    BY <1>1, <1>2
  <2> HIDE DEF d3, d4
  <2> QED
    BY <1>5, <2>1, ReachedStep
<1>7. /\ journal \o <<e1>> = J1 /\ Replay(durable, <<e1>>, n) = d1
      /\ journal \o <<e1, e2>> = J2 /\ Replay(durable, <<e1, e2>>, n) = d2
      /\ journal \o <<e1, e2, e3>> = J3 /\ Replay(durable, <<e1, e2, e3>>, n) = d3
      /\ journal \o <<e1, e2, e3, e4>> = J4 /\ Replay(durable, <<e1, e2, e3, e4>>, n) = d4
  <2>1. journal \o <<e1>> = J1
    BY <1>1, Appended
  <2>2. Replay(durable, <<e1>>, n) = d1
    BY <1>1, ReplayOne
  <2>3. journal \o <<e1, e2>> = J2
    BY <1>1, Appended
  <2>4. Replay(durable, <<e1, e2>>, n) = d2
    BY <1>1, ReplayTwo
  <2>5. journal \o <<e1, e2, e3>> = J3
    BY <1>1, Appended
  <2>6. Replay(durable, <<e1, e2, e3>>, n) = d3
    BY <1>1, ReplayThree
  <2>7. journal \o <<e1, e2, e3, e4>> = J4
    BY <1>1, Appended
  <2>8. Replay(durable, <<e1, e2, e3, e4>>, n) = d4
    <3> DEFINE es == <<e1, e2, e3, e4>>
    <3>1. es \in Seq(Entries) /\ Len(es) = 4 /\ es[1] = e1 /\ es[2] = e2 /\ es[3] = e3 /\ es[4] = e4
      OBVIOUS
    <3> HIDE DEF es
    <3>2. Replay(durable, es, n) = Reduce(Reduce(Reduce(Reduce(
            durable, es[1], n + 1), es[2], n + 2), es[3], n + 3), es[4], n + 4)
      BY <1>1, <3>1, ReplayFour
    <3> QED
      BY <3>1, <3>2 DEF es
  <2> QED
    BY <2>1, <2>2, <2>3, <2>4, <2>5, <2>6, <2>7, <2>8
<1> HIDE DEF d1, d2, d3, d4
<1>8. CASE Completes(Flush(k4), <<e1, e2, e3, e4>>, x)
  <2>1. kernel' = Flush(k4) /\ journal' = J4 /\ durable' = d4
    BY <1>7, <1>8 DEF Completes
  <2> QED
    BY <1>6, <2>1, FinishedMemory
<1>9. CASE CutShort(<<e1, e2, e3, e4>>)
  <2>1. PICK i \in 1..(Len(<<e1, e2, e3, e4>>) - 1) :
          /\ journal' = journal \o SubSeq(<<e1, e2, e3, e4>>, 1, i)
          /\ durable' = Replay(durable, SubSeq(<<e1, e2, e3, e4>>, 1, i), n)
    BY <1>9 DEF CutShort
  <2>2. kernel' = Restored(durable')
    BY <1>9 DEF CutShort
  <2>3. i = 1 \/ i = 2 \/ i = 3
    OBVIOUS
  <2>4. CASE i = 1
    <3>1. SubSeq(<<e1, e2, e3, e4>>, 1, i) = <<e1>>
      <4> DEFINE es == <<e1, e2, e3, e4>>
      <4>1. es \in Seq(Entries) /\ Len(es) >= 1 /\ es[1] = e1
        OBVIOUS
      <4> HIDE DEF es
      <4>2. SubSeq(es, 1, 1) = <<es[1]>>
        BY <4>1, Prefixes
      <4>3. SubSeq(es, 1, 1) = <<e1>>
        BY <4>1, <4>2
      <4> QED
        BY <2>4, <4>3 DEF es
    <3>2. journal' = J1 /\ durable' = d1
      BY <1>7, <2>1, <3>1
    <3>3. d1 \in Kernels
      BY <1>3, FollowsParts DEF Reached
    <3>4. kernel' = Flush(d1)
      BY <2>2, <3>2, <3>3, RestoredIs
    <3> QED
      BY <1>3, <3>2, <3>4, FinishedFiles
  <2>5. CASE i = 2
    <3>1. SubSeq(<<e1, e2, e3, e4>>, 1, i) = <<e1, e2>>
      <4> DEFINE es == <<e1, e2, e3, e4>>
      <4>1. es \in Seq(Entries) /\ Len(es) >= 2 /\ es[1] = e1 /\ es[2] = e2
        OBVIOUS
      <4> HIDE DEF es
      <4>2. SubSeq(es, 1, 2) = <<es[1], es[2]>>
        BY <4>1, Prefixes
      <4>3. SubSeq(es, 1, 2) = <<e1, e2>>
        BY <4>1, <4>2
      <4> QED
        BY <2>5, <4>3 DEF es
    <3>2. journal' = J2 /\ durable' = d2
      BY <1>7, <2>1, <3>1
    <3>3. d2 \in Kernels
      BY <1>4, FollowsParts DEF Reached
    <3>4. kernel' = Flush(d2)
      BY <2>2, <3>2, <3>3, RestoredIs
    <3> QED
      BY <1>4, <3>2, <3>4, FinishedFiles
  <2>6. CASE i = 3
    <3>1. SubSeq(<<e1, e2, e3, e4>>, 1, i) = <<e1, e2, e3>>
      <4> DEFINE es == <<e1, e2, e3, e4>>
      <4>1. es \in Seq(Entries) /\ Len(es) >= 3 /\ es[1] = e1 /\ es[2] = e2 /\ es[3] = e3
        OBVIOUS
      <4> HIDE DEF es
      <4>2. SubSeq(es, 1, 3) = <<es[1], es[2], es[3]>>
        BY <4>1, Prefixes
      <4>3. SubSeq(es, 1, 3) = <<e1, e2, e3>>
        BY <4>1, <4>2
      <4> QED
        BY <2>6, <4>3 DEF es
    <3>2. journal' = J3 /\ durable' = d3
      BY <1>7, <2>1, <3>1
    <3>3. d3 \in Kernels
      BY <1>5, FollowsParts DEF Reached
    <3>4. kernel' = Flush(d3)
      BY <2>2, <3>2, <3>3, RestoredIs
    <3> QED
      BY <1>5, <3>2, <3>4, FinishedFiles
  <2> QED
    BY <2>3, <2>4, <2>5, <2>6
<1> QED
  BY <1>8, <1>9 DEF Performs

-----------------------------------------------------------------------------
(* The operations of one entry.                                               *)

LEMMA InvFacts ==
  ASSUME IInv
  PROVE  /\ kernel \in Kernels /\ kernel.pending = 0 /\ Flush(kernel) = kernel
         /\ Settled(kernel, journal) /\ Dated(kernel, Len(journal))
         /\ BoundBefore(kernel, Len(journal)) /\ Recorded(kernel, journal)
         /\ kernel.content \in [Objects -> Nat] /\ kernel.revision \in [Objects -> Revisions]
         /\ kernel.regime \in [Kinds -> Regimes] /\ kernel.auth \in [Auths -> Authorizations]
         /\ kernel.tx \in [Auths -> States]
         /\ journal \in Seq(Entries) /\ Len(journal) \in Nat /\ Sequence(1) = Len(journal) + 1
<1>1. kernel \in Kernels /\ kernel.pending = 0 /\ journal \in Seq(Entries)
      /\ Follows(kernel, durable, journal)
  BY DEF IInv, TypeOK
<1>2. Flush(kernel) = kernel
  BY <1>1 DEF Flush
<1>3. Settled(kernel, journal)
  BY <1>1, <1>2, FollowsParts
<1>4. Dated(kernel, Len(journal)) /\ BoundBefore(kernel, Len(journal))
      /\ Recorded(kernel, journal)
  BY <1>3 DEF Settled
<1> QED
  BY <1>1, <1>2, <1>3, <1>4, KernelFields DEF Sequence

LEMMA LiveOne ==
  ASSUME IInv, NEW dispatching \in BOOLEAN, NEW x,
         NEW e \in Entries, e.event = "action.dispatch_recorded" => dispatching,
         e.event \notin Passive, e.event # "canonical.committed",
         Admissible(kernel, journal, e),
         NEW k, k = ReduceFlushed(kernel, e, Len(journal) + 1), Performs(k, <<e>>, x)
  PROVE  Good(dispatching)
<1> DEFINE r == Reduce(kernel, e, Len(journal) + 1)
           J1 == Append(journal, e)
<1>1. kernel \in Kernels /\ Flush(kernel) = kernel /\ Settled(kernel, journal)
      /\ journal \in Seq(Entries)
  BY InvFacts
<1>2. r = k
  BY <1>1, ReduceCases
<1>3. Flush(k) = k
  BY <1>1, Becoming
<1> HIDE DEF r
<1>4. Performs(Flush(r), <<e>>, x)
  BY <1>2, <1>3
<1>5. r = Reduce(kernel, e, Len(journal) + 1)
  BY DEF r
<1>6. J1 = Append(journal, e)
  OBVIOUS
<1> HIDE DEF J1
<1> QED
  BY <1>4, <1>5, <1>6, PerformsOne

LEMMA GoodReviseMission ==
  ASSUME IInv, ReviseMission
  PROVE  Good(FALSE)
<1> DEFINE v == kernel.content[Mission] + 1
           e == [event |-> "mission.revised", version |-> v]
           k == Define(kernel, Mission, v, Sequence(1))
<1>1. v \in Nat
  BY InvFacts, BasisObjects
<1>2. Performs(k, <<e>>, executing)
  BY DEF ReviseMission
<1>3. e \in Entries
  BY <1>1 DEF Entries
<1>4. e.event = "mission.revised" /\ e.version = v
  OBVIOUS
<1> HIDE DEF e
<1>5. ReduceFlushed(kernel, e, Len(journal) + 1) = k
  BY <1>4, InvFacts DEF ReduceFlushed, ReplayRevised
<1>6. Admissible(kernel, journal, e) /\ e.event \notin Passive
  BY <1>4 DEF Admissible, Passive
<1> HIDE DEF k
<1> QED
  BY <1>2, <1>3, <1>4, <1>5, <1>6, LiveOne

LEMMA GoodDefineObject ==
  ASSUME IInv, NEW o \in Registered, NEW c \in Contents, DefineObject(o, c)
  PROVE  Good(FALSE)
<1> DEFINE e == [event |-> "defined", object |-> o, content |-> c]
           k == Define(kernel, o, c, Sequence(1))
<1>1. Performs(k, <<e>>, executing)
  BY DEF DefineObject
<1>2. e \in Entries
  BY DEF Entries
<1>3. e.event = "defined" /\ e.object = o /\ e.content = c
  OBVIOUS
<1> HIDE DEF e
<1>4. ReduceFlushed(kernel, e, Len(journal) + 1) = k
  BY <1>3, InvFacts DEF ReduceFlushed, ReplayDefined
<1>5. Admissible(kernel, journal, e) /\ e.event \notin Passive
  BY <1>3 DEF Admissible, Passive
<1> HIDE DEF k
<1> QED
  BY <1>1, <1>2, <1>3, <1>4, <1>5, LiveOne

LEMMA GoodReviseSemanticRegime ==
  ASSUME IInv, NEW d \in Kinds, ReviseSemanticRegime(d)
  PROVE  Good(FALSE)
<1> DEFINE e == [event |-> "semantic.regime_revised", kind |-> d, revision |-> Sequence(1),
                 parent |-> kernel.regime[d]]
           k == [kernel EXCEPT !.regime[d] = Sequence(1)]
<1>1. Performs(k, <<e>>, executing)
  BY DEF ReviseSemanticRegime
<1>2. e \in Entries
  BY InvFacts DEF Entries
<1>3. /\ e.event = "semantic.regime_revised" /\ e.kind = d /\ e.revision = Sequence(1)
      /\ e.parent = kernel.regime[d]
  OBVIOUS
<1> HIDE DEF e
<1>4. ReduceFlushed(kernel, e, Len(journal) + 1) = k
  BY <1>3 DEF ReduceFlushed, ReplayRegime
<1>5. Admissible(kernel, journal, e) /\ e.event \notin Passive
  BY <1>3, InvFacts DEF Admissible, Passive
<1> HIDE DEF k
<1> QED
  BY <1>1, <1>2, <1>3, <1>4, <1>5, LiveOne

LEMMA GoodApplySemanticMigration ==
  ASSUME IInv, NEW m \in Manifests, NEW bridge \in BOOLEAN, ApplySemanticMigration(m, bridge)
  PROVE  Good(FALSE)
<1> DEFINE withdrawn == {u \in Auths : kernel.tx[u] # "none"}
           e == [event |-> "migration.schema_root_switched", manifest |-> m,
                 source |-> kernel.regime[Schema], withdrawn |-> withdrawn, bridge |-> bridge]
           k == [kernel EXCEPT !.regime[Schema] = m, !.applied = @ \cup {m},
                               !.recheck = @ \cup withdrawn]
<1>1. Performs(k, <<e>>, executing) /\ m \notin kernel.applied
  BY DEF ApplySemanticMigration
<1>2. e \in Entries
  BY InvFacts, LineageAssumption DEF Entries
<1>3. /\ e.event = "migration.schema_root_switched" /\ e.manifest = m
      /\ e.source = kernel.regime[Schema] /\ e.withdrawn = withdrawn
  OBVIOUS
<1> HIDE DEF e, withdrawn
<1>4. ReduceFlushed(kernel, e, Len(journal) + 1) = k
  BY <1>3 DEF ReduceFlushed, ReplayMigrated
<1>5. Admissible(kernel, journal, e) /\ e.event \notin Passive
  BY <1>1, <1>3 DEF Admissible, Passive
<1> HIDE DEF k
<1> QED
  BY <1>1, <1>2, <1>3, <1>4, <1>5, LiveOne

LEMMA GoodReportModelClassAnomaly ==
  ASSUME IInv, ReportModelClassAnomaly
  PROVE  Good(FALSE)
<1> DEFINE e == [event |-> "recovery.model_class_uncertain"]
           k == Reduce(kernel, e, Len(journal) + 1)
           J1 == Append(journal, e)
<1>1. Performs(kernel, <<e>>, executing)
  BY DEF ReportModelClassAnomaly
<1>2. e \in Entries
  BY DEF Entries
<1>3. e.event = "recovery.model_class_uncertain"
  OBVIOUS
<1> HIDE DEF e
<1>4. k = kernel
  BY <1>2, <1>3, InvFacts, ReduceCases DEF Passive
<1>5. Admissible(kernel, journal, e)
  BY <1>3 DEF Admissible
<1>6. k = Reduce(kernel, e, Len(journal) + 1) /\ J1 = Append(journal, e)
  OBVIOUS
<1> HIDE DEF k, J1
<1>7. Performs(Flush(k), <<e>>, executing)
  BY <1>1, <1>4, InvFacts
<1> QED
  BY <1>2, <1>3, <1>5, <1>6, <1>7, PerformsOne

\* What an authorization brings up to date is up to date.
LEMMA UpToDate ==
  ASSUME IInv, NEW os \in SUBSET Objects, NEW n \in Nat
  PROVE  Register(kernel, os, n) = kernel
<1>1. Registration(kernel, os, n) = kernel.revision
  BY InvFacts DEF Registration, Dated
<1>2. Register(kernel, os, n) = [kernel EXCEPT !.revision = kernel.revision]
  BY <1>1, InvFacts, Registering
<1>3. [kernel EXCEPT !.revision = kernel.revision] = kernel
  BY InvFacts DEF Kernels
<1> QED
  BY <1>2, <1>3

LEMMA Authorizing ==
  ASSUME IInv, NEW u \in Auths, NEW a \in Actions, NEW G \in SUBSET Grants, MayAuthorize(u, a, G),
         NEW e, e = AuthorizedEntry(u, a, Usable(G))
  PROVE  /\ e \in Entries /\ e.event = "action.authorized" /\ e.auth = u
         /\ Admissible(kernel, journal, e) /\ e.event \notin Passive
         /\ ReduceFlushed(kernel, e, Len(journal) + 1) = AfterAuthorize(u, a, Usable(G))
<1> DEFINE g == Usable(G)
<1>1. g \in SUBSET Grants
  BY DEF Usable
<1>2. kernel.content[Mission] \in Nat /\ kernel.content[Canonical] \in Nat
  BY InvFacts, BasisObjects
<1> HIDE DEF g
<1>3. e = AuthorizedEntry(u, a, g)
  BY DEF g
<1>4. e \in Entries /\ e.event = "action.authorized" /\ e.auth = u
  BY <1>1, <1>2, <1>3 DEF AuthorizedEntry, Entries
<1>5. kernel.tx[u] = "none"
  BY DEF MayAuthorize
<1>6. Basis(a, g) \in SUBSET Objects /\ Sequence(1) \in Nat
  BY <1>1, BasisObjects, InvFacts
<1>7. Register(kernel, Basis(a, g), Sequence(1)) = kernel
  BY <1>6, UpToDate
<1>8. AfterAuthorize(u, a, g) =
        [kernel EXCEPT !.auth[u] = Issued(kernel, e), !.tx[u] = "authorized"]
  BY <1>3, <1>7 DEF AfterAuthorize
<1>9. ReduceFlushed(kernel, e, Len(journal) + 1) = AfterAuthorize(u, a, g)
  BY <1>4, <1>5, <1>8 DEF ReduceFlushed, ReplayAuthorized
<1>10. Admissible(kernel, journal, e) /\ e.event \notin Passive
  BY <1>4, <1>5 DEF Admissible, Passive
<1> QED
  BY <1>4, <1>9, <1>10 DEF g

LEMMA GoodAuthorize ==
  ASSUME IInv, NEW u \in Auths, NEW a \in Actions, NEW G \in SUBSET Grants, Authorize(u, a, G)
  PROVE  Good(FALSE)
<1> DEFINE e == AuthorizedEntry(u, a, Usable(G))
           k == AfterAuthorize(u, a, Usable(G))
<1>1. MayAuthorize(u, a, G) /\ Performs(k, <<e>>, executing)
  BY DEF Authorize
<1> HIDE DEF k
<1>2. e = AuthorizedEntry(u, a, Usable(G))
  OBVIOUS
<1> HIDE DEF e
<1>3. /\ e \in Entries /\ e.event = "action.authorized"
      /\ Admissible(kernel, journal, e) /\ e.event \notin Passive
      /\ ReduceFlushed(kernel, e, Len(journal) + 1) = k
  BY <1>1, <1>2, Authorizing DEF k
<1> QED
  BY <1>1, <1>3, LiveOne

LEMMA GoodAuthorizeProofCarrying ==
  ASSUME IInv, NEW u \in Auths, NEW a \in Actions, NEW G \in SUBSET Grants,
         AuthorizeProofCarrying(u, a, G)
  PROVE  Good(FALSE)
<1> DEFINE e1 == AuthorizedEntry(u, a, Usable(G))
           e2 == [event |-> "proof.authorization_bound", auth |-> u]
           after == AfterAuthorize(u, a, Usable(G))
           k == [after EXCEPT !.auth[u].proof = ProofBinding(kernel)]
           k1 == Reduce(kernel, e1, Len(journal) + 1)
           k2 == Reduce(k1, e2, Len(journal) + 2)
           J1 == Append(journal, e1)
           J2 == Append(J1, e2)
<1>1. MayAuthorize(u, a, G) /\ Performs(k, <<e1, e2>>, executing)
  BY DEF AuthorizeProofCarrying
<1>2. e1 = AuthorizedEntry(u, a, Usable(G)) /\ k1 = Reduce(kernel, e1, Len(journal) + 1)
      /\ J1 = Append(journal, e1) /\ k2 = Reduce(k1, e2, Len(journal) + 2)
      /\ J2 = Append(J1, e2) /\ k = [after EXCEPT !.auth[u].proof = ProofBinding(kernel)]
  OBVIOUS
<1>3. e2 \in Entries
  BY DEF Entries
<1>4. e2.event = "proof.authorization_bound" /\ e2.auth = u
  OBVIOUS
<1>5. after = AfterAuthorize(u, a, Usable(G))
  OBVIOUS
<1> HIDE DEF e1, e2, k, k1, k2, J1, J2, after
<1>6. /\ e1 \in Entries /\ e1.event = "action.authorized" /\ e1.auth = u
      /\ Admissible(kernel, journal, e1) /\ e1.event \notin Passive
      /\ ReduceFlushed(kernel, e1, Len(journal) + 1) = after
  BY <1>1, <1>2, <1>5, Authorizing
<1>7. k1 = after
  BY <1>2, <1>6, InvFacts, ReduceCases
<1>8. Becomes(kernel, k1, e1, Len(journal) + 1) /\ Flush(k1) = k1
  BY <1>6, <1>7, InvFacts, Becoming
<1>9. /\ k1 \in Kernels /\ k1.revision = kernel.revision
      /\ k1.auth[u] = Issued(kernel, e1) /\ k1.tx[u] = "authorized"
  BY <1>6, <1>8, InvFacts, IssuedFields DEF Becomes
<1>10. Bound(k1, u) /\ ~ ProofBound(k1, u)
  BY <1>6, <1>9, InvFacts, IssuedType DEF Bound, ProofBound
<1>11. J1 \in Seq(Entries) /\ Len(J1) > 0 /\ J1[Len(J1)] = e1
  BY <1>2, <1>6, InvFacts
<1>12. Admissible(Flush(k1), J1, e2)
  BY <1>4, <1>6, <1>8, <1>9, <1>10, <1>11 DEF Admissible, EnteredAt
<1>13. ProofBinding(k1) = ProofBinding(kernel)
  BY <1>9 DEF ProofBinding
<1>14. k2 = k
  <2>1. e2.event \notin Passive
    BY <1>4 DEF Passive
  <2>2. k2 = ReduceFlushed(Flush(k1), e2, Len(journal) + 2)
    BY <1>2, <1>3, <1>9, <2>1, ReduceCases
  <2>3. ReduceFlushed(k1, e2, Len(journal) + 2) = ReplayProofBound(k1, e2)
    BY <1>4 DEF ReduceFlushed
  <2>4. ReplayProofBound(k1, e2) = [k1 EXCEPT !.auth[u].proof = ProofBinding(k1)]
    BY <1>4 DEF ReplayProofBound
  <2> QED
    BY <1>2, <1>7, <1>8, <1>13, <2>2, <2>3, <2>4
<1>15. Flush(k2) = k
  <2>1. Settled(k1, J1)
    BY <1>2, <1>6, <1>8, InvFacts, SettledIssued
  <2>2. ReduceFlushed(k1, e2, Len(J1) + 1) = k2
    <3>1. Len(J1) + 1 = Len(journal) + 2
      BY <1>2, <1>6, InvFacts
    <3> QED
      BY <1>2, <1>3, <1>4, <1>8, <1>9, <3>1, ReduceCases DEF Passive
  <2> QED
    BY <1>3, <1>4, <1>8, <1>11, <1>12, <1>14, <2>1, <2>2, Becoming DEF Passive
<1>16. Performs(Flush(k2), <<e1, e2>>, executing)
  BY <1>1, <1>15
<1> QED
  BY <1>2, <1>3, <1>4, <1>6, <1>12, <1>16, PerformsTwo

-----------------------------------------------------------------------------
(* Dispatch, cancellation and what the adapter or the evidence says, when     *)
(* nothing is committed.                                                      *)

LEMMA GoodDispatch ==
  ASSUME IInv, NEW u \in Auths, Dispatch(u)
  PROVE  Good(TRUE)
<1> DEFINE e == [event |-> "action.dispatch_recorded", auth |-> u]
           k == [kernel EXCEPT !.tx[u] = "dispatch_recorded"]
<1>1. /\ Performs(k, <<e>>, u)
      /\ kernel.tx[u] \in {"authorized", "reconciled_not_applied"}
  BY DEF Dispatch, Dispatchable
<1>2. e \in Entries
  BY DEF Entries
<1>3. e.event = "action.dispatch_recorded" /\ e.auth = u
  OBVIOUS
<1> HIDE DEF e
<1>4. ReduceFlushed(kernel, e, Len(journal) + 1) = k
  BY <1>1, <1>3 DEF ReduceFlushed, Move
<1>5. Admissible(kernel, journal, e) /\ e.event \notin Passive
  BY <1>3 DEF Admissible, Passive
<1> HIDE DEF k
<1> QED
  BY <1>1, <1>2, <1>3, <1>4, <1>5, LiveOne

LEMMA GoodCancel ==
  ASSUME IInv, NEW u \in Auths, CancelAuthorizedAction(u)
  PROVE  Good(FALSE)
<1>1. PICK move \in Cancellations :
        /\ kernel.tx[u] = move[1]
        /\ Performs([kernel EXCEPT !.tx[u] = move[2]],
                    <<[event |-> "action.cancellation_recorded", auth |-> u,
                       source |-> move[1], result |-> move[2]]>>, executing)
  BY DEF CancelAuthorizedAction
<1> DEFINE e == [event |-> "action.cancellation_recorded", auth |-> u,
                 source |-> move[1], result |-> move[2]]
           k == [kernel EXCEPT !.tx[u] = move[2]]
<1>2. /\ move[1] \in {"authorized", "dispatch_recorded"} \cap States
      /\ move[2] \in {"cancelled_pre_dispatch", "cancellation_pending"} \cap States
  BY DEF Cancellations, States
<1>3. e \in Entries
  BY <1>2 DEF Entries
<1>4. /\ e.event = "action.cancellation_recorded" /\ e.auth = u
      /\ e.source = move[1] /\ e.result = move[2]
  OBVIOUS
<1>5. Performs(k, <<e>>, executing)
  BY <1>1
<1> HIDE DEF e
<1>6. ReduceFlushed(kernel, e, Len(journal) + 1) = k
  BY <1>1, <1>4 DEF ReduceFlushed, MoveOrRaise
<1>7. Admissible(kernel, journal, e) /\ e.event \notin Passive
  BY <1>1, <1>2, <1>4 DEF Admissible, Passive
<1> HIDE DEF k
<1> QED
  BY <1>3, <1>4, <1>5, <1>6, <1>7, LiveOne

LEMMA GoodReturnUnknown ==
  ASSUME IInv, ReturnUnknown
  PROVE  Good(FALSE)
<1>1. executing \in Auths
  BY DEF IInv, TypeOK, ReturnUnknown
<1>2. CASE kernel.tx[executing] = "dispatch_recorded"
  <2> DEFINE e == [event |-> "action.reconciliation_required", auth |-> executing]
             k == [kernel EXCEPT !.tx[executing] = "reconciliation_required"]
  <2>1. Performs(k, <<e>>, NoAuth)
    BY <1>2 DEF ReturnUnknown
  <2>2. e \in Entries
    BY <1>1 DEF Entries
  <2>3. e.event = "action.reconciliation_required" /\ e.auth = executing
    OBVIOUS
  <2> HIDE DEF e
  <2>4. ReduceFlushed(kernel, e, Len(journal) + 1) = k
    BY <1>2, <2>3 DEF ReduceFlushed, Move
  <2>5. Admissible(kernel, journal, e) /\ e.event \notin Passive
    BY <2>3 DEF Admissible, Passive
  <2> HIDE DEF k
  <2> QED
    BY <2>1, <2>2, <2>3, <2>4, <2>5, LiveOne
<1>3. CASE kernel.tx[executing] # "dispatch_recorded"
  <2>1. kernel' = kernel /\ journal' = journal \o <<>>
        /\ durable' = Replay(durable, <<>>, Len(journal))
    BY <1>3 DEF ReturnUnknown, Completes
  <2>2. kernel' = Flush(kernel) /\ journal' = journal /\ durable' = durable
    BY <2>1, InvFacts, ReplayNone
  <2>3. Reached(kernel, durable, journal, FALSE)
    BY ReachedStart
  <2> QED
    BY <2>2, <2>3, FinishedMemory
<1> QED
  BY <1>2, <1>3

\* The outcome is not verified.
LEMMA GoodObserved ==
  ASSUME IInv, ReturnKnown(FALSE)
  PROVE  Good(FALSE)
<1> DEFINE e == [event |-> "action.outcome_observed", auth |-> executing]
           k == [kernel EXCEPT !.tx[executing] = "outcome_observed"]
<1>1. executing \in Auths /\ kernel.tx[executing] = "dispatch_recorded"
  BY DEF IInv, TypeOK, ReturnKnown
<1>2. Performs(k, <<e>>, NoAuth)
  BY DEF ReturnKnown
<1>3. e \in Entries
  BY <1>1 DEF Entries
<1>4. e.event = "action.outcome_observed" /\ e.auth = executing
  OBVIOUS
<1> HIDE DEF e
<1>5. ReduceFlushed(kernel, e, Len(journal) + 1) = k
  BY <1>1, <1>4 DEF ReduceFlushed, Move
<1>6. Admissible(kernel, journal, e) /\ e.event \notin Passive
  BY <1>4 DEF Admissible, Passive
<1> HIDE DEF k
<1> QED
  BY <1>2, <1>3, <1>4, <1>5, <1>6, LiveOne

\* The evidence says that the action was not applied.
LEMMA GoodNotApplied ==
  ASSUME IInv, NEW u \in Auths, ReconcileAction(u, FALSE)
  PROVE  Good(FALSE)
<1> DEFINE e == [event |-> "action.reconciled", auth |-> u, applied |-> FALSE]
           k == [kernel EXCEPT !.tx[u] = "reconciled_not_applied"]
<1>1. kernel.tx[u] = "reconciliation_required" /\ Performs(k, <<e>>, executing)
  BY DEF ReconcileAction
<1>2. e \in Entries
  BY DEF Entries
<1>3. e.event = "action.reconciled" /\ e.auth = u /\ e.applied = FALSE
  OBVIOUS
<1> HIDE DEF e
<1>4. ReduceFlushed(kernel, e, Len(journal) + 1) = k
  BY <1>1, <1>3 DEF ReduceFlushed, ReplayReconciled, Move
<1>5. Admissible(kernel, journal, e) /\ e.event \notin Passive
  BY <1>3 DEF Admissible, Passive
<1> HIDE DEF k
<1> QED
  BY <1>1, <1>2, <1>3, <1>4, <1>5, LiveOne

-----------------------------------------------------------------------------
(* The operations that commit.                                                *)

\* The kernel c with a commit of version v that waits for its registration at m.
Waiting(c, v, m) == [c EXCEPT !.content[Canonical] = v, !.pending = m]

LEMMA WaitingType ==
  ASSUME NEW c \in Kernels, NEW v \in Nat, NEW m \in Nat
  PROVE  Waiting(c, v, m) \in Kernels /\ Waiting(c, v, m).pending = m
<1>1. c.content \in [Objects -> Nat] /\ [c.content EXCEPT ![Canonical] = v] \in [Objects -> Nat]
  BY KernelFields, BasisObjects
<1> QED
  BY <1>1 DEF Waiting, Kernels

LEMMA WaitingMoved ==
  ASSUME NEW c \in Kernels, NEW v \in Nat, NEW m \in Nat, NEW n \in Nat
  PROVE  [Waiting(c, v, m) EXCEPT !.pending = n] = Waiting(c, v, n)
BY DEF Waiting, Kernels

LEMMA WaitingFlushed ==
  ASSUME NEW c \in Kernels, c.pending = 0, NEW v \in Nat, NEW m \in Nat, m # 0
  PROVE  Flush(Waiting(c, v, m)) = Define(c, Canonical, v, m)
<1> DEFINE l == Waiting(c, v, m)
           d == [c EXCEPT !.content[Canonical] = v]
           os == {Canonical}
<1>1. l.revision = c.revision /\ d.revision = c.revision /\ d.content = l.content
  BY DEF Waiting, Kernels
<1>2. Registration(l, os, m) = Registration(d, os, m)
  BY <1>1 DEF Registration
<1>3. l \in Kernels /\ l.pending = m
  BY WaitingType
<1>4. d \in Kernels /\ d.pending = 0
  <2>1. [c.content EXCEPT ![Canonical] = v] \in [Objects -> Nat]
    BY KernelFields, BasisObjects
  <2> QED
    BY <2>1 DEF Kernels
<1>5. l = [d EXCEPT !.pending = m]
  BY DEF Waiting
<1> DEFINE r == Registration(d, os, m)
<1>6. os \in SUBSET Objects
  BY BasisObjects
<1>7. Flush(l) = [Register(l, os, m) EXCEPT !.pending = 0]
  BY <1>3 DEF Flush
<1>8. Define(c, Canonical, v, m) = Register(d, os, m)
  BY DEF Define
<1> HIDE DEF l, d, os, r
<1>9. Register(l, os, m) = [l EXCEPT !.revision = r]
  BY <1>2, <1>3, <1>6, Registering DEF r
<1>10. Register(d, os, m) = [d EXCEPT !.revision = r]
  BY <1>4, <1>6, Registering DEF r
<1>11. [[[d EXCEPT !.pending = m] EXCEPT !.revision = r] EXCEPT !.pending = 0]
         = [d EXCEPT !.revision = r]
  BY <1>4 DEF Kernels
<1> QED
  BY <1>5, <1>7, <1>8, <1>9, <1>10, <1>11 DEF l

\* An entry that may belong to the commit moves it on.
LEMMA WaitsOn ==
  ASSUME NEW k \in Kernels, k.pending # 0, NEW e \in Entries, NEW n,
         e.event \in Passive \ {"snapshot.saved"}
  PROVE  Reduce(k, e, n) = [k EXCEPT !.pending = n]
BY ReduceCases

LEMMA GoodCommits ==
  ASSUME IInv, NEW u \in Auths, NEW x, NEW first \in Entries, first.auth = u,
         \/ first.event = "action.outcome_observed" /\ kernel.tx[u] = "dispatch_recorded"
         \/ /\ first.event = "action.reconciled" /\ first.applied = TRUE
            /\ kernel.tx[u] = "reconciliation_required",
         Commits(u, first, x)
  PROVE  Good(FALSE)
<1> DEFINE n == Len(journal)
           v == kernel.content[Canonical] + 1
           c == [kernel EXCEPT !.tx[u] = "committed"]
           e2 == [event |-> "canonical.committed", auth |-> u, version |-> v]
           e3 == [event |-> "state.relocated"]
           e4 == [event |-> "recovery.model_class_uncertain"]
           k1 == Reduce(kernel, first, n + 1)
           k2 == Reduce(k1, e2, n + 2)
           k3 == Reduce(k2, e3, n + 3)
           k4 == Reduce(k3, e4, n + 4)
           J1 == Append(journal, first)
           J2 == Append(J1, e2)
           J3 == Append(J2, e3)
           J4 == Append(J3, e4)
<1>1. /\ k1 = Reduce(kernel, first, n + 1) /\ k2 = Reduce(k1, e2, n + 2)
      /\ k3 = Reduce(k2, e3, n + 3) /\ k4 = Reduce(k3, e4, n + 4)
      /\ J1 = Append(journal, first) /\ J2 = Append(J1, e2)
      /\ J3 = Append(J2, e3) /\ J4 = Append(J3, e4)
  OBVIOUS
<1>2. v \in Nat /\ n \in Nat /\ c \in Kernels /\ c.pending = 0
      /\ v = kernel.content[Canonical] + 1 /\ n = Len(journal)
  <2>1. [kernel.tx EXCEPT ![u] = "committed"] \in [Auths -> States]
    BY InvFacts DEF States
  <2>2. c \in Kernels /\ c.pending = 0
    BY <2>1, InvFacts DEF Kernels
  <2> QED
    BY <2>2, InvFacts, BasisObjects
<1>3. /\ e2 \in Entries /\ e3 \in Entries /\ e4 \in Entries
  BY <1>2 DEF Entries
<1>4. /\ e2.event = "canonical.committed" /\ e2.auth = u /\ e2.version = v
      /\ e3.event = "state.relocated" /\ e4.event = "recovery.model_class_uncertain"
  OBVIOUS
<1>5. \/ Performs(Define(c, Canonical, v, n + 2), <<first, e2>>, x)
      \/ Performs(Define(c, Canonical, v, n + 3), <<first, e2, e3>>, x)
      \/ Performs(Define(c, Canonical, v, n + 4), <<first, e2, e3, e4>>, x)
  <2>1. PICK es \in {<<first, e2>>, <<first, e2, e3>>, <<first, e2, e3, e4>>} :
          Performs(Define(c, Canonical, v, Sequence(Len(es))), es, x)
    BY DEF Commits
  <2>2. /\ Sequence(Len(<<first, e2>>)) = n + 2
        /\ Sequence(Len(<<first, e2, e3>>)) = n + 3
        /\ Sequence(Len(<<first, e2, e3, e4>>)) = n + 4
    BY DEF Sequence
  <2> HIDE DEF e2, e3, e4, c, v, n
  <2> QED
    BY <2>1, <2>2
<1>6. c = [kernel EXCEPT !.tx[u] = "committed"]
  OBVIOUS
<1> HIDE DEF n, v, c, e2, e3, e4, k1, k2, k3, k4, J1, J2, J3, J4
<1>7. Admissible(kernel, journal, first) /\ first.event \notin Passive
      /\ first.event # "canonical.committed" /\ first.event # "action.dispatch_recorded"
  BY DEF Admissible, Passive
<1> DEFINE moved == IF first.event = "action.outcome_observed" THEN "outcome_observed"
                    ELSE "reconciled_applied"
<1>8. k1 = [kernel EXCEPT !.tx[u] = moved] /\ Flush(k1) = k1
  <2>1. k1 = ReduceFlushed(kernel, first, n + 1)
    BY <1>1, <1>7, InvFacts, ReduceCases
  <2>2. ReduceFlushed(kernel, first, n + 1) = [kernel EXCEPT !.tx[u] = moved]
    BY DEF ReduceFlushed, ReplayReconciled, Move
  <2>3. Flush(k1) = k1
    BY <1>2, <1>7, <2>1, InvFacts, Becoming
  <2> QED
    BY <2>1, <2>2, <2>3
<1>9. /\ k1 \in Kernels /\ k1.pending = 0 /\ k1.content = kernel.content
      /\ k1.tx[u] = moved /\ [k1 EXCEPT !.tx[u] = "committed"] = c
  <2>1. [kernel.tx EXCEPT ![u] = moved] \in [Auths -> States]
    BY InvFacts DEF States
  <2> HIDE DEF moved
  <2>2. k1 \in Kernels /\ k1.pending = 0 /\ k1.content = kernel.content
    BY <1>8, <2>1, InvFacts DEF Kernels
  <2>3. k1.tx[u] = moved
    BY <1>8, InvFacts DEF Kernels
  <2>4. [k1 EXCEPT !.tx[u] = "committed"] = c
    BY <1>6, <1>8, InvFacts DEF Kernels
  <2> QED
    BY <2>2, <2>3, <2>4
<1>10. k2 = Waiting(c, v, n + 2)
  <2>0. e2.event \notin Passive
    BY <1>4 DEF Passive
  <2>1. k2 = ReduceFlushed(k1, e2, n + 2)
    BY <1>1, <1>3, <1>8, <1>9, <2>0, ReduceCases
  <2>2. ReduceFlushed(k1, e2, n + 2) = ReplayCommitted(k1, e2, n + 2)
    BY <1>4 DEF ReduceFlushed
  <2>3. Move(k1, u, {"outcome_observed", "reconciled_applied"}, "committed") = c
    BY <1>9 DEF Move
  <2> QED
    BY <1>4, <2>1, <2>2, <2>3 DEF ReplayCommitted, Waiting
<1> HIDE DEF moved
<1>11. /\ n + 2 \in Nat /\ n + 2 # 0 /\ n + 3 \in Nat /\ n + 3 # 0 /\ n + 4 \in Nat /\ n + 4 # 0
  BY <1>2
<1>12. k3 = Waiting(c, v, n + 3) /\ k4 = Waiting(c, v, n + 4)
  <2>1. e3.event \in Passive \ {"snapshot.saved"} /\ e4.event \in Passive \ {"snapshot.saved"}
    BY <1>4 DEF Passive
  <2>2. ASSUME NEW m \in Nat PROVE Waiting(c, v, m) \in Kernels /\ Waiting(c, v, m).pending = m
    BY <1>2, WaitingType
  <2>3. k2 \in Kernels /\ k2.pending # 0
    <3>1. k2 \in Kernels /\ k2.pending = n + 2
      BY <1>10, <1>11, <2>2
    <3> QED
      BY <1>11, <3>1
  <2>4. k3 = [k2 EXCEPT !.pending = n + 3]
    BY <1>1, <1>3, <2>1, <2>3, WaitsOn
  <2>5. k3 = Waiting(c, v, n + 3)
    BY <1>2, <1>10, <1>11, <2>4, WaitingMoved
  <2>6. k3 \in Kernels /\ k3.pending # 0
    <3>1. k3 \in Kernels /\ k3.pending = n + 3
      BY <1>11, <2>2, <2>5
    <3> QED
      BY <1>11, <3>1
  <2>7. k4 = [k3 EXCEPT !.pending = n + 4]
    BY <1>1, <1>3, <2>1, <2>6, WaitsOn
  <2>8. k4 = Waiting(c, v, n + 4)
    BY <1>2, <1>11, <2>5, <2>7, WaitingMoved
  <2> QED
    BY <2>5, <2>8
<1>13. /\ Flush(k2) = Define(c, Canonical, v, n + 2)
       /\ Flush(k3) = Define(c, Canonical, v, n + 3)
       /\ Flush(k4) = Define(c, Canonical, v, n + 4)
  BY <1>2, <1>10, <1>11, <1>12, WaitingFlushed
<1>14. Admissible(Flush(k1), J1, e2)
  BY <1>2, <1>4, <1>8, <1>9 DEF Admissible
<1>15. Admissible(Flush(k2), J2, e3) /\ Admissible(Flush(k3), J3, e4)
  BY <1>4 DEF Admissible
<1>16. /\ e2.event # "action.dispatch_recorded" /\ e3.event # "action.dispatch_recorded"
       /\ e4.event # "action.dispatch_recorded"
  BY <1>4
<1>17. \/ Performs(Flush(k2), <<first, e2>>, x)
       \/ Performs(Flush(k3), <<first, e2, e3>>, x)
       \/ Performs(Flush(k4), <<first, e2, e3, e4>>, x)
  BY <1>5, <1>13
<1>18. /\ k1 = Reduce(kernel, first, Len(journal) + 1) /\ k2 = Reduce(k1, e2, Len(journal) + 2)
       /\ k3 = Reduce(k2, e3, Len(journal) + 3) /\ k4 = Reduce(k3, e4, Len(journal) + 4)
       /\ J1 = Append(journal, first)
  BY <1>1, <1>2
<1>19. J2 = Append(J1, e2) /\ J3 = Append(J2, e3) /\ J4 = Append(J3, e4)
  BY <1>1
<1>20. CASE Performs(Flush(k2), <<first, e2>>, x)
  BY <1>3, <1>7, <1>14, <1>16, <1>18, <1>19, <1>20, PerformsTwo
<1>21. CASE Performs(Flush(k3), <<first, e2, e3>>, x)
  BY <1>3, <1>7, <1>14, <1>15, <1>16, <1>18, <1>19, <1>21, PerformsThree
<1>22. CASE Performs(Flush(k4), <<first, e2, e3, e4>>, x)
  BY <1>3, <1>7, <1>14, <1>15, <1>16, <1>18, <1>19, <1>22, PerformsFour
<1> QED
  BY <1>17, <1>20, <1>21, <1>22

LEMMA GoodReturnKnown ==
  ASSUME IInv, NEW verified \in BOOLEAN, ReturnKnown(verified)
  PROVE  Good(FALSE)
<1>1. CASE verified = FALSE
  BY <1>1, GoodObserved
<1>2. CASE verified = TRUE
  <2> DEFINE first == [event |-> "action.outcome_observed", auth |-> executing]
  <2>1. executing \in Auths /\ kernel.tx[executing] = "dispatch_recorded"
    BY DEF IInv, TypeOK, ReturnKnown
  <2>2. Commits(executing, first, NoAuth)
    BY <1>2 DEF ReturnKnown
  <2>3. first \in Entries
    BY <2>1 DEF Entries
  <2>4. first.event = "action.outcome_observed" /\ first.auth = executing
    OBVIOUS
  <2> HIDE DEF first
  <2> QED
    BY <2>1, <2>2, <2>3, <2>4, GoodCommits
<1> QED
  BY <1>1, <1>2

LEMMA GoodReconcileAction ==
  ASSUME IInv, NEW u \in Auths, NEW applied \in BOOLEAN, ReconcileAction(u, applied)
  PROVE  Good(FALSE)
<1>1. CASE applied = FALSE
  BY <1>1, GoodNotApplied
<1>2. CASE applied = TRUE
  <2> DEFINE first == [event |-> "action.reconciled", auth |-> u, applied |-> applied]
  <2>1. kernel.tx[u] = "reconciliation_required" /\ Commits(u, first, executing)
    BY <1>2 DEF ReconcileAction
  <2>2. first \in Entries
    BY DEF Entries
  <2>3. first.event = "action.reconciled" /\ first.auth = u /\ first.applied = TRUE
    BY <1>2
  <2> HIDE DEF first
  <2> QED
    BY <2>1, <2>2, <2>3, GoodCommits
<1> QED
  BY <1>1, <1>2

-----------------------------------------------------------------------------
(* Persistence.                                                               *)

LEMMA GoodSaveSnapshot ==
  ASSUME IInv, SaveSnapshot
  PROVE  Good(FALSE)
<1> DEFINE e == [event |-> "snapshot.saved"]
           J2 == Append(journal, e)
<1>1. e \in Entries /\ e.event = "snapshot.saved"
  BY DEF Entries
<1>2. /\ kernel' = kernel /\ durable' = kernel /\ journal' = journal \o <<e>>
  BY DEF SaveSnapshot
<1>3. J2 = Append(journal, e)
  OBVIOUS
<1> HIDE DEF e, J2
<1>4. journal' = J2 /\ J2 \in Seq(Entries)
  BY <1>1, <1>2, <1>3, InvFacts, Appended
<1>5. Sound(kernel, journal) /\ Admissible(kernel, journal, e)
  BY <1>1 DEF IInv, Follows, Admissible
<1>6. Reduce(kernel, e, Len(journal) + 1) = kernel
  BY <1>1, InvFacts, ReduceCases
<1>7. Sound(kernel, J2)
  BY <1>1, <1>3, <1>5, <1>6, InvFacts, SoundStep
<1>8. Follows(kernel, kernel, J2) /\ Kept(kernel, kernel, FALSE)
  BY <1>7, SameReflexive, KeptReflexive DEF Follows
<1> QED
  BY <1>2, <1>4, <1>8, InvFacts DEF Good

LEMMA GoodCrashAfterSnapshot ==
  ASSUME IInv, CrashAfterSnapshot
  PROVE  Good(FALSE)
<1>1. Follows(kernel, kernel, journal) /\ Kept(kernel, kernel, FALSE)
  BY SameReflexive, KeptReflexive DEF IInv, Follows
<1> QED
  BY <1>1, InvFacts DEF Good, CrashAfterSnapshot

LEMMA GoodCrashAndOpen ==
  ASSUME IInv, CrashAndOpen
  PROVE  Good(FALSE)
<1>1. Reached(kernel, durable, journal, FALSE)
  BY ReachedStart
<1>2. durable \in Kernels
  BY DEF IInv, TypeOK
<1>3. kernel' = Flush(durable) /\ durable' = durable /\ journal' = journal
  BY <1>2, RestoredIs DEF CrashAndOpen
<1> QED
  BY <1>1, <1>3, FinishedFiles

LEMMA GoodStutter ==
  ASSUME IInv, UNCHANGED vars
  PROVE  Good(FALSE)
<1>1. Reached(kernel, durable, journal, FALSE) /\ Flush(kernel) = kernel
  BY ReachedStart
<1> QED
  BY <1>1, FinishedMemory DEF vars

-----------------------------------------------------------------------------
(* The inductive invariant.                                                   *)

\* Only a dispatch dispatches, and every step leaves the memory and the files in accord.
LEMMA GoodNext ==
  ASSUME IInv, [Next]_vars
  PROVE  Good(FALSE) \/ \E u \in Auths : Dispatch(u) /\ Good(TRUE)
<1>1. CASE ReviseMission
  BY <1>1, GoodReviseMission
<1>2. CASE \E o \in Registered, c \in Contents : DefineObject(o, c)
  BY <1>2, GoodDefineObject
<1>3. CASE \E d \in Kinds : ReviseSemanticRegime(d)
  BY <1>3, GoodReviseSemanticRegime
<1>4. CASE \E m \in Manifests, bridge \in BOOLEAN : ApplySemanticMigration(m, bridge)
  BY <1>4, GoodApplySemanticMigration
<1>5. CASE ReportModelClassAnomaly
  BY <1>5, GoodReportModelClassAnomaly
<1>6. ASSUME NEW u \in Auths, NEW a \in Actions, NEW G \in SUBSET Grants,
             Authorize(u, a, G) \/ AuthorizeProofCarrying(u, a, G)
      PROVE  Good(FALSE)
  BY <1>6, GoodAuthorize, GoodAuthorizeProofCarrying
<1>7. CASE \E u \in Auths : Dispatch(u)
  BY <1>7, GoodDispatch
<1>8. CASE \E u \in Auths, applied \in BOOLEAN : ReconcileAction(u, applied)
  BY <1>8, GoodReconcileAction
<1>9. CASE \E u \in Auths : CancelAuthorizedAction(u)
  BY <1>9, GoodCancel
<1>10. CASE ReturnUnknown
  BY <1>10, GoodReturnUnknown
<1>11. CASE \E verified \in BOOLEAN : ReturnKnown(verified)
  BY <1>11, GoodReturnKnown
<1>12. CASE SaveSnapshot
  BY <1>12, GoodSaveSnapshot
<1>13. CASE CrashAndOpen
  BY <1>13, GoodCrashAndOpen
<1>14. CASE CrashAfterSnapshot
  BY <1>14, GoodCrashAfterSnapshot
<1>15. CASE UNCHANGED vars
  BY <1>15, GoodStutter
<1> QED
  BY <1>1, <1>2, <1>3, <1>4, <1>5, <1>6, <1>7, <1>8, <1>9, <1>10, <1>11, <1>12, <1>13, <1>14,
     <1>15 DEF Next

LEMMA ExecutingType ==
  ASSUME IInv, [Next]_vars
  PROVE  executing' \in Auths \cup {NoAuth}
<1>1. executing \in Auths \cup {NoAuth}
  BY DEF IInv, TypeOK
<1>2. \A k, es, x : Performs(k, es, x) => executing' = x \/ executing' = NoAuth
  BY DEF Performs, Completes, CutShort
<1>3. \A u, e, x : Commits(u, e, x) => executing' = x \/ executing' = NoAuth
  BY <1>2 DEF Commits
<1>4. CASE ReviseMission
  BY <1>1, <1>2, <1>4 DEF ReviseMission
<1>5. CASE \E o \in Registered, c \in Contents : DefineObject(o, c)
  BY <1>1, <1>2, <1>5 DEF DefineObject
<1>6. CASE \E d \in Kinds : ReviseSemanticRegime(d)
  BY <1>1, <1>2, <1>6 DEF ReviseSemanticRegime
<1>7. CASE \E m \in Manifests, bridge \in BOOLEAN : ApplySemanticMigration(m, bridge)
  BY <1>1, <1>2, <1>7 DEF ApplySemanticMigration
<1>8. CASE ReportModelClassAnomaly
  BY <1>1, <1>2, <1>8 DEF ReportModelClassAnomaly
<1>9. CASE \E u \in Auths, a \in Actions, G \in SUBSET Grants :
              Authorize(u, a, G) \/ AuthorizeProofCarrying(u, a, G)
  BY <1>1, <1>2, <1>9 DEF Authorize, AuthorizeProofCarrying
<1>10. CASE \E u \in Auths : Dispatch(u)
  BY <1>1, <1>2, <1>10 DEF Dispatch
<1>11. CASE \E u \in Auths, applied \in BOOLEAN : ReconcileAction(u, applied)
  BY <1>1, <1>2, <1>3, <1>11 DEF ReconcileAction
<1>12. CASE \E u \in Auths : CancelAuthorizedAction(u)
  BY <1>1, <1>2, <1>12 DEF CancelAuthorizedAction
<1>13. CASE ReturnUnknown
  BY <1>1, <1>2, <1>13 DEF ReturnUnknown, Completes
<1>14. CASE \E verified \in BOOLEAN : ReturnKnown(verified)
  BY <1>1, <1>2, <1>3, <1>14 DEF ReturnKnown
<1>15. CASE SaveSnapshot \/ CrashAndOpen \/ CrashAfterSnapshot \/ UNCHANGED vars
  BY <1>1, <1>15 DEF SaveSnapshot, CrashAndOpen, CrashAfterSnapshot, vars
<1> QED
  BY <1>4, <1>5, <1>6, <1>7, <1>8, <1>9, <1>10, <1>11, <1>12, <1>13, <1>14, <1>15 DEF Next

LEMMA GoodInvariant ==
  ASSUME NEW dispatching \in BOOLEAN, Good(dispatching), executing' \in Auths \cup {NoAuth}
  PROVE  IInv'
BY DEF Good, IInv, TypeOK

LEMMA Initially ==
  ASSUME Init
  PROVE  IInv
<1>1. PICK legacy \in SUBSET Auths, a \in Actions : kernel = InitialKernel(legacy, a)
  BY DEF Init
<1>2. executing = NoAuth /\ journal = <<>> /\ durable = kernel
  BY DEF Init
<1>3. /\ kernel.content = [o \in Objects |-> 1]
      /\ kernel.revision = [o \in Objects |-> Revision(0, 1)]
      /\ kernel.regime = [d \in Kinds |-> 0]
      /\ kernel.auth = [u \in Auths |-> IF u \in legacy THEN Legacy(a) ELSE Unissued]
      /\ kernel.tx = [u \in Auths |-> IF u \in legacy THEN "authorized" ELSE "none"]
      /\ kernel.recheck = legacy /\ kernel.applied = {} /\ kernel.pending = 0
  BY <1>1 DEF InitialKernel
<1>4. Legacy(a) \in Authorizations /\ Unissued \in Authorizations
  <2>1. (CHOOSE x \in Actions : TRUE) \in Actions
    OBVIOUS
  <2> QED
    BY <2>1 DEF Legacy, Unissued, Authorizations
<1>5. Legacy(a).binding = NoBinding /\ Legacy(a).proof = NoBinding
      /\ Unissued.binding = NoBinding /\ Unissued.proof = NoBinding
  BY DEF Legacy, Unissued
<1>6. kernel \in Kernels
  <2>1. /\ Revision(0, 1) \in Revisions /\ 0 \in Regimes
        /\ "authorized" \in States /\ "none" \in States
    BY RevisionType DEF Regimes, States
  <2>2. /\ kernel.content \in [Objects -> Nat] /\ kernel.revision \in [Objects -> Revisions]
        /\ kernel.regime \in [Kinds -> Regimes] /\ kernel.auth \in [Auths -> Authorizations]
        /\ kernel.tx \in [Auths -> States]
    BY <1>3, <1>4, <2>1
  <2> QED
    BY <1>1, <1>3, <2>2 DEF InitialKernel, Kernels
<1>7. \A u \in Auths : ~ Bound(kernel, u) /\ ~ ProofBound(kernel, u)
  BY <1>3, <1>5 DEF Bound, ProofBound
<1>8. Len(journal) = 0 /\ 1..Len(journal) = {} /\ journal \in Seq(Entries)
  BY <1>2
<1>9. Dated(kernel, Len(journal)) /\ BoundBefore(kernel, Len(journal))
  BY <1>3, <1>7, <1>8, RevisionParts DEF Dated, BoundBefore, RegimesUpTo
<1>10. ASSUME NEW o \in Registered PROVE Says(journal, o, kernel.content[o], Len(journal) + 1)
  <2>1. kernel.content[o] = 1
    BY <1>3, BasisObjects
  <2>2. 1..(Len(journal) + 1 - 1) = {}
    BY <1>8
  <2> QED
    BY <2>1, <2>2 DEF Says
<1>11. Recorded(kernel, journal)
  BY <1>3, <1>7, <1>8, <1>10 DEF Recorded
<1>12. Flush(kernel) = kernel /\ Settled(kernel, journal)
  BY <1>3, <1>6, <1>9, <1>11 DEF Flush, Settled
<1>13. Sound(kernel, journal)
  BY <1>3, <1>6, <1>12 DEF Sound
<1>14. Follows(kernel, durable, journal)
  BY <1>2, <1>13, SameReflexive DEF Follows
<1> QED
  BY <1>2, <1>3, <1>6, <1>8, <1>14 DEF IInv, TypeOK

\* The memory and the files are in accord, and every binding is of what there has been.
THEOREM Invariance == Spec => []IInv
<1>1. Init => IInv
  BY Initially
<1>2. IInv /\ [Next]_vars => IInv'
  BY GoodNext, ExecutingType, GoodInvariant
<1> QED
  BY <1>1, <1>2, PTL DEF Spec

-----------------------------------------------------------------------------
(* What follows.                                                              *)

\* What every operation, crash and restart leaves is a kernel: no replay that the
\* reducers of lineage_recovery.py would refuse ever comes about.
THEOREM TypeCorrect == Spec => []TypeOK
<1>1. IInv => TypeOK
  BY DEF IInv
<1> QED
  BY <1>1, Invariance, PTL

\* The current revision of every object is of what the object says now, and no later than
\* now: _register_lineage is called wherever a content changes, and open flushes.
THEOREM LineageIsCurrent == Spec => []CurrentLineage
<1>1. IInv => CurrentLineage
  BY InvFacts DEF CurrentLineage, Dated
<1> QED
  BY <1>1, Invariance, PTL

LEMMA SameEligible ==
  ASSUME NEW f, NEW g, Same(f, g), NEW u \in Auths
  PROVE  Eligible(f, u) <=> Eligible(g, u)
BY DEF Same, SameAuth, Eligible

\* Wherever the process dies, open restores what could be dispatched, and only that.
THEOREM RestartRestoresAuthority == Spec => []RestartKeepsAuthority
<1>1. IInv => RestartKeepsAuthority
  <2> SUFFICES ASSUME IInv PROVE RestartKeepsAuthority
    OBVIOUS
  <2> DEFINE r == Restored(durable)
             f == Flush(durable)
  <2>1. durable \in Kernels /\ Follows(kernel, durable, journal)
    BY DEF IInv, TypeOK
  <2>2. r = f
    BY <2>1, RestoredIs
  <2>3. f \in Kernels /\ Same(kernel, f) /\ BoundBefore(f, Len(journal))
    BY <2>1, FollowsParts, InvFacts
  <2> HIDE DEF r, f
  <2>4. r # Unreadable
    BY <2>2, <2>3, LineageAssumption
  <2>5. /\ r.content = kernel.content /\ r.regime = kernel.regime /\ r.tx = kernel.tx
        /\ r.recheck = kernel.recheck /\ r.applied = kernel.applied
    BY <2>2, <2>3 DEF Same
  <2>6. ASSUME NEW u \in Auths PROVE Dispatchable(r, u) <=> Dispatchable(kernel, u)
    <3>1. Current(kernel, u) <=> Current(f, u)
      BY <2>3, InvFacts, SameCurrent
    <3>2. Eligible(kernel, u) <=> Eligible(f, u)
      BY <2>3, SameEligible
    <3>3. /\ Current(kernel, u) \in BOOLEAN /\ Current(f, u) \in BOOLEAN
          /\ Eligible(kernel, u) \in BOOLEAN /\ Eligible(f, u) \in BOOLEAN
      BY DEF Current, Eligible
    <3> QED
      BY <2>2, <2>5, <3>1, <3>2, <3>3 DEF Dispatchable
  <2> QED
    BY <2>4, <2>5, <2>6 DEF RestartKeepsAuthority, r
<1> QED
  BY <1>1, Invariance, PTL

\* No step makes current what dispatch would find stale: not the return of a content to
\* what it was, and not a restart.
THEOREM StaleStaysStale == Spec => StaleForever
<1> DEFINE A == \A u \in Auths :
                  kernel.tx[u] # "none" /\ ~ Current(kernel, u) => ~ Current(kernel', u)
<1>1. IInv /\ [Next]_vars => A
  BY GoodNext DEF Good, Kept
<1>2. IInv /\ [Next]_vars => [A]_vars
  BY <1>1
<1> QED
  BY <1>2, Invariance, PTL DEF Spec, StaleForever

\* What dispatch finds current has had nothing change under it since its entry.
LEMMA Undisturbed ==
  ASSUME IInv, NEW u \in Auths, Dispatchable(kernel, u)
  PROVE  \E p \in DOMAIN journal :
           /\ journal[p].event = "action.authorized" /\ journal[p].auth = u
           /\ \A i \in (p + 1)..Len(journal) : ~ Disturbs(journal, i, p)
<1>1. u \notin kernel.recheck /\ kernel.tx[u] # "none" /\ Current(kernel, u)
  BY DEF Dispatchable
<1>2. PICK p \in 1..Len(journal) : RecordedAt(kernel, journal, p, u)
  BY <1>1, InvFacts DEF Recorded
<1>3. /\ EnteredAt(journal, p, u)
      /\ \A i \in (p + 1)..Len(journal) : Disturbs(journal, i, p) => ~ Current(kernel, u)
  BY <1>2 DEF RecordedAt
<1>4. p \in DOMAIN journal
  BY InvFacts
<1> QED
  BY <1>1, <1>3, <1>4 DEF EnteredAt

\* An authorization is dispatched only on the basis that it was given on.
THEOREM DispatchedUnchanged == Spec => DispatchOnUnchangedBasis
<1> DEFINE A == \A u \in Auths :
                  kernel.tx[u] # "dispatch_recorded" /\ kernel'.tx[u] = "dispatch_recorded" =>
                    \E p \in DOMAIN journal :
                      /\ journal[p].event = "action.authorized" /\ journal[p].auth = u
                      /\ \A i \in (p + 1)..Len(journal) : ~ Disturbs(journal, i, p)
<1>1. IInv /\ [Next]_vars => A
  <2> SUFFICES ASSUME IInv, [Next]_vars, NEW u \in Auths,
                      kernel.tx[u] # "dispatch_recorded", kernel'.tx[u] = "dispatch_recorded"
               PROVE  Dispatchable(kernel, u)
    BY Undisturbed
  <2>1. ~ Good(FALSE)
    BY DEF Good, Kept
  <2>2. PICK w \in Auths : Dispatch(w)
    BY <2>1, GoodNext
  <2>3. Dispatchable(kernel, w)
        /\ Performs([kernel EXCEPT !.tx[w] = "dispatch_recorded"],
                    <<[event |-> "action.dispatch_recorded", auth |-> w]>>, w)
    BY <2>2 DEF Dispatch
  <2>4. kernel' = [kernel EXCEPT !.tx[w] = "dispatch_recorded"]
    BY <2>3 DEF Performs, Completes, CutShort
  <2>5. u # w => kernel'.tx[u] = kernel.tx[u]
    BY <2>4, InvFacts DEF Kernels
  <2> QED
    BY <2>3, <2>5
<1>2. IInv /\ [Next]_vars => [A]_vars
  BY <1>1
<1> QED
  BY <1>2, Invariance, PTL DEF Spec, DispatchOnUnchangedBasis
=============================================================================
