----------------------- MODULE PolicyAuthorityProofs -----------------------
(***************************************************************************)
(* What PolicyAuthority promises, proved for all principals, actions and   *)
(* limits.                                                                 *)
(*                                                                         *)
(* Sound says of a kernel what its registries owe to the order in which    *)
(* they grew: every artifact is of the world it was registered in, comes   *)
(* after what it names, and the plan and its generation have moved if the  *)
(* world has since.  Nothing an operation does takes anything back         *)
(* (Extends), so that what is sound stays so, and only what is new has to  *)
(* be looked at.  The journal follows the memory (Follows) but for an      *)
(* assessment of a partition that is not registered, which leaves it       *)
(* Unreadable: the assessments are Placed while it can be opened.          *)
(***************************************************************************)
EXTENDS PolicyAuthority, SequenceTheorems, TLAPS

-----------------------------------------------------------------------------
(* The invariant.                                                           *)

\* What is registered in the world w is registered no later than what is in v.
NoLater(w, v) ==
  /\ w.mission <= v.mission /\ w.canonical <= v.canonical
  /\ w.location <= v.location /\ w.regime <= v.regime
  /\ \A p \in Principals : w.access[p] <= v.access[p]
  /\ w.actions \subseteq v.actions

\* The parts of the world that moving the plan, and its generation, tells of.
SamePlan(w, v) == w.mission = v.mission /\ w.canonical = v.canonical /\ w.regime = v.regime
SameGeneration(w, v) == SamePlan(w, v) /\ w.access = v.access

\* The information is of the world it was registered in.
FrontierSound(f) == f.access = f.world.access[f.principal]

PartitionSound(t) ==
  /\ t.mission = t.world.mission /\ t.canonical = t.world.canonical
  /\ t.access = t.world.access[t.principal]

\* The epoch is, its lineage is, and the plan has moved if the world has since.
EpochSound(m, i) ==
  LET e == m.epochs[i]
  IN /\ e.partition \in DOMAIN m.partitions /\ e.frontier \in DOMAIN m.frontiers
     /\ m.partitions[e.partition].epoch = i
     /\ e.snapshot.mission = e.world.mission /\ e.snapshot.location = e.world.location
     /\ e.snapshot.actions = e.world.actions
     /\ e.access = e.world.access[e.principal]
     /\ m.epochLineage[i] =
          [mission |-> e.world.mission, canonical |-> e.world.canonical,
           location |-> e.world.location, regime |-> e.world.regime, access |-> e.access]
     /\ NoLater(e.world, World(m))
     /\ e.snapshot.plan <= m.plan
     /\ e.snapshot.plan = m.plan => SamePlan(e.world, World(m))

\* A node comes after its epoch, a certificate and an assessment after what they are about.
NodeSound(m, n) ==
  /\ n.epoch \in DOMAIN m.epochs
  /\ n.partition \in DOMAIN m.partitions /\ n.frontier \in DOMAIN m.frontiers
  /\ n.snapshot = m.epochs[n.epoch].snapshot
  /\ NoLater(m.epochs[n.epoch].world, n.world) /\ NoLater(n.world, World(m))

SufficiencySound(m, c) ==
  /\ c.epoch \in DOMAIN m.epochs /\ c.partition \in DOMAIN m.partitions
  /\ c.action \in m.actions
  /\ NoLater(m.epochs[c.epoch].world, c.world) /\ NoLater(c.world, World(m))

SealSound(m, s) ==
  /\ s.sufficiency \in DOMAIN m.sufficiency
  /\ NoLater(m.sufficiency[s.sufficiency].world, s.world) /\ NoLater(s.world, World(m))

AssessmentSound(m, x) ==
  /\ x.node \in DOMAIN m.nodes
  /\ NoLater(m.nodes[x.node].world, x.world) /\ NoLater(x.world, World(m))

\* A selection that depends on the plan was made at a generation that has been.
SelectionSound(m, s) ==
  /\ s.partition \in DOMAIN m.partitions /\ s.action \in m.actions
  /\ s.actions = s.world.actions
  /\ "plan" \in DOMAIN s.generations =>
       /\ s.generations["plan"] <= m.generation
       /\ s.generations["plan"] = m.generation => SameGeneration(s.world, World(m))

\* What is bound to a bundle names revisions that there are, and was issued in the world
\* that the lineage of its epoch tells of.
AuthorizationSound(m, a) ==
  IF a.bundle = <<>> THEN a.closure = <<>>
  ELSE LET e == m.nodes[a.bundle["nodes"]].epoch
           s == m.selections[a.bundle["selections"]]
           w == a.issue.world
       IN /\ a.bundle["nodes"] \in DOMAIN m.nodes
          /\ a.bundle["selections"] \in DOMAIN m.selections
          /\ a.bundle["sufficiency"] \in DOMAIN m.sufficiency
          /\ a.bundle["seals"] \in DOMAIN m.seals
          /\ a.bundle["assessments"] \in DOMAIN m.assessments
          /\ a.closure = a.issue.revisions
          /\ a.closure \in [Lineages -> Nat]
          /\ a.closure["frontiers"] <= Len(m.frontiers)
          /\ a.closure["partitions"] <= Len(m.partitions)
          /\ a.closure["nodes"] <= Len(m.nodes)
          /\ a.closure["sufficiency"] <= Len(m.sufficiency)
          /\ a.closure["seals"] <= Len(m.seals)
          /\ a.closure["assessments"] <= Len(m.assessments)
          /\ m.epochs[e].principal = Acting
          /\ m.epochLineage[e] =
               [mission |-> w.mission, canonical |-> w.canonical, location |-> w.location,
                regime |-> w.regime, access |-> w.access[Acting]]
          /\ "plan" \in DOMAIN s.generations => s.generations["plan"] = a.issue.generation

Sound(m) ==
  /\ m \in Kernels /\ DOMAIN m.epochLineage = DOMAIN m.epochs
  /\ \A i \in DOMAIN m.frontiers : FrontierSound(m.frontiers[i])
  /\ \A i \in DOMAIN m.partitions : PartitionSound(m.partitions[i])
  /\ \A i \in DOMAIN m.epochs : EpochSound(m, i)
  /\ \A i \in DOMAIN m.nodes : NodeSound(m, m.nodes[i])
  /\ \A i \in DOMAIN m.selections : SelectionSound(m, m.selections[i])
  /\ \A i \in DOMAIN m.sufficiency : SufficiencySound(m, m.sufficiency[i])
  /\ \A i \in DOMAIN m.seals : SealSound(m, m.seals[i])
  /\ \A i \in DOMAIN m.assessments : AssessmentSound(m, m.assessments[i])
  /\ \A i \in DOMAIN m.auths : AuthorizationSound(m, m.auths[i])

\* The sequence t goes on from s.
Continues(s, t) == Len(s) <= Len(t) /\ \A i \in 1 .. Len(s) : t[i] = s[i]

\* The world goes on, and the plan and its generation with it.
Forward(m, r) ==
  /\ NoLater(World(m), World(r))
  /\ m.plan <= r.plan /\ (m.plan = r.plan => SamePlan(World(m), World(r)))
  /\ m.generation <= r.generation
  /\ m.generation = r.generation => SameGeneration(World(m), World(r))

\* What an operation does to the kernel m: nothing is taken back.
Extends(m, r) ==
  /\ Continues(m.frontiers, r.frontiers) /\ Continues(m.partitions, r.partitions)
  /\ Continues(m.epochs, r.epochs) /\ Continues(m.nodes, r.nodes)
  /\ Continues(m.selections, r.selections) /\ Continues(m.sufficiency, r.sufficiency)
  /\ Continues(m.seals, r.seals) /\ Continues(m.assessments, r.assessments)
  /\ Continues(m.epochLineage, r.epochLineage)
  /\ Forward(m, r)

\* Every assessment is of a partition that there is: the registration does not ask for it.
Placed(m) ==
  \A i \in DOMAIN m.assessments : m.assessments[i].partition \in DOMAIN m.partitions

\* The journal, if it can be opened, is the memory, and then the assessments are placed.
IInv == Sound(memory) /\ (durable # Unreadable => durable = memory /\ Placed(memory))

-----------------------------------------------------------------------------
(* The fields of a kernel.                                                  *)

\* A kernel's fields have their types.
LEMMA Fields ==
  ASSUME NEW m \in Kernels
  PROVE  /\ m.frontiers \in Seq(FrontierType) /\ m.partitions \in Seq(PartitionType)
         /\ m.epochs \in Seq(EpochType) /\ m.nodes \in Seq(NodeType)
         /\ m.selections \in Seq(SelectionType) /\ m.sufficiency \in Seq(SufficiencyType)
         /\ m.seals \in Seq(SealType) /\ m.assessments \in Seq(AssessmentType)
         /\ m.epochLineage \in Seq(LineageType) /\ m.auths \in Seq(AuthorizationType)
         /\ m.sequence \in Nat /\ m.mission \in Nat /\ m.canonical \in Nat /\ m.plan \in Nat
         /\ m.generation \in Nat /\ m.location \in Nat /\ m.regime \in Nat
         /\ m.actions \in SUBSET Actions /\ m.access \in [Principals -> Nat]
BY DEF Kernels

\* The registries have lengths, and their revisions are up to these.
LEMMA Lengths ==
  ASSUME NEW m \in Kernels
  PROVE  /\ Len(m.frontiers) \in Nat /\ DOMAIN m.frontiers = 1 .. Len(m.frontiers)
         /\ Len(m.partitions) \in Nat /\ DOMAIN m.partitions = 1 .. Len(m.partitions)
         /\ Len(m.epochs) \in Nat /\ DOMAIN m.epochs = 1 .. Len(m.epochs)
         /\ Len(m.nodes) \in Nat /\ DOMAIN m.nodes = 1 .. Len(m.nodes)
         /\ Len(m.selections) \in Nat /\ DOMAIN m.selections = 1 .. Len(m.selections)
         /\ Len(m.sufficiency) \in Nat /\ DOMAIN m.sufficiency = 1 .. Len(m.sufficiency)
         /\ Len(m.seals) \in Nat /\ DOMAIN m.seals = 1 .. Len(m.seals)
         /\ Len(m.assessments) \in Nat /\ DOMAIN m.assessments = 1 .. Len(m.assessments)
         /\ Len(m.epochLineage) \in Nat /\ DOMAIN m.epochLineage = 1 .. Len(m.epochLineage)
         /\ Len(m.auths) \in Nat /\ DOMAIN m.auths = 1 .. Len(m.auths)
<1>1. Len(m.frontiers) \in Nat /\ DOMAIN m.frontiers = 1 .. Len(m.frontiers)
  BY Fields
<1>2. Len(m.partitions) \in Nat /\ DOMAIN m.partitions = 1 .. Len(m.partitions)
  BY Fields
<1>3. Len(m.epochs) \in Nat /\ DOMAIN m.epochs = 1 .. Len(m.epochs)
  BY Fields
<1>4. Len(m.nodes) \in Nat /\ DOMAIN m.nodes = 1 .. Len(m.nodes)
  BY Fields
<1>5. Len(m.selections) \in Nat /\ DOMAIN m.selections = 1 .. Len(m.selections)
  BY Fields
<1>6. Len(m.sufficiency) \in Nat /\ DOMAIN m.sufficiency = 1 .. Len(m.sufficiency)
  BY Fields
<1>7. Len(m.seals) \in Nat /\ DOMAIN m.seals = 1 .. Len(m.seals)
  BY Fields
<1>8. Len(m.assessments) \in Nat /\ DOMAIN m.assessments = 1 .. Len(m.assessments)
  BY Fields
<1>9. Len(m.epochLineage) \in Nat /\ DOMAIN m.epochLineage = 1 .. Len(m.epochLineage)
  BY Fields
<1>10. Len(m.auths) \in Nat /\ DOMAIN m.auths = 1 .. Len(m.auths)
  BY Fields
<1>. QED
  BY <1>1, <1>2, <1>3, <1>4, <1>5, <1>6, <1>7, <1>8, <1>9, <1>10

\* What the world of a kernel is made of.
LEMMA WorldFields ==
  ASSUME NEW m
  PROVE  /\ World(m).mission = m.mission /\ World(m).canonical = m.canonical
         /\ World(m).location = m.location /\ World(m).regime = m.regime
         /\ World(m).access = m.access /\ World(m).actions = m.actions
BY DEF World

\* It has its type.
LEMMA WorldType ==
  ASSUME NEW m \in Kernels
  PROVE  World(m) \in Worlds
BY Fields DEF World, Worlds

\* The order of worlds is one.
LEMMA NoLaterTransitive ==
  ASSUME NEW u \in Worlds, NEW v \in Worlds, NEW w \in Worlds, NoLater(u, v), NoLater(v, w)
  PROVE  NoLater(u, w)
<1>1. /\ u.mission <= w.mission /\ u.canonical <= w.canonical
      /\ u.location <= w.location /\ u.regime <= w.regime
  BY DEF NoLater, Worlds
<1>2. ASSUME NEW p \in Principals PROVE u.access[p] <= w.access[p]
  <2>1. u.access[p] \in Nat /\ v.access[p] \in Nat /\ w.access[p] \in Nat
    BY DEF Worlds
  <2>2. u.access[p] <= v.access[p] /\ v.access[p] <= w.access[p]
    BY DEF NoLater
  <2>. QED
    BY <2>1, <2>2
<1>. QED
  BY <1>1, <1>2 DEF NoLater

\* A world is no later than itself.
LEMMA NoLaterReflexive ==
  ASSUME NEW w \in Worlds
  PROVE  NoLater(w, w)
BY DEF NoLater, Worlds

\* Worlds in a circle are the same.
LEMMA NoLaterAntisymmetric ==
  ASSUME NEW u \in Worlds, NEW v \in Worlds, NoLater(u, v), NoLater(v, u)
  PROVE  /\ u.mission = v.mission /\ u.canonical = v.canonical
         /\ u.location = v.location /\ u.regime = v.regime /\ u.actions = v.actions
         /\ \A p \in Principals : u.access[p] = v.access[p]
<1>1. /\ u.mission = v.mission /\ u.canonical = v.canonical
      /\ u.location = v.location /\ u.regime = v.regime /\ u.actions = v.actions
  BY DEF NoLater, Worlds
<1>2. ASSUME NEW p \in Principals PROVE u.access[p] = v.access[p]
  <2>1. u.access[p] \in Nat /\ v.access[p] \in Nat
    BY DEF Worlds
  <2>2. u.access[p] <= v.access[p] /\ v.access[p] <= u.access[p]
    BY DEF NoLater
  <2>. QED
    BY <2>1, <2>2
<1>. QED
  BY <1>1, <1>2

\* What is in a sequence is in one that goes on from it.
LEMMA Kept ==
  ASSUME NEW S, NEW s \in Seq(S), NEW t \in Seq(S), Continues(s, t)
  PROVE  /\ Len(s) \in Nat /\ Len(t) \in Nat /\ Len(s) <= Len(t)
         /\ \A i \in DOMAIN s : i \in DOMAIN t /\ t[i] = s[i] /\ s[i] \in S
BY DEF Continues

\* A sequence goes on from itself, and one with an element more from it.
LEMMA ContinuesAppend ==
  ASSUME NEW S, NEW s \in Seq(S), NEW x \in S
  PROVE  /\ Continues(s, s) /\ Continues(s, Append(s, x)) /\ Append(s, x) \in Seq(S)
         /\ Len(Append(s, x)) = Len(s) + 1 /\ Len(s) \in Nat
         /\ DOMAIN Append(s, x) = DOMAIN s \cup {Len(s) + 1}
         /\ Append(s, x)[Len(s) + 1] = x
         /\ \A i \in DOMAIN s : Append(s, x)[i] = s[i]
BY DEF Continues

-----------------------------------------------------------------------------
(* What is sound stays so.                                                  *)

\* What was registered before an operation is of no later world than after it.
LEMMA StillNoLater ==
  ASSUME NEW m \in Kernels, NEW r \in Kernels, Extends(m, r), NEW w \in Worlds,
         NoLater(w, World(m))
  PROVE  NoLater(w, World(r))
BY WorldType, NoLaterTransitive DEF Extends, Forward

\* A frontier stays in its registry as it is.
LEMMA FrontierKept ==
  ASSUME NEW m \in Kernels, NEW r \in Kernels, Extends(m, r), NEW i \in DOMAIN m.frontiers
  PROVE  /\ i \in DOMAIN r.frontiers /\ r.frontiers[i] = m.frontiers[i]
         /\ m.frontiers[i] \in FrontierType
<1>1. m.frontiers \in Seq(FrontierType) /\ r.frontiers \in Seq(FrontierType)
  BY Fields
<1>2. Continues(m.frontiers, r.frontiers)
  BY DEF Extends
<1>. QED
  BY <1>1, <1>2, Kept

\* A partition stays in its registry as it is.
LEMMA PartitionKept ==
  ASSUME NEW m \in Kernels, NEW r \in Kernels, Extends(m, r), NEW i \in DOMAIN m.partitions
  PROVE  /\ i \in DOMAIN r.partitions /\ r.partitions[i] = m.partitions[i]
         /\ m.partitions[i] \in PartitionType
<1>1. m.partitions \in Seq(PartitionType) /\ r.partitions \in Seq(PartitionType)
  BY Fields
<1>2. Continues(m.partitions, r.partitions)
  BY DEF Extends
<1>. QED
  BY <1>1, <1>2, Kept

\* An epoch stays in its registry as it is.
LEMMA EpochKept ==
  ASSUME NEW m \in Kernels, NEW r \in Kernels, Extends(m, r), NEW i \in DOMAIN m.epochs
  PROVE  i \in DOMAIN r.epochs /\ r.epochs[i] = m.epochs[i] /\ m.epochs[i] \in EpochType
<1>1. m.epochs \in Seq(EpochType) /\ r.epochs \in Seq(EpochType)
  BY Fields
<1>2. Continues(m.epochs, r.epochs)
  BY DEF Extends
<1>. QED
  BY <1>1, <1>2, Kept

\* A node stays in its registry as it is.
LEMMA NodeKept ==
  ASSUME NEW m \in Kernels, NEW r \in Kernels, Extends(m, r), NEW i \in DOMAIN m.nodes
  PROVE  i \in DOMAIN r.nodes /\ r.nodes[i] = m.nodes[i] /\ m.nodes[i] \in NodeType
<1>1. m.nodes \in Seq(NodeType) /\ r.nodes \in Seq(NodeType)
  BY Fields
<1>2. Continues(m.nodes, r.nodes)
  BY DEF Extends
<1>. QED
  BY <1>1, <1>2, Kept

\* A selection stays in its registry as it is.
LEMMA SelectionKept ==
  ASSUME NEW m \in Kernels, NEW r \in Kernels, Extends(m, r), NEW i \in DOMAIN m.selections
  PROVE  /\ i \in DOMAIN r.selections /\ r.selections[i] = m.selections[i]
         /\ m.selections[i] \in SelectionType
<1>1. m.selections \in Seq(SelectionType) /\ r.selections \in Seq(SelectionType)
  BY Fields
<1>2. Continues(m.selections, r.selections)
  BY DEF Extends
<1>. QED
  BY <1>1, <1>2, Kept

\* A sufficiency certificate stays in its registry as it is.
LEMMA SufficiencyKept ==
  ASSUME NEW m \in Kernels, NEW r \in Kernels, Extends(m, r), NEW i \in DOMAIN m.sufficiency
  PROVE  /\ i \in DOMAIN r.sufficiency /\ r.sufficiency[i] = m.sufficiency[i]
         /\ m.sufficiency[i] \in SufficiencyType
<1>1. m.sufficiency \in Seq(SufficiencyType) /\ r.sufficiency \in Seq(SufficiencyType)
  BY Fields
<1>2. Continues(m.sufficiency, r.sufficiency)
  BY DEF Extends
<1>. QED
  BY <1>1, <1>2, Kept

\* A seal stays in its registry as it is.
LEMMA SealKept ==
  ASSUME NEW m \in Kernels, NEW r \in Kernels, Extends(m, r), NEW i \in DOMAIN m.seals
  PROVE  i \in DOMAIN r.seals /\ r.seals[i] = m.seals[i] /\ m.seals[i] \in SealType
<1>1. m.seals \in Seq(SealType) /\ r.seals \in Seq(SealType)
  BY Fields
<1>2. Continues(m.seals, r.seals)
  BY DEF Extends
<1>. QED
  BY <1>1, <1>2, Kept

\* An assessment stays in its registry as it is.
LEMMA AssessmentKept ==
  ASSUME NEW m \in Kernels, NEW r \in Kernels, Extends(m, r), NEW i \in DOMAIN m.assessments
  PROVE  /\ i \in DOMAIN r.assessments /\ r.assessments[i] = m.assessments[i]
         /\ m.assessments[i] \in AssessmentType
<1>1. m.assessments \in Seq(AssessmentType) /\ r.assessments \in Seq(AssessmentType)
  BY Fields
<1>2. Continues(m.assessments, r.assessments)
  BY DEF Extends
<1>. QED
  BY <1>1, <1>2, Kept

\* The lineage of an epoch stays in its registry as it is.
LEMMA LineageKept ==
  ASSUME NEW m \in Kernels, NEW r \in Kernels, Extends(m, r), NEW i \in DOMAIN m.epochLineage
  PROVE  /\ i \in DOMAIN r.epochLineage /\ r.epochLineage[i] = m.epochLineage[i]
         /\ m.epochLineage[i] \in LineageType
<1>1. m.epochLineage \in Seq(LineageType) /\ r.epochLineage \in Seq(LineageType)
  BY Fields
<1>2. Continues(m.epochLineage, r.epochLineage)
  BY DEF Extends
<1>. QED
  BY <1>1, <1>2, Kept

\* An epoch stays sound.
LEMMA EpochStays ==
  ASSUME NEW m \in Kernels, NEW r \in Kernels, Extends(m, r), NEW i \in DOMAIN m.epochs,
         DOMAIN m.epochLineage = DOMAIN m.epochs, EpochSound(m, i)
  PROVE  EpochSound(r, i)
<1>. DEFINE e == m.epochs[i]
<1>1. e \in EpochType /\ i \in DOMAIN r.epochs /\ r.epochs[i] = e
  BY EpochKept
<1>2. r.epochLineage[i] = m.epochLineage[i]
  BY LineageKept
<1>3. /\ e.partition \in DOMAIN r.partitions /\ e.frontier \in DOMAIN r.frontiers
      /\ r.partitions[e.partition] = m.partitions[e.partition]
  <2>1. e.partition \in DOMAIN m.partitions /\ e.frontier \in DOMAIN m.frontiers
    BY DEF EpochSound
  <2>. QED
    BY <2>1, PartitionKept, FrontierKept
<1>4. e.world \in Worlds /\ e.snapshot.plan \in Nat
  BY <1>1 DEF EpochType, Snapshots
<1>5. NoLater(e.world, World(r))
  BY <1>4, StillNoLater DEF EpochSound
<1>6. m.plan \in Nat /\ r.plan \in Nat /\ m.plan <= r.plan
  BY Fields DEF Extends, Forward
<1>7. /\ e.snapshot.plan <= r.plan
      /\ e.snapshot.plan = r.plan => SamePlan(e.world, World(r))
  BY <1>4, <1>6 DEF EpochSound, Extends, Forward, SamePlan
<1>. QED
  BY <1>1, <1>2, <1>3, <1>5, <1>7 DEF EpochSound

\* A node stays sound.
LEMMA NodeStays ==
  ASSUME NEW m \in Kernels, NEW r \in Kernels, Extends(m, r), NEW n \in NodeType,
         NodeSound(m, n)
  PROVE  NodeSound(r, n)
<1>1. /\ n.epoch \in DOMAIN r.epochs /\ r.epochs[n.epoch] = m.epochs[n.epoch]
      /\ n.partition \in DOMAIN r.partitions /\ n.frontier \in DOMAIN r.frontiers
  <2>1. /\ n.epoch \in DOMAIN m.epochs /\ n.partition \in DOMAIN m.partitions
        /\ n.frontier \in DOMAIN m.frontiers
    BY DEF NodeSound
  <2>. QED
    BY <2>1, EpochKept, PartitionKept, FrontierKept
<1>2. NoLater(n.world, World(r))
  BY StillNoLater DEF NodeSound, NodeType
<1>. QED
  BY <1>1, <1>2 DEF NodeSound

\* A selection stays sound.
LEMMA SelectionStays ==
  ASSUME NEW m \in Kernels, NEW r \in Kernels, Extends(m, r), NEW s \in SelectionType,
         SelectionSound(m, s)
  PROVE  SelectionSound(r, s)
<1>1. s.partition \in DOMAIN r.partitions
  BY PartitionKept DEF SelectionSound
<1>2. s.action \in r.actions
  BY DEF Extends, Forward, SelectionSound, NoLater, World
<1>3. ASSUME "plan" \in DOMAIN s.generations
      PROVE  /\ s.generations["plan"] <= r.generation
             /\ s.generations["plan"] = r.generation => SameGeneration(s.world, World(r))
  <2>1. s.generations["plan"] \in Int
    BY <1>3 DEF SelectionType
  <2>2. m.generation \in Nat /\ r.generation \in Nat /\ m.generation <= r.generation
    BY Fields DEF Extends, Forward
  <2>3. /\ s.generations["plan"] <= m.generation
        /\ s.generations["plan"] = m.generation => SameGeneration(s.world, World(m))
    BY <1>3 DEF SelectionSound
  <2>. QED
    BY <2>1, <2>2, <2>3 DEF Extends, Forward, SameGeneration, SamePlan
<1>. QED
  BY <1>1, <1>2, <1>3 DEF SelectionSound

\* A sufficiency certificate stays sound.
LEMMA SufficiencyStays ==
  ASSUME NEW m \in Kernels, NEW r \in Kernels, Extends(m, r), NEW c \in SufficiencyType,
         SufficiencySound(m, c)
  PROVE  SufficiencySound(r, c)
<1>1. /\ c.epoch \in DOMAIN r.epochs /\ r.epochs[c.epoch] = m.epochs[c.epoch]
      /\ c.partition \in DOMAIN r.partitions
  <2>1. c.epoch \in DOMAIN m.epochs /\ c.partition \in DOMAIN m.partitions
    BY DEF SufficiencySound
  <2>. QED
    BY <2>1, EpochKept, PartitionKept
<1>2. c.action \in r.actions
  BY DEF Extends, Forward, SufficiencySound, NoLater, World
<1>3. NoLater(c.world, World(r))
  BY StillNoLater DEF SufficiencySound, SufficiencyType
<1>. QED
  BY <1>1, <1>2, <1>3 DEF SufficiencySound

\* A seal stays sound.
LEMMA SealStays ==
  ASSUME NEW m \in Kernels, NEW r \in Kernels, Extends(m, r), NEW s \in SealType,
         SealSound(m, s)
  PROVE  SealSound(r, s)
<1>1. /\ s.sufficiency \in DOMAIN r.sufficiency
      /\ r.sufficiency[s.sufficiency] = m.sufficiency[s.sufficiency]
  <2>1. s.sufficiency \in DOMAIN m.sufficiency
    BY DEF SealSound
  <2>. QED
    BY <2>1, SufficiencyKept
<1>2. NoLater(s.world, World(r))
  BY StillNoLater DEF SealSound, SealType
<1>. QED
  BY <1>1, <1>2 DEF SealSound

\* An assessment stays sound.
LEMMA AssessmentStays ==
  ASSUME NEW m \in Kernels, NEW r \in Kernels, Extends(m, r), NEW x \in AssessmentType,
         AssessmentSound(m, x)
  PROVE  AssessmentSound(r, x)
<1>1. x.node \in DOMAIN r.nodes /\ r.nodes[x.node] = m.nodes[x.node]
  <2>1. x.node \in DOMAIN m.nodes
    BY DEF AssessmentSound
  <2>. QED
    BY <2>1, NodeKept
<1>2. NoLater(x.world, World(r))
  BY StillNoLater DEF AssessmentSound, AssessmentType
<1>. QED
  BY <1>1, <1>2 DEF AssessmentSound

\* What is bound to a bundle stays sound.
LEMMA AuthorizationStays ==
  ASSUME NEW m \in Kernels, NEW r \in Kernels, Extends(m, r), Sound(m),
         NEW a \in AuthorizationType, AuthorizationSound(m, a)
  PROVE  AuthorizationSound(r, a)
<1>1. CASE a.bundle = <<>>
  BY <1>1 DEF AuthorizationSound
<1>2. CASE a.bundle # <<>>
  <2>. DEFINE n == a.bundle["nodes"]
             e == m.nodes[n].epoch
             k == a.bundle["selections"]
             s == m.selections[k]
             w == a.issue.world
  <2>1. /\ n \in DOMAIN m.nodes /\ k \in DOMAIN m.selections
        /\ a.bundle["sufficiency"] \in DOMAIN m.sufficiency
        /\ a.bundle["seals"] \in DOMAIN m.seals
        /\ a.bundle["assessments"] \in DOMAIN m.assessments
        /\ a.closure = a.issue.revisions /\ a.closure \in [Lineages -> Nat]
        /\ m.epochs[e].principal = Acting
        /\ m.epochLineage[e] =
             [mission |-> w.mission, canonical |-> w.canonical, location |-> w.location,
              regime |-> w.regime, access |-> w.access[Acting]]
        /\ "plan" \in DOMAIN s.generations => s.generations["plan"] = a.issue.generation
    BY <1>2 DEF AuthorizationSound
  <2>2. e \in DOMAIN m.epochs /\ e \in DOMAIN m.epochLineage
    BY <2>1 DEF Sound, NodeSound
  <2>3. /\ n \in DOMAIN r.nodes /\ r.nodes[n] = m.nodes[n]
        /\ k \in DOMAIN r.selections /\ r.selections[k] = m.selections[k]
        /\ r.epochs[e] = m.epochs[e] /\ r.epochLineage[e] = m.epochLineage[e]
    <3>1. n \in DOMAIN r.nodes /\ r.nodes[n] = m.nodes[n]
      BY <2>1, NodeKept
    <3>2. k \in DOMAIN r.selections /\ r.selections[k] = m.selections[k]
      BY <2>1, SelectionKept
    <3>3. r.epochs[e] = m.epochs[e]
      BY <2>2, EpochKept
    <3>4. r.epochLineage[e] = m.epochLineage[e]
      BY <2>2, LineageKept
    <3>. QED
      BY <3>1, <3>2, <3>3, <3>4
  <2>4. /\ a.bundle["sufficiency"] \in DOMAIN r.sufficiency
        /\ a.bundle["seals"] \in DOMAIN r.seals
        /\ a.bundle["assessments"] \in DOMAIN r.assessments
    BY <2>1, SufficiencyKept, SealKept, AssessmentKept
  <2>5. /\ a.closure["frontiers"] <= Len(m.frontiers)
        /\ a.closure["partitions"] <= Len(m.partitions)
        /\ a.closure["nodes"] <= Len(m.nodes)
        /\ a.closure["sufficiency"] <= Len(m.sufficiency)
        /\ a.closure["seals"] <= Len(m.seals)
        /\ a.closure["assessments"] <= Len(m.assessments)
    BY <1>2 DEF AuthorizationSound
  <2>6. /\ a.closure["frontiers"] \in Nat /\ a.closure["partitions"] \in Nat
        /\ a.closure["nodes"] \in Nat /\ a.closure["sufficiency"] \in Nat
        /\ a.closure["seals"] \in Nat /\ a.closure["assessments"] \in Nat
    BY <2>1 DEF Lineages
  <2>7. /\ Len(m.frontiers) <= Len(r.frontiers) /\ Len(m.partitions) <= Len(r.partitions)
        /\ Len(m.nodes) <= Len(r.nodes) /\ Len(m.sufficiency) <= Len(r.sufficiency)
        /\ Len(m.seals) <= Len(r.seals) /\ Len(m.assessments) <= Len(r.assessments)
    BY DEF Extends, Continues
  <2>8. a.closure["frontiers"] <= Len(r.frontiers)
    <3>1. Len(m.frontiers) \in Nat /\ Len(r.frontiers) \in Nat
      BY Lengths
    <3>2. /\ a.closure["frontiers"] \in Nat /\ a.closure["frontiers"] <= Len(m.frontiers)
          /\ Len(m.frontiers) <= Len(r.frontiers)
      BY <2>5, <2>6, <2>7
    <3>. QED
      BY <3>1, <3>2
  <2>9. a.closure["partitions"] <= Len(r.partitions)
    <3>1. Len(m.partitions) \in Nat /\ Len(r.partitions) \in Nat
      BY Lengths
    <3>2. /\ a.closure["partitions"] \in Nat /\ a.closure["partitions"] <= Len(m.partitions)
          /\ Len(m.partitions) <= Len(r.partitions)
      BY <2>5, <2>6, <2>7
    <3>. QED
      BY <3>1, <3>2
  <2>10. a.closure["nodes"] <= Len(r.nodes)
    <3>1. Len(m.nodes) \in Nat /\ Len(r.nodes) \in Nat
      BY Lengths
    <3>2. /\ a.closure["nodes"] \in Nat /\ a.closure["nodes"] <= Len(m.nodes)
          /\ Len(m.nodes) <= Len(r.nodes)
      BY <2>5, <2>6, <2>7
    <3>. QED
      BY <3>1, <3>2
  <2>11. a.closure["sufficiency"] <= Len(r.sufficiency)
    <3>1. Len(m.sufficiency) \in Nat /\ Len(r.sufficiency) \in Nat
      BY Lengths
    <3>2. /\ a.closure["sufficiency"] \in Nat /\ a.closure["sufficiency"] <= Len(m.sufficiency)
          /\ Len(m.sufficiency) <= Len(r.sufficiency)
      BY <2>5, <2>6, <2>7
    <3>. QED
      BY <3>1, <3>2
  <2>12. a.closure["seals"] <= Len(r.seals)
    <3>1. Len(m.seals) \in Nat /\ Len(r.seals) \in Nat
      BY Lengths
    <3>2. /\ a.closure["seals"] \in Nat /\ a.closure["seals"] <= Len(m.seals)
          /\ Len(m.seals) <= Len(r.seals)
      BY <2>5, <2>6, <2>7
    <3>. QED
      BY <3>1, <3>2
  <2>13. a.closure["assessments"] <= Len(r.assessments)
    <3>1. Len(m.assessments) \in Nat /\ Len(r.assessments) \in Nat
      BY Lengths
    <3>2. /\ a.closure["assessments"] \in Nat /\ a.closure["assessments"] <= Len(m.assessments)
          /\ Len(m.assessments) <= Len(r.assessments)
      BY <2>5, <2>6, <2>7
    <3>. QED
      BY <3>1, <3>2
  <2>. HIDE DEF w
  <2>. QED
    BY <1>2, <2>1, <2>3, <2>4, <2>8, <2>9, <2>10, <2>11, <2>12, <2>13
    DEF AuthorizationSound, w
<1>. QED
  BY <1>1, <1>2

\* What is in the registries of r and was not in those of m is sound in r.
NewSound(m, r) ==
  /\ DOMAIN r.epochLineage = DOMAIN r.epochs
  /\ \A i \in DOMAIN r.frontiers \ DOMAIN m.frontiers : FrontierSound(r.frontiers[i])
  /\ \A i \in DOMAIN r.partitions \ DOMAIN m.partitions : PartitionSound(r.partitions[i])
  /\ \A i \in DOMAIN r.epochs \ DOMAIN m.epochs : EpochSound(r, i)
  /\ \A i \in DOMAIN r.nodes \ DOMAIN m.nodes : NodeSound(r, r.nodes[i])
  /\ \A i \in DOMAIN r.selections \ DOMAIN m.selections :
       SelectionSound(r, r.selections[i])
  /\ \A i \in DOMAIN r.sufficiency \ DOMAIN m.sufficiency :
       SufficiencySound(r, r.sufficiency[i])
  /\ \A i \in DOMAIN r.seals \ DOMAIN m.seals : SealSound(r, r.seals[i])
  /\ \A i \in DOMAIN r.assessments \ DOMAIN m.assessments :
       AssessmentSound(r, r.assessments[i])
  /\ \A i \in DOMAIN r.auths :
       \/ i \in DOMAIN m.auths /\ r.auths[i] = m.auths[i]
       \/ AuthorizationSound(r, r.auths[i])

\* A kernel that takes nothing back and adds only what is sound is sound.
LEMMA SoundStays ==
  ASSUME NEW m, NEW r \in Kernels, Sound(m), Extends(m, r), NewSound(m, r)
  PROVE  Sound(r)
<1>1. m \in Kernels
  BY DEF Sound
<1>2. \A i \in DOMAIN r.frontiers : FrontierSound(r.frontiers[i])
  BY <1>1, FrontierKept DEF Sound, NewSound
<1>3. \A i \in DOMAIN r.partitions : PartitionSound(r.partitions[i])
  BY <1>1, PartitionKept DEF Sound, NewSound
<1>4. \A i \in DOMAIN r.epochs : EpochSound(r, i)
  BY <1>1, EpochStays DEF Sound, NewSound
<1>5. \A i \in DOMAIN r.nodes : NodeSound(r, r.nodes[i])
  BY <1>1, NodeKept, NodeStays DEF Sound, NewSound
<1>6. \A i \in DOMAIN r.selections : SelectionSound(r, r.selections[i])
  BY <1>1, SelectionKept, SelectionStays DEF Sound, NewSound
<1>7. \A i \in DOMAIN r.sufficiency : SufficiencySound(r, r.sufficiency[i])
  BY <1>1, SufficiencyKept, SufficiencyStays DEF Sound, NewSound
<1>8. \A i \in DOMAIN r.seals : SealSound(r, r.seals[i])
  BY <1>1, SealKept, SealStays DEF Sound, NewSound
<1>9. \A i \in DOMAIN r.assessments : AssessmentSound(r, r.assessments[i])
  BY <1>1, AssessmentKept, AssessmentStays DEF Sound, NewSound
<1>10. \A i \in DOMAIN r.auths : AuthorizationSound(r, r.auths[i])
  <2>. SUFFICES ASSUME NEW i \in DOMAIN r.auths PROVE AuthorizationSound(r, r.auths[i])
    OBVIOUS
  <2>1. CASE i \in DOMAIN m.auths /\ r.auths[i] = m.auths[i]
    <3>1. m.auths[i] \in AuthorizationType
      BY <1>1, <2>1, Fields
    <3>2. AuthorizationSound(m, m.auths[i])
      BY <2>1 DEF Sound
    <3>3. AuthorizationSound(r, m.auths[i])
      BY <1>1, <3>1, <3>2, AuthorizationStays
    <3>. QED
      BY <2>1, <3>3
  <2>2. CASE AuthorizationSound(r, r.auths[i])
    BY <2>2
  <2>. QED
    BY <2>1, <2>2 DEF NewSound
<1>. QED
  BY <1>2, <1>3, <1>4, <1>5, <1>6, <1>7, <1>8, <1>9, <1>10 DEF Sound, NewSound

-----------------------------------------------------------------------------
(* The world moves and the registries do not.                               *)

SameRegistries(m, r) ==
  /\ r.frontiers = m.frontiers /\ r.partitions = m.partitions /\ r.epochs = m.epochs
  /\ r.nodes = m.nodes /\ r.selections = m.selections /\ r.sufficiency = m.sufficiency
  /\ r.seals = m.seals /\ r.assessments = m.assessments
  /\ r.epochLineage = m.epochLineage

Moves(m, r) == r \in Kernels /\ SameRegistries(m, r) /\ r.auths = m.auths /\ Forward(m, r)

\* Registries that stay as they are go on from themselves.
LEMMA SameRegistriesContinue ==
  ASSUME NEW m \in Kernels, NEW r \in Kernels, SameRegistries(m, r), Forward(m, r)
  PROVE  Extends(m, r)
<1>1. ASSUME NEW s, Len(s) \in Nat PROVE Continues(s, s)
  BY <1>1 DEF Continues
<1>. QED
  BY <1>1, Lengths DEF Extends, SameRegistries

\* What is sound stays so when the world moves.
LEMMA MovesSound ==
  ASSUME NEW m, NEW r, Sound(m), Moves(m, r)
  PROVE  Extends(m, r) /\ Sound(r) /\ (Placed(m) => Placed(r))
<1>1. m \in Kernels /\ r \in Kernels
  BY DEF Sound, Moves
<1>2. Extends(m, r)
  BY <1>1, SameRegistriesContinue DEF Moves
<1>3. NewSound(m, r)
  BY DEF NewSound, Moves, SameRegistries, Sound
<1>4. Placed(m) => Placed(r)
  BY DEF Placed, Moves, SameRegistries
<1>. QED
  BY <1>1, <1>2, <1>3, <1>4, SoundStays

\* The sequence counts entries, and nothing depends on it.
LEMMA SequenceMoves ==
  ASSUME NEW m \in Kernels, NEW n \in Nat
  PROVE  Moves(m, [m EXCEPT !.sequence = @ + n])
<1>. DEFINE r == [m EXCEPT !.sequence = @ + n]
<1>1. r \in Kernels
  <2>1. m.sequence + n \in Nat
    BY Fields
  <2>. QED
    BY <2>1 DEF Kernels
<1>2. SameRegistries(m, r) /\ r.auths = m.auths
  BY DEF Kernels, SameRegistries
<1>3. World(r) = World(m) /\ r.plan = m.plan /\ r.generation = m.generation
  BY DEF Kernels, World
<1>. HIDE DEF r
<1>4. Forward(m, r)
  BY <1>3, WorldType, NoLaterReflexive, Fields DEF Forward, SamePlan, SameGeneration
<1>. QED
  BY <1>1, <1>2, <1>4 DEF Moves, r

\* A commit moves the canonical state, the plan and its generation.
LEMMA CommittedMoves ==
  ASSUME NEW m \in Kernels
  PROVE  Moves(m, Committed(m))
<1>. DEFINE r == Committed(m)
<1>1. r \in Kernels
  <2>1. m.canonical + 1 \in Nat /\ m.plan + 1 \in Nat /\ m.generation + 1 \in Nat
    BY Fields
  <2>. QED
    BY <2>1 DEF Kernels, Committed
<1>2. SameRegistries(m, r) /\ r.auths = m.auths
  BY DEF Kernels, SameRegistries, Committed
<1>3. /\ r.mission = m.mission /\ r.canonical = m.canonical + 1 /\ r.location = m.location
      /\ r.regime = m.regime /\ r.actions = m.actions /\ r.access = m.access
      /\ r.plan = m.plan + 1 /\ r.generation = m.generation + 1
  BY DEF Kernels, Committed
<1>. HIDE DEF r
<1>4. \A q \in Principals : m.access[q] <= r.access[q]
  <2>1. ASSUME NEW q \in Principals PROVE m.access[q] <= r.access[q]
    <3>1. m.access[q] \in Nat
      BY Fields
    <3>. QED
      BY <1>3, <3>1
  <2>. QED
    BY <2>1
<1>5. NoLater(World(m), World(r))
  BY <1>3, <1>4, WorldFields, Fields DEF NoLater
<1>6. m.plan \in Nat /\ m.generation \in Nat
  BY Fields
<1>7. Forward(m, r)
  BY <1>3, <1>5, <1>6 DEF Forward, SamePlan, SameGeneration, World
<1>. QED
  BY <1>1, <1>2, <1>7 DEF Moves, r

\* A relocation moves the location alone.
LEMMA RelocatedMoves ==
  ASSUME NEW m \in Kernels
  PROVE  Moves(m, Relocated(m))
<1>. DEFINE r == Relocated(m)
<1>1. r \in Kernels
  <2>1. m.location + 1 \in Nat
    BY Fields
  <2>. QED
    BY <2>1 DEF Kernels, Relocated
<1>2. SameRegistries(m, r) /\ r.auths = m.auths
  BY DEF Kernels, SameRegistries, Relocated
<1>3. /\ r.mission = m.mission /\ r.canonical = m.canonical /\ r.location = m.location + 1
      /\ r.regime = m.regime /\ r.actions = m.actions /\ r.access = m.access
      /\ r.plan = m.plan /\ r.generation = m.generation
  BY DEF Kernels, Relocated
<1>. HIDE DEF r
<1>4. \A q \in Principals : m.access[q] <= r.access[q]
  <2>1. ASSUME NEW q \in Principals PROVE m.access[q] <= r.access[q]
    <3>1. m.access[q] \in Nat
      BY Fields
    <3>. QED
      BY <1>3, <3>1
  <2>. QED
    BY <2>1
<1>5. NoLater(World(m), World(r))
  BY <1>3, <1>4, WorldFields, Fields DEF NoLater
<1>6. m.plan \in Nat /\ m.generation \in Nat
  BY Fields
<1>7. Forward(m, r)
  BY <1>3, <1>5, <1>6 DEF Forward, SamePlan, SameGeneration, World
<1>. QED
  BY <1>1, <1>2, <1>7 DEF Moves, r

\* So does the registration of a region, and the generation with it.
LEMMA RegionRegisteredMoves ==
  ASSUME NEW m \in Kernels
  PROVE  Moves(m, RegionRegistered(m))
<1>. DEFINE r == RegionRegistered(m)
<1>1. r \in Kernels
  <2>1. m.location + 1 \in Nat /\ m.generation + 1 \in Nat
    BY Fields
  <2>. QED
    BY <2>1 DEF Kernels, Relocated, RegionRegistered
<1>2. SameRegistries(m, r) /\ r.auths = m.auths
  BY DEF Kernels, SameRegistries, Relocated, RegionRegistered
<1>3. /\ r.mission = m.mission /\ r.canonical = m.canonical /\ r.location = m.location + 1
      /\ r.regime = m.regime /\ r.actions = m.actions /\ r.access = m.access
      /\ r.plan = m.plan /\ r.generation = m.generation + 1
  BY DEF Kernels, Relocated, RegionRegistered
<1>. HIDE DEF r
<1>4. \A q \in Principals : m.access[q] <= r.access[q]
  <2>1. ASSUME NEW q \in Principals PROVE m.access[q] <= r.access[q]
    <3>1. m.access[q] \in Nat
      BY Fields
    <3>. QED
      BY <1>3, <3>1
  <2>. QED
    BY <2>1
<1>5. NoLater(World(m), World(r))
  BY <1>3, <1>4, WorldFields, Fields DEF NoLater
<1>6. m.plan \in Nat /\ m.generation \in Nat
  BY Fields
<1>7. Forward(m, r)
  BY <1>3, <1>5, <1>6 DEF Forward, SamePlan, SameGeneration, World
<1>. QED
  BY <1>1, <1>2, <1>7 DEF Moves, r

\* An access that is updated moves the plan and its generation.
LEMMA AccessUpdatedMoves ==
  ASSUME NEW m \in Kernels, NEW p \in Principals
  PROVE  Moves(m, AccessUpdated(m, p))
<1>. DEFINE r == AccessUpdated(m, p)
<1>1. r \in Kernels
  <2>1. /\ m.plan + 1 \in Nat /\ m.generation + 1 \in Nat
        /\ [m.access EXCEPT ![p] = m.access[p] + 1] \in [Principals -> Nat]
    BY Fields
  <2>. QED
    BY <2>1 DEF Kernels, AccessUpdated
<1>2. SameRegistries(m, r) /\ r.auths = m.auths
  BY DEF Kernels, SameRegistries, AccessUpdated
<1>3. /\ r.mission = m.mission /\ r.canonical = m.canonical /\ r.location = m.location
      /\ r.regime = m.regime /\ r.actions = m.actions
      /\ r.plan = m.plan + 1 /\ r.generation = m.generation + 1
  BY DEF Kernels, AccessUpdated
<1>4. ASSUME NEW q \in Principals PROVE m.access[q] <= r.access[q]
  <2>1. r.access = [m.access EXCEPT ![p] = m.access[p] + 1]
    BY DEF Kernels, AccessUpdated
  <2>2. m.access[q] \in Nat /\ r.access[q] \in {m.access[q], m.access[q] + 1}
    BY <2>1, Fields
  <2>. QED
    BY <2>2
<1>. HIDE DEF r
<1>5. NoLater(World(m), World(r))
  BY <1>3, <1>4, Fields DEF NoLater, World
<1>6. m.plan \in Nat /\ m.generation \in Nat
  BY Fields
<1>7. Forward(m, r)
  BY <1>3, <1>5, <1>6 DEF Forward, SamePlan, World
<1>. QED
  BY <1>1, <1>2, <1>7 DEF Moves, r

\* A principal that is registered again moves the generation.
LEMMA PrincipalRegisteredMoves ==
  ASSUME NEW m \in Kernels, NEW p \in Principals
  PROVE  Moves(m, PrincipalRegistered(m, p))
<1>. DEFINE r == PrincipalRegistered(m, p)
<1>1. r \in Kernels
  <2>1. /\ m.generation + 1 \in Nat
        /\ [m.access EXCEPT ![p] = m.access[p] + 1] \in [Principals -> Nat]
    BY Fields
  <2>. QED
    BY <2>1 DEF Kernels, PrincipalRegistered
<1>2. SameRegistries(m, r) /\ r.auths = m.auths
  BY DEF Kernels, SameRegistries, PrincipalRegistered
<1>3. /\ r.mission = m.mission /\ r.canonical = m.canonical /\ r.location = m.location
      /\ r.regime = m.regime /\ r.actions = m.actions
      /\ r.plan = m.plan /\ r.generation = m.generation + 1
  BY DEF Kernels, PrincipalRegistered
<1>4. ASSUME NEW q \in Principals PROVE m.access[q] <= r.access[q]
  <2>1. r.access = [m.access EXCEPT ![p] = m.access[p] + 1]
    BY DEF Kernels, PrincipalRegistered
  <2>2. m.access[q] \in Nat /\ r.access[q] \in {m.access[q], m.access[q] + 1}
    BY <2>1, Fields
  <2>. QED
    BY <2>2
<1>. HIDE DEF r
<1>5. NoLater(World(m), World(r))
  BY <1>3, <1>4, Fields DEF NoLater, World
<1>6. m.plan \in Nat /\ m.generation \in Nat
  BY Fields
<1>7. Forward(m, r)
  BY <1>3, <1>5, <1>6 DEF Forward, SamePlan, World
<1>. QED
  BY <1>1, <1>2, <1>7 DEF Moves, r

\* A revision of the mission moves the plan and its generation.
LEMMA MissionRevisedMoves ==
  ASSUME NEW m \in Kernels
  PROVE  Moves(m, MissionRevised(m))
<1>. DEFINE r == MissionRevised(m)
<1>1. r \in Kernels
  <2>1. m.mission + 1 \in Nat /\ m.plan + 1 \in Nat /\ m.generation + 1 \in Nat
    BY Fields
  <2>. QED
    BY <2>1 DEF Kernels, MissionRevised
<1>2. SameRegistries(m, r) /\ r.auths = m.auths
  BY DEF Kernels, SameRegistries, MissionRevised
<1>3. /\ r.mission = m.mission + 1 /\ r.canonical = m.canonical /\ r.location = m.location
      /\ r.regime = m.regime /\ r.actions = m.actions /\ r.access = m.access
      /\ r.plan = m.plan + 1 /\ r.generation = m.generation + 1
  BY DEF Kernels, MissionRevised
<1>. HIDE DEF r
<1>4. \A q \in Principals : m.access[q] <= r.access[q]
  <2>1. ASSUME NEW q \in Principals PROVE m.access[q] <= r.access[q]
    <3>1. m.access[q] \in Nat
      BY Fields
    <3>. QED
      BY <1>3, <3>1
  <2>. QED
    BY <2>1
<1>5. NoLater(World(m), World(r))
  BY <1>3, <1>4, WorldFields, Fields DEF NoLater
<1>6. m.plan \in Nat /\ m.generation \in Nat
  BY Fields
<1>7. Forward(m, r)
  BY <1>3, <1>5, <1>6 DEF Forward, SamePlan, SameGeneration, World
<1>. QED
  BY <1>1, <1>2, <1>7 DEF Moves, r

\* So does one of the regime.
LEMMA RegimeRevisedMoves ==
  ASSUME NEW m \in Kernels
  PROVE  Moves(m, RegimeRevised(m))
<1>. DEFINE r == RegimeRevised(m)
<1>1. r \in Kernels
  <2>1. m.regime + 1 \in Nat /\ m.plan + 1 \in Nat /\ m.generation + 1 \in Nat
    BY Fields
  <2>. QED
    BY <2>1 DEF Kernels, RegimeRevised
<1>2. SameRegistries(m, r) /\ r.auths = m.auths
  BY DEF Kernels, SameRegistries, RegimeRevised
<1>3. /\ r.mission = m.mission /\ r.canonical = m.canonical /\ r.location = m.location
      /\ r.regime = m.regime + 1 /\ r.actions = m.actions /\ r.access = m.access
      /\ r.plan = m.plan + 1 /\ r.generation = m.generation + 1
  BY DEF Kernels, RegimeRevised
<1>. HIDE DEF r
<1>4. \A q \in Principals : m.access[q] <= r.access[q]
  <2>1. ASSUME NEW q \in Principals PROVE m.access[q] <= r.access[q]
    <3>1. m.access[q] \in Nat
      BY Fields
    <3>. QED
      BY <1>3, <3>1
  <2>. QED
    BY <2>1
<1>5. NoLater(World(m), World(r))
  BY <1>3, <1>4, WorldFields, Fields DEF NoLater
<1>6. m.plan \in Nat /\ m.generation \in Nat
  BY Fields
<1>7. Forward(m, r)
  BY <1>3, <1>5, <1>6 DEF Forward, SamePlan, SameGeneration, World
<1>. QED
  BY <1>1, <1>2, <1>7 DEF Moves, r

\* A proposal adds an action.
LEMMA ActionProposedMoves ==
  ASSUME NEW m \in Kernels, NEW a \in Actions
  PROVE  Moves(m, ActionProposed(m, a))
<1>. DEFINE r == ActionProposed(m, a)
<1>1. r \in Kernels
  BY DEF Kernels, ActionProposed
<1>2. SameRegistries(m, r) /\ r.auths = m.auths
  BY DEF Kernels, SameRegistries, ActionProposed
<1>3. /\ r.mission = m.mission /\ r.canonical = m.canonical /\ r.location = m.location
      /\ r.regime = m.regime /\ r.actions = m.actions \cup {a} /\ r.access = m.access
      /\ r.plan = m.plan /\ r.generation = m.generation
  BY DEF Kernels, ActionProposed
<1>. HIDE DEF r
<1>4. \A q \in Principals : m.access[q] <= r.access[q]
  <2>1. ASSUME NEW q \in Principals PROVE m.access[q] <= r.access[q]
    <3>1. m.access[q] \in Nat
      BY Fields
    <3>. QED
      BY <1>3, <3>1
  <2>. QED
    BY <2>1
<1>5. NoLater(World(m), World(r))
  <2>1. /\ m.mission <= r.mission /\ m.canonical <= r.canonical
        /\ m.location <= r.location /\ m.regime <= r.regime
    BY <1>3, Fields
  <2>2. m.actions \subseteq r.actions
    BY <1>3
  <2>. QED
    BY <1>4, <2>1, <2>2 DEF NoLater, World
<1>6. m.plan \in Nat /\ m.generation \in Nat
  BY Fields
<1>7. Forward(m, r)
  BY <1>3, <1>5, <1>6 DEF Forward, SamePlan, SameGeneration, World
<1>. QED
  BY <1>1, <1>2, <1>7 DEF Moves, r

\* A report moves the plan.
LEMMA AnomalyReportedMoves ==
  ASSUME NEW m \in Kernels
  PROVE  Moves(m, AnomalyReported(m))
<1>. DEFINE r == AnomalyReported(m)
<1>1. r \in Kernels
  <2>1. m.plan + 1 \in Nat
    BY Fields
  <2>. QED
    BY <2>1 DEF Kernels, AnomalyReported
<1>2. SameRegistries(m, r) /\ r.auths = m.auths
  BY DEF Kernels, SameRegistries, AnomalyReported
<1>3. /\ r.mission = m.mission /\ r.canonical = m.canonical /\ r.location = m.location
      /\ r.regime = m.regime /\ r.actions = m.actions /\ r.access = m.access
      /\ r.plan = m.plan + 1 /\ r.generation = m.generation
  BY DEF Kernels, AnomalyReported
<1>. HIDE DEF r
<1>4. \A q \in Principals : m.access[q] <= r.access[q]
  <2>1. ASSUME NEW q \in Principals PROVE m.access[q] <= r.access[q]
    <3>1. m.access[q] \in Nat
      BY Fields
    <3>. QED
      BY <1>3, <3>1
  <2>. QED
    BY <2>1
<1>5. NoLater(World(m), World(r))
  BY <1>3, <1>4, WorldFields, Fields DEF NoLater
<1>6. m.plan \in Nat /\ m.generation \in Nat
  BY Fields
<1>7. Forward(m, r)
  BY <1>3, <1>5, <1>6 DEF Forward, SamePlan, SameGeneration, World
<1>. QED
  BY <1>1, <1>2, <1>7 DEF Moves, r

-----------------------------------------------------------------------------
(* A registry grows.                                                        *)

Grown(m, family, x) == [m EXCEPT ![family] = Append(@, x)]

\* One artifact more in one registry, and everything else as it was.
LEMMA Grows ==
  ASSUME NEW m \in Kernels, NEW family \in Families, NEW S, m[family] \in Seq(S), NEW x \in S
  PROVE  LET r == Grown(m, family, x)
         IN /\ Extends(m, r) /\ World(r) = World(m)
            /\ r.plan = m.plan /\ r.generation = m.generation
            /\ r.epochLineage = m.epochLineage /\ r.auths = m.auths
            /\ \A g \in Families : g # family => r[g] = m[g]
            /\ r[family] = Append(m[family], x)
            /\ \A i \in DOMAIN r[family] \ DOMAIN m[family] :
                 i = Len(m[family]) + 1 /\ r[family][i] = x
<1>. DEFINE r == Grown(m, family, x)
<1>1. /\ \A g \in DOMAIN m : r[g] = IF g = family THEN Append(m[g], x) ELSE m[g]
      /\ Families \subseteq DOMAIN m
  BY DEF Grown, Families, Kernels
<1>. HIDE DEF r
<1>2. /\ World(r) = World(m) /\ r.plan = m.plan /\ r.generation = m.generation
      /\ r.epochLineage = m.epochLineage /\ r.auths = m.auths
  BY <1>1 DEF World, Kernels, Families
<1>3. ASSUME NEW g \in Families PROVE Continues(m[g], r[g])
  <2>1. CASE g = family
    <3>1. Continues(m[family], Append(m[family], x))
      BY ContinuesAppend
    <3>. QED
      BY <1>1, <2>1, <3>1
  <2>2. CASE g # family
    <3>1. Len(m[g]) \in Nat
      BY Lengths DEF Families
    <3>2. r[g] = m[g]
      BY <1>1, <2>2
    <3>. QED
      BY <3>1, <3>2 DEF Continues
  <2>. QED
    BY <2>1, <2>2
<1>4. Continues(m.epochLineage, r.epochLineage)
  BY <1>2, Lengths DEF Continues
<1>5. Forward(m, r)
  BY <1>2, WorldType, NoLaterReflexive, Fields DEF Forward, SamePlan, SameGeneration
<1>6. Extends(m, r)
  BY <1>3, <1>4, <1>5 DEF Extends, Families
<1>7. r[family] = Append(m[family], x)
  BY <1>1
<1>8. \A i \in DOMAIN r[family] \ DOMAIN m[family] : i = Len(m[family]) + 1 /\ r[family][i] = x
  BY <1>7, ContinuesAppend
<1>. QED
  BY <1>1, <1>2, <1>6, <1>7, <1>8 DEF r

\* A kernel with one artifact more is a kernel.
LEMMA GrownType ==
  ASSUME NEW m \in Kernels
  PROVE  /\ \A x \in FrontierType : Grown(m, "frontiers", x) \in Kernels
         /\ \A x \in PartitionType : Grown(m, "partitions", x) \in Kernels
         /\ \A x \in EpochType : Grown(m, "epochs", x) \in Kernels
         /\ \A x \in NodeType : Grown(m, "nodes", x) \in Kernels
         /\ \A x \in SelectionType : Grown(m, "selections", x) \in Kernels
         /\ \A x \in SufficiencyType : Grown(m, "sufficiency", x) \in Kernels
         /\ \A x \in SealType : Grown(m, "seals", x) \in Kernels
         /\ \A x \in AssessmentType : Grown(m, "assessments", x) \in Kernels
<1>1. ASSUME NEW x \in FrontierType PROVE Grown(m, "frontiers", x) \in Kernels
  <2>1. Append(m.frontiers, x) \in Seq(FrontierType)
    BY Fields
  <2>2. Grown(m, "frontiers", x) = [m EXCEPT !.frontiers = Append(m.frontiers, x)]
    BY DEF Grown
  <2>. QED
    BY <2>1, <2>2 DEF Kernels
<1>2. ASSUME NEW x \in PartitionType PROVE Grown(m, "partitions", x) \in Kernels
  <2>1. Append(m.partitions, x) \in Seq(PartitionType)
    BY Fields
  <2>2. Grown(m, "partitions", x) = [m EXCEPT !.partitions = Append(m.partitions, x)]
    BY DEF Grown
  <2>. QED
    BY <2>1, <2>2 DEF Kernels
<1>3. ASSUME NEW x \in EpochType PROVE Grown(m, "epochs", x) \in Kernels
  <2>1. Append(m.epochs, x) \in Seq(EpochType)
    BY Fields
  <2>2. Grown(m, "epochs", x) = [m EXCEPT !.epochs = Append(m.epochs, x)]
    BY DEF Grown
  <2>. QED
    BY <2>1, <2>2 DEF Kernels
<1>4. ASSUME NEW x \in NodeType PROVE Grown(m, "nodes", x) \in Kernels
  <2>1. Append(m.nodes, x) \in Seq(NodeType)
    BY Fields
  <2>2. Grown(m, "nodes", x) = [m EXCEPT !.nodes = Append(m.nodes, x)]
    BY DEF Grown
  <2>. QED
    BY <2>1, <2>2 DEF Kernels
<1>5. ASSUME NEW x \in SelectionType PROVE Grown(m, "selections", x) \in Kernels
  <2>1. Append(m.selections, x) \in Seq(SelectionType)
    BY Fields
  <2>2. Grown(m, "selections", x) = [m EXCEPT !.selections = Append(m.selections, x)]
    BY DEF Grown
  <2>. QED
    BY <2>1, <2>2 DEF Kernels
<1>6. ASSUME NEW x \in SufficiencyType PROVE Grown(m, "sufficiency", x) \in Kernels
  <2>1. Append(m.sufficiency, x) \in Seq(SufficiencyType)
    BY Fields
  <2>2. Grown(m, "sufficiency", x) = [m EXCEPT !.sufficiency = Append(m.sufficiency, x)]
    BY DEF Grown
  <2>. QED
    BY <2>1, <2>2 DEF Kernels
<1>7. ASSUME NEW x \in SealType PROVE Grown(m, "seals", x) \in Kernels
  <2>1. Append(m.seals, x) \in Seq(SealType)
    BY Fields
  <2>2. Grown(m, "seals", x) = [m EXCEPT !.seals = Append(m.seals, x)]
    BY DEF Grown
  <2>. QED
    BY <2>1, <2>2 DEF Kernels
<1>8. ASSUME NEW x \in AssessmentType PROVE Grown(m, "assessments", x) \in Kernels
  <2>1. Append(m.assessments, x) \in Seq(AssessmentType)
    BY Fields
  <2>2. Grown(m, "assessments", x) = [m EXCEPT !.assessments = Append(m.assessments, x)]
    BY DEF Grown
  <2>. QED
    BY <2>1, <2>2 DEF Kernels
<1>. QED
  BY <1>1, <1>2, <1>3, <1>4, <1>5, <1>6, <1>7, <1>8

\* What the host picks is what fits or one of the others.
LEMMA Picked ==
  ASSUME NEW family, NEW right, NEW any, NEW x \in Pick(family, right, any)
  PROVE  x = right \/ x \in any
BY DEF Pick

\* The host names revisions by their numbers.
LEMMA RevisionNumbers ==
  ASSUME memory \in Kernels, NEW family \in Families
  PROVE  Revisions(family) \subseteq Nat /\ LastRevision(family) \in Nat
<1>1. Len(memory[family]) \in Nat /\ DOMAIN memory[family] = 1 .. Len(memory[family])
  BY Lengths DEF Families
<1>. QED
  BY <1>1 DEF Revisions, LastRevision


\* A choice between a Boolean and the other one is one.
LEMMA PickedFlag ==
  ASSUME NEW family
  PROVE  /\ Pick(family, TRUE, {FALSE}) \subseteq BOOLEAN
         /\ Pick(family, FALSE, {TRUE}) \subseteq BOOLEAN
<1>1. ASSUME NEW x \in Pick(family, TRUE, {FALSE}) PROVE x \in BOOLEAN
  BY Zenon DEF Pick
<1>2. ASSUME NEW x \in Pick(family, FALSE, {TRUE}) PROVE x \in BOOLEAN
  BY Zenon DEF Pick
<1>. QED
  BY <1>1, <1>2

\* A frontier.
LEMMA FrontierRegistered ==
  ASSUME Sound(memory), NEW value \in OfferedFrontiers, FrontierRegistrable(memory, value)
  PROVE  LET r == Registered(memory, "frontiers", value)
         IN Extends(memory, r) /\ Sound(r) /\ Replayable(memory, "frontiers", value)
<1>. DEFINE x == Stamped(value, memory)
            r == Grown(memory, "frontiers", x)
<1>1. memory \in Kernels
  BY DEF Sound
<1>2. value \in [principal : Principals, access : Int]
  <2>1. memory.access[Acting] \in Int /\ memory.access[Acting] - 1 \in Int
    BY <1>1, Fields, PolicyAssumption
  <2>. QED
    BY <2>1, Picked, PolicyAssumption DEF OfferedFrontiers
<1>3. x = [principal |-> value.principal, access |-> value.access,
           world |-> World(memory)]
  BY <1>2 DEF Stamped
<1>4. x \in FrontierType
  BY <1>1, <1>2, <1>3, WorldType DEF FrontierType
<1>5. FrontierSound(x)
  BY <1>2, <1>3, WorldFields DEF FrontierRegistrable, FrontierSound
<1>6. Registered(memory, "frontiers", value) = r
  BY DEF Registered, Grown
<1>11. Replayable(memory, "frontiers", value)
  BY DEF Replayable
<1>. HIDE DEF x
<1>7. r \in Kernels
  BY <1>1, <1>4, GrownType
<1>8. memory["frontiers"] \in Seq(FrontierType) /\ "frontiers" \in Families
  BY <1>1, Fields DEF Families
<1>9. /\ Extends(memory, r) /\ r.epochLineage = memory.epochLineage /\ r.auths = memory.auths
      /\ \A g \in Families : g # "frontiers" => r[g] = memory[g]
      /\ \A i \in DOMAIN r["frontiers"] \ DOMAIN memory["frontiers"] : r["frontiers"][i] = x
  BY <1>1, <1>4, <1>8, Grows
<1>. HIDE DEF r
<1>10. NewSound(memory, r)
  BY <1>5, <1>9 DEF NewSound, Families, Sound
<1>. QED
  BY <1>6, <1>7, <1>9, <1>10, <1>11, SoundStays DEF r

\* A partition.
LEMMA PartitionRegistered ==
  ASSUME Sound(memory), NEW value \in OfferedPartitions, PartitionRegistrable(memory, value)
  PROVE  LET r == Registered(memory, "partitions", value)
         IN Extends(memory, r) /\ Sound(r) /\ Replayable(memory, "partitions", value)
<1>. DEFINE x == Stamped(value, memory)
            r == Grown(memory, "partitions", x)
<1>1. memory \in Kernels
  BY DEF Sound
<1>2. /\ value \in [principal : Principals, mission : Nat, canonical : Int, access : Nat,
                    epoch : Nat]
      /\ value.mission = memory.mission /\ value.access = memory.access[value.principal]
  <2>1. memory.canonical \in Int /\ memory.canonical - 1 \in Int
    BY <1>1, Fields
  <2>2. Len(memory.epochs) + 1 \in Nat /\ DOMAIN memory.epochs \subseteq Nat
    BY <1>1, Lengths
  <2>3. PICK p \in Principals, c \in Int, e \in Nat :
          value = [principal |-> p, mission |-> memory.mission, canonical |-> c,
                   access |-> memory.access[p], epoch |-> e]
    BY <2>1, <2>2, Picked, PolicyAssumption DEF OfferedPartitions
  <2>. QED
    BY <1>1, <2>3, Fields
<1>3. x = [principal |-> value.principal, mission |-> value.mission,
           canonical |-> value.canonical, access |-> value.access,
           epoch |-> value.epoch, world |-> World(memory)]
  BY <1>2 DEF Stamped
<1>4. x \in PartitionType
  BY <1>1, <1>2, <1>3, WorldType DEF PartitionType
<1>5. PartitionSound(x)
  BY <1>2, <1>3, WorldFields DEF PartitionRegistrable, PartitionSound
<1>6. Registered(memory, "partitions", value) = r
  BY DEF Registered, Grown
<1>11. Replayable(memory, "partitions", value)
  BY DEF Replayable
<1>. HIDE DEF x
<1>7. r \in Kernels
  BY <1>1, <1>4, GrownType
<1>8. memory["partitions"] \in Seq(PartitionType) /\ "partitions" \in Families
  BY <1>1, Fields DEF Families
<1>9. /\ Extends(memory, r) /\ r.epochLineage = memory.epochLineage /\ r.auths = memory.auths
      /\ \A g \in Families : g # "partitions" => r[g] = memory[g]
      /\ \A i \in DOMAIN r["partitions"] \ DOMAIN memory["partitions"] : r["partitions"][i] = x
  BY <1>1, <1>4, <1>8, Grows
<1>. HIDE DEF r
<1>10. NewSound(memory, r)
  BY <1>5, <1>9 DEF NewSound, Families, Sound
<1>. QED
  BY <1>6, <1>7, <1>9, <1>10, <1>11, SoundStays DEF r

\* A node.
LEMMA NodeRegistered ==
  ASSUME Sound(memory), NEW value \in OfferedNodes, NodeRegistrable(memory, value)
  PROVE  LET r == Registered(memory, "nodes", value)
         IN Extends(memory, r) /\ Sound(r) /\ Replayable(memory, "nodes", value)
<1>. DEFINE x == Stamped(value, memory)
            r == Grown(memory, "nodes", x)
<1>1. memory \in Kernels
  BY DEF Sound
<1>2. value \in [principal : Principals, executors : SUBSET Principals, epoch : Nat,
                 partition : Nat, frontier : Nat, snapshot : Snapshots,
                 candidates : SUBSET Actions, selected : SUBSET Actions, sealed : BOOLEAN]
  <2>1. PICK p \in Pick("nodes", Acting, Principals), e \in DOMAIN memory.epochs :
          value \in NodesOf(p, e)
    BY DEF OfferedNodes, NodeChoices
  <2>2. p \in Principals
    BY Picked, PolicyAssumption
  <2>3. Revisions("partitions") \subseteq Nat /\ LastRevision("partitions") \in Nat
    BY <1>1, RevisionNumbers DEF Families
  <2>4. Pick("nodes", LastRevision("partitions"), Revisions("partitions")) \subseteq Nat
    BY <2>3, Picked
  <2>5. memory.epochs[e].frontier \in Nat /\ memory.epochs[e].snapshot \in Snapshots /\ e \in Nat
    <3>1. memory.epochs[e] \in EpochType /\ e \in Nat
      BY <1>1, Fields, Lengths
    <3>. QED
      BY <3>1 DEF EpochType
  <2>6. memory.actions \subseteq Actions
    BY <1>1, Fields
  <2>7. Pick("nodes", memory.actions, SUBSET memory.actions) \subseteq SUBSET Actions
    BY <2>6, Picked
  <2>8. Pick("nodes", TRUE, {FALSE}) \subseteq BOOLEAN
    BY PickedFlag
  <2>. QED
    BY <2>1, <2>2, <2>4, <2>5, <2>6, <2>7, <2>8 DEF NodesOf
<1>3. x = [principal |-> value.principal, executors |-> value.executors,
           epoch |-> value.epoch, partition |-> value.partition,
           frontier |-> value.frontier, snapshot |-> value.snapshot,
           candidates |-> value.candidates, selected |-> value.selected,
           sealed |-> value.sealed, world |-> World(memory)]
  BY <1>2 DEF Stamped
<1>4. x \in NodeType
  BY <1>1, <1>2, <1>3, WorldType DEF NodeType
<1>5. NodeSound(memory, x)
  <2>1. NodeRegistrable(memory, value)
    OBVIOUS
  <2>2. /\ value.epoch \in DOMAIN memory.epochs /\ value.partition \in DOMAIN memory.partitions
        /\ value.frontier \in DOMAIN memory.frontiers
        /\ value.snapshot = memory.epochs[value.epoch].snapshot
    BY <2>1 DEF NodeRegistrable
  <2>3. NoLater(memory.epochs[value.epoch].world, World(memory))
    BY <2>2 DEF Sound, EpochSound
  <2>4. NoLater(World(memory), World(memory))
    BY <1>1, WorldType, NoLaterReflexive
  <2>5. /\ x.epoch = value.epoch /\ x.partition = value.partition
        /\ x.frontier = value.frontier /\ x.snapshot = value.snapshot
        /\ x.world = World(memory)
    BY <1>3
  <2>. QED
    BY <2>2, <2>3, <2>4, <2>5 DEF NodeSound
<1>6. Registered(memory, "nodes", value) = r
  BY DEF Registered, Grown
<1>11. Replayable(memory, "nodes", value)
  <2>1. NodeRegistrable(memory, value)
    OBVIOUS
  <2>. QED
    BY <2>1 DEF Replayable, NodeRegistrable
<1>. HIDE DEF x
<1>7. r \in Kernels
  BY <1>1, <1>4, GrownType
<1>8. memory["nodes"] \in Seq(NodeType) /\ "nodes" \in Families
  BY <1>1, Fields DEF Families
<1>9. /\ Extends(memory, r) /\ r.epochLineage = memory.epochLineage /\ r.auths = memory.auths
      /\ \A g \in Families : g # "nodes" => r[g] = memory[g]
      /\ \A i \in DOMAIN r["nodes"] \ DOMAIN memory["nodes"] : r["nodes"][i] = x
  BY <1>1, <1>4, <1>8, Grows
<1>. HIDE DEF r
<1>10. NewSound(memory, r)
  <2>1. NodeSound(r, x)
    BY <1>1, <1>4, <1>5, <1>7, <1>9, NodeStays
  <2>. QED
    BY <1>9, <2>1 DEF NewSound, Families, Sound
<1>. QED
  BY <1>6, <1>7, <1>9, <1>10, <1>11, SoundStays DEF r

\* A selection.
LEMMA SelectionRegistered ==
  ASSUME Sound(memory), NEW value \in OfferedSelections, SelectionRegistrable(memory, value)
  PROVE  LET r == Registered(memory, "selections", value)
         IN Extends(memory, r) /\ Sound(r) /\ Replayable(memory, "selections", value)
<1>. DEFINE x == Stamped(value, memory)
            r == Grown(memory, "selections", x)
<1>1. memory \in Kernels
  BY DEF Sound
<1>2. /\ value \in [principal : Principals, partition : Nat, actions : SUBSET Actions,
                    action : Actions, superseded : BOOLEAN,
                    generations : [plan : Int] \cup [evidence : Int]]
      /\ value.actions = memory.actions /\ value.action \in memory.actions
      /\ "plan" \in DOMAIN value.generations =>
           value.generations["plan"] <= memory.generation
  <2>1. Revisions("partitions") \subseteq Nat /\ LastRevision("partitions") \in Nat
    BY <1>1, RevisionNumbers DEF Families
  <2>2. Pick("selections", LastRevision("partitions"), Revisions("partitions")) \subseteq Nat
    BY <2>1, Picked
  <2>3. memory.generation \in Nat /\ memory.actions \subseteq Actions
    BY <1>1, Fields
  <2>4. value.generations \in {[plan |-> memory.generation], [plan |-> memory.generation - 1],
                               [evidence |-> 0]}
    BY Picked DEF OfferedSelections
  <2>5. /\ value.generations \in [plan : Int] \cup [evidence : Int]
        /\ "plan" \in DOMAIN value.generations =>
             value.generations["plan"] <= memory.generation
    BY <2>3, <2>4
  <2>6. /\ value.actions = memory.actions /\ value.action \in memory.actions
        /\ value.principal = Acting /\ value.partition \in Nat
        /\ value.superseded \in BOOLEAN
        /\ value = [principal |-> value.principal, partition |-> value.partition,
                    actions |-> value.actions, action |-> value.action,
                    superseded |-> value.superseded, generations |-> value.generations]
    BY <2>2 DEF OfferedSelections
  <2>. QED
    BY <2>3, <2>5, <2>6, PolicyAssumption
<1>3. x = [principal |-> value.principal, partition |-> value.partition,
           actions |-> value.actions, action |-> value.action,
           superseded |-> value.superseded, generations |-> value.generations,
           world |-> World(memory)]
  BY <1>2 DEF Stamped
<1>4. x \in SelectionType
  BY <1>1, <1>2, <1>3, WorldType DEF SelectionType
<1>5. SelectionSound(memory, x)
  <2>1. SameGeneration(World(memory), World(memory))
    BY DEF SameGeneration, SamePlan
  <2>2. value.partition \in DOMAIN memory.partitions
    BY DEF SelectionRegistrable
  <2>3. /\ x.partition = value.partition /\ x.action = value.action
        /\ x.actions = value.actions /\ x.generations = value.generations
        /\ x.world = World(memory)
    BY <1>3
  <2>. QED
    BY <1>2, <2>1, <2>2, <2>3, WorldFields DEF SelectionSound
<1>6. Registered(memory, "selections", value) = r
  BY DEF Registered, Grown
<1>11. Replayable(memory, "selections", value)
  BY DEF Replayable
<1>. HIDE DEF x
<1>7. r \in Kernels
  BY <1>1, <1>4, GrownType
<1>8. memory["selections"] \in Seq(SelectionType) /\ "selections" \in Families
  BY <1>1, Fields DEF Families
<1>9. /\ Extends(memory, r) /\ r.epochLineage = memory.epochLineage /\ r.auths = memory.auths
      /\ \A g \in Families : g # "selections" => r[g] = memory[g]
      /\ \A i \in DOMAIN r["selections"] \ DOMAIN memory["selections"] : r["selections"][i] = x
  BY <1>1, <1>4, <1>8, Grows
<1>. HIDE DEF r
<1>10. NewSound(memory, r)
  <2>1. SelectionSound(r, x)
    BY <1>1, <1>4, <1>5, <1>7, <1>9, SelectionStays
  <2>. QED
    BY <1>9, <2>1 DEF NewSound, Families, Sound
<1>. QED
  BY <1>6, <1>7, <1>9, <1>10, <1>11, SoundStays DEF r

\* A sufficiency certificate.
LEMMA SufficiencyRegistered ==
  ASSUME Sound(memory), NEW value \in OfferedSufficiency, SufficiencyRegistrable(memory, value)
  PROVE  LET r == Registered(memory, "sufficiency", value)
         IN Extends(memory, r) /\ Sound(r) /\ Replayable(memory, "sufficiency", value)
<1>. DEFINE x == Stamped(value, memory)
            r == Grown(memory, "sufficiency", x)
<1>1. memory \in Kernels
  BY DEF Sound
<1>2. value \in [action : Actions, epoch : Nat, principal : Principals, partition : Nat,
                 node : Nat, complete : BOOLEAN, covers : BOOLEAN]
  <2>1. /\ Revisions("partitions") \subseteq Nat /\ LastRevision("partitions") \in Nat
        /\ Revisions("epochs") \subseteq Nat /\ LastRevision("epochs") \in Nat
        /\ Revisions("nodes") \subseteq Nat /\ LastRevision("nodes") \in Nat
    BY <1>1, RevisionNumbers DEF Families
  <2>2. /\ Pick("sufficiency", LastRevision("partitions"), Revisions("partitions"))
             \subseteq Nat
        /\ Pick("sufficiency", LastRevision("epochs"), Revisions("epochs")) \subseteq Nat
        /\ Pick("sufficiency", LastRevision("nodes"), Revisions("nodes")) \subseteq Nat
    BY <2>1, Picked
  <2>3. Pick("sufficiency", TRUE, {FALSE}) \subseteq BOOLEAN
    BY PickedFlag
  <2>4. memory.actions \subseteq Actions
    BY <1>1, Fields
  <2>. QED
    BY <2>2, <2>3, <2>4, PolicyAssumption DEF OfferedSufficiency
<1>3. x = [action |-> value.action, epoch |-> value.epoch,
           principal |-> value.principal, partition |-> value.partition,
           node |-> value.node, complete |-> value.complete, covers |-> value.covers,
           world |-> World(memory)]
  BY <1>2 DEF Stamped
<1>4. x \in SufficiencyType
  BY <1>1, <1>2, <1>3, WorldType DEF SufficiencyType
<1>5. SufficiencySound(memory, x)
  <2>1. /\ value.epoch \in DOMAIN memory.epochs /\ value.partition \in DOMAIN memory.partitions
        /\ value.action \in memory.actions
    BY DEF SufficiencyRegistrable
  <2>2. NoLater(memory.epochs[value.epoch].world, World(memory))
    BY <2>1 DEF Sound, EpochSound
  <2>3. NoLater(World(memory), World(memory))
    BY <1>1, WorldType, NoLaterReflexive
  <2>4. /\ x.epoch = value.epoch /\ x.partition = value.partition
        /\ x.action = value.action /\ x.world = World(memory)
    BY <1>3
  <2>. QED
    BY <2>1, <2>2, <2>3, <2>4 DEF SufficiencySound
<1>6. Registered(memory, "sufficiency", value) = r
  BY DEF Registered, Grown
<1>11. Replayable(memory, "sufficiency", value)
  BY DEF Replayable
<1>. HIDE DEF x
<1>7. r \in Kernels
  BY <1>1, <1>4, GrownType
<1>8. memory["sufficiency"] \in Seq(SufficiencyType) /\ "sufficiency" \in Families
  BY <1>1, Fields DEF Families
<1>9. /\ Extends(memory, r) /\ r.epochLineage = memory.epochLineage /\ r.auths = memory.auths
      /\ \A g \in Families : g # "sufficiency" => r[g] = memory[g]
      /\ \A i \in DOMAIN r["sufficiency"] \ DOMAIN memory["sufficiency"] : r["sufficiency"][i] = x
  BY <1>1, <1>4, <1>8, Grows
<1>. HIDE DEF r
<1>10. NewSound(memory, r)
  <2>1. SufficiencySound(r, x)
    BY <1>1, <1>4, <1>5, <1>7, <1>9, SufficiencyStays
  <2>. QED
    BY <1>9, <2>1 DEF NewSound, Families, Sound
<1>. QED
  BY <1>6, <1>7, <1>9, <1>10, <1>11, SoundStays DEF r

\* A seal, or an invalidation of the last one.
LEMMA SealRegistered ==
  ASSUME Sound(memory), NEW value \in OfferedSeals, SealRegistrable(memory, value)
  PROVE  LET r == Registered(memory, "seals", value)
         IN Extends(memory, r) /\ Sound(r) /\ Replayable(memory, "seals", value)
<1>. DEFINE x == Stamped(value, memory)
            r == Grown(memory, "seals", x)
<1>1. memory \in Kernels
  BY DEF Sound
<1>2. value \in [sufficiency : Nat, mission : Nat, canonical : Nat,
                 status : CurrentSeals \cup {"stale", "revoked"}, covers : BOOLEAN]
  <2>1. CASE value \in NewSeals
    <3>1. /\ Revisions("sufficiency") \subseteq Nat /\ LastRevision("sufficiency") \in Nat
          /\ memory.mission \in Nat /\ memory.canonical \in Nat
      BY <1>1, RevisionNumbers, Fields DEF Families
    <3>2. Pick("seals", LastRevision("sufficiency"), Revisions("sufficiency")) \subseteq Nat
      BY <3>1, Picked
    <3>3. Pick("seals", TRUE, {FALSE}) \subseteq BOOLEAN
      BY PickedFlag
    <3>. QED
      BY <2>1, <3>1, <3>2, <3>3 DEF NewSeals, CurrentSeals
  <2>2. CASE memory.seals # <<>> /\ value \in InvalidationsOf(memory.seals[Len(memory.seals)])
    <3>. DEFINE seal == memory.seals[Len(memory.seals)]
    <3>1. seal \in SealType
      BY <1>1, <2>2, Fields
    <3>2. Invalidations(seal.status) \subseteq {"stale", "revoked"}
      BY <3>1 DEF SealType, Invalidations
    <3>3. Unregistered(seal) \in
            [sufficiency : Nat, mission : Nat, canonical : Nat,
             status : CurrentSeals \cup {"stale", "revoked"}, covers : BOOLEAN]
      BY <3>1 DEF SealType, Unregistered
    <3>. HIDE DEF seal
    <3>4. PICK status \in {"stale", "revoked"} :
            value = [Unregistered(seal) EXCEPT !.status = status]
      BY <2>2, <3>2 DEF InvalidationsOf, seal
    <3>. QED
      BY <3>3, <3>4
  <2>. QED
    BY <2>1, <2>2 DEF OfferedSeals
<1>3. x = [sufficiency |-> value.sufficiency, mission |-> value.mission,
           canonical |-> value.canonical, status |-> value.status,
           covers |-> value.covers, world |-> World(memory)]
  BY <1>2 DEF Stamped
<1>4. x \in SealType
  BY <1>1, <1>2, <1>3, WorldType DEF SealType
<1>5. SealSound(memory, x)
  <2>1. value.sufficiency \in DOMAIN memory.sufficiency
    BY DEF SealRegistrable
  <2>2. NoLater(memory.sufficiency[value.sufficiency].world, World(memory))
    BY <2>1 DEF Sound, SufficiencySound
  <2>3. NoLater(World(memory), World(memory))
    BY <1>1, WorldType, NoLaterReflexive
  <2>4. x.sufficiency = value.sufficiency /\ x.world = World(memory)
    BY <1>3
  <2>. QED
    BY <2>1, <2>2, <2>3, <2>4 DEF SealSound
<1>6. Registered(memory, "seals", value) = r
  BY DEF Registered, Grown
<1>11. Replayable(memory, "seals", value)
  BY DEF Replayable
<1>. HIDE DEF x
<1>7. r \in Kernels
  BY <1>1, <1>4, GrownType
<1>8. memory["seals"] \in Seq(SealType) /\ "seals" \in Families
  BY <1>1, Fields DEF Families
<1>9. /\ Extends(memory, r) /\ r.epochLineage = memory.epochLineage /\ r.auths = memory.auths
      /\ \A g \in Families : g # "seals" => r[g] = memory[g]
      /\ \A i \in DOMAIN r["seals"] \ DOMAIN memory["seals"] : r["seals"][i] = x
  BY <1>1, <1>4, <1>8, Grows
<1>. HIDE DEF r
<1>10. NewSound(memory, r)
  <2>1. SealSound(r, x)
    BY <1>1, <1>4, <1>5, <1>7, <1>9, SealStays
  <2>. QED
    BY <1>9, <2>1 DEF NewSound, Families, Sound
<1>. QED
  BY <1>6, <1>7, <1>9, <1>10, <1>11, SoundStays DEF r

\* An assessment.
LEMMA AssessmentRegistered ==
  ASSUME Sound(memory), NEW value \in OfferedAssessments, AssessmentRegistrable(memory, value)
  PROVE  LET r == Registered(memory, "assessments", value)
         IN /\ Extends(memory, r) /\ Sound(r)
            /\ Stamped(value, memory).partition = value.partition
<1>. DEFINE x == Stamped(value, memory)
            r == Grown(memory, "assessments", x)
<1>1. memory \in Kernels
  BY DEF Sound
<1>2. value \in [status : BoundedExecutability \cup {"EXEC_PARTIAL"}, action : Actions,
                 mission : Nat, plan : Nat, node : Nat, partition : Nat,
                 actions : SUBSET Actions, seal : CurrentSeals, mixed : BOOLEAN]
  <2>1. /\ Revisions("nodes") \subseteq Nat /\ LastRevision("nodes") \in Nat
        /\ Revisions("partitions") \subseteq Nat /\ LastRevision("partitions") \in Nat
    BY <1>1, RevisionNumbers DEF Families
  <2>2. Pick("assessments", LastRevision("nodes"), Revisions("nodes")) \subseteq Nat
    BY <2>1, Picked
  <2>3. /\ memory.mission \in Nat /\ memory.plan \in Nat /\ memory.actions \subseteq Actions
        /\ Len(memory.partitions) + 1 \in Nat
    BY <1>1, Fields, Lengths
  <2>6. Pick("assessments", LastRevision("partitions"),
             Revisions("partitions") \cup {Len(memory.partitions) + 1}) \subseteq Nat
    BY <2>1, <2>3, Picked
  <2>4. Pick("assessments", "EXEC_BOUNDED", {"EXEC_PARTIAL"})
          \subseteq BoundedExecutability \cup {"EXEC_PARTIAL"}
    BY Picked DEF BoundedExecutability
  <2>5. Pick("assessments", FALSE, {TRUE}) \subseteq BOOLEAN
    BY PickedFlag
  <2>. QED
    BY <2>2, <2>3, <2>4, <2>5, <2>6 DEF OfferedAssessments, CurrentSeals
<1>3. x = [status |-> value.status, action |-> value.action, mission |-> value.mission,
           plan |-> value.plan, node |-> value.node, partition |-> value.partition,
           actions |-> value.actions, seal |-> value.seal, mixed |-> value.mixed,
           world |-> World(memory)]
  BY <1>2 DEF Stamped
<1>11. x.partition = value.partition
  BY <1>3
<1>4. x \in AssessmentType
  BY <1>1, <1>2, <1>3, WorldType DEF AssessmentType
<1>5. AssessmentSound(memory, x)
  <2>1. value.node \in DOMAIN memory.nodes
    BY DEF AssessmentRegistrable
  <2>2. NoLater(memory.nodes[value.node].world, World(memory))
    BY <2>1 DEF Sound, NodeSound
  <2>3. NoLater(World(memory), World(memory))
    BY <1>1, WorldType, NoLaterReflexive
  <2>4. x.node = value.node /\ x.world = World(memory)
    BY <1>3
  <2>. QED
    BY <1>2, <2>1, <2>2, <2>3, <2>4 DEF AssessmentSound
<1>6. Registered(memory, "assessments", value) = r
  BY DEF Registered, Grown
<1>. HIDE DEF x
<1>7. r \in Kernels
  BY <1>1, <1>4, GrownType
<1>8. memory["assessments"] \in Seq(AssessmentType) /\ "assessments" \in Families
  BY <1>1, Fields DEF Families
<1>9. /\ Extends(memory, r) /\ r.epochLineage = memory.epochLineage /\ r.auths = memory.auths
      /\ \A g \in Families : g # "assessments" => r[g] = memory[g]
      /\ \A i \in DOMAIN r["assessments"] \ DOMAIN memory["assessments"] : r["assessments"][i] = x
  BY <1>1, <1>4, <1>8, Grows
<1>. HIDE DEF r
<1>10. NewSound(memory, r)
  <2>1. AssessmentSound(r, x)
    BY <1>1, <1>4, <1>5, <1>7, <1>9, AssessmentStays
  <2>. QED
    BY <1>9, <2>1 DEF NewSound, Families, Sound
<1>. QED
  BY <1>6, <1>7, <1>9, <1>10, <1>11, SoundStays DEF r, x

EpochGrown(m, x, lineage) ==
  [m EXCEPT !.epochs = Append(@, x), !.epochLineage = Append(@, lineage)]

\* An epoch with its lineage is added, and everything else is as it was.
LEMMA EpochGrows ==
  ASSUME NEW m \in Kernels, NEW x \in EpochType, NEW lineage \in LineageType
  PROVE  LET r == EpochGrown(m, x, lineage)
         IN /\ r \in Kernels /\ Extends(m, r) /\ World(r) = World(m)
            /\ r.plan = m.plan /\ r.auths = m.auths
            /\ \A g \in Families : g # "epochs" => r[g] = m[g]
            /\ r.epochs = Append(m.epochs, x)
            /\ r.epochLineage = Append(m.epochLineage, lineage)
<1>. DEFINE r == EpochGrown(m, x, lineage)
<1>1. r \in Kernels
  <2>1. /\ Append(m.epochs, x) \in Seq(EpochType)
        /\ Append(m.epochLineage, lineage) \in Seq(LineageType)
    BY Fields
  <2>. QED
    BY <2>1 DEF Kernels, EpochGrown
<1>2. /\ r.mission = m.mission /\ r.canonical = m.canonical /\ r.location = m.location
      /\ r.regime = m.regime /\ r.access = m.access /\ r.actions = m.actions
      /\ r.plan = m.plan /\ r.generation = m.generation /\ r.auths = m.auths
      /\ r.epochs = Append(m.epochs, x)
      /\ r.epochLineage = Append(m.epochLineage, lineage)
  BY DEF Kernels, EpochGrown
<1>3. \A g \in Families : g # "epochs" => r[g] = m[g]
  BY DEF Kernels, EpochGrown, Families
<1>. HIDE DEF r
<1>4. World(r) = World(m)
  BY <1>2 DEF World
<1>5. Forward(m, r)
  BY <1>2, <1>4, WorldType, NoLaterReflexive, Fields DEF Forward, SamePlan, SameGeneration
<1>6. Continues(m.epochs, r.epochs) /\ Continues(m.epochLineage, r.epochLineage)
  BY <1>2, Fields, ContinuesAppend
<1>7. ASSUME NEW g \in Families, g # "epochs" PROVE Continues(m[g], r[g])
  <2>1. Len(m[g]) \in Nat
    BY Lengths DEF Families
  <2>2. r[g] = m[g]
    BY <1>3, <1>7
  <2>. QED
    BY <2>1, <2>2 DEF Continues
<1>8. Extends(m, r)
  BY <1>5, <1>6, <1>7 DEF Extends, Families
<1>. QED
  BY <1>1, <1>2, <1>3, <1>4, <1>8 DEF r

\* An epoch.
LEMMA EpochRegistered ==
  ASSUME Sound(memory), NEW value \in OfferedEpochs, EpochRegistrable(memory, value)
  PROVE  LET r == Registered(memory, "epochs", value)
         IN Extends(memory, r) /\ Sound(r) /\ Replayable(memory, "epochs", value)
<1>. DEFINE x == Stamped(value, memory)
            lineage == EpochLineage(memory, value.principal)
            r == EpochGrown(memory, x, lineage)
            k == Len(memory.epochs) + 1
<1>1. memory \in Kernels
  BY DEF Sound
<1>2. /\ value \in [principal : Principals, partition : Nat, frontier : Nat, access : Nat,
                    snapshot : Snapshots, until : Nat]
      /\ value.snapshot = Snapshot(memory) /\ value.principal = Acting
      /\ value.access = memory.access[Acting]
  <2>1. /\ Revisions("partitions") \subseteq Nat /\ LastRevision("partitions") \in Nat
        /\ Revisions("frontiers") \subseteq Nat /\ LastRevision("frontiers") \in Nat
    BY <1>1, RevisionNumbers DEF Families
  <2>2. /\ Pick("epochs", LastRevision("partitions"), Revisions("partitions")) \subseteq Nat
        /\ Pick("epochs", LastRevision("frontiers"), Revisions("frontiers")) \subseteq Nat
        /\ Pick("epochs", 2, {1}) \subseteq Nat
    BY <2>1, Picked
  <2>3. Snapshot(memory) \in Snapshots /\ memory.access[Acting] \in Nat
    BY <1>1, Fields, PolicyAssumption DEF Snapshot, Snapshots
  <2>. QED
    BY <2>2, <2>3, PolicyAssumption DEF OfferedEpochs
<1>3. x = [principal |-> value.principal, partition |-> value.partition,
           frontier |-> value.frontier, access |-> value.access,
           snapshot |-> value.snapshot, until |-> value.until, world |-> World(memory)]
  BY <1>2 DEF Stamped
<1>4. x \in EpochType
  BY <1>1, <1>2, <1>3, WorldType DEF EpochType
<1>5. lineage \in LineageType
  BY <1>1, <1>2, Fields DEF EpochLineage, LineageType
<1>6. Registered(memory, "epochs", value) = r
  <2>1. Registered(memory, "epochs", value) =
          [[memory EXCEPT !.epochs = Append(@, x)] EXCEPT !.epochLineage = Append(@, lineage)]
    BY DEF Registered
  <2>2. memory.epochLineage = [memory EXCEPT !.epochs = Append(@, x)].epochLineage
    BY <1>1 DEF Kernels
  <2>. QED
    BY <1>1, <2>1, <2>2 DEF EpochGrown, Kernels
<1>7. EpochRegistrable(memory, value)
  OBVIOUS
<1>8. /\ value.partition \in DOMAIN memory.partitions
      /\ value.frontier \in DOMAIN memory.frontiers
      /\ memory.partitions[value.partition].epoch = k
  BY <1>7 DEF EpochRegistrable
<1>9. Replayable(memory, "epochs", value)
  BY <1>8 DEF Replayable
<1>10. /\ x.principal = Acting /\ x.partition = value.partition /\ x.frontier = value.frontier
       /\ x.access = memory.access[Acting] /\ x.world = World(memory)
       /\ x.snapshot = Snapshot(memory)
  BY <1>2, <1>3
<1>11. lineage = EpochLineage(memory, Acting)
  BY <1>2
<1>. HIDE DEF x, lineage
<1>12. /\ r \in Kernels /\ Extends(memory, r) /\ World(r) = World(memory)
       /\ r.plan = memory.plan /\ r.auths = memory.auths
       /\ \A g \in Families : g # "epochs" => r[g] = memory[g]
       /\ r.epochs = Append(memory.epochs, x)
       /\ r.epochLineage = Append(memory.epochLineage, lineage)
  BY <1>1, <1>4, <1>5, EpochGrows
<1>. HIDE DEF r
<1>13. /\ DOMAIN r.epochs = DOMAIN memory.epochs \cup {k} /\ r.epochs[k] = x
       /\ DOMAIN r.epochLineage = DOMAIN memory.epochs \cup {k} /\ r.epochLineage[k] = lineage
  <2>1. memory.epochs \in Seq(EpochType) /\ memory.epochLineage \in Seq(LineageType)
    BY <1>1, Fields
  <2>2. DOMAIN memory.epochLineage = DOMAIN memory.epochs
    BY DEF Sound
  <2>3. Len(memory.epochLineage) = Len(memory.epochs)
    BY <1>1, <2>2, Lengths
  <2>. QED
    BY <1>4, <1>5, <1>12, <2>1, <2>2, <2>3, ContinuesAppend
<1>14. EpochSound(r, k)
  <2>1. r.partitions = memory.partitions /\ r.frontiers = memory.frontiers
    BY <1>12 DEF Families
  <2>2. /\ x.snapshot.mission = x.world.mission /\ x.snapshot.location = x.world.location
        /\ x.snapshot.actions = x.world.actions /\ x.snapshot.plan = memory.plan
        /\ x.access = x.world.access[x.principal]
    BY <1>10, WorldFields DEF Snapshot
  <2>3. lineage = [mission |-> x.world.mission, canonical |-> x.world.canonical,
                   location |-> x.world.location, regime |-> x.world.regime,
                   access |-> x.access]
    BY <1>10, <1>11, WorldFields DEF EpochLineage
  <2>4. NoLater(x.world, World(r))
    BY <1>1, <1>10, <1>12, WorldType, NoLaterReflexive
  <2>5. SamePlan(x.world, World(r)) /\ memory.plan <= r.plan
    BY <1>1, <1>10, <1>12, Fields DEF SamePlan
  <2>6. /\ x.partition \in DOMAIN r.partitions /\ x.frontier \in DOMAIN r.frontiers
        /\ r.partitions[x.partition].epoch = k
    BY <1>8, <1>10, <2>1
  <2>. HIDE DEF k
  <2>7. r.epochs[k] = x /\ r.epochLineage[k] = lineage
    BY <1>13
  <2>. QED
    BY <2>2, <2>3, <2>4, <2>5, <2>6, <2>7 DEF EpochSound
<1>15. NewSound(memory, r)
  BY <1>12, <1>13, <1>14 DEF NewSound, Families
<1>. QED
  BY <1>6, <1>9, <1>12, <1>15, SoundStays DEF r

\* Whatever the host offers and the kernel accepts leaves the registries sound, and the replay
\* of its entry accepts it too, an assessment if its partition is registered.
LEMMA RegisteredSound ==
  ASSUME Sound(memory), NEW family \in Families, NEW value \in Offered(family),
         Registrable(memory, family, value)
  PROVE  LET r == Registered(memory, family, value)
         IN /\ Extends(memory, r) /\ Sound(r)
            /\ \/ Replayable(memory, family, value)
               \/ family = "assessments" /\ value.partition \notin DOMAIN memory.partitions
            /\ family = "assessments" => Stamped(value, memory).partition = value.partition
<1>1. CASE family = "frontiers"
  BY <1>1, FrontierRegistered DEF Offered, Registrable
<1>2. CASE family = "partitions"
  BY <1>2, PartitionRegistered DEF Offered, Registrable
<1>3. CASE family = "epochs"
  BY <1>3, EpochRegistered DEF Offered, Registrable
<1>4. CASE family = "nodes"
  BY <1>4, NodeRegistered DEF Offered, Registrable
<1>5. CASE family = "selections"
  BY <1>5, SelectionRegistered DEF Offered, Registrable
<1>6. CASE family = "sufficiency"
  BY <1>6, SufficiencyRegistered DEF Offered, Registrable
<1>7. CASE family = "seals"
  BY <1>7, SealRegistered DEF Offered, Registrable
<1>8. CASE family = "assessments"
  BY <1>8, AssessmentRegistered
  DEF Offered, Registrable, AssessmentRegistrable, Replayable
<1>. QED
  BY <1>1, <1>2, <1>3, <1>4, <1>5, <1>6, <1>7, <1>8 DEF Families

\* What is registered in other registries leaves the assessments as they are.
LEMMA RegisteredElsewhere ==
  ASSUME NEW m \in Kernels, NEW family \in Families, NEW value
  PROVE  LET r == Registered(m, family, value)
         IN r.assessments = IF family = "assessments"
                            THEN Append(m.assessments, Stamped(value, m)) ELSE m.assessments
BY DEF Registered, Families, Kernels

\* So what the replay accepts leaves the assessments placed.
LEMMA RegisteredPlaced ==
  ASSUME NEW m \in Kernels, NEW family \in Families, NEW value, Placed(m),
         Registered(m, family, value) \in Kernels, Extends(m, Registered(m, family, value)),
         Replayable(m, family, value),
         family = "assessments" => Stamped(value, m).partition = value.partition
  PROVE  Placed(Registered(m, family, value))
<1>. DEFINE r == Registered(m, family, value)
            x == Stamped(value, m)
<1>1. r.assessments = IF family = "assessments" THEN Append(m.assessments, x) ELSE m.assessments
  BY RegisteredElsewhere
<1>. HIDE DEF r, x
<1>2. DOMAIN m.partitions \subseteq DOMAIN r.partitions
  BY PartitionKept DEF r
<1>3. CASE family # "assessments"
  BY <1>1, <1>2, <1>3 DEF Placed, r
<1>4. CASE family = "assessments"
  <2>1. x.partition \in DOMAIN m.partitions
    BY <1>4 DEF Replayable, x
  <2>2. m.assessments \in Seq(AssessmentType \cup {x})
    BY Fields
  <2>3. \A i \in DOMAIN Append(m.assessments, x) :
          \/ i \in DOMAIN m.assessments /\ Append(m.assessments, x)[i] = m.assessments[i]
          \/ Append(m.assessments, x)[i] = x
    BY <2>2
  <2>. QED
    BY <1>1, <1>2, <1>4, <2>1, <2>3 DEF Placed, r
<1>. QED
  BY <1>3, <1>4

-----------------------------------------------------------------------------
(* The replay of the entries of an operation.                               *)

\* What up to three entries replay to.
LEMMA ReplayUnrolled ==
  ASSUME NEW S, NEW es \in Seq(S), Len(es) \in 0 .. 3, NEW d
  PROVE  LET d1 == Replayed(d, es[1])
             d2 == Replayed(d1, es[2])
             d3 == Replayed(d2, es[3])
         IN /\ Len(es) = 0 => ReplayAll(es, d) = d
            /\ Len(es) = 1 => ReplayAll(es, d) = d1
            /\ Len(es) = 2 => ReplayAll(es, d) = d2
            /\ Len(es) = 3 => ReplayAll(es, d) = d3
<1>. DEFINE Unrolled(f) == [i \in 0 .. Len(es) |->
              IF i = 0 THEN d ELSE Replayed(f[i - 1], es[i])]
            after == CHOOSE f : f = Unrolled(f)
            d1 == Replayed(d, es[1])
            d2 == Replayed(d1, es[2])
            d3 == Replayed(d2, es[3])
            g == [i \in 0 .. Len(es) |-> IF i = 0 THEN d ELSE IF i = 1 THEN d1
                                         ELSE IF i = 2 THEN d2 ELSE d3]
<1>1. ReplayAll(es, d) = after[Len(es)]
  BY DEF ReplayAll
<1>2. g = Unrolled(g)
  OBVIOUS
<1>3. after = Unrolled(after)
  BY <1>2
<1>. HIDE DEF after
<1>4. \A i \in 0 .. Len(es) :
        after[i] = IF i = 0 THEN d ELSE Replayed(after[i - 1], es[i])
  BY <1>3
<1>5. after[0] = d
  BY <1>4
<1>6. Len(es) >= 1 => after[1] = d1
  BY <1>4, <1>5
<1>7. Len(es) >= 2 => after[2] = d2
  BY <1>4, <1>6
<1>8. Len(es) >= 3 => after[3] = d3
  BY <1>4, <1>7
<1>. HIDE DEF d1, d2, d3
<1>9. Len(es) = 0 => ReplayAll(es, d) = d
  BY <1>1, <1>5
<1>10. ASSUME Len(es) = 1 PROVE ReplayAll(es, d) = d1
  BY <1>1, <1>6, <1>10
<1>11. ASSUME Len(es) = 2 PROVE ReplayAll(es, d) = d2
  BY <1>1, <1>7, <1>11
<1>12. ASSUME Len(es) = 3 PROVE ReplayAll(es, d) = d3
  BY <1>1, <1>8, <1>12
<1>. QED
  BY <1>9, <1>10, <1>11, <1>12 DEF d1, d2, d3

\* The kernel m after n more entries.
Counted(m, n) == [m EXCEPT !.sequence = @ + n]

\* What one entry recorded, or a crash before it, leaves.
LEMMA OneEntry ==
  ASSUME durable = memory, memory \in Kernels, NEW m, NEW e,
         Replayed(memory, e) = Counted(m, 1)
  PROVE  /\ Done(m, <<e>>) => memory' = Counted(m, 1) /\ durable' = memory'
         /\ \A k \in 0 .. 0 : Torn(<<e>>, k) => memory' = memory /\ durable' = memory'
<1>. DEFINE es == <<e>>
            none == SubSeq(es, 1, 0)
<1>1. /\ es \in Seq({e}) /\ Len(es) = 1 /\ es[1] = e
      /\ none \in Seq({e}) /\ Len(none) = 0
  OBVIOUS
<1>6. SubSeq(es, 1, 0) = none
  OBVIOUS
<1>. HIDE DEF es, none
<1>2. ReplayAll(es, durable) = Counted(m, 1)
  <2>1. ReplayAll(es, memory) = Replayed(memory, es[1])
    BY <1>1, ReplayUnrolled
  <2>. QED
    BY <1>1, <2>1
<1>3. ReplayAll(none, durable) = memory
  <2>1. Len(none) \in 0 .. 3
    BY <1>1
  <2>2. Len(none) = 0 => ReplayAll(none, memory) = memory
    BY <1>1, <2>1, ReplayUnrolled
  <2>. QED
    BY <1>1, <2>2
<1>4. ASSUME Done(m, es) PROVE memory' = Counted(m, 1) /\ durable' = memory'
  BY <1>1, <1>2, <1>4 DEF Done, Counted
<1>5. ASSUME Torn(es, 0) PROVE memory' = memory /\ durable' = memory'
  BY <1>3, <1>5, <1>6 DEF Torn
<1>. QED
  BY <1>4, <1>5 DEF es

\* What two leave: both, the first one or none.
LEMMA TwoEntries ==
  ASSUME durable = memory, memory \in Kernels, NEW m, NEW e, NEW f, NEW m1,
         Replayed(memory, e) = m1, Replayed(m1, f) = Counted(m, 2)
  PROVE  /\ Done(m, <<e, f>>) => memory' = Counted(m, 2) /\ durable' = memory'
         /\ \A k \in 0 .. 1 : Torn(<<e, f>>, k) => memory' \in {memory, m1} /\ durable' = memory'
<1>. DEFINE es == <<e, f>>
            none == SubSeq(es, 1, 0)
            first == SubSeq(es, 1, 1)
<1>1. /\ es \in Seq({e, f}) /\ Len(es) = 2 /\ es[1] = e /\ es[2] = f
      /\ none \in Seq({e, f}) /\ Len(none) = 0
      /\ first \in Seq({e, f}) /\ Len(first) = 1 /\ first[1] = e
  OBVIOUS
<1>8. SubSeq(es, 1, 0) = none /\ SubSeq(es, 1, 1) = first
  OBVIOUS
<1>. HIDE DEF es, none, first
<1>2. ReplayAll(es, durable) = Counted(m, 2)
  <2>1. ReplayAll(es, memory) = Replayed(Replayed(memory, es[1]), es[2])
    BY <1>1, ReplayUnrolled
  <2>. QED
    BY <1>1, <2>1
<1>3. ReplayAll(none, durable) = memory
  <2>1. Len(none) \in 0 .. 3
    BY <1>1
  <2>2. Len(none) = 0 => ReplayAll(none, memory) = memory
    BY <1>1, <2>1, ReplayUnrolled
  <2>. QED
    BY <1>1, <2>2
<1>4. ReplayAll(first, durable) = m1
  <2>1. ReplayAll(first, memory) = Replayed(memory, first[1])
    BY <1>1, ReplayUnrolled
  <2>. QED
    BY <1>1, <2>1
<1>5. ASSUME Done(m, es) PROVE memory' = Counted(m, 2) /\ durable' = memory'
  BY <1>1, <1>2, <1>5 DEF Done, Counted
<1>6. ASSUME Torn(es, 0) PROVE memory' = memory /\ durable' = memory'
  BY <1>3, <1>6, <1>8 DEF Torn
<1>7. ASSUME Torn(es, 1) PROVE memory' = m1 /\ durable' = memory'
  BY <1>4, <1>7, <1>8 DEF Torn
<1>. QED
  BY <1>5, <1>6, <1>7 DEF es

\* What three leave.
LEMMA ThreeEntries ==
  ASSUME durable = memory, memory \in Kernels, NEW m, NEW e, NEW f, NEW g, NEW m1, NEW m2,
         Replayed(memory, e) = m1, Replayed(m1, f) = m2, Replayed(m2, g) = Counted(m, 3)
  PROVE  /\ Done(m, <<e, f, g>>) => memory' = Counted(m, 3) /\ durable' = memory'
         /\ \A k \in 0 .. 2 :
              Torn(<<e, f, g>>, k) => memory' \in {memory, m1, m2} /\ durable' = memory'
<1>. DEFINE es == <<e, f, g>>
            none == SubSeq(es, 1, 0)
            first == SubSeq(es, 1, 1)
            second == SubSeq(es, 1, 2)
<1>1. /\ es \in Seq({e, f, g}) /\ Len(es) = 3 /\ es[1] = e /\ es[2] = f /\ es[3] = g
      /\ none \in Seq({e, f, g}) /\ Len(none) = 0
      /\ first \in Seq({e, f, g}) /\ Len(first) = 1 /\ first[1] = e
      /\ second \in Seq({e, f, g}) /\ Len(second) = 2 /\ second[1] = e /\ second[2] = f
  OBVIOUS
<1>10. SubSeq(es, 1, 0) = none /\ SubSeq(es, 1, 1) = first /\ SubSeq(es, 1, 2) = second
  OBVIOUS
<1>. HIDE DEF es, none, first, second
<1>2. ReplayAll(es, durable) = Counted(m, 3)
  <2>1. ReplayAll(es, memory) = Replayed(Replayed(Replayed(memory, es[1]), es[2]), es[3])
    BY <1>1, ReplayUnrolled
  <2>. QED
    BY <1>1, <2>1
<1>3. ReplayAll(none, durable) = memory
  <2>1. Len(none) \in 0 .. 3
    BY <1>1
  <2>2. Len(none) = 0 => ReplayAll(none, memory) = memory
    BY <1>1, <2>1, ReplayUnrolled
  <2>. QED
    BY <1>1, <2>2
<1>4. ReplayAll(first, durable) = m1
  <2>1. ReplayAll(first, memory) = Replayed(memory, first[1])
    BY <1>1, ReplayUnrolled
  <2>. QED
    BY <1>1, <2>1
<1>5. ReplayAll(second, durable) = m2
  <2>1. ReplayAll(second, memory) =
          Replayed(Replayed(memory, second[1]), second[2])
    BY <1>1, ReplayUnrolled
  <2>. QED
    BY <1>1, <2>1
<1>6. ASSUME Done(m, es) PROVE memory' = Counted(m, 3) /\ durable' = memory'
  BY <1>1, <1>2, <1>6 DEF Done, Counted
<1>7. ASSUME Torn(es, 0) PROVE memory' = memory /\ durable' = memory'
  BY <1>3, <1>7, <1>10 DEF Torn
<1>8. ASSUME Torn(es, 1) PROVE memory' = m1 /\ durable' = memory'
  BY <1>4, <1>8, <1>10 DEF Torn
<1>9. ASSUME Torn(es, 2) PROVE memory' = m2 /\ durable' = memory'
  BY <1>5, <1>9, <1>10 DEF Torn
<1>. QED
  BY <1>6, <1>7, <1>8, <1>9 DEF es

\* The entries of a journal that cannot be opened, or the first of them, do not open it.
LEMMA UnreadableReplay ==
  ASSUME durable = Unreadable, NEW S, NEW es \in Seq(S), NEW n \in 1 .. 3, Len(es) = n
  PROVE  /\ ReplayAll(es, durable) = Unreadable
         /\ \A k \in 0 .. n - 1 : ReplayAll(SubSeq(es, 1, k), durable) = Unreadable
<1>1. \A e : Replayed(Unreadable, e) = Unreadable
  BY DEF Replayed
<1>2. ASSUME NEW fs \in Seq(S), Len(fs) \in 0 .. 3 PROVE ReplayAll(fs, Unreadable) = Unreadable
  <2>. DEFINE d1 == Replayed(Unreadable, fs[1])
              d2 == Replayed(d1, fs[2])
              d3 == Replayed(d2, fs[3])
  <2>1. d1 = Unreadable /\ d2 = Unreadable /\ d3 = Unreadable
    BY <1>1
  <2>2. /\ Len(fs) = 0 => ReplayAll(fs, Unreadable) = Unreadable
        /\ Len(fs) = 1 => ReplayAll(fs, Unreadable) = d1
        /\ Len(fs) = 2 => ReplayAll(fs, Unreadable) = d2
        /\ Len(fs) = 3 => ReplayAll(fs, Unreadable) = d3
    BY <1>2, ReplayUnrolled
  <2>. QED
    BY <1>2, <2>1, <2>2
<1>3. ASSUME NEW k \in 0 .. n - 1 PROVE ReplayAll(SubSeq(es, 1, k), Unreadable) = Unreadable
  <2>1. 1 \in 1 .. Len(es) + 1 /\ k \in 1 - 1 .. Len(es)
    BY <1>3
  <2>2. SubSeq(es, 1, k) \in Seq(S) /\ Len(SubSeq(es, 1, k)) = k - 1 + 1
    BY <2>1, SubSeqProperties
  <2>3. Len(SubSeq(es, 1, k)) \in 0 .. 3
    BY <1>3, <2>2
  <2>. QED
    BY <1>2, <2>2, <2>3
<1>4. ReplayAll(es, Unreadable) = Unreadable
  <2>1. Len(es) \in 0 .. 3
    OBVIOUS
  <2>. QED
    BY <1>2, <2>1
<1>. QED
  BY <1>3, <1>4

\* So it stays as it is, and nobody comes back from a crash.
LEMMA UnreadableStays ==
  ASSUME durable = Unreadable, NEW S, NEW es \in Seq(S), NEW n \in 1 .. 3, Len(es) = n, NEW m
  PROVE  /\ Done(m, es) => memory' = Counted(m, n) /\ durable' = Unreadable
         /\ \A k \in 0 .. n - 1 : ~Torn(es, k)
BY UnreadableReplay DEF Done, Torn, Counted

\* With one entry, with two and with three.
LEMMA UnreadableEntries ==
  ASSUME durable = Unreadable, NEW m, NEW e, NEW f, NEW g
  PROVE  /\ Done(m, <<e>>) => memory' = Counted(m, 1) /\ durable' = Unreadable
         /\ \A k \in 0 .. 0 : ~Torn(<<e>>, k)
         /\ Done(m, <<e, f>>) => memory' = Counted(m, 2) /\ durable' = Unreadable
         /\ \A k \in 0 .. 1 : ~Torn(<<e, f>>, k)
         /\ Done(m, <<e, f, g>>) => memory' = Counted(m, 3) /\ durable' = Unreadable
         /\ \A k \in 0 .. 2 : ~Torn(<<e, f, g>>, k)
<1>. DEFINE one == <<e>>
            two == <<e, f>>
            three == <<e, f, g>>
<1>1. /\ one \in Seq({e, f, g}) /\ Len(one) = 1
      /\ two \in Seq({e, f, g}) /\ Len(two) = 2
      /\ three \in Seq({e, f, g}) /\ Len(three) = 3
  OBVIOUS
<1>2. 1 \in 1 .. 3 /\ 2 \in 1 .. 3 /\ 3 \in 1 .. 3 /\ 1 - 1 = 0 /\ 2 - 1 = 1 /\ 3 - 1 = 2
  OBVIOUS
<1>. HIDE DEF one, two, three
<1>3. /\ Done(m, one) => memory' = Counted(m, 1) /\ durable' = Unreadable
      /\ \A k \in 0 .. 1 - 1 : ~Torn(one, k)
  BY <1>1, <1>2, UnreadableStays
<1>4. /\ Done(m, two) => memory' = Counted(m, 2) /\ durable' = Unreadable
      /\ \A k \in 0 .. 2 - 1 : ~Torn(two, k)
  BY <1>1, <1>2, UnreadableStays
<1>5. /\ Done(m, three) => memory' = Counted(m, 3) /\ durable' = Unreadable
      /\ \A k \in 0 .. 3 - 1 : ~Torn(three, k)
  BY <1>1, <1>2, UnreadableStays
<1>. QED
  BY <1>2, <1>3, <1>4, <1>5 DEF one, two, three

\* What an entry that the replay refuses, or a crash before it, leaves.
LEMMA OneRefused ==
  ASSUME durable = memory, memory \in Kernels, NEW m, NEW e, Replayed(memory, e) = Unreadable
  PROVE  /\ Done(m, <<e>>) => memory' = Counted(m, 1) /\ durable' = Unreadable
         /\ \A k \in 0 .. 0 : Torn(<<e>>, k) => memory' = memory /\ durable' = memory'
<1>. DEFINE es == <<e>>
            none == SubSeq(es, 1, 0)
<1>1. /\ es \in Seq({e}) /\ Len(es) = 1 /\ es[1] = e
      /\ none \in Seq({e}) /\ Len(none) = 0
  OBVIOUS
<1>6. SubSeq(es, 1, 0) = none
  OBVIOUS
<1>. HIDE DEF es, none
<1>2. ReplayAll(es, durable) = Unreadable
  <2>1. ReplayAll(es, memory) = Replayed(memory, es[1])
    BY <1>1, ReplayUnrolled
  <2>. QED
    BY <1>1, <2>1
<1>3. ReplayAll(none, durable) = memory
  <2>1. Len(none) \in 0 .. 3
    BY <1>1
  <2>2. Len(none) = 0 => ReplayAll(none, memory) = memory
    BY <1>1, <2>1, ReplayUnrolled
  <2>. QED
    BY <1>1, <2>2
<1>4. ASSUME Done(m, es) PROVE memory' = Counted(m, 1) /\ durable' = Unreadable
  BY <1>1, <1>2, <1>4 DEF Done, Counted
<1>5. ASSUME Torn(es, 0) PROVE memory' = memory /\ durable' = memory'
  BY <1>3, <1>5, <1>6 DEF Torn
<1>. QED
  BY <1>4, <1>5 DEF es

\* One entry more changes nothing else.
LEMMA CountedSound ==
  ASSUME NEW m, Sound(m), NEW n \in Nat
  PROVE  /\ Extends(m, Counted(m, n)) /\ Sound(Counted(m, n))
         /\ Placed(m) => Placed(Counted(m, n))
<1>1. m \in Kernels
  BY DEF Sound
<1>. QED
  BY <1>1, SequenceMoves, MovesSound DEF Counted

\* What one operation after the other does is what neither takes back.
LEMMA ExtendsTransitive ==
  ASSUME NEW m \in Kernels, NEW r \in Kernels, NEW s \in Kernels, Extends(m, r), Extends(r, s)
  PROVE  Extends(m, s)
<1>1. ASSUME NEW S, NEW a \in Seq(S), NEW b \in Seq(S), NEW c \in Seq(S),
             Continues(a, b), Continues(b, c)
      PROVE  Continues(a, c)
  BY <1>1 DEF Continues
<1>2. /\ Continues(m.frontiers, s.frontiers) /\ Continues(m.partitions, s.partitions)
      /\ Continues(m.epochs, s.epochs) /\ Continues(m.nodes, s.nodes)
      /\ Continues(m.selections, s.selections) /\ Continues(m.sufficiency, s.sufficiency)
      /\ Continues(m.seals, s.seals) /\ Continues(m.assessments, s.assessments)
      /\ Continues(m.epochLineage, s.epochLineage)
  <2>1. Continues(m.frontiers, s.frontiers)
    <3>1. /\ m.frontiers \in Seq(FrontierType) /\ r.frontiers \in Seq(FrontierType)
          /\ s.frontiers \in Seq(FrontierType)
      BY Fields
    <3>2. Continues(m.frontiers, r.frontiers) /\ Continues(r.frontiers, s.frontiers)
      BY DEF Extends
    <3>. QED
      BY <1>1, <3>1, <3>2
  <2>2. Continues(m.partitions, s.partitions)
    <3>1. /\ m.partitions \in Seq(PartitionType) /\ r.partitions \in Seq(PartitionType)
          /\ s.partitions \in Seq(PartitionType)
      BY Fields
    <3>2. Continues(m.partitions, r.partitions) /\ Continues(r.partitions, s.partitions)
      BY DEF Extends
    <3>. QED
      BY <1>1, <3>1, <3>2
  <2>3. Continues(m.epochs, s.epochs)
    <3>1. /\ m.epochs \in Seq(EpochType) /\ r.epochs \in Seq(EpochType)
          /\ s.epochs \in Seq(EpochType)
      BY Fields
    <3>2. Continues(m.epochs, r.epochs) /\ Continues(r.epochs, s.epochs)
      BY DEF Extends
    <3>. QED
      BY <1>1, <3>1, <3>2
  <2>4. Continues(m.nodes, s.nodes)
    <3>1. /\ m.nodes \in Seq(NodeType) /\ r.nodes \in Seq(NodeType)
          /\ s.nodes \in Seq(NodeType)
      BY Fields
    <3>2. Continues(m.nodes, r.nodes) /\ Continues(r.nodes, s.nodes)
      BY DEF Extends
    <3>. QED
      BY <1>1, <3>1, <3>2
  <2>5. Continues(m.selections, s.selections)
    <3>1. /\ m.selections \in Seq(SelectionType) /\ r.selections \in Seq(SelectionType)
          /\ s.selections \in Seq(SelectionType)
      BY Fields
    <3>2. Continues(m.selections, r.selections) /\ Continues(r.selections, s.selections)
      BY DEF Extends
    <3>. QED
      BY <1>1, <3>1, <3>2
  <2>6. Continues(m.sufficiency, s.sufficiency)
    <3>1. /\ m.sufficiency \in Seq(SufficiencyType) /\ r.sufficiency \in Seq(SufficiencyType)
          /\ s.sufficiency \in Seq(SufficiencyType)
      BY Fields
    <3>2. Continues(m.sufficiency, r.sufficiency) /\ Continues(r.sufficiency, s.sufficiency)
      BY DEF Extends
    <3>. QED
      BY <1>1, <3>1, <3>2
  <2>7. Continues(m.seals, s.seals)
    <3>1. /\ m.seals \in Seq(SealType) /\ r.seals \in Seq(SealType)
          /\ s.seals \in Seq(SealType)
      BY Fields
    <3>2. Continues(m.seals, r.seals) /\ Continues(r.seals, s.seals)
      BY DEF Extends
    <3>. QED
      BY <1>1, <3>1, <3>2
  <2>8. Continues(m.assessments, s.assessments)
    <3>1. /\ m.assessments \in Seq(AssessmentType) /\ r.assessments \in Seq(AssessmentType)
          /\ s.assessments \in Seq(AssessmentType)
      BY Fields
    <3>2. Continues(m.assessments, r.assessments) /\ Continues(r.assessments, s.assessments)
      BY DEF Extends
    <3>. QED
      BY <1>1, <3>1, <3>2
  <2>9. Continues(m.epochLineage, s.epochLineage)
    <3>1. /\ m.epochLineage \in Seq(LineageType) /\ r.epochLineage \in Seq(LineageType)
          /\ s.epochLineage \in Seq(LineageType)
      BY Fields
    <3>2. Continues(m.epochLineage, r.epochLineage) /\ Continues(r.epochLineage, s.epochLineage)
      BY DEF Extends
    <3>. QED
      BY <1>1, <3>1, <3>2
  <2>. QED
    BY <2>1, <2>2, <2>3, <2>4, <2>5, <2>6, <2>7, <2>8, <2>9
<1>3. World(m) \in Worlds /\ World(r) \in Worlds /\ World(s) \in Worlds
  BY WorldType
<1>4. NoLater(World(m), World(s))
  BY <1>3, NoLaterTransitive DEF Extends, Forward
<1>5. /\ m.plan \in Nat /\ r.plan \in Nat /\ s.plan \in Nat
      /\ m.generation \in Nat /\ r.generation \in Nat /\ s.generation \in Nat
  BY Fields
<1>6. /\ m.plan <= r.plan /\ (m.plan = r.plan => SamePlan(World(m), World(r)))
      /\ r.plan <= s.plan /\ (r.plan = s.plan => SamePlan(World(r), World(s)))
  BY DEF Extends, Forward
<1>7. m.plan <= s.plan /\ (m.plan = s.plan => SamePlan(World(m), World(s)))
  BY <1>5, <1>6 DEF SamePlan
<1>8. /\ m.generation <= r.generation
      /\ m.generation = r.generation => SameGeneration(World(m), World(r))
      /\ r.generation <= s.generation
      /\ r.generation = s.generation => SameGeneration(World(r), World(s))
  BY DEF Extends, Forward
<1>9. /\ m.generation <= s.generation
      /\ m.generation = s.generation => SameGeneration(World(m), World(s))
  BY <1>5, <1>8 DEF SameGeneration, SamePlan
<1>. QED
  BY <1>2, <1>4, <1>7, <1>9 DEF Extends, Forward

-----------------------------------------------------------------------------
(* The changes of the world and their replay.                               *)

\* An operation may leave a kernel as it is.
LEMMA ExtendsReflexive ==
  ASSUME NEW m \in Kernels
  PROVE  Extends(m, m)
<1>1. Forward(m, m)
  BY WorldType, NoLaterReflexive, Fields DEF Forward, SamePlan, SameGeneration
<1>. QED
  BY <1>1, SameRegistriesContinue DEF SameRegistries

\* The kernels differ only in what the entries say with their lineage.
SameButMeta(r, s) ==
  /\ r.frontiers = s.frontiers /\ r.partitions = s.partitions /\ r.epochs = s.epochs
  /\ r.nodes = s.nodes /\ r.selections = s.selections /\ r.sufficiency = s.sufficiency
  /\ r.seals = s.seals /\ r.assessments = s.assessments
  /\ r.epochLineage = s.epochLineage /\ r.auths = s.auths /\ r.sequence = s.sequence
  /\ r.mission = s.mission /\ r.canonical = s.canonical /\ r.regime = s.regime
  /\ r.actions = s.actions /\ r.access = s.access

\* A kernel is what its fields are.
LEMMA KernelsAlike ==
  ASSUME NEW d \in Kernels, NEW c \in Kernels,
         d.frontiers = c.frontiers, d.partitions = c.partitions, d.epochs = c.epochs,
         d.nodes = c.nodes, d.selections = c.selections, d.sufficiency = c.sufficiency,
         d.seals = c.seals, d.assessments = c.assessments,
         d.epochLineage = c.epochLineage, d.auths = c.auths, d.sequence = c.sequence,
         d.mission = c.mission, d.canonical = c.canonical, d.regime = c.regime,
         d.actions = c.actions, d.access = c.access, d.plan = c.plan,
         d.generation = c.generation, d.location = c.location
  PROVE  d = c
<1>1. d =
       [frontiers |-> d.frontiers, partitions |-> d.partitions, epochs |-> d.epochs,
        nodes |-> d.nodes, selections |-> d.selections, sufficiency |-> d.sufficiency,
        seals |-> d.seals, assessments |-> d.assessments, epochLineage |-> d.epochLineage,
        auths |-> d.auths, sequence |-> d.sequence, mission |-> d.mission,
        canonical |-> d.canonical, plan |-> d.plan, generation |-> d.generation,
        location |-> d.location, regime |-> d.regime, actions |-> d.actions,
        access |-> d.access]
  BY DEF Kernels
<1>2. c =
       [frontiers |-> c.frontiers, partitions |-> c.partitions, epochs |-> c.epochs,
        nodes |-> c.nodes, selections |-> c.selections, sufficiency |-> c.sufficiency,
        seals |-> c.seals, assessments |-> c.assessments, epochLineage |-> c.epochLineage,
        auths |-> c.auths, sequence |-> c.sequence, mission |-> c.mission,
        canonical |-> c.canonical, plan |-> c.plan, generation |-> c.generation,
        location |-> c.location, regime |-> c.regime, actions |-> c.actions,
        access |-> c.access]
  BY DEF Kernels
<1>. QED
  BY <1>1, <1>2

\* What an event left out is restored with the lineage of its entry.
LEMMA Settles ==
  ASSUME NEW r \in Kernels, NEW s \in Kernels, SameButMeta(r, s)
  PROVE  Settled(r, Meta(s)) = Counted(s, 1)
<1>1. r # Unreadable
  BY KernelAssumption
<1>. DEFINE k == [r EXCEPT !.sequence = @ + 1]
            d == RestoreMeta(k, Meta(s))
            c == Counted(s, 1)
<1>2. d \in Kernels /\ c \in Kernels
  <2>1. r.sequence + 1 \in Nat /\ s.sequence + 1 \in Nat
    BY Fields
  <2>2. k \in Kernels
    BY <2>1 DEF Kernels
  <2>3. c \in Kernels
    BY <2>1 DEF Kernels, Counted
  <2>4. s.plan \in Nat /\ s.generation \in Nat /\ s.location \in Nat
    BY Fields
  <2>. HIDE DEF k
  <2>5. d \in Kernels
    BY <2>2, <2>4 DEF Kernels, RestoreMeta, Meta
  <2>. QED
    BY <2>3, <2>5
<1>3. /\ d.frontiers = r.frontiers /\ d.partitions = r.partitions /\ d.epochs = r.epochs
      /\ d.nodes = r.nodes /\ d.selections = r.selections /\ d.sufficiency = r.sufficiency
      /\ d.seals = r.seals /\ d.assessments = r.assessments
      /\ d.epochLineage = r.epochLineage /\ d.auths = r.auths
      /\ d.sequence = r.sequence + 1
      /\ d.mission = r.mission /\ d.canonical = r.canonical /\ d.regime = r.regime
      /\ d.actions = r.actions /\ d.access = r.access
      /\ d.plan = s.plan /\ d.generation = s.generation /\ d.location = s.location
  BY DEF Kernels, RestoreMeta, Meta
<1>4. /\ c.frontiers = s.frontiers /\ c.partitions = s.partitions /\ c.epochs = s.epochs
      /\ c.nodes = s.nodes /\ c.selections = s.selections /\ c.sufficiency = s.sufficiency
      /\ c.seals = s.seals /\ c.assessments = s.assessments
      /\ c.epochLineage = s.epochLineage /\ c.auths = s.auths
      /\ c.sequence = s.sequence + 1
      /\ c.mission = s.mission /\ c.canonical = s.canonical /\ c.regime = s.regime
      /\ c.actions = s.actions /\ c.access = s.access
      /\ c.plan = s.plan /\ c.generation = s.generation /\ c.location = s.location
  BY DEF Kernels, Counted
<1>. HIDE DEF d, c
<1>5. d = c
  BY <1>2, <1>3, <1>4, KernelsAlike DEF SameButMeta
<1>. QED
  BY <1>1, <1>5 DEF Settled, d, c

\* An entry of the kernel s replays in m to s, if its event does.
LEMMA EntryReplayed ==
  ASSUME NEW m \in Kernels, NEW s \in Kernels, NEW event, NEW value,
         NEW r \in Kernels, ReduceEvent(m, Entry(s, event, value)) = r, SameButMeta(r, s)
  PROVE  Replayed(m, Entry(s, event, value)) = Counted(s, 1)
<1>1. m # Unreadable
  BY KernelAssumption
<1>2. Entry(s, event, value).meta = Meta(s)
  BY DEF Entry
<1>. QED
  BY <1>1, <1>2, Settles DEF Replayed

\* A commit.
LEMMA CommittedReplayed ==
  ASSUME NEW m \in Kernels
  PROVE  LET s == Committed(m)
         IN Replayed(m, Entry(s, "canonical.committed", s.canonical)) = Counted(s, 1)
<1>. DEFINE s == Committed(m)
            value == Committed(m).canonical
            r == [m EXCEPT !.canonical = Committed(m).canonical]
<1>1. s \in Kernels
  BY CommittedMoves DEF Moves
<1>2. ReduceEvent(m, Entry(s, "canonical.committed", value)) = r
  BY DEF ReduceEvent, Entry
<1>3. r \in Kernels /\ SameButMeta(r, s)
  <2>1. s.canonical \in Nat
    BY <1>1, Fields
  <2>. QED
    BY <2>1 DEF SameButMeta, Kernels, Committed
<1>. HIDE DEF r, s, value
<1>. QED
  BY <1>1, <1>2, <1>3, EntryReplayed DEF s, value

\* A relocation.
LEMMA RelocatedReplayed ==
  ASSUME NEW m \in Kernels
  PROVE  LET s == Relocated(m)
         IN Replayed(m, Entry(s, "state.relocated", {})) = Counted(s, 1)
<1>. DEFINE s == Relocated(m)
            value == {}
            r == m
<1>1. s \in Kernels
  BY RelocatedMoves DEF Moves
<1>2. ReduceEvent(m, Entry(s, "state.relocated", value)) = r
  BY DEF ReduceEvent, Entry
<1>3. r \in Kernels /\ SameButMeta(r, s)
  BY <1>1 DEF SameButMeta, Kernels, Relocated
<1>. HIDE DEF r, s, value
<1>. QED
  BY <1>1, <1>2, <1>3, EntryReplayed DEF s, value

\* The registration of a region.
LEMMA RegionRegisteredReplayed ==
  ASSUME NEW m \in Kernels
  PROVE  LET s == RegionRegistered(m)
         IN Replayed(m, Entry(s, "region.registered", {})) = Counted(s, 1)
<1>. DEFINE s == RegionRegistered(m)
            value == {}
            r == m
<1>1. s \in Kernels
  BY RegionRegisteredMoves DEF Moves
<1>2. ReduceEvent(m, Entry(s, "region.registered", value)) = r
  BY DEF ReduceEvent, Entry
<1>3. r \in Kernels /\ SameButMeta(r, s)
  BY <1>1 DEF SameButMeta, Kernels, RegionRegistered, Relocated
<1>. HIDE DEF r, s, value
<1>. QED
  BY <1>1, <1>2, <1>3, EntryReplayed DEF s, value

\* A revision of the mission.
LEMMA MissionRevisedReplayed ==
  ASSUME NEW m \in Kernels
  PROVE  LET s == MissionRevised(m)
         IN Replayed(m, Entry(s, "mission.revised", s.mission)) = Counted(s, 1)
<1>. DEFINE s == MissionRevised(m)
            value == MissionRevised(m).mission
            r == [m EXCEPT !.mission = MissionRevised(m).mission]
<1>1. s \in Kernels
  BY MissionRevisedMoves DEF Moves
<1>2. ReduceEvent(m, Entry(s, "mission.revised", value)) = r
  BY DEF ReduceEvent, Entry
<1>3. r \in Kernels /\ SameButMeta(r, s)
  <2>1. s.mission \in Nat
    BY <1>1, Fields
  <2>. QED
    BY <2>1 DEF SameButMeta, Kernels, MissionRevised
<1>. HIDE DEF r, s, value
<1>. QED
  BY <1>1, <1>2, <1>3, EntryReplayed DEF s, value

\* A revision of the regime.
LEMMA RegimeRevisedReplayed ==
  ASSUME NEW m \in Kernels
  PROVE  LET s == RegimeRevised(m)
         IN Replayed(m, Entry(s, "semantic.regime_revised", s.regime)) = Counted(s, 1)
<1>. DEFINE s == RegimeRevised(m)
            value == RegimeRevised(m).regime
            r == [m EXCEPT !.regime = RegimeRevised(m).regime]
<1>1. s \in Kernels
  BY RegimeRevisedMoves DEF Moves
<1>2. ReduceEvent(m, Entry(s, "semantic.regime_revised", value)) = r
  BY DEF ReduceEvent, Entry
<1>3. r \in Kernels /\ SameButMeta(r, s)
  <2>1. s.regime \in Nat
    BY <1>1, Fields
  <2>. QED
    BY <2>1 DEF SameButMeta, Kernels, RegimeRevised
<1>. HIDE DEF r, s, value
<1>. QED
  BY <1>1, <1>2, <1>3, EntryReplayed DEF s, value

\* A report.
LEMMA AnomalyReportedReplayed ==
  ASSUME NEW m \in Kernels
  PROVE  LET s == AnomalyReported(m)
         IN Replayed(m, Entry(s, "recovery.model_class_uncertain", {})) = Counted(s, 1)
<1>. DEFINE s == AnomalyReported(m)
            value == {}
            r == m
<1>1. s \in Kernels
  BY AnomalyReportedMoves DEF Moves
<1>2. ReduceEvent(m, Entry(s, "recovery.model_class_uncertain", value)) = r
  BY DEF ReduceEvent, Entry
<1>3. r \in Kernels /\ SameButMeta(r, s)
  BY <1>1 DEF SameButMeta, Kernels, AnomalyReported
<1>. HIDE DEF r, s, value
<1>. QED
  BY <1>1, <1>2, <1>3, EntryReplayed DEF s, value

\* A proposal.
LEMMA ActionProposedReplayed ==
  ASSUME NEW m \in Kernels, NEW a \in Actions
  PROVE  LET s == ActionProposed(m, a)
         IN Replayed(m, Entry(s, "action.proposed", a)) = Counted(s, 1)
<1>. DEFINE s == ActionProposed(m, a)
            value == a
            r == ActionProposed(m, a)
<1>1. s \in Kernels
  BY ActionProposedMoves DEF Moves
<1>2. ReduceEvent(m, Entry(s, "action.proposed", value)) = r
  BY DEF ReduceEvent, Entry
<1>3. r \in Kernels /\ SameButMeta(r, s)
  BY <1>1 DEF SameButMeta
<1>. HIDE DEF r, s, value
<1>. QED
  BY <1>1, <1>2, <1>3, EntryReplayed DEF s, value

\* An access that is updated.
LEMMA AccessUpdatedReplayed ==
  ASSUME NEW m \in Kernels, NEW p \in Principals
  PROVE  LET s == AccessUpdated(m, p)
             value == [p |-> p, revision |-> s.access[p]]
         IN Replayed(m, Entry(s, "principal.access", value)) = Counted(s, 1)
<1>. DEFINE s == AccessUpdated(m, p)
            value == [p |-> p, revision |-> AccessUpdated(m, p).access[p]]
            r == [m EXCEPT !.access[p] = AccessUpdated(m, p).access[p]]
<1>1. s \in Kernels
  BY AccessUpdatedMoves DEF Moves
<1>2. ReduceEvent(m, Entry(s, "principal.access", value)) = r
  BY DEF ReduceEvent, Entry
<1>3. r \in Kernels /\ SameButMeta(r, s)
  <2>1. /\ s.access \in [Principals -> Nat] /\ s.access[p] \in Nat
        /\ s.access = [m.access EXCEPT ![p] = m.access[p] + 1]
    BY <1>1, Fields DEF Kernels, AccessUpdated
  <2>2. s.access[p] = m.access[p] + 1 /\ m.access \in [Principals -> Nat]
    BY <2>1, Fields
  <2>3. r = [m EXCEPT !.access = s.access]
    BY <2>1, <2>2 DEF Kernels
  <2>4. r \in Kernels
    BY <2>1, <2>3 DEF Kernels
  <2>5. r.access = s.access
    BY <2>3 DEF Kernels
  <2>. QED
    BY <2>3, <2>4, <2>5 DEF SameButMeta, Kernels, AccessUpdated
<1>. HIDE DEF r, s, value
<1>. QED
  BY <1>1, <1>2, <1>3, EntryReplayed DEF s, value

\* A principal that is registered again.
LEMMA PrincipalRegisteredReplayed ==
  ASSUME NEW m \in Kernels, NEW p \in Principals
  PROVE  LET s == PrincipalRegistered(m, p)
             value == [p |-> p, revision |-> s.access[p]]
         IN Replayed(m, Entry(s, "principal.access", value)) = Counted(s, 1)
<1>. DEFINE s == PrincipalRegistered(m, p)
            value == [p |-> p, revision |-> PrincipalRegistered(m, p).access[p]]
            r == [m EXCEPT !.access[p] = PrincipalRegistered(m, p).access[p]]
<1>1. s \in Kernels
  BY PrincipalRegisteredMoves DEF Moves
<1>2. ReduceEvent(m, Entry(s, "principal.access", value)) = r
  BY DEF ReduceEvent, Entry
<1>3. r \in Kernels /\ SameButMeta(r, s)
  <2>1. /\ s.access \in [Principals -> Nat] /\ s.access[p] \in Nat
        /\ s.access = [m.access EXCEPT ![p] = m.access[p] + 1]
    BY <1>1, Fields DEF Kernels, PrincipalRegistered
  <2>2. s.access[p] = m.access[p] + 1 /\ m.access \in [Principals -> Nat]
    BY <2>1, Fields
  <2>3. r = [m EXCEPT !.access = s.access]
    BY <2>1, <2>2 DEF Kernels
  <2>4. r \in Kernels
    BY <2>1, <2>3 DEF Kernels
  <2>5. r.access = s.access
    BY <2>3 DEF Kernels
  <2>. QED
    BY <2>3, <2>4, <2>5 DEF SameButMeta, Kernels, PrincipalRegistered
<1>. HIDE DEF r, s, value
<1>. QED
  BY <1>1, <1>2, <1>3, EntryReplayed DEF s, value

-----------------------------------------------------------------------------
(* The steps that write one entry, and the commit that writes two.          *)

\* The journal follows the memory, and is lost to it by an assessment named early only.
Follows ==
  /\ durable' # Unreadable => durable' = memory' /\ Placed(memory')
  /\ durable' = Unreadable => durable = Unreadable \/ NamedEarly

\* What a step may do: the kernel goes on and stays sound, and the journal follows it.
Forth ==
  /\ Sound(memory') /\ Follows /\ Extends(memory, memory')
  /\ did' = Nothing /\ limits' = limits

\* A kernel is not what cannot be opened.
LEMMA KernelReadable ==
  ASSUME NEW m, Sound(m)
  PROVE  m # Unreadable
BY KernelAssumption DEF Sound

\* A step that writes one entry, if its entry replays to what it makes of the kernel.
LEMMA OneEntryStep ==
  ASSUME IInv, NEW m, Sound(m), Extends(memory, m), Placed(memory) => Placed(m), NEW e,
         Replayed(memory, e) = Counted(m, 1), Perform(m, <<e>>)
  PROVE  Forth
<1>1. memory \in Kernels /\ m \in Kernels
  BY DEF IInv, Sound
<1>2. /\ Extends(m, Counted(m, 1)) /\ Sound(Counted(m, 1))
      /\ Placed(memory) => Placed(Counted(m, 1))
  BY CountedSound
<1>3. Extends(memory, Counted(m, 1))
  BY <1>1, <1>2, ExtendsTransitive DEF Sound
<1>4. Len(<<e>>) = 1 /\ 0 .. Len(<<e>>) - 1 = 0 .. 0
  OBVIOUS
<1>5. /\ Done(m, <<e>>) \/ \E k \in 0 .. 0 : Torn(<<e>>, k)
      /\ did' = Nothing /\ limits' = limits
  BY <1>4 DEF Perform
<1>6. CASE durable = Unreadable
  <2>1. memory' = Counted(m, 1) /\ durable' = Unreadable
    BY <1>5, <1>6, UnreadableEntries
  <2>. QED
    BY <1>2, <1>3, <1>5, <1>6, <2>1 DEF Forth, Follows
<1>7. CASE durable # Unreadable
  <2>1. durable = memory /\ Placed(memory)
    BY <1>7 DEF IInv
  <2>2. CASE Done(m, <<e>>)
    <3>1. memory' = Counted(m, 1) /\ durable' = memory'
      BY <1>1, <2>1, <2>2, OneEntry
    <3>2. durable' # Unreadable
      BY <1>2, <3>1, KernelReadable
    <3>. QED
      BY <1>2, <1>3, <1>5, <2>1, <3>1, <3>2 DEF Forth, Follows
  <2>3. CASE \E k \in 0 .. 0 : Torn(<<e>>, k)
    <3>1. memory' = memory /\ durable' = memory'
      BY <1>1, <2>1, <2>3, OneEntry
    <3>2. Extends(memory, memory)
      BY <1>1, ExtendsReflexive
    <3>. QED
      BY <1>5, <1>7, <2>1, <3>1, <3>2 DEF Forth, Follows, IInv
  <2>. QED
    BY <1>5, <2>2, <2>3
<1>. QED
  BY <1>6, <1>7

\* A registration that its replay refuses: of an assessment, and of no partition.
LEMMA RegisterEarlyStep ==
  ASSUME IInv, NEW m, Sound(m), Extends(memory, m), NEW e, NEW x,
         m.assessments = Append(memory.assessments, x), x.partition \notin DOMAIN memory.partitions,
         Replayed(memory, e) = Unreadable, Perform(m, <<e>>)
  PROVE  Forth
<1>1. memory \in Kernels /\ m \in Kernels
  BY DEF IInv, Sound
<1>2. /\ Extends(m, Counted(m, 1)) /\ Sound(Counted(m, 1))
      /\ Counted(m, 1).assessments = m.assessments
  BY <1>1, CountedSound DEF Counted, Kernels
<1>3. Extends(memory, Counted(m, 1)) /\ Extends(memory, memory)
  BY <1>1, <1>2, ExtendsTransitive, ExtendsReflexive DEF Sound
<1>4. Len(<<e>>) = 1 /\ 0 .. Len(<<e>>) - 1 = 0 .. 0
  OBVIOUS
<1>5. /\ Done(m, <<e>>) \/ \E k \in 0 .. 0 : Torn(<<e>>, k)
      /\ did' = Nothing /\ limits' = limits
  BY <1>4 DEF Perform
<1>6. ASSUME memory' = Counted(m, 1) PROVE NamedEarly
  <2>1. memory.assessments \in Seq(AssessmentType \cup {x})
    BY <1>1, Fields
  <2>2. /\ Len(m.assessments) > Len(memory.assessments)
        /\ m.assessments[Len(m.assessments)] = x
    BY <2>1
  <2>. QED
    BY <1>2, <1>6, <2>2 DEF NamedEarly
<1>7. CASE durable = Unreadable
  <2>1. memory' = Counted(m, 1) /\ durable' = Unreadable
    BY <1>5, <1>7, UnreadableEntries
  <2>. QED
    BY <1>2, <1>3, <1>5, <1>7, <2>1 DEF Forth, Follows
<1>8. CASE durable # Unreadable
  <2>1. durable = memory /\ Placed(memory)
    BY <1>8 DEF IInv
  <2>2. CASE Done(m, <<e>>)
    <3>1. memory' = Counted(m, 1) /\ durable' = Unreadable
      BY <1>1, <2>1, <2>2, OneRefused
    <3>. QED
      BY <1>2, <1>3, <1>5, <1>6, <3>1 DEF Forth, Follows
  <2>3. CASE \E k \in 0 .. 0 : Torn(<<e>>, k)
    <3>1. memory' = memory /\ durable' = memory'
      BY <1>1, <2>1, <2>3, OneRefused
    <3>. QED
      BY <1>3, <1>5, <1>8, <2>1, <3>1 DEF Forth, Follows, IInv
  <2>. QED
    BY <1>5, <2>2, <2>3
<1>. QED
  BY <1>7, <1>8

\* A registration.
LEMMA RegisterPolicyStep ==
  ASSUME IInv, NEW family \in Families, NEW value \in Offered(family),
         RegisterPolicy(family, value)
  PROVE  Forth
<1>. DEFINE m == Registered(memory, family, value)
            x == Stamped(value, memory)
            content == [family |-> family, artifact |-> value]
            e == Entry(m, "policy.registered", content)
<1>1. memory \in Kernels
  BY DEF IInv, Sound
<1>2. Registrable(memory, family, value) /\ Perform(m, <<e>>)
  BY DEF RegisterPolicy
<1>3. /\ Extends(memory, m) /\ Sound(m)
      /\ \/ Replayable(memory, family, value)
         \/ family = "assessments" /\ value.partition \notin DOMAIN memory.partitions
      /\ family = "assessments" => x.partition = value.partition
  BY <1>2, RegisteredSound DEF IInv
<1>4. m \in Kernels /\ SameButMeta(m, m)
  BY <1>3 DEF SameButMeta, Sound
<1>5. CASE Replayable(memory, family, value)
  <2>1. Placed(memory) => Placed(m)
    BY <1>1, <1>3, <1>4, <1>5, RegisteredPlaced
  <2>. HIDE DEF m
  <2>2. ReduceEvent(memory, e) = m
    BY <1>5 DEF ReduceEvent, ReplayRegistered, Entry, m
  <2>. HIDE DEF content
  <2>3. Replayed(memory, e) = Counted(m, 1)
    BY <1>1, <1>4, <2>2, EntryReplayed
  <2>. HIDE DEF e
  <2>. QED
    BY <1>2, <1>3, <2>1, <2>3, OneEntryStep
<1>6. CASE ~Replayable(memory, family, value)
  <2>1. m.assessments = Append(memory.assessments, x)
    BY <1>1, <1>3, <1>6, RegisteredElsewhere
  <2>. HIDE DEF m
  <2>2. ReduceEvent(memory, e) = Unreadable
    BY <1>6 DEF ReduceEvent, ReplayRegistered, Entry
  <2>3. Replayed(memory, e) = Unreadable
    BY <1>1, <2>2 DEF Replayed, Settled
  <2>4. x.partition \notin DOMAIN memory.partitions
    BY <1>3, <1>6
  <2>. HIDE DEF e, x
  <2>. QED
    BY <1>2, <1>3, <2>1, <2>3, <2>4, RegisterEarlyStep
<1>. QED
  BY <1>5, <1>6

\* The registration of a region.
LEMMA RegisterRegionStep ==
  ASSUME IInv, RegisterRegion
  PROVE  Forth
<1>. DEFINE m == RegionRegistered(memory)
            e == Entry(m, "region.registered", {})
<1>1. memory \in Kernels
  BY DEF IInv, Sound
<1>2. Perform(m, <<e>>)
  BY DEF RegisterRegion, Change
<1>3. Extends(memory, m) /\ Sound(m) /\ (Placed(memory) => Placed(m))
  BY <1>1, RegionRegisteredMoves, MovesSound DEF IInv
<1>4. Replayed(memory, e) = Counted(m, 1)
  BY <1>1, RegionRegisteredReplayed
<1>. HIDE DEF e, m
<1>. QED
  BY <1>2, <1>3, <1>4, OneEntryStep

\* A revision of the mission.
LEMMA ReviseMissionStep ==
  ASSUME IInv, ReviseMission
  PROVE  Forth
<1>. DEFINE m == MissionRevised(memory)
            e == Entry(m, "mission.revised", m.mission)
<1>1. memory \in Kernels
  BY DEF IInv, Sound
<1>2. Perform(m, <<e>>)
  BY DEF ReviseMission, Change
<1>3. Extends(memory, m) /\ Sound(m) /\ (Placed(memory) => Placed(m))
  BY <1>1, MissionRevisedMoves, MovesSound DEF IInv
<1>4. Replayed(memory, e) = Counted(m, 1)
  BY <1>1, MissionRevisedReplayed
<1>. HIDE DEF e, m
<1>. QED
  BY <1>2, <1>3, <1>4, OneEntryStep

\* A revision of the regime.
LEMMA ReviseRegimeStep ==
  ASSUME IInv, ReviseRegime
  PROVE  Forth
<1>. DEFINE m == RegimeRevised(memory)
            e == Entry(m, "semantic.regime_revised", m.regime)
<1>1. memory \in Kernels
  BY DEF IInv, Sound
<1>2. Perform(m, <<e>>)
  BY DEF ReviseRegime, Change
<1>3. Extends(memory, m) /\ Sound(m) /\ (Placed(memory) => Placed(m))
  BY <1>1, RegimeRevisedMoves, MovesSound DEF IInv
<1>4. Replayed(memory, e) = Counted(m, 1)
  BY <1>1, RegimeRevisedReplayed
<1>. HIDE DEF e, m
<1>. QED
  BY <1>2, <1>3, <1>4, OneEntryStep

\* A report.
LEMMA ReportModelClassAnomalyStep ==
  ASSUME IInv, ReportModelClassAnomaly
  PROVE  Forth
<1>. DEFINE m == AnomalyReported(memory)
            e == Entry(m, "recovery.model_class_uncertain", {})
<1>1. memory \in Kernels
  BY DEF IInv, Sound
<1>2. Perform(m, <<e>>)
  BY DEF ReportModelClassAnomaly, Change
<1>3. Extends(memory, m) /\ Sound(m) /\ (Placed(memory) => Placed(m))
  BY <1>1, AnomalyReportedMoves, MovesSound DEF IInv
<1>4. Replayed(memory, e) = Counted(m, 1)
  BY <1>1, AnomalyReportedReplayed
<1>. HIDE DEF e, m
<1>. QED
  BY <1>2, <1>3, <1>4, OneEntryStep

\* A proposal.
LEMMA ProposeActionStep ==
  ASSUME IInv, NEW a \in Actions, ProposeAction(a)
  PROVE  Forth
<1>. DEFINE m == ActionProposed(memory, a)
            e == Entry(m, "action.proposed", a)
<1>1. memory \in Kernels
  BY DEF IInv, Sound
<1>2. Perform(m, <<e>>)
  BY DEF ProposeAction, Change
<1>3. Extends(memory, m) /\ Sound(m) /\ (Placed(memory) => Placed(m))
  BY <1>1, ActionProposedMoves, MovesSound DEF IInv
<1>4. Replayed(memory, e) = Counted(m, 1)
  BY <1>1, ActionProposedReplayed
<1>. HIDE DEF e, m
<1>. QED
  BY <1>2, <1>3, <1>4, OneEntryStep

\* A change of access.
LEMMA ChangeAccessStep ==
  ASSUME IInv, NEW p \in Principals, ChangeAccess(p)
  PROVE  Forth
<1>. DEFINE e(m) == Entry(m, "principal.access", [p |-> p, revision |-> m.access[p]])
<1>1. memory \in Kernels
  BY DEF IInv, Sound
<1>2. PICK m \in {AccessUpdated(memory, p), PrincipalRegistered(memory, p)} :
        Perform(m, <<e(m)>>)
  BY DEF ChangeAccess, Change
<1>3. Extends(memory, m) /\ Sound(m) /\ (Placed(memory) => Placed(m))
  BY <1>1, AccessUpdatedMoves, PrincipalRegisteredMoves, MovesSound DEF IInv
<1>4. Replayed(memory, e(m)) = Counted(m, 1)
  BY <1>1, AccessUpdatedReplayed, PrincipalRegisteredReplayed
<1>. HIDE DEF e
<1>. QED
  BY <1>2, <1>3, <1>4, OneEntryStep

\* A commit, with the relocation where regions are registered.
LEMMA CommitActionPatchStep ==
  ASSUME IInv, CommitActionPatch
  PROVE  Forth
<1>. DEFINE m == Committed(memory)
            e == Entry(m, "canonical.committed", m.canonical)
            s == Relocated(m)
            f == Entry(s, "state.relocated", {})
            m1 == Counted(m, 1)
<1>1. memory \in Kernels
  BY DEF IInv, Sound
<1>2. Extends(memory, m) /\ Sound(m) /\ (Placed(memory) => Placed(m))
  BY <1>1, CommittedMoves, MovesSound DEF IInv
<1>3. Replayed(memory, e) = m1
  BY <1>1, CommittedReplayed
<1>4. \/ Perform(m, <<e>>)
      \/ Perform(s, <<e, f>>)
  BY DEF CommitActionPatch, Change
<1>5. CASE Perform(m, <<e>>)
  <2>. HIDE DEF e, m
  <2>. QED
    BY <1>2, <1>3, <1>5, OneEntryStep
<1>6. CASE Perform(s, <<e, f>>)
  <2>1. m \in Kernels
    BY <1>2 DEF Sound
  <2>. HIDE DEF m
  <2>2. Extends(m, m1) /\ Sound(m1) /\ (Placed(m) => Placed(m1))
    BY <1>2, CountedSound
  <2>3. m1 \in Kernels
    BY <2>2 DEF Sound
  <2>4. Extends(m, s) /\ Sound(s) /\ (Placed(m) => Placed(s))
    BY <1>2, <2>1, RelocatedMoves, MovesSound
  <2>5. /\ Extends(s, Counted(s, 2)) /\ Sound(Counted(s, 2))
        /\ Placed(s) => Placed(Counted(s, 2))
    BY <2>4, CountedSound
  <2>6. Replayed(m1, f) = Counted(s, 2)
    <3>1. Replayed(m1, Entry(Relocated(m1), "state.relocated", {})) = Counted(Relocated(m1), 1)
      BY <2>3, RelocatedReplayed
    <3>2. Meta(Relocated(m1)) = Meta(s)
      BY <2>1 DEF Meta, Relocated, Counted, Kernels
    <3>3. Entry(Relocated(m1), "state.relocated", {}) = f
      BY <3>2 DEF Entry
    <3>4. Counted(Relocated(m1), 1) = Counted(s, 2)
      <4>1. m.sequence \in Nat
        BY <2>1, Fields
      <4>2. m.sequence + 1 + 1 = m.sequence + 2
        BY <4>1
      <4>. QED
        BY <2>1, <4>2 DEF Relocated, Counted, Kernels
    <3>. QED
      BY <3>1, <3>3, <3>4
  <2>7. Extends(memory, m1) /\ Extends(memory, Counted(s, 2))
    <3>1. s \in Kernels /\ Counted(s, 2) \in Kernels
      BY <2>4, <2>5 DEF Sound
    <3>2. Extends(memory, s)
      BY <1>1, <1>2, <2>1, <2>4, <3>1, ExtendsTransitive
    <3>. QED
      BY <1>1, <1>2, <2>1, <2>2, <2>3, <2>5, <3>1, <3>2, ExtendsTransitive
  <2>8. Extends(memory, memory)
    BY <1>1, ExtendsReflexive
  <2>. HIDE DEF e, f, s
  <2>9. /\ Done(s, <<e, f>>) \/ \E k \in 0 .. 1 : Torn(<<e, f>>, k)
        /\ did' = Nothing /\ limits' = limits
    <3>1. Len(<<e, f>>) = 2 /\ 0 .. Len(<<e, f>>) - 1 = 0 .. 1
      OBVIOUS
    <3>. QED
      BY <1>6, <3>1 DEF Perform
  <2>. HIDE DEF m1
  <2>10. CASE durable = Unreadable
    <3>1. memory' = Counted(s, 2) /\ durable' = Unreadable
      BY <2>9, <2>10, UnreadableEntries
    <3>. QED
      BY <2>5, <2>7, <2>9, <2>10, <3>1 DEF Forth, Follows
  <2>11. CASE durable # Unreadable
    <3>1. durable = memory /\ Placed(memory)
      BY <2>11 DEF IInv
    <3>2. memory' \in {memory, m1, Counted(s, 2)} /\ durable' = memory'
      BY <1>1, <1>3, <2>6, <2>9, <3>1, TwoEntries
    <3>3. Sound(memory') /\ Placed(memory') /\ Extends(memory, memory')
      BY <1>2, <2>2, <2>4, <2>5, <2>7, <2>8, <3>1, <3>2 DEF IInv
    <3>4. durable' # Unreadable
      BY <3>2, <3>3, KernelReadable
    <3>. QED
      BY <2>9, <3>2, <3>3, <3>4 DEF Forth, Follows
  <2>. QED
    BY <2>10, <2>11
<1>. QED
  BY <1>4, <1>5, <1>6

-----------------------------------------------------------------------------
(* The authorizations.                                                      *)

\* The kernel with other authorizations.
Reauthorized(m, auths) == [m EXCEPT !.auths = auths]

\* Authorizations that are kept, or are sound, leave a kernel sound.
LEMMA AuthorizationsChange ==
  ASSUME NEW m, Sound(m), NEW auths \in Seq(AuthorizationType),
         \A i \in DOMAIN auths :
           \/ i \in DOMAIN m.auths /\ auths[i] = m.auths[i]
           \/ AuthorizationSound(m, auths[i])
  PROVE  LET r == Reauthorized(m, auths)
         IN /\ Extends(m, r) /\ Sound(r) /\ SameRegistries(m, r) /\ r.auths = auths
            /\ Placed(m) => Placed(r)
            /\ World(r) = World(m) /\ r.plan = m.plan /\ r.generation = m.generation
            /\ r.location = m.location
<1>. DEFINE r == Reauthorized(m, auths)
<1>1. m \in Kernels
  BY DEF Sound
<1>2. r \in Kernels
  BY <1>1 DEF Kernels, Reauthorized
<1>3. /\ SameRegistries(m, r) /\ r.auths = auths
      /\ World(r) = World(m) /\ r.plan = m.plan /\ r.generation = m.generation
      /\ r.location = m.location
  BY <1>1 DEF Kernels, Reauthorized, SameRegistries, World
<1>. HIDE DEF r
<1>4. Forward(m, r)
  BY <1>1, <1>3, WorldType, NoLaterReflexive, Fields DEF Forward, SamePlan, SameGeneration
<1>5. Extends(m, r)
  BY <1>1, <1>2, <1>3, <1>4, SameRegistriesContinue
<1>6. ASSUME NEW a, AuthorizationSound(m, a) PROVE AuthorizationSound(r, a)
  BY <1>3, <1>6 DEF AuthorizationSound, SameRegistries
<1>7. NewSound(m, r)
  BY <1>3, <1>6 DEF NewSound, SameRegistries, Sound
<1>8. Sound(r)
  BY <1>2, <1>5, <1>7, SoundStays
<1>9. Placed(m) => Placed(r)
  BY <1>3 DEF Placed, SameRegistries
<1>. QED
  BY <1>3, <1>5, <1>8, <1>9 DEF r

\* A bundle that fits names revisions that there are.
LEMMA BundleNamesRevisions ==
  ASSUME NEW m \in Kernels, NEW b \in Bundles, NEW action, NEW p, NEW now,
         BundleFits(m, b, action, p, now)
  PROVE  /\ b \in [Bundled -> Nat] /\ b # <<>>
         /\ b["nodes"] \in DOMAIN m.nodes /\ b["selections"] \in DOMAIN m.selections
         /\ b["sufficiency"] \in DOMAIN m.sufficiency /\ b["seals"] \in DOMAIN m.seals
         /\ b["assessments"] \in DOMAIN m.assessments
<1>1. DOMAIN b = Bundled /\ b = [family \in Bundled |-> b[family]]
  BY DEF Bundles
<1>2. \A family \in Bundled : b[family] \in DOMAIN m[family]
  BY <1>1 DEF BundleFits
<1>3. /\ b["nodes"] \in DOMAIN m.nodes /\ b["selections"] \in DOMAIN m.selections
      /\ b["sufficiency"] \in DOMAIN m.sufficiency /\ b["seals"] \in DOMAIN m.seals
      /\ b["assessments"] \in DOMAIN m.assessments
  BY <1>2 DEF Bundled
<1>4. \A family \in Bundled : b[family] \in Nat
  <2>1. b["nodes"] \in Nat /\ b["selections"] \in Nat
    BY <1>3, Lengths
  <2>2. b["sufficiency"] \in Nat /\ b["seals"] \in Nat /\ b["assessments"] \in Nat
    BY <1>3, Lengths
  <2>. QED
    BY <2>1, <2>2 DEF Bundled
<1>5. b # <<>>
  <2>1. "nodes" \in DOMAIN b
    BY <1>1 DEF Bundled
  <2>2. DOMAIN <<>> = {}
    OBVIOUS
  <2>. QED
    BY <2>1, <2>2
<1>. QED
  BY <1>1, <1>3, <1>4, <1>5

\* What the properties say of the worlds u and w.
SameWorld(u, w) ==
  /\ u.mission = w.mission /\ u.canonical = w.canonical /\ u.location = w.location
  /\ u.regime = w.regime /\ u.actions = w.actions /\ u.access[Acting] = w.access[Acting]

\* What was registered between two worlds that are the same was so in the same one.
LEMMA Sandwiched ==
  ASSUME NEW u \in Worlds, NEW v \in Worlds, NEW w \in Worlds,
         NoLater(u, v), NoLater(v, w), SameWorld(u, w)
  PROVE  SameWorld(v, w)
<1>1. /\ v.mission = w.mission /\ v.canonical = w.canonical /\ v.location = w.location
      /\ v.regime = w.regime /\ v.actions = w.actions
  BY DEF SameWorld, NoLater, Worlds
<1>2. v.access[Acting] = w.access[Acting]
  <2>1. u.access[Acting] \in Nat /\ v.access[Acting] \in Nat /\ w.access[Acting] \in Nat
    BY PolicyAssumption DEF Worlds
  <2>2. /\ u.access[Acting] <= v.access[Acting] /\ v.access[Acting] <= w.access[Acting]
        /\ u.access[Acting] = w.access[Acting]
    BY PolicyAssumption DEF NoLater, SameWorld
  <2>. QED
    BY <2>1, <2>2
<1>. QED
  BY <1>1, <1>2 DEF SameWorld

\* An epoch that fits is of the world as it is, of which it says less: the plan vouches for
\* the rest.
LEMMA EpochOfWorld ==
  ASSUME NEW m, Sound(m), NEW e \in DOMAIN m.epochs, NEW now,
         EpochFits(m, m.epochs[e], Acting, now)
  PROVE  SameWorld(m.epochs[e].world, World(m)) /\ m.epochs[e].principal = Acting
<1>1. EpochSound(m, e) /\ m \in Kernels
  BY DEF Sound
<1>2. /\ m.epochs[e].principal = Acting /\ m.epochs[e].snapshot = Snapshot(m)
      /\ m.epochs[e].access = m.access[Acting]
  BY DEF EpochFits
<1>3. /\ Snapshot(m).mission = m.mission /\ Snapshot(m).plan = m.plan
      /\ Snapshot(m).location = m.location /\ Snapshot(m).actions = m.actions
  BY DEF Snapshot
<1>4. SamePlan(m.epochs[e].world, World(m))
  BY <1>1, <1>2, <1>3 DEF EpochSound
<1>. QED
  BY <1>1, <1>2, <1>3, <1>4, WorldFields DEF EpochSound, SameWorld, SamePlan

\* The node, the epoch and the certificates of a bundle that fits are of the world as it is.
LEMMA BundleOfWorld ==
  ASSUME NEW m, Sound(m), NEW b \in Bundles, NEW action, NEW now,
         BundleFits(m, b, action, Acting, now)
  PROVE  LET node == m.nodes[b["nodes"]]
         IN /\ node.epoch \in DOMAIN m.epochs /\ m.epochs[node.epoch].principal = Acting
            /\ SameWorld(m.epochs[node.epoch].world, World(m))
            /\ SameWorld(node.world, World(m))
            /\ SameWorld(m.sufficiency[b["sufficiency"]].world, World(m))
            /\ SameWorld(m.seals[b["seals"]].world, World(m))
            /\ SameWorld(m.assessments[b["assessments"]].world, World(m))
<1>. DEFINE n == b["nodes"]
            node == m.nodes[n]
            epoch == m.epochs[node.epoch]
            c == m.sufficiency[b["sufficiency"]]
            s == m.seals[b["seals"]]
            x == m.assessments[b["assessments"]]
            w == World(m)
<1>1. m \in Kernels
  BY DEF Sound
<1>2. /\ n \in DOMAIN m.nodes /\ b["sufficiency"] \in DOMAIN m.sufficiency
      /\ b["seals"] \in DOMAIN m.seals /\ b["assessments"] \in DOMAIN m.assessments
  BY <1>1, BundleNamesRevisions
<1>3. /\ EpochFits(m, epoch, Acting, now) /\ c.epoch = node.epoch
      /\ s.sufficiency = b["sufficiency"] /\ x.node = n
  BY DEF BundleFits, SufficiencyFits, SealFits, AssessmentFits
<1>4. NodeSound(m, node) /\ SufficiencySound(m, c) /\ SealSound(m, s) /\ AssessmentSound(m, x)
  BY <1>2 DEF Sound
<1>5. node.epoch \in DOMAIN m.epochs
  BY <1>4 DEF NodeSound
<1>6. /\ node \in NodeType /\ epoch \in EpochType /\ c \in SufficiencyType /\ s \in SealType
      /\ x \in AssessmentType
  BY <1>1, <1>2, <1>5, Fields
<1>7. /\ node.world \in Worlds /\ epoch.world \in Worlds /\ c.world \in Worlds
      /\ s.world \in Worlds /\ x.world \in Worlds /\ w \in Worlds
  BY <1>1, <1>6, WorldType
  DEF NodeType, EpochType, SufficiencyType, SealType, AssessmentType
<1>8. SameWorld(epoch.world, w) /\ epoch.principal = Acting
  BY <1>3, <1>5, EpochOfWorld
<1>9. /\ NoLater(epoch.world, node.world) /\ NoLater(node.world, w)
      /\ NoLater(epoch.world, c.world) /\ NoLater(c.world, w)
      /\ NoLater(c.world, s.world) /\ NoLater(s.world, w)
      /\ NoLater(node.world, x.world) /\ NoLater(x.world, w)
  BY <1>3, <1>4 DEF NodeSound, SufficiencySound, SealSound, AssessmentSound
<1>. HIDE DEF n, node, epoch, c, s, x, w
<1>10. SameWorld(node.world, w) /\ SameWorld(c.world, w)
  BY <1>7, <1>8, <1>9, Sandwiched
<1>11. SameWorld(s.world, w) /\ SameWorld(x.world, w)
  BY <1>7, <1>9, <1>10, Sandwiched
<1>. QED
  BY <1>5, <1>8, <1>10, <1>11 DEF n, node, epoch, c, s, x, w

\* What IssuedOnOneSnapshot says of the revisions of a bundle for the action, in the world now.
OfOneSnapshot(now, node, epoch, partition, frontier, selection, sufficient, seal, assessed,
              action) ==
  LET Same(artifact, fields) == \A f \in fields : artifact.world[f] = now[f]
      SameAccess(artifact) == artifact.world.access[Acting] = now.access[Acting]
  IN /\ \A artifact \in {node, epoch, sufficient, seal, assessed} :
          /\ Same(artifact, {"mission", "canonical", "location", "regime", "actions"})
          /\ SameAccess(artifact)
     /\ Same(partition, {"mission", "canonical"}) /\ SameAccess(partition)
     /\ SameAccess(frontier)
     /\ Same(selection, {"actions"})
     /\ "plan" \in DOMAIN selection.generations =>
          Same(selection, {"mission", "canonical", "regime", "access"})
     /\ {selection.action, sufficient.action, assessed.action} = {action}
     /\ {node.principal, epoch.principal, partition.principal, selection.principal} = {Acting}

\* What it says of an authorization of the kernel m.
OneSnapshot(m, a) ==
  LET b == a.bundle
      node == m.nodes[b.nodes]
  IN OfOneSnapshot(World(m), node, m.epochs[node.epoch], m.partitions[node.partition],
                   m.frontiers[node.frontier], m.selections[b.selections],
                   m.sufficiency[b.sufficiency], m.seals[b.seals],
                   m.assessments[b.assessments], a.action)

\* What DispatchOnUnchangedBundle says of one.
Unchanged(m, a) ==
  LET now == World(m)
  IN a.bundle # <<>> =>
       /\ \A f \in {"mission", "canonical", "location", "regime"} : a.issue.world[f] = now[f]
       /\ a.issue.world.access[Acting] = now.access[Acting]
       /\ \A family \in Lineages : a.issue.revisions[family] = Len(m[family])
       /\ "plan" \in DOMAIN m.selections[a.bundle.selections].generations =>
            a.issue.generation = m.generation

\* A bundle that fits is of one snapshot.
LEMMA BundleOnOneSnapshot ==
  ASSUME NEW m, Sound(m), NEW b \in Bundles, NEW action, NEW now,
         BundleFits(m, b, action, Acting, now),
         NEW a, a.bundle = b, a.action = action
  PROVE  OneSnapshot(m, a)
<1>. DEFINE node == m.nodes[b["nodes"]]
            partition == m.partitions[node.partition]
            frontier == m.frontiers[node.frontier]
            selection == m.selections[b["selections"]]
            epoch == m.epochs[node.epoch]
            sufficient == m.sufficiency[b["sufficiency"]]
            seal == m.seals[b["seals"]]
            assessed == m.assessments[b["assessments"]]
            w == World(m)
<1>1. m \in Kernels
  BY DEF Sound
<1>2. /\ b["nodes"] \in DOMAIN m.nodes /\ b["selections"] \in DOMAIN m.selections
  BY <1>1, BundleNamesRevisions
<1>3. /\ NodeFits(node, action, Acting) /\ InformationFits(m, node, Acting)
      /\ SelectionFits(m, selection, node, action, Acting)
      /\ sufficient.action = action
      /\ assessed.action = action
  BY DEF BundleFits, SufficiencyFits, AssessmentFits
<1>4. /\ node.partition \in DOMAIN m.partitions /\ node.frontier \in DOMAIN m.frontiers
      /\ SelectionSound(m, selection)
  BY <1>2 DEF Sound, NodeSound
<1>5. PartitionSound(partition) /\ FrontierSound(frontier)
  BY <1>4 DEF Sound
<1>6. /\ partition.principal = Acting /\ frontier.principal = Acting
      /\ partition.mission = m.mission /\ partition.canonical = m.canonical
      /\ partition.access = m.access[Acting] /\ frontier.access = m.access[Acting]
  BY <1>3 DEF InformationFits
<1>7. /\ partition.world.mission = w.mission /\ partition.world.canonical = w.canonical
      /\ partition.world.access[Acting] = w.access[Acting]
      /\ frontier.world.access[Acting] = w.access[Acting]
  <2>1. w.mission = m.mission /\ w.canonical = m.canonical /\ w.access = m.access
    BY WorldFields
  <2>2. /\ partition.world.mission = partition.mission
        /\ partition.world.canonical = partition.canonical
        /\ partition.world.access[partition.principal] = partition.access
        /\ frontier.world.access[frontier.principal] = frontier.access
    BY <1>5 DEF PartitionSound, FrontierSound
  <2>. HIDE DEF partition, frontier, w
  <2>. QED
    BY <1>6, <2>1, <2>2
<1>8. /\ selection.action = action /\ selection.principal = Acting
      /\ selection.world.actions = w.actions
  BY <1>3, <1>4, WorldFields DEF SelectionFits, SelectionSound
<1>9. "plan" \in DOMAIN selection.generations => SameGeneration(selection.world, w)
  <2>1. CurrentSelectionStatus(m, selection) = "advisory"
    BY <1>3 DEF SelectionFits
  <2>2. "plan" \in DOMAIN selection.generations =>
          selection.generations["plan"] = m.generation
    BY <2>1 DEF CurrentSelectionStatus, SelectionStatus
  <2>. QED
    BY <1>4, <2>2 DEF SelectionSound
<1>10. /\ epoch.principal = Acting /\ SameWorld(epoch.world, w) /\ SameWorld(node.world, w)
       /\ SameWorld(sufficient.world, w) /\ SameWorld(seal.world, w)
       /\ SameWorld(assessed.world, w)
  BY BundleOfWorld
<1>11. node.principal = Acting
  BY <1>3 DEF NodeFits
<1>. HIDE DEF node, partition, frontier, selection, epoch, sufficient, seal, assessed, w
<1>12. ASSUME NEW x, SameWorld(x.world, w)
       PROVE  /\ \A f \in {"mission", "canonical", "location", "regime", "actions"} :
                   x.world[f] = w[f]
              /\ x.world.access[Acting] = w.access[Acting]
  BY <1>12 DEF SameWorld
<1>13. "plan" \in DOMAIN selection.generations =>
         \A f \in {"mission", "canonical", "regime", "access"} : selection.world[f] = w[f]
  BY <1>9 DEF SameGeneration, SamePlan
<1>14. /\ {selection.action, sufficient.action, assessed.action} = {action}
       /\ {node.principal, epoch.principal, partition.principal, selection.principal} = {Acting}
  BY <1>3, <1>6, <1>8, <1>10, <1>11
<1>15. /\ \A f \in {"mission", "canonical"} : partition.world[f] = w[f]
       /\ \A f \in {"actions"} : selection.world[f] = w[f]
  BY <1>7, <1>8
<1>16. \A x \in {node, epoch, sufficient, seal, assessed} : SameWorld(x.world, w)
  BY <1>10
<1>17. OfOneSnapshot(w, node, epoch, partition, frontier, selection, sufficient, seal, assessed,
                     action)
  BY <1>7, <1>12, <1>13, <1>14, <1>15, <1>16 DEF OfOneSnapshot
<1>. QED
  BY <1>17 DEF OneSnapshot, node, partition, frontier, selection, epoch, sufficient, seal,
               assessed, w

\* What is bound to a bundle that fits is sound.
LEMMA BoundSound ==
  ASSUME NEW m, Sound(m), NEW b \in Bundles, NEW action, NEW now,
         BundleFits(m, b, action, Acting, now),
         NEW a \in AuthorizationType
  PROVE  /\ BoundTo(m, a, b) \in AuthorizationType /\ BoundTo(m, a, b).bundle = b
         /\ BoundTo(m, a, b).action = a.action /\ AuthorizationSound(m, BoundTo(m, a, b))
<1>. DEFINE c == BoundTo(m, a, b)
            n == b["nodes"]
            e == m.nodes[n].epoch
            s == m.selections[b["selections"]]
            w == World(m)
<1>1. m \in Kernels
  BY DEF Sound
<1>2. /\ b \in [Bundled -> Nat] /\ b # <<>>
      /\ n \in DOMAIN m.nodes /\ b["selections"] \in DOMAIN m.selections
      /\ b["sufficiency"] \in DOMAIN m.sufficiency /\ b["seals"] \in DOMAIN m.seals
      /\ b["assessments"] \in DOMAIN m.assessments
  BY <1>1, BundleNamesRevisions
<1>3. Closure(m) \in [Lineages -> Nat]
  BY <1>1, Lengths DEF Closure, Lineages
<1>4. Issue(m) \in [world : Worlds, generation : Nat, revisions : [Lineages -> Nat]]
  BY <1>1, <1>3, WorldType, Fields DEF Issue, Closure
<1>5. /\ c.bundle = b /\ c.closure = Closure(m) /\ c.issue = Issue(m) /\ c.action = a.action
      /\ c.state = a.state /\ c \in AuthorizationType
  BY <1>2, <1>3, <1>4 DEF BoundTo, AuthorizationType
<1>6. /\ Issue(m).world = w /\ Issue(m).generation = m.generation
      /\ Issue(m).revisions = Closure(m)
  BY DEF Issue, Closure
<1>7. /\ Closure(m)["frontiers"] = Len(m.frontiers)
      /\ Closure(m)["partitions"] = Len(m.partitions) /\ Closure(m)["nodes"] = Len(m.nodes)
      /\ Closure(m)["sufficiency"] = Len(m.sufficiency)
      /\ Closure(m)["seals"] = Len(m.seals)
      /\ Closure(m)["assessments"] = Len(m.assessments)
  BY DEF Closure, Lineages
<1>8. /\ Len(m.frontiers) \in Nat /\ Len(m.partitions) \in Nat /\ Len(m.nodes) \in Nat
      /\ Len(m.sufficiency) \in Nat /\ Len(m.seals) \in Nat /\ Len(m.assessments) \in Nat
  BY <1>1, Lengths
<1>9. /\ e \in DOMAIN m.epochs /\ m.epochs[e].principal = Acting
      /\ SameWorld(m.epochs[e].world, w)
  BY BundleOfWorld
<1>10. m.epochLineage[e] =
         [mission |-> w.mission, canonical |-> w.canonical, location |-> w.location,
          regime |-> w.regime, access |-> w.access[Acting]]
  <2>1. EpochSound(m, e)
    BY <1>9 DEF Sound
  <2>. QED
    BY <1>9, <2>1 DEF EpochSound, SameWorld
<1>11. "plan" \in DOMAIN s.generations => s.generations["plan"] = m.generation
  <2>1. CurrentSelectionStatus(m, s) = "advisory"
    BY DEF BundleFits, SelectionFits
  <2>. QED
    BY <2>1 DEF CurrentSelectionStatus, SelectionStatus
<1>. HIDE DEF c, w
<1>12. /\ c.closure["frontiers"] <= Len(m.frontiers)
       /\ c.closure["partitions"] <= Len(m.partitions)
       /\ c.closure["nodes"] <= Len(m.nodes)
       /\ c.closure["sufficiency"] <= Len(m.sufficiency)
       /\ c.closure["seals"] <= Len(m.seals)
       /\ c.closure["assessments"] <= Len(m.assessments)
  BY <1>5, <1>7, <1>8
<1>13. AuthorizationSound(m, c)
  BY <1>2, <1>3, <1>5, <1>6, <1>9, <1>10, <1>11, <1>12 DEF AuthorizationSound
<1>. QED
  BY <1>5, <1>13 DEF c

\* What is bound depends only on the registries, the world and the generation.
LEMMA BoundAlike ==
  ASSUME NEW r \in Kernels, NEW s \in Kernels, SameRegistries(r, s), World(r) = World(s),
         r.generation = s.generation, NEW a, NEW b
  PROVE  BoundTo(r, a, b) = BoundTo(s, a, b)
<1>1. \A family \in Lineages : r[family] = s[family]
  BY DEF SameRegistries, Lineages
<1>2. Closure(r) = Closure(s)
  BY <1>1 DEF Closure
<1>3. Issue(r) = Issue(s)
  BY <1>1 DEF Issue
<1>. QED
  BY <1>2, <1>3 DEF BoundTo

\* What a bundle agrees with stays so when only the authorizations and the sequence change.
LEMMA OneSnapshotStays ==
  ASSUME NEW m, NEW r, SameRegistries(m, r), World(r) = World(m), NEW a, OneSnapshot(m, a)
  PROVE  OneSnapshot(r, a)
<1>1. /\ r.nodes = m.nodes /\ r.epochs = m.epochs /\ r.partitions = m.partitions
      /\ r.frontiers = m.frontiers /\ r.selections = m.selections
      /\ r.sufficiency = m.sufficiency /\ r.seals = m.seals /\ r.assessments = m.assessments
  BY DEF SameRegistries
<1>. QED
  BY <1>1 DEF OneSnapshot

\* The same for an authorization that is dispatched.
LEMMA UnchangedStays ==
  ASSUME NEW m, NEW r, SameRegistries(m, r), World(r) = World(m),
         r.generation = m.generation, NEW a, NEW c, Unchanged(m, a),
         c.bundle = a.bundle, c.issue = a.issue
  PROVE  Unchanged(r, c)
<1>1. \A family \in Lineages : r[family] = m[family]
  BY DEF SameRegistries, Lineages
<1>. QED
  BY <1>1 DEF Unchanged, SameRegistries

\* Entries are counted one after the other, and nothing else is.
LEMMA CountedFields ==
  ASSUME NEW m \in Kernels, NEW n \in Nat
  PROVE  /\ SameRegistries(m, Counted(m, n)) /\ World(Counted(m, n)) = World(m)
         /\ Counted(m, n).auths = m.auths /\ Counted(m, n).plan = m.plan
         /\ Counted(m, n).generation = m.generation /\ Counted(m, n).location = m.location
         /\ Counted(m, n).sequence = m.sequence + n
         /\ Counted(m, n) \in Kernels
<1>1. Counted(m, n) \in Kernels
  BY SequenceMoves DEF Moves, Counted
<1>. QED
  BY <1>1 DEF Counted, Kernels, SameRegistries, World

Replaced(s, i, y) == [s EXCEPT ![i] = y]

\* The last element of a sequence is replaced by another one.
LEMMA LastReplaced ==
  ASSUME NEW S, NEW s \in Seq(S), NEW x \in S, NEW y \in S
  PROVE  Replaced(Append(s, x), Len(s) + 1, y) = Append(s, y)
<1>. DEFINE left == [Append(s, x) EXCEPT ![Len(s) + 1] = y]
            right == Append(s, y)
<1>1. /\ Append(s, x) \in Seq(S) /\ right \in Seq(S) /\ Len(s) \in Nat
      /\ Len(Append(s, x)) = Len(s) + 1 /\ Len(right) = Len(s) + 1
      /\ \A i \in 1 .. Len(s) : Append(s, x)[i] = s[i] /\ right[i] = s[i]
      /\ right[Len(s) + 1] = y
  OBVIOUS
<1>2. left \in Seq(S) /\ Len(left) = Len(s) + 1
  BY <1>1
<1>3. ASSUME NEW i \in 1 .. Len(s) + 1 PROVE left[i] = right[i]
  <2>. DEFINE w == Append(s, x)
  <2>1. DOMAIN w = 1 .. Len(s) + 1
    BY <1>1
  <2>2. i # Len(s) + 1 => w[i] = right[i]
    BY <1>1
  <2>. HIDE DEF w
  <2>3. [w EXCEPT ![Len(s) + 1] = y][i] = IF i = Len(s) + 1 THEN y ELSE w[i]
    BY <1>1, <2>1
  <2>. QED
    BY <1>1, <2>2, <2>3 DEF w
<1>. HIDE DEF left, right
<1>4. left = right
  BY <1>1, <1>2, <1>3, SeqEqual
<1>. QED
  BY <1>4 DEF left, right, Replaced

Unbound(action) ==
  [action |-> action, bundle |-> <<>>, closure |-> <<>>, issue |-> <<>>,
   state |-> "authorized"]

\* The kernels between the entries of an authorization: it is recorded, bound to its proof,
\* and bound to its bundle.
LEMMA AuthorizationReplayed ==
  ASSUME IInv, NEW action \in Actions, NEW bundle \in Bundles, NEW now,
         BundleFits(memory, bundle, action, Acting, now)
  PROVE  LET unbound == Unbound(action)
             n == Len(memory.auths) + 1
             u == Reauthorized(memory, Append(memory.auths, unbound))
             c == BoundTo(memory, unbound, bundle)
             m == Reauthorized(memory, Append(memory.auths, c))
         IN /\ Sound(u) /\ Extends(memory, u) /\ Sound(m) /\ Extends(memory, m)
            /\ m = Bound([memory EXCEPT !.auths = Append(@, unbound)], n, bundle)
            /\ Replayed(memory, Entry(m, "action.authorized", unbound)) = Counted(u, 1)
            /\ Replayed(Counted(u, 1), Entry(m, "proof.authorization_bound", {}))
                 = Counted(Counted(u, 1), 1)
            /\ Replayed(Counted(Counted(u, 1), 1),
                        Entry(m, "policy.authorization_bound",
                              [n |-> n, bundle |-> bundle])) = Counted(m, 3)
            /\ OneSnapshot(Counted(m, 3), Counted(m, 3).auths[n])
            /\ Placed(memory) => Placed(u) /\ Placed(m)
<1>. DEFINE unbound == Unbound(action)
            n == Len(memory.auths) + 1
            u == Reauthorized(memory, Append(memory.auths, unbound))
            c == BoundTo(memory, unbound, bundle)
            auths == Append(memory.auths, c)
            m == Reauthorized(memory, auths)
            d1 == Counted(u, 1)
            d2 == Counted(d1, 1)
            content == [n |-> n, bundle |-> bundle]
<1>1. memory \in Kernels /\ Sound(memory)
  BY DEF IInv, Sound
<1>2. /\ unbound \in AuthorizationType /\ AuthorizationSound(memory, unbound)
      /\ unbound.action = action
  BY DEF Unbound, AuthorizationType, AuthorizationSound
<1>3. /\ c \in AuthorizationType /\ AuthorizationSound(memory, c)
      /\ c.bundle = bundle /\ c.action = action
  BY <1>1, <1>2, BoundSound
<1>. HIDE DEF unbound, c
<1>4. ASSUME NEW a \in AuthorizationType, AuthorizationSound(memory, a)
      PROVE  LET r == Reauthorized(memory, Append(memory.auths, a))
             IN /\ Extends(memory, r) /\ Sound(r) /\ SameRegistries(memory, r)
                /\ r.auths = Append(memory.auths, a) /\ r.auths[n] = a
                /\ n \in DOMAIN r.auths
                /\ World(r) = World(memory) /\ r.plan = memory.plan
                /\ r.generation = memory.generation /\ r.location = memory.location
  <2>1. memory.auths \in Seq(AuthorizationType)
    BY <1>1, Fields
  <2>2. /\ Append(memory.auths, a) \in Seq(AuthorizationType)
        /\ \A i \in DOMAIN Append(memory.auths, a) :
             \/ i \in DOMAIN memory.auths /\ Append(memory.auths, a)[i] = memory.auths[i]
             \/ Append(memory.auths, a)[i] = a
        /\ Append(memory.auths, a)[n] = a /\ n \in DOMAIN Append(memory.auths, a)
    BY <1>4, <2>1, ContinuesAppend
  <2>. QED
    BY <1>1, <1>4, <2>2, AuthorizationsChange
<1>5. /\ Extends(memory, u) /\ Sound(u) /\ SameRegistries(memory, u)
      /\ u.auths = Append(memory.auths, unbound) /\ u.auths[n] = unbound
      /\ n \in DOMAIN u.auths
      /\ World(u) = World(memory) /\ u.plan = memory.plan
      /\ u.generation = memory.generation /\ u.location = memory.location
  BY <1>2, <1>4
<1>6. /\ Extends(memory, m) /\ Sound(m) /\ SameRegistries(memory, m)
      /\ m.auths = auths /\ m.auths[n] = c
      /\ World(m) = World(memory) /\ m.plan = memory.plan
      /\ m.generation = memory.generation /\ m.location = memory.location
  BY <1>3, <1>4
<1>7. Replaced(Append(memory.auths, unbound), n, c) = auths
  <2>1. memory.auths \in Seq(AuthorizationType)
    BY <1>1, Fields
  <2>2. unbound \in AuthorizationType /\ c \in AuthorizationType
    BY <1>2, <1>3
  <2>. QED
    BY <2>1, <2>2, LastReplaced
<1>8. u \in Kernels /\ m \in Kernels
  BY <1>5, <1>6 DEF Sound
<1>9. u = [memory EXCEPT !.auths = Append(@, unbound)]
  BY <1>1 DEF Reauthorized
<1>. HIDE DEF n
<1>10. Bound(u, n, bundle) = m
  <2>1. BoundTo(u, unbound, bundle) = c
    <3>1. SameRegistries(u, memory)
      BY <1>5 DEF SameRegistries
    <3>. QED
      BY <1>1, <1>5, <1>8, <3>1, BoundAlike DEF c
  <2>2. Bound(u, n, bundle) = [u EXCEPT !.auths = [u.auths EXCEPT ![n] = c]]
    BY <1>5, <2>1 DEF Bound
  <2>3. [u EXCEPT !.auths = auths] = m
    BY <1>1 DEF Reauthorized, Kernels
  <2>. QED
    BY <1>5, <1>7, <2>2, <2>3 DEF Replaced
<1>. HIDE DEF u, auths
<1>11. /\ d1 \in Kernels /\ SameRegistries(u, d1) /\ World(d1) = World(u)
       /\ d1.auths = u.auths /\ d1.generation = u.generation /\ d1.plan = u.plan
       /\ d1.location = u.location /\ d1.sequence = u.sequence + 1
  BY <1>8, CountedFields
<1>12. /\ d2 \in Kernels /\ SameRegistries(d1, d2) /\ World(d2) = World(d1)
       /\ d2.auths = d1.auths /\ d2.generation = d1.generation /\ d2.plan = d1.plan
       /\ d2.location = d1.location /\ d2.sequence = d1.sequence + 1
  BY <1>11, CountedFields
<1>13. Meta(m) = Meta(u) /\ Meta(m) = Meta(d1) /\ Meta(m) = Meta(d2)
  BY <1>5, <1>6, <1>11, <1>12 DEF Meta
<1>14. Replayed(memory, Entry(m, "action.authorized", unbound)) = d1
  <2>1. Entry(m, "action.authorized", unbound) = Entry(u, "action.authorized", unbound)
    BY <1>13 DEF Entry
  <2>2. ReduceEvent(memory, Entry(u, "action.authorized", unbound)) = u
    BY <1>9 DEF ReduceEvent, Entry
  <2>3. SameButMeta(u, u)
    BY DEF SameButMeta
  <2>. QED
    BY <1>1, <1>8, <2>1, <2>2, <2>3, EntryReplayed
<1>. HIDE DEF d1
<1>15. Replayed(d1, Entry(m, "proof.authorization_bound", {})) = d2
  <2>1. Entry(m, "proof.authorization_bound", {}) = Entry(d1, "proof.authorization_bound", {})
    BY <1>13 DEF Entry
  <2>2. ReduceEvent(d1, Entry(d1, "proof.authorization_bound", {})) = d1
    BY DEF ReduceEvent, Entry
  <2>3. SameButMeta(d1, d1)
    BY DEF SameButMeta
  <2>. QED
    BY <1>11, <2>1, <2>2, <2>3, EntryReplayed
<1>16. Bound(d2, n, bundle) = Reauthorized(d2, auths)
  <2>1. BoundTo(d2, unbound, bundle) = c
    <3>1. /\ SameRegistries(d2, memory) /\ World(d2) = World(memory)
          /\ d2.generation = memory.generation
      BY <1>5, <1>11, <1>12 DEF SameRegistries
    <3>. QED
      BY <1>1, <1>12, <3>1, BoundAlike DEF c
  <2>2. d2.auths = Append(memory.auths, unbound) /\ d2.auths[n] = unbound
    BY <1>5, <1>11, <1>12
  <2>3. Bound(d2, n, bundle) = [d2 EXCEPT !.auths = [d2.auths EXCEPT ![n] = c]]
    BY <2>1, <2>2 DEF Bound
  <2>. QED
    BY <1>7, <2>2, <2>3 DEF Reauthorized, Replaced
<1>17. Counted(Reauthorized(d2, auths), 1) = Counted(m, 3)
  <2>1. memory.sequence \in Nat
    BY <1>1, Fields
  <2>2. memory.sequence + 1 + 1 + 1 = memory.sequence + 3
    BY <2>1
  <2>. QED
    BY <1>1, <2>2 DEF d1, u, Counted, Reauthorized, Kernels
<1>. HIDE DEF d2
<1>18. Replayed(d2, Entry(m, "policy.authorization_bound", content)) = Counted(m, 3)
  <2>. DEFINE r == Reauthorized(d2, auths)
              e == Entry(m, "policy.authorization_bound", content)
  <2>1. r \in Kernels
    <3>1. auths \in Seq(AuthorizationType)
      BY <1>6, <1>8, Fields
    <3>. QED
      BY <1>12, <3>1 DEF Kernels, Reauthorized
  <2>2. Meta(r) = Meta(m)
    BY <1>12, <1>13 DEF Meta, Reauthorized, Kernels
  <2>3. e = Entry(r, "policy.authorization_bound", content)
    BY <2>2 DEF Entry
  <2>4. n \in DOMAIN d2.auths
    BY <1>5, <1>11, <1>12
  <2>5. BindingValid(d2, bundle)
    <3>1. /\ bundle["nodes"] \in DOMAIN memory.nodes
          /\ bundle["selections"] \in DOMAIN memory.selections
          /\ bundle["sufficiency"] \in DOMAIN memory.sufficiency
          /\ bundle["seals"] \in DOMAIN memory.seals
          /\ bundle["assessments"] \in DOMAIN memory.assessments
      BY <1>1, BundleNamesRevisions
    <3>2. DOMAIN bundle = Bundled
      BY DEF Bundles
    <3>. QED
      BY <1>5, <1>11, <1>12, <3>1, <3>2 DEF BindingValid, Bundled, SameRegistries
  <2>6. ReduceEvent(d2, e) = r
    BY <1>16, <2>4, <2>5 DEF ReduceEvent, ReplayBound, Entry
  <2>7. SameButMeta(r, r)
    BY DEF SameButMeta
  <2>. HIDE DEF r, e, content
  <2>8. Replayed(d2, e) = Counted(r, 1)
    BY <1>12, <2>1, <2>3, <2>6, <2>7, EntryReplayed
  <2>. QED
    BY <1>17, <2>8 DEF r, e
<1>19. OneSnapshot(Counted(m, 3), Counted(m, 3).auths[n])
  <2>1. OneSnapshot(memory, c)
    BY <1>1, <1>3, BundleOnOneSnapshot
  <2>. HIDE DEF m
  <2>2. /\ SameRegistries(m, Counted(m, 3)) /\ World(Counted(m, 3)) = World(m)
        /\ Counted(m, 3).auths = m.auths
    BY <1>8, CountedFields
  <2>3. SameRegistries(memory, Counted(m, 3)) /\ World(Counted(m, 3)) = World(memory)
    BY <1>6, <2>2 DEF SameRegistries
  <2>. QED
    BY <1>6, <2>1, <2>2, <2>3, OneSnapshotStays
<1>20. Placed(memory) => Placed(u) /\ Placed(m)
  BY <1>5, <1>6 DEF Placed, SameRegistries
<1>. QED
  BY <1>5, <1>6, <1>9, <1>10, <1>14, <1>15, <1>18, <1>19, <1>20 DEF u, unbound, c, auths, d1, d2, n

\* What a step may do when it issues or dispatches an authorization too.
Onward ==
  /\ Sound(memory') /\ Follows /\ Extends(memory, memory') /\ limits' = limits
  /\ did' \in [issued : Nat, dispatched : Nat]
  /\ did'.issued # 0 => OneSnapshot(memory', memory'.auths[did'.issued])
  /\ did'.dispatched # 0 => Unchanged(memory', memory'.auths[did'.dispatched])

\* A step that does neither may do what it did.
LEMMA ForthOnward ==
  ASSUME Forth
  PROVE  Onward
BY DEF Forth, Onward, Nothing

\* An authorization, or what a crash before its last entry leaves of it.
LEMMA AuthorizeSealedPolicyStep ==
  ASSUME IInv, NEW action \in memory.actions, NEW bundle \in Bundles, NEW now,
         AuthorizeSealedPolicy(action, bundle, now)
  PROVE  Onward
<1>. DEFINE unbound == Unbound(action)
            n == Len(memory.auths) + 1
            u == Reauthorized(memory, Append(memory.auths, unbound))
            m == Reauthorized(memory, Append(memory.auths, BoundTo(memory, unbound, bundle)))
            d1 == Counted(u, 1)
            d2 == Counted(d1, 1)
            e == Entry(m, "action.authorized", unbound)
            f == Entry(m, "proof.authorization_bound", {})
            g == Entry(m, "policy.authorization_bound", [n |-> n, bundle |-> bundle])
<1>1. memory \in Kernels /\ action \in Actions
  BY Fields DEF IInv, Sound
<1>2. BundleFits(memory, bundle, action, Acting, now)
  BY DEF AuthorizeSealedPolicy
<1>3. /\ Sound(u) /\ Extends(memory, u) /\ Sound(m) /\ Extends(memory, m)
      /\ m = Bound([memory EXCEPT !.auths = Append(@, unbound)], n, bundle)
      /\ Replayed(memory, e) = d1 /\ Replayed(d1, f) = d2
      /\ Replayed(d2, g) = Counted(m, 3)
      /\ OneSnapshot(Counted(m, 3), Counted(m, 3).auths[n])
      /\ Placed(memory) => Placed(u) /\ Placed(m)
  BY <1>1, <1>2, AuthorizationReplayed
<1>4. /\ \/ Done(m, <<e, f, g>>) /\ did' = [Nothing EXCEPT !.issued = n]
         \/ (\E k \in 0 .. 2 : Torn(<<e, f, g>>, k)) /\ did' = Nothing
      /\ limits' = limits
  BY <1>3 DEF AuthorizeSealedPolicy, Unbound
<1>5. n \in Nat
  BY <1>1, Lengths
<1>. HIDE DEF unbound, n, u, m, e, f, g
<1>6. u \in Kernels /\ m \in Kernels
  BY <1>3 DEF Sound
<1>7. /\ Extends(u, d1) /\ Sound(d1) /\ Extends(d1, d2) /\ Sound(d2)
      /\ Extends(m, Counted(m, 3)) /\ Sound(Counted(m, 3))
      /\ Placed(memory) => Placed(d1) /\ Placed(d2) /\ Placed(Counted(m, 3))
  BY <1>3, CountedSound
<1>8. d1 \in Kernels /\ d2 \in Kernels /\ Counted(m, 3) \in Kernels
  BY <1>7 DEF Sound
<1>9. Extends(memory, d1) /\ Extends(memory, Counted(m, 3)) /\ Extends(memory, memory)
  BY <1>1, <1>3, <1>6, <1>7, <1>8, ExtendsTransitive, ExtendsReflexive
<1>10. Extends(memory, d2)
  BY <1>1, <1>7, <1>8, <1>9, ExtendsTransitive
<1>. HIDE DEF d1, d2
<1>11. CASE durable = Unreadable
  <2>1. Done(m, <<e, f, g>>) /\ did' = [Nothing EXCEPT !.issued = n]
    BY <1>4, <1>11, UnreadableEntries
  <2>2. /\ memory' = Counted(m, 3) /\ durable' = Unreadable
        /\ did' = [issued |-> n, dispatched |-> 0]
    BY <1>11, <2>1, UnreadableEntries DEF Nothing
  <2>. QED
    BY <1>3, <1>4, <1>5, <1>7, <1>9, <1>11, <2>2 DEF Onward, Follows
<1>12. CASE durable # Unreadable
  <2>1. durable = memory /\ Placed(memory)
    BY <1>12 DEF IInv
  <2>2. CASE Done(m, <<e, f, g>>) /\ did' = [Nothing EXCEPT !.issued = n]
    <3>1. memory' = Counted(m, 3) /\ durable' = memory'
      BY <1>1, <1>3, <2>1, <2>2, ThreeEntries
    <3>2. did' = [issued |-> n, dispatched |-> 0]
      BY <2>2 DEF Nothing
    <3>3. durable' # Unreadable
      BY <1>7, <3>1, KernelReadable
    <3>. QED
      BY <1>3, <1>4, <1>5, <1>7, <1>9, <2>1, <3>1, <3>2, <3>3 DEF Onward, Follows
  <2>3. CASE (\E k \in 0 .. 2 : Torn(<<e, f, g>>, k)) /\ did' = Nothing
    <3>1. memory' \in {memory, d1, d2} /\ durable' = memory'
      BY <1>1, <1>3, <2>1, <2>3, ThreeEntries
    <3>2. Sound(memory') /\ Placed(memory') /\ Extends(memory, memory')
      BY <1>7, <1>9, <1>10, <2>1, <3>1 DEF IInv
    <3>3. durable' # Unreadable
      BY <3>1, <3>2, KernelReadable
    <3>. QED
      BY <1>4, <2>3, <3>1, <3>2, <3>3 DEF Onward, Follows, Nothing
  <2>. QED
    BY <1>4, <2>2, <2>3
<1>. QED
  BY <1>11, <1>12

Handed(a) == [a EXCEPT !.state = "dispatched"]

\* What the closure of an authorization agrees with is what it was issued in.
LEMMA ClosureUnchanged ==
  ASSUME NEW m, Sound(m), NEW n \in DOMAIN m.auths, ClosureCurrent(m, m.auths[n])
  PROVE  Unchanged(m, m.auths[n])
<1>. DEFINE a == m.auths[n]
            e == m.nodes[a.bundle["nodes"]].epoch
            s == m.selections[a.bundle["selections"]]
            w == a.issue.world
<1>. SUFFICES ASSUME a.bundle # <<>>
              PROVE  Unchanged(m, a)
  BY DEF Unchanged
<1>1. AuthorizationSound(m, a)
  BY DEF Sound
<1>2. /\ EpochCurrent(m, e) /\ a.closure = Closure(m)
      /\ CurrentSelectionStatus(m, s) = "advisory"
  BY DEF ClosureCurrent
<1>3. /\ m.epochs[e].principal = Acting
      /\ m.epochLineage[e] =
           [mission |-> w.mission, canonical |-> w.canonical, location |-> w.location,
            regime |-> w.regime, access |-> w.access[Acting]]
      /\ "plan" \in DOMAIN s.generations => s.generations["plan"] = a.issue.generation
      /\ a.closure = a.issue.revisions
  BY <1>1 DEF AuthorizationSound
<1>4. m.epochLineage[e] = EpochLineage(m, Acting)
  BY <1>2, <1>3 DEF EpochCurrent
<1>5. /\ w.mission = m.mission /\ w.canonical = m.canonical /\ w.location = m.location
      /\ w.regime = m.regime /\ w.access[Acting] = m.access[Acting]
  <2>. DEFINE l == m.epochLineage[e]
  <2>3. l = [mission |-> w.mission, canonical |-> w.canonical, location |-> w.location,
             regime |-> w.regime, access |-> w.access[Acting]]
    BY <1>3
  <2>4. l = EpochLineage(m, Acting)
    BY <1>4
  <2>. HIDE DEF l, w
  <2>1. /\ l.mission = w.mission /\ l.canonical = w.canonical /\ l.location = w.location
        /\ l.regime = w.regime /\ l.access = w.access[Acting]
    BY <2>3
  <2>2. /\ l.mission = m.mission /\ l.canonical = m.canonical /\ l.location = m.location
        /\ l.regime = m.regime /\ l.access = m.access[Acting]
    BY <2>4 DEF EpochLineage
  <2>. QED
    BY <2>1, <2>2
<1>6. \A family \in Lineages : a.issue.revisions[family] = Len(m[family])
  BY <1>2, <1>3 DEF Closure
<1>7. "plan" \in DOMAIN s.generations => a.issue.generation = m.generation
  BY <1>2, <1>3 DEF CurrentSelectionStatus, SelectionStatus
<1>. HIDE DEF w
<1>8. \A f \in {"mission", "canonical", "location", "regime"} : w[f] = World(m)[f]
  BY <1>5, WorldFields
<1>9. w.access[Acting] = World(m).access[Acting]
  BY <1>5, WorldFields
<1>. QED
  BY <1>6, <1>7, <1>8, <1>9 DEF Unchanged, w

\* A dispatch.
LEMMA DispatchStep ==
  ASSUME IInv, NEW n \in DOMAIN memory.auths, Dispatch(n)
  PROVE  Onward
<1>. DEFINE a == memory.auths[n]
            auths == [memory.auths EXCEPT ![n] = Handed(a)]
            m == Reauthorized(memory, auths)
            e == Entry(m, "action.dispatch_recorded", n)
<1>1. memory \in Kernels /\ Sound(memory)
  BY DEF IInv, Sound
<1>2. /\ memory.auths \in Seq(AuthorizationType) /\ a \in AuthorizationType /\ n \in Nat
      /\ AuthorizationSound(memory, a)
  BY <1>1, Fields, Lengths DEF Sound
<1>3. /\ Handed(a) \in AuthorizationType /\ Handed(a).bundle = a.bundle
      /\ Handed(a).issue = a.issue /\ Handed(a).closure = a.closure
  BY <1>2 DEF Handed, AuthorizationType
<1>4. AuthorizationSound(memory, Handed(a))
  BY <1>2, <1>3 DEF AuthorizationSound
<1>5. /\ [memory EXCEPT !.auths[n].state = "dispatched"] = m
      /\ auths[n] = Handed(a)
      /\ auths \in Seq(AuthorizationType) /\ DOMAIN auths = DOMAIN memory.auths
      /\ \A i \in DOMAIN auths : auths[i] = memory.auths[i] \/ auths[i] = Handed(a)
  <2>1. auths \in Seq(AuthorizationType)
    BY <1>2, <1>3
  <2>2. [memory EXCEPT !.auths[n].state = "dispatched"] = m
    BY DEF Reauthorized, Handed
  <2>. QED
    BY <1>2, <2>1, <2>2
<1>6. /\ memory.auths[n].state = "authorized" /\ ClosureCurrent(memory, a)
      /\ \/ Done(m, <<e>>) /\ did' = [Nothing EXCEPT !.dispatched = n]
         \/ Torn(<<e>>, 0) /\ did' = Nothing
      /\ limits' = limits
  BY <1>5 DEF Dispatch
<1>7. ReduceEvent(memory, e) = m
  BY <1>5 DEF ReduceEvent, Entry
<1>8. Unchanged(memory, a)
  BY <1>1, <1>6, ClosureUnchanged
<1>. HIDE DEF a, auths
<1>9. /\ Extends(memory, m) /\ Sound(m) /\ SameRegistries(memory, m) /\ m.auths = auths
      /\ Placed(memory) => Placed(m)
      /\ World(m) = World(memory) /\ m.generation = memory.generation
  BY <1>1, <1>4, <1>5, AuthorizationsChange
<1>. HIDE DEF m
<1>10. Replayed(memory, e) = Counted(m, 1)
  <2>1. m \in Kernels /\ SameButMeta(m, m)
    BY <1>9 DEF Sound, SameButMeta
  <2>. QED
    BY <1>1, <1>7, <2>1, EntryReplayed
<1>11. /\ Extends(m, Counted(m, 1)) /\ Sound(Counted(m, 1))
       /\ Placed(memory) => Placed(Counted(m, 1))
  BY <1>9, CountedSound
<1>12. Extends(memory, Counted(m, 1)) /\ Extends(memory, memory)
  BY <1>1, <1>9, <1>11, ExtendsTransitive, ExtendsReflexive DEF Sound
<1>13. Unchanged(Counted(m, 1), Counted(m, 1).auths[n])
  <2>1. /\ SameRegistries(m, Counted(m, 1)) /\ World(Counted(m, 1)) = World(m)
        /\ Counted(m, 1).auths = auths /\ Counted(m, 1).generation = m.generation
    BY <1>9, CountedFields DEF Sound
  <2>2. SameRegistries(memory, Counted(m, 1)) /\ World(Counted(m, 1)) = World(memory)
    BY <1>9, <2>1 DEF SameRegistries
  <2>. QED
    BY <1>3, <1>5, <1>8, <1>9, <2>1, <2>2, UnchangedStays
<1>. HIDE DEF e
<1>14. CASE durable = Unreadable
  <2>1. Done(m, <<e>>) /\ did' = [Nothing EXCEPT !.dispatched = n]
    <3>1. 0 \in 0 .. 0
      OBVIOUS
    <3>2. ~Torn(<<e>>, 0)
      BY <1>14, <3>1, UnreadableEntries
    <3>. QED
      BY <1>6, <3>2
  <2>2. /\ memory' = Counted(m, 1) /\ durable' = Unreadable
        /\ did' = [issued |-> 0, dispatched |-> n]
    BY <1>14, <2>1, UnreadableEntries DEF Nothing
  <2>. QED
    BY <1>2, <1>6, <1>11, <1>12, <1>13, <1>14, <2>2 DEF Onward, Follows
<1>15. CASE durable # Unreadable
  <2>1. durable = memory /\ Placed(memory)
    BY <1>15 DEF IInv
  <2>2. CASE Done(m, <<e>>) /\ did' = [Nothing EXCEPT !.dispatched = n]
    <3>1. memory' = Counted(m, 1) /\ durable' = memory'
      BY <1>1, <1>10, <2>1, <2>2, OneEntry
    <3>2. did' = [issued |-> 0, dispatched |-> n]
      BY <2>2 DEF Nothing
    <3>3. durable' # Unreadable
      BY <1>11, <3>1, KernelReadable
    <3>. QED
      BY <1>2, <1>6, <1>11, <1>12, <1>13, <2>1, <3>1, <3>2, <3>3 DEF Onward, Follows
  <2>3. CASE Torn(<<e>>, 0) /\ did' = Nothing
    <3>1. memory' = memory /\ durable' = memory'
      BY <1>1, <1>10, <2>1, <2>3, OneEntry
    <3>. QED
      BY <1>1, <1>6, <1>12, <1>15, <2>1, <2>3, <3>1 DEF Onward, Follows, Nothing
  <2>. QED
    BY <1>6, <2>2, <2>3
<1>. QED
  BY <1>14, <1>15

\* What is sound, with its assessments placed, can be restored.
LEMMA SoundRestorable ==
  ASSUME NEW m, Sound(m), Placed(m)
  PROVE  PoliciesRestorable(m) /\ ClosuresRestorable(m)
<1>1. m \in Kernels
  BY DEF Sound
<1>2. \A n \in DOMAIN m.epochs :
        /\ m.epochs[n].partition \in DOMAIN m.partitions
        /\ m.epochs[n].frontier \in DOMAIN m.frontiers
        /\ m.partitions[m.epochs[n].partition].epoch = n
  BY DEF Sound, EpochSound
<1>3. \A n \in DOMAIN m.nodes :
        /\ Replayable(m, "nodes", m.nodes[n])
        /\ m.nodes[n].snapshot.actions = m.epochs[m.nodes[n].epoch].snapshot.actions
  BY DEF Sound, NodeSound, Replayable
<1>4. \A n \in DOMAIN m.selections : Replayable(m, "selections", m.selections[n])
  BY DEF Sound, SelectionSound, Replayable, SelectionRegistrable
<1>5. \A n \in DOMAIN m.sufficiency : Replayable(m, "sufficiency", m.sufficiency[n])
  BY DEF Sound, SufficiencySound, Replayable, SufficiencyRegistrable
<1>6. \A n \in DOMAIN m.seals : Replayable(m, "seals", m.seals[n])
  BY DEF Sound, SealSound, Replayable, SealRegistrable
<1>7. \A n \in DOMAIN m.assessments : Replayable(m, "assessments", m.assessments[n])
  BY DEF Sound, AssessmentSound, Placed, Replayable
<1>8. ASSUME NEW n \in DOMAIN m.auths
      PROVE  /\ BindingValid(m, m.auths[n].bundle)
             /\ \A family \in DOMAIN m.auths[n].closure :
                  m.auths[n].closure[family] <= Len(m[family])
  <2>. DEFINE a == m.auths[n]
  <2>1. AuthorizationSound(m, a) /\ a \in AuthorizationType
    BY <1>1, Fields DEF Sound
  <2>2. DOMAIN <<>> = {}
    OBVIOUS
  <2>3. CASE a.bundle = <<>>
    BY <2>1, <2>2, <2>3 DEF AuthorizationSound, BindingValid
  <2>4. CASE a.bundle # <<>>
    <3>1. DOMAIN a.bundle = Bundled
      BY <2>1, <2>4 DEF AuthorizationType
    <3>2. BindingValid(m, a.bundle)
      BY <2>1, <2>4, <3>1 DEF AuthorizationSound, BindingValid, Bundled
    <3>3. DOMAIN a.closure = Lineages
      BY <2>1, <2>4 DEF AuthorizationSound
    <3>4. /\ a.closure["frontiers"] <= Len(m.frontiers)
          /\ a.closure["partitions"] <= Len(m.partitions)
          /\ a.closure["nodes"] <= Len(m.nodes)
          /\ a.closure["sufficiency"] <= Len(m.sufficiency)
          /\ a.closure["seals"] <= Len(m.seals)
          /\ a.closure["assessments"] <= Len(m.assessments)
      BY <2>1, <2>4 DEF AuthorizationSound
    <3>. HIDE DEF a
    <3>5. \A family \in DOMAIN a.closure : a.closure[family] <= Len(m[family])
      BY <3>3, <3>4 DEF Lineages
    <3>. QED
      BY <3>2, <3>5 DEF a
  <2>. QED
    BY <2>3, <2>4
<1>9. PoliciesRestorable(m)
  BY <1>2, <1>3, <1>4, <1>5, <1>6, <1>7, <1>8 DEF PoliciesRestorable
<1>10. ClosuresRestorable(m)
  BY <1>8 DEF ClosuresRestorable, Sound
<1>. QED
  BY <1>9, <1>10

\* What can be restored has its assessments placed.
LEMMA RestorablePlaced ==
  ASSUME NEW m, PoliciesRestorable(m)
  PROVE  Placed(m)
<1>1. \A n \in DOMAIN m.assessments : Replayable(m, "assessments", m.assessments[n])
  <2>1. \A n \in DOMAIN m["assessments"] : Replayable(m, "assessments", m["assessments"][n])
    BY DEF PoliciesRestorable
  <2>. QED
    BY <2>1
<1>. QED
  BY <1>1 DEF Replayable, Placed

\* A snapshot: it can be opened again if the assessments are placed.
LEMMA SaveSnapshotStep ==
  ASSUME IInv, SaveSnapshot
  PROVE  Forth
<1>1. Sound(memory) /\ memory \in Kernels
  BY DEF IInv, Sound
<1>2. Extends(memory, memory)
  BY <1>1, ExtendsReflexive
<1>3. memory' = memory /\ did' = Nothing /\ limits' = limits
  BY DEF SaveSnapshot
<1>4. durable' # Unreadable => durable' = memory /\ Placed(memory)
  BY RestorablePlaced DEF SaveSnapshot
<1>5. durable' = Unreadable => durable = Unreadable
  <2>1. memory # Unreadable
    BY <1>1, KernelReadable
  <2>. QED
    BY <1>1, <2>1, SoundRestorable DEF SaveSnapshot, IInv
<1>6. Placed(memory) => Placed(memory')
  BY <1>3
<1>. QED
  BY <1>1, <1>2, <1>3, <1>4, <1>5, <1>6 DEF Forth, Follows

-----------------------------------------------------------------------------
(* The theorems.                                                            *)

\* The invariant with what the last step did.
Invariant ==
  /\ IInv /\ limits \in Limits /\ did \in [issued : Nat, dispatched : Nat]
  /\ did.issued # 0 => OneSnapshot(memory, memory.auths[did.issued])
  /\ did.dispatched # 0 => Unchanged(memory, memory.auths[did.dispatched])

\* It holds of a mission with its principals and nothing registered.
LEMMA InitInvariant ==
  ASSUME Init
  PROVE  Invariant
<1>1. memory = EmptyKernel /\ durable = memory /\ limits \in Limits /\ did = Nothing
  BY DEF Init
<1>2. EmptyKernel \in Kernels
  <2>1. \A S : <<>> \in Seq(S)
    OBVIOUS
  <2>2. [p \in Principals |-> 1] \in [Principals -> Nat]
    OBVIOUS
  <2>. QED
    BY <2>1, <2>2 DEF EmptyKernel, Kernels
<1>3. DOMAIN <<>> = {}
  OBVIOUS
<1>4. Sound(EmptyKernel) /\ Placed(EmptyKernel)
  BY <1>2, <1>3 DEF Sound, Placed, EmptyKernel
<1>. QED
  BY <1>1, <1>4 DEF Invariant, IInv, Nothing

\* Every operation goes on from a sound kernel, and the journal follows it.
LEMMA NextOnward ==
  ASSUME Invariant, Next
  PROVE  Onward
<1>1. IInv
  BY DEF Invariant
<1>2. CASE SaveSnapshot
  BY <1>1, <1>2, SaveSnapshotStep, ForthOnward
<1>3. CASE \E family \in Growing : \E value \in Offered(family) : RegisterPolicy(family, value)
  <2>1. PICK family \in Growing : \E value \in Offered(family) : RegisterPolicy(family, value)
    BY <1>3
  <2>2. PICK value \in Offered(family) : RegisterPolicy(family, value)
    BY <2>1
  <2>3. family \in Families
    BY LimitsAssumption DEF Growing, Invariant
  <2>. QED
    BY <1>1, <2>2, <2>3, RegisterPolicyStep, ForthOnward
<1>4. CASE CommitActionPatch
  BY <1>1, <1>4, CommitActionPatchStep, ForthOnward
<1>5. CASE RegisterRegion
  BY <1>1, <1>5, RegisterRegionStep, ForthOnward
<1>6. CASE \E p \in Principals : ChangeAccess(p)
  BY <1>1, <1>6, ChangeAccessStep, ForthOnward
<1>7. CASE ReviseMission
  BY <1>1, <1>7, ReviseMissionStep, ForthOnward
<1>8. CASE ReviseRegime
  BY <1>1, <1>8, ReviseRegimeStep, ForthOnward
<1>9. CASE \E a \in Actions : ProposeAction(a)
  BY <1>1, <1>9, ProposeActionStep, ForthOnward
<1>10. CASE ReportModelClassAnomaly
  BY <1>1, <1>10, ReportModelClassAnomalyStep, ForthOnward
<1>11. CASE \E a \in memory.actions, bundle \in Bundles, now \in 1 .. 2 :
              AuthorizeSealedPolicy(a, bundle, now)
  BY <1>1, <1>11, AuthorizeSealedPolicyStep
<1>12. CASE \E n \in DOMAIN memory.auths : Dispatch(n)
  BY <1>1, <1>12, DispatchStep
<1>. QED
  BY <1>2, <1>3, <1>4, <1>5, <1>6, <1>7, <1>8, <1>9, <1>10, <1>11, <1>12 DEF Next

\* So the invariant stays.
LEMMA NextInvariant ==
  ASSUME Invariant, [Next]_vars
  PROVE  Invariant'
<1>1. CASE Next
  <2>1. Onward
    BY <1>1, NextOnward
  <2>. QED
    BY <2>1 DEF Onward, Follows, Invariant, IInv
<1>2. CASE UNCHANGED vars
  <2>1. memory' = memory /\ durable' = durable /\ limits' = limits /\ did' = did
    BY <1>2 DEF vars
  <2>. QED
    BY <2>1 DEF Invariant, IInv
<1>. QED
  BY <1>1, <1>2

\* The invariant holds in every state.
THEOREM Invariance == Spec => []Invariant
<1>. QED
  BY InitInvariant, NextInvariant, PTL DEF Spec

\* Every state has its type: the registries of the kernel, its authorizations and what the last
\* step did.
THEOREM TypeCorrect == Spec => []TypeOK
<1>1. Invariant => TypeOK
  BY DEF Invariant, IInv, Sound, TypeOK
<1>. QED
  BY <1>1, Invariance, PTL

\* After every step the snapshot and the entries after it restore the registries, the bindings
\* and the closures that the kernel has, wherever a crash has cut the step short. The replay
\* refuses one entry only, an assessment of a partition that is not registered, and what follows
\* it; no restore refuses what was saved while the journal could be opened.
THEOREM ReplayIsFaithful == Spec => ReplayAgrees
<1>1. Invariant /\ [Next]_vars =>
        [\/ durable' = memory'
         \/ durable' = Unreadable /\ (durable = Unreadable \/ NamedEarly)]_vars
  BY NextOnward DEF Onward, Follows
<1>. QED
  BY <1>1, Invariance, PTL DEF Spec, ReplayAgrees

\* The revisions that an authorization rests on were registered in the world that it is issued
\* in, as far as they speak about it.
THEOREM IssueIsOfOneSnapshot == Spec => []IssuedOnOneSnapshot
<1>1. Invariant => IssuedOnOneSnapshot
  BY DEF Invariant, IssuedOnOneSnapshot, OneSnapshot, OfOneSnapshot
<1>. QED
  BY <1>1, Invariance, PTL

\* What an action is dispatched on has not changed since its authorization, whatever crashes and
\* restarts came in between.
THEOREM DispatchIsOfTheIssue == Spec => []DispatchOnUnchangedBundle
<1>1. Invariant => DispatchOnUnchangedBundle
  BY DEF Invariant, DispatchOnUnchangedBundle, Unchanged
<1>. QED
  BY <1>1, Invariance, PTL

\* No operation, and no crash within one, takes back or changes a revision, or moves the world
\* without the plan or the generation that tells of it.
THEOREM NothingTakenBack == Spec => [][Extends(memory, memory')]_vars
<1>1. Invariant /\ [Next]_vars => [Extends(memory, memory')]_vars
  BY NextOnward DEF Onward
<1>. QED
  BY <1>1, Invariance, PTL DEF Spec
=============================================================================
