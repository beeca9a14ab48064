------------------------- MODULE TrustLedgerProofs -------------------------
(***************************************************************************)
(* What TrustLedger promises, proved for all principals, attestations,     *)
(* items, receipts, times and limits that satisfy TrustAssumption.         *)
(*                                                                         *)
(* The invariant is TypeOK with ReplayAgrees, and that the capsules of the *)
(* memory are accurate.  Each operation is taken as the list of the        *)
(* kernels it goes through, one after each of its entries: the reducer of  *)
(* an entry gives the next kernel of the list or refuses, so that a crash  *)
(* leaves one of them, in memory and in the files alike, and each of them  *)
(* is a kernel whose capsules are accurate.                                *)
(***************************************************************************)
EXTENDS TrustLedger, SequenceTheorems, TLAPS

\* The kernels that files may replay to, when the memory is m.
Readings(m) == {m, Unreadable}

\* The capsule c is what would be compiled now, but for the time of its decision.
Matches(m, c) ==
  /\ c.access = m.access[c.principal].revision
  /\ c.items = Partition(m, c.principal, c.at)
  /\ c.canonical = m.canonical

\* The capsules of m depend on all the domains they should, and match m while they are
\* not stale.
Accurate(m) ==
  \A n \in DOMAIN m.capsules :
    /\ Stamp(m.capsules[n].principal) \subseteq m.capsules[n].stamp
    /\ Usable(m.capsules[n]) => Matches(m, m.capsules[n])

Sound == {m \in Kernels : Accurate(m)}

IInv == TypeOK /\ ReplayAgrees /\ memory \in Sound

-----------------------------------------------------------------------------
(* The fields of a kernel.                                                  *)

\* A kernel's fields have their types.
LEMMA Fields ==
  ASSUME NEW m \in Kernels
  PROVE  /\ m.bound \in [Principals -> Seq(Bindings)]
         /\ m.revokedAt \in [Attestations -> Times \cup {Never}]
         /\ m.access \in [Principals -> [revision : Nat, tag : BOOLEAN]]
         /\ m.published \in SUBSET Items
         /\ m.seen \in [Principals \X Items -> Times \cup {Never}]
         /\ m.receipts \in [Receipts -> ReceiptType \cup {NoReceipt}]
         /\ m.capsules \in Seq(CapsuleType) /\ m.auths \in Seq(AuthorizationType)
         /\ m.attested \in SUBSET Nat /\ m.consumed \in SUBSET EvidenceIds
         /\ m.canonical \in Nat
BY DEF Kernels

\* A kernel of which one field is replaced by a value of its type is a kernel.
LEMMA Updates ==
  ASSUME NEW m \in Kernels
  PROVE  /\ \A v \in [Principals -> Seq(Bindings)] : [m EXCEPT !.bound = v] \in Kernels
         /\ \A v \in [Attestations -> Times \cup {Never}] :
              [m EXCEPT !.revokedAt = v] \in Kernels
         /\ \A v \in [Principals -> [revision : Nat, tag : BOOLEAN]] :
              [m EXCEPT !.access = v] \in Kernels
         /\ \A v \in SUBSET Items : [m EXCEPT !.published = v] \in Kernels
         /\ \A v \in [Principals \X Items -> Times \cup {Never}] :
              [m EXCEPT !.seen = v] \in Kernels
         /\ \A v \in [Receipts -> ReceiptType \cup {NoReceipt}] :
              [m EXCEPT !.receipts = v] \in Kernels
         /\ \A v \in Seq(CapsuleType) : [m EXCEPT !.capsules = v] \in Kernels
         /\ \A v \in Seq(AuthorizationType) : [m EXCEPT !.auths = v] \in Kernels
         /\ \A v \in SUBSET Nat : [m EXCEPT !.attested = v] \in Kernels
         /\ \A v \in SUBSET EvidenceIds : [m EXCEPT !.consumed = v] \in Kernels
         /\ \A v \in Nat : [m EXCEPT !.canonical = v] \in Kernels
BY DEF Kernels

-----------------------------------------------------------------------------
(* The changes of the memory leave kernels.                                 *)

\* A bump makes capsules stale and does nothing else.
LEMMA BumpType ==
  ASSUME NEW m \in Kernels, NEW domains
  PROVE  Bump(m, domains) \in Kernels /\ Bump(m, domains).seen = m.seen
<1> DEFINE marked == [n \in DOMAIN m.capsules |->
               [m.capsules[n] EXCEPT
                  !.stale = m.capsules[n].stale \/ m.capsules[n].stamp \cap domains # {}]]
<1>1. m.capsules \in Seq(CapsuleType)
  BY Fields
<1>2. \A n \in DOMAIN m.capsules :
        [m.capsules[n] EXCEPT
           !.stale = m.capsules[n].stale \/ m.capsules[n].stamp \cap domains # {}]
          \in CapsuleType
  <2> TAKE n \in DOMAIN m.capsules
  <2> DEFINE stale == m.capsules[n].stale \/ m.capsules[n].stamp \cap domains # {}
  <2>1. m.capsules[n] \in CapsuleType
    BY <1>1
  <2>2. stale \in BOOLEAN
    OBVIOUS
  <2> HIDE DEF stale
  <2>3. [m.capsules[n] EXCEPT !.stale = stale] \in CapsuleType
    BY <2>1, <2>2 DEF CapsuleType
  <2>. QED
    BY <2>3 DEF stale
<1>3. marked \in Seq(CapsuleType)
  <2>1. Len(m.capsules) \in Nat /\ DOMAIN m.capsules = 1 .. Len(m.capsules)
    BY <1>1
  <2>2. \A n \in 1 .. Len(m.capsules) : marked[n] \in CapsuleType
    BY <1>2, <2>1
  <2> HIDE DEF marked
  <2>3. marked \in [1 .. Len(m.capsules) -> CapsuleType]
    BY <2>1, <2>2 DEF marked
  <2>. QED
    BY <2>1, <2>3
<1>4. Bump(m, domains) = [m EXCEPT !.capsules = marked]
  BY DEF Bump
<1> HIDE DEF marked
<1>5. Bump(m, domains) \in Kernels
  BY <1>3, <1>4, Updates
<1>. QED
  BY <1>4, <1>5 DEF Kernels

\* A profile that is registered has the next revision.
LEMMA RegisterType ==
  ASSUME NEW m \in Kernels, NEW p \in Principals, NEW tag \in BOOLEAN
  PROVE  Register(m, p, tag) \in Kernels /\ Register(m, p, tag).seen = m.seen
<1> DEFINE access == [m.access EXCEPT ![p] = [revision |-> @.revision + 1, tag |-> tag]]
<1>1. access \in [Principals -> [revision : Nat, tag : BOOLEAN]]
  BY Fields
<1>2. Register(m, p, tag) = [m EXCEPT !.access = access]
  BY DEF Register
<1> HIDE DEF access
<1>3. Register(m, p, tag) \in Kernels
  BY <1>1, <1>2, Updates
<1>. QED
  BY <1>2, <1>3 DEF Kernels

\* An attestation that is accepted is appended to the bindings of its principal.
LEMMA AcceptType ==
  ASSUME NEW m \in Kernels, NEW a \in Attestations, NEW now \in Times
  PROVE  Accept(m, a, now) \in Kernels /\ Accept(m, a, now).seen = m.seen
<1> DEFINE p == Attested[a].principal
           bound == [m.bound EXCEPT ![p] = Append(@, [attestation |-> a, at |-> now])]
<1>1. p \in Principals
  BY TrustAssumption DEF AttestationType
<1>2. [attestation |-> a, at |-> now] \in Bindings
  BY DEF Bindings
<1>3. bound \in [Principals -> Seq(Bindings)]
  BY <1>1, <1>2, Fields
<1>4. Accept(m, a, now) = [m EXCEPT !.bound = bound]
  BY DEF Accept
<1> HIDE DEF bound
<1>5. Accept(m, a, now) \in Kernels
  BY <1>3, <1>4, Updates
<1>. QED
  BY <1>4, <1>5 DEF Kernels

\* Binding a principal leaves a kernel and teaches nobody anything.
LEMMA BindType ==
  ASSUME NEW m \in Kernels, NEW a \in Attestations, NEW tag \in BOOLEAN, NEW now \in Times
  PROVE  Bind(m, a, tag, now) \in Kernels /\ Bind(m, a, tag, now).seen = m.seen
<1> DEFINE p == Attested[a].principal
           accepted == Accept(m, a, now)
           profiled == WithAccess(accepted, p, tag)
<1>1. p \in Principals
  BY TrustAssumption DEF AttestationType
<1>2. accepted \in Kernels /\ accepted.seen = m.seen
  BY AcceptType
<1>3. profiled \in Kernels /\ profiled.seen = m.seen
  BY <1>1, <1>2, RegisterType DEF WithAccess
<1>4. Bind(m, a, tag, now) = Bump(profiled, {Identity(p), Profile(p), Plan})
  BY DEF Bind
<1> HIDE DEF profiled
<1>. QED
  BY <1>3, <1>4, BumpType

\* Revoking an attestation leaves a kernel and teaches nobody anything.
LEMMA RevokeType ==
  ASSUME NEW m \in Kernels, NEW a \in Attestations, NEW at \in Times
  PROVE  Revoke(m, a, at) \in Kernels /\ Revoke(m, a, at).seen = m.seen
<1> DEFINE p == Attested[a].principal
           revoked == [m EXCEPT !.revokedAt = [@ EXCEPT ![a] = at]]
<1>1. [m.revokedAt EXCEPT ![a] = at] \in [Attestations -> Times \cup {Never}]
  BY Fields
<1>2. revoked \in Kernels
  BY <1>1, Updates
<1>3. revoked.seen = m.seen
  BY DEF Kernels
<1>4. Revoke(m, a, at) = Bump(revoked, {Identity(p), Profile(p), Plan})
  BY DEF Revoke
<1> HIDE DEF revoked
<1>. QED
  BY <1>2, <1>3, <1>4, BumpType

\* What is sent has a receipt from then on.
LEMMA SendType ==
  ASSUME NEW m \in Kernels, NEW r \in Receipts, NEW from \in Principals,
         NEW to \in Principals, NEW i \in Items, NEW at \in Times
  PROVE  /\ Send(m, r, from, to, i, at) \in Kernels
         /\ Send(m, r, from, to, i, at).seen = m.seen
         /\ Send(m, r, from, to, i, at).bound = m.bound
         /\ Send(m, r, from, to, i, at).receipts[r] =
              [state |-> "sent", from |-> from, to |-> to, item |-> i,
               sentAt |-> at, deliveredAt |-> Never, observedAt |-> Never]
<1> DEFINE receipt == [state |-> "sent", from |-> from, to |-> to, item |-> i,
                       sentAt |-> at, deliveredAt |-> Never, observedAt |-> Never]
<1>1. receipt \in ReceiptType
  BY DEF ReceiptType
<1>2. Send(m, r, from, to, i, at) = [m EXCEPT !.receipts = [@ EXCEPT ![r] = receipt]]
  BY DEF Send
<1> HIDE DEF receipt
<1>3. /\ [m.receipts EXCEPT ![r] = receipt] \in [Receipts -> ReceiptType \cup {NoReceipt}]
      /\ [m.receipts EXCEPT ![r] = receipt][r] = receipt
  BY <1>1, Fields
<1>4. Send(m, r, from, to, i, at) \in Kernels
  BY <1>2, <1>3, Updates
<1>5. Send(m, r, from, to, i, at).receipts[r] = receipt
  BY <1>2, <1>3 DEF Kernels
<1>. QED
  BY <1>2, <1>4, <1>5 DEF Kernels, receipt

\* A receipt moves on by what replaces it.
LEMMA ReceiptUpdate ==
  ASSUME NEW m \in Kernels, NEW r \in Receipts, NEW receipt \in ReceiptType
  PROVE  /\ [m EXCEPT !.receipts[r] = receipt] \in Kernels
         /\ [m EXCEPT !.receipts[r] = receipt].seen = m.seen
         /\ [m EXCEPT !.receipts[r] = receipt].bound = m.bound
         /\ [m EXCEPT !.receipts[r] = receipt].receipts[r] = receipt
<1>1. /\ [m.receipts EXCEPT ![r] = receipt] \in [Receipts -> ReceiptType \cup {NoReceipt}]
      /\ [m.receipts EXCEPT ![r] = receipt][r] = receipt
  BY Fields
<1>2. [m EXCEPT !.receipts[r] = receipt] \in Kernels
  BY <1>1, Updates
<1>. QED
  BY <1>1, <1>2 DEF Kernels

\* The receipts x and y are of the same transfer.
SameTransfer(x, y) ==
  x.from = y.from /\ x.to = y.to /\ x.item = y.item /\ x.sentAt = y.sentAt

\* A delivery moves the receipt on.
LEMMA DeliverType ==
  ASSUME NEW m \in Kernels, NEW r \in Receipts, m.receipts[r] \in ReceiptType,
         NEW at \in Times
  PROVE  /\ Deliver(m, r, at) \in Kernels
         /\ Deliver(m, r, at).seen = m.seen
         /\ Deliver(m, r, at).bound = m.bound
         /\ Deliver(m, r, at).receipts[r] \in ReceiptType
         /\ SameTransfer(Deliver(m, r, at).receipts[r], m.receipts[r])
         /\ Deliver(m, r, at).receipts[r].deliveredAt = at
<1> DEFINE receipt == [m.receipts[r] EXCEPT !.state = "delivered", !.deliveredAt = at]
<1>1. /\ receipt \in ReceiptType /\ SameTransfer(receipt, m.receipts[r])
      /\ receipt.deliveredAt = at
  BY DEF ReceiptType, SameTransfer
<1>2. Deliver(m, r, at) = [m EXCEPT !.receipts[r] = receipt]
  BY DEF Deliver, Kernels
<1> HIDE DEF receipt
<1>3. /\ Deliver(m, r, at) \in Kernels
      /\ Deliver(m, r, at).seen = m.seen /\ Deliver(m, r, at).bound = m.bound
      /\ Deliver(m, r, at).receipts[r] = receipt
  BY <1>1, <1>2, ReceiptUpdate
<1>. QED
  BY <1>1, <1>3

\* An observation moves the receipt on, and the recipient has seen the item.
LEMMA RevealType ==
  ASSUME NEW m \in Kernels, NEW r \in Receipts, m.receipts[r] \in ReceiptType,
         NEW at \in Times
  PROVE  /\ Reveal(m, r, at) \in Kernels
         /\ Reveal(m, r, at).seen =
              [m.seen EXCEPT ![<<m.receipts[r].to, m.receipts[r].item>>] = at]
         /\ Reveal(m, r, at).bound = m.bound
         /\ Reveal(m, r, at).receipts[r] \in ReceiptType
         /\ SameTransfer(Reveal(m, r, at).receipts[r], m.receipts[r])
         /\ Reveal(m, r, at).receipts[r].deliveredAt = m.receipts[r].deliveredAt
         /\ Reveal(m, r, at).receipts[r].observedAt = at
<1> DEFINE receipt == [m.receipts[r] EXCEPT !.state = "observed", !.observedAt = at]
           told == [m EXCEPT !.receipts[r] = receipt]
           to == m.receipts[r].to
           i == m.receipts[r].item
           seen == [m.seen EXCEPT ![<<to, i>>] = at]
           known == [told EXCEPT !.seen = seen]
           domains == {Communication(to), Profile(to)}
<1>1. /\ receipt \in ReceiptType /\ to \in Principals /\ i \in Items
      /\ SameTransfer(receipt, m.receipts[r])
      /\ receipt.deliveredAt = m.receipts[r].deliveredAt /\ receipt.observedAt = at
  BY DEF ReceiptType, SameTransfer
<1>2. seen \in [Principals \X Items -> Times \cup {Never}]
  BY <1>1, Fields
<1>3. told = [m EXCEPT !.receipts[r].state = "observed", !.receipts[r].observedAt = at]
  BY DEF Kernels
<1> HIDE DEF receipt
<1>4. told \in Kernels /\ told.seen = m.seen /\ told.bound = m.bound
      /\ told.receipts[r] = receipt
  BY <1>1, ReceiptUpdate
<1>5. Reveal(m, r, at) = Bump([told EXCEPT !.seen[<<to, i>>] = at], domains)
  BY <1>3 DEF Reveal, Observe
<1> HIDE DEF told
<1>6. [told EXCEPT !.seen[<<to, i>>] = at] = known
  BY <1>4 DEF Kernels
<1> HIDE DEF seen
<1>7. known \in Kernels
  BY <1>2, <1>4, Updates
<1>8. known.seen = seen /\ known.bound = told.bound /\ known.receipts = told.receipts
  BY <1>4 DEF Kernels
<1> HIDE DEF known, domains
<1>9. Reveal(m, r, at) = Bump(known, domains)
  BY <1>5, <1>6
<1>10. Bump(known, domains) \in Kernels /\ Bump(known, domains).seen = known.seen
  BY <1>7, BumpType
<1>11. /\ Bump(known, domains).bound = known.bound
       /\ Bump(known, domains).receipts = known.receipts
  BY <1>7, BumpType DEF Bump, Kernels
<1>. QED
  BY <1>1, <1>4, <1>8, <1>9, <1>10, <1>11 DEF seen

\* The authorization of a kernel that takes a state is one.
LEMMA StateType ==
  ASSUME NEW m \in Kernels, NEW n \in DOMAIN m.auths,
         NEW state \in {"authorized", "dispatched", "unknown", "outcome", "committed",
                        "applied", "not_applied"}
  PROVE  /\ [m EXCEPT !.auths[n].state = state] \in Kernels
         /\ [m EXCEPT !.auths[n].state = state].seen = m.seen
         /\ DOMAIN [m EXCEPT !.auths[n].state = state].auths = DOMAIN m.auths
<1> DEFINE auths == [m.auths EXCEPT ![n] = [@ EXCEPT !.state = state]]
<1>1. m.auths \in Seq(AuthorizationType)
  BY Fields
<1>2. [m.auths[n] EXCEPT !.state = state] \in AuthorizationType
  <2>1. m.auths[n] \in AuthorizationType
    BY <1>1
  <2>. QED
    BY <2>1 DEF AuthorizationType
<1>3. auths \in Seq(AuthorizationType)
  BY <1>1, <1>2
<1>4. [m EXCEPT !.auths[n].state = state] = [m EXCEPT !.auths = auths]
  OBVIOUS
<1>5. DOMAIN auths = DOMAIN m.auths
  OBVIOUS
<1> HIDE DEF auths
<1>6. [m EXCEPT !.auths = auths] \in Kernels
  BY <1>3, Updates
<1>. QED
  BY <1>4, <1>5, <1>6 DEF Kernels

\* A commit leaves a kernel and teaches nobody anything.
LEMMA CommitType ==
  ASSUME NEW m \in Kernels, NEW n \in DOMAIN m.auths
  PROVE  Commit(m, n) \in Kernels /\ Commit(m, n).seen = m.seen
<1> DEFINE moved == [m EXCEPT !.auths[n].state = "committed"]
           counted == [moved EXCEPT !.canonical = moved.canonical + 1]
<1>1. moved \in Kernels /\ moved.seen = m.seen
  BY StateType
<1>2. moved.canonical = m.canonical /\ m.canonical \in Nat
  BY DEF Kernels
<1>3. [m EXCEPT !.canonical = @ + 1, !.auths[n].state = "committed"] = counted
  BY DEF Kernels
<1>4. Commit(m, n) = Bump(counted, {Canonical, Plan})
  BY <1>3 DEF Commit
<1> HIDE DEF moved
<1>5. counted \in Kernels
  BY <1>1, <1>2, Updates
<1>6. counted.seen = moved.seen
  BY <1>1 DEF Kernels
<1> HIDE DEF counted
<1>. QED
  BY <1>1, <1>4, <1>5, <1>6, BumpType

-----------------------------------------------------------------------------
(* The changes of the memory leave the capsules accurate.                   *)

\* What capsules are compiled from is the same in m and k.
Same(m, k) ==
  /\ k.capsules = m.capsules /\ k.access = m.access /\ k.published = m.published
  /\ k.seen = m.seen /\ k.canonical = m.canonical

\* What a principal may know follows from what it has seen, its profile and the items.
LEMMA SamePartition ==
  ASSUME NEW m, NEW k, NEW p \in Principals, NEW t,
         k.access[p] = m.access[p], k.published = m.published,
         \A i \in Items : k.seen[<<p, i>>] = m.seen[<<p, i>>]
  PROVE  Partition(k, p, t) = Partition(m, p, t)
<1>1. \A i \in Items : Available(k, p, i, t) <=> Available(m, p, i, t)
  BY DEF Available, Registered
<1>. QED
  BY <1>1 DEF Partition

\* A kernel that differs from a sound one in other fields is sound.
LEMMA SameSound ==
  ASSUME NEW m \in Sound, NEW k \in Kernels, Same(m, k)
  PROVE  k \in Sound
<1>1. m \in Kernels /\ Accurate(m)
  BY DEF Sound
<1>2. ASSUME NEW n \in DOMAIN k.capsules
      PROVE  /\ Stamp(k.capsules[n].principal) \subseteq k.capsules[n].stamp
             /\ Usable(k.capsules[n]) => Matches(k, k.capsules[n])
  <2> DEFINE c == m.capsules[n]
  <2>1. n \in DOMAIN m.capsules /\ k.capsules[n] = c
    BY <1>2 DEF Same
  <2>2. c.principal \in Principals
    <3>1. c \in CapsuleType
      BY <1>1, <2>1, Fields
    <3>. QED
      BY <3>1 DEF CapsuleType
  <2>3. Stamp(c.principal) \subseteq c.stamp /\ (Usable(c) => Matches(m, c))
    BY <1>1, <2>1 DEF Accurate
  <2> HIDE DEF c
  <2>4. Partition(k, c.principal, c.at) = Partition(m, c.principal, c.at)
    BY <2>2, SamePartition DEF Same
  <2>. QED
    BY <2>1, <2>3, <2>4 DEF Matches, Same
<1>. QED
  BY <1>2 DEF Sound, Accurate

\* The fields of a kernel that no capsule is compiled from.
LEMMA OtherFields ==
  ASSUME NEW m \in Kernels, NEW v
  PROVE  /\ Same(m, [m EXCEPT !.bound = v]) /\ Same(m, [m EXCEPT !.revokedAt = v])
         /\ Same(m, [m EXCEPT !.receipts = v]) /\ Same(m, [m EXCEPT !.auths = v])
         /\ Same(m, [m EXCEPT !.attested = v]) /\ Same(m, [m EXCEPT !.consumed = v])
BY DEF Same, Kernels

\* A capsule that depends on a domain that is bumped is stale; the others are as they were.
LEMMA Bumped ==
  ASSUME NEW k \in Kernels, NEW domains, NEW n \in DOMAIN Bump(k, domains).capsules
  PROVE  LET c == k.capsules[n]
             b == Bump(k, domains).capsules[n]
         IN /\ n \in DOMAIN k.capsules
            /\ b.principal = c.principal /\ b.stamp = c.stamp /\ b.access = c.access
            /\ b.items = c.items /\ b.canonical = c.canonical /\ b.at = c.at
            /\ Usable(b) => Usable(c) /\ c.stamp \cap domains = {}
<1> DEFINE c == k.capsules[n]
           stale == c.stale \/ c.stamp \cap domains # {}
           marked == [j \in DOMAIN k.capsules |->
               [k.capsules[j] EXCEPT
                  !.stale = k.capsules[j].stale \/ k.capsules[j].stamp \cap domains # {}]]
<1>1. Bump(k, domains).capsules = marked
  BY DEF Bump, Kernels
<1>2. n \in DOMAIN k.capsules
  BY <1>1
<1>3. Bump(k, domains).capsules[n] = [c EXCEPT !.stale = stale]
  BY <1>1, <1>2
<1>4. c \in CapsuleType
  BY <1>2, Fields
<1> HIDE DEF c, stale
<1>5. LET b == [c EXCEPT !.stale = stale]
      IN /\ b.principal = c.principal /\ b.stamp = c.stamp /\ b.access = c.access
         /\ b.items = c.items /\ b.canonical = c.canonical /\ b.at = c.at
         /\ b.stale = stale
  BY <1>4 DEF CapsuleType
<1>6. ~ stale => ~ c.stale /\ c.stamp \cap domains = {}
  BY DEF stale
<1>. QED
  BY <1>2, <1>3, <1>5, <1>6 DEF Usable, c

\* A bump names enough domains when what it leaves untold is as it was for every
\* principal whose capsules depend on none of them.
LEMMA BumpSound ==
  ASSUME NEW m \in Sound, NEW k \in Kernels, NEW domains, k.capsules = m.capsules,
         \A p \in Principals : Stamp(p) \cap domains = {} =>
           /\ k.access[p] = m.access[p] /\ k.published = m.published
           /\ \A i \in Items : k.seen[<<p, i>>] = m.seen[<<p, i>>]
           /\ k.canonical = m.canonical
  PROVE  Bump(k, domains) \in Sound
<1> DEFINE b == Bump(k, domains)
<1>1. m \in Kernels /\ Accurate(m)
  BY DEF Sound
<1>2. /\ b \in Kernels /\ b.access = k.access /\ b.published = k.published
      /\ b.seen = k.seen /\ b.canonical = k.canonical
  <2>1. b \in Kernels /\ b.seen = k.seen
    BY BumpType
  <2>2. b.access = k.access /\ b.published = k.published /\ b.canonical = k.canonical
    BY DEF Bump, Kernels
  <2>. QED
    BY <2>1, <2>2
<1>3. ASSUME NEW n \in DOMAIN b.capsules
      PROVE  /\ Stamp(b.capsules[n].principal) \subseteq b.capsules[n].stamp
             /\ Usable(b.capsules[n]) => Matches(b, b.capsules[n])
  <2> DEFINE c == m.capsules[n]
             d == b.capsules[n]
  <2>1. /\ n \in DOMAIN m.capsules
        /\ d.principal = c.principal /\ d.stamp = c.stamp /\ d.access = c.access
        /\ d.items = c.items /\ d.canonical = c.canonical /\ d.at = c.at
        /\ Usable(d) => Usable(c) /\ c.stamp \cap domains = {}
    BY <1>3, Bumped
  <2>2. c.principal \in Principals
    <3>1. c \in CapsuleType
      BY <1>1, <2>1, Fields
    <3>. QED
      BY <3>1 DEF CapsuleType
  <2>3. Stamp(c.principal) \subseteq c.stamp /\ (Usable(c) => Matches(m, c))
    BY <1>1, <2>1 DEF Accurate
  <2> HIDE DEF b, c, d
  <2>4. ASSUME Usable(d) PROVE Matches(b, d)
    <3>1. Stamp(c.principal) \cap domains = {}
      BY <2>1, <2>3, <2>4
    <3>2. /\ k.access[c.principal] = m.access[c.principal] /\ k.published = m.published
          /\ \A i \in Items : k.seen[<<c.principal, i>>] = m.seen[<<c.principal, i>>]
          /\ k.canonical = m.canonical
      BY <2>2, <3>1
    <3>3. Partition(b, c.principal, c.at) = Partition(m, c.principal, c.at)
      BY <1>2, <2>2, <3>2, SamePartition
    <3>4. Matches(m, c)
      BY <2>1, <2>3, <2>4
    <3>. QED
      BY <1>2, <2>1, <3>2, <3>3, <3>4 DEF Matches
  <2>. QED
    BY <2>1, <2>3, <2>4 DEF d
<1>. QED
  BY <1>2, <1>3 DEF Sound, Accurate

\* Every capsule depends on the plan.
LEMMA PlanSound ==
  ASSUME NEW m \in Sound, NEW k \in Kernels, NEW domains, k.capsules = m.capsules,
         Plan \in domains
  PROVE  Bump(k, domains) \in Sound
<1>1. \A p \in Principals : Stamp(p) \cap domains # {}
  BY DEF Stamp
<1>. QED
  BY <1>1, BumpSound

\* A binding and a revocation are told to every capsule.
LEMMA BindSound ==
  ASSUME NEW m \in Sound, NEW a \in Attestations, NEW tag \in BOOLEAN, NEW now \in Times
  PROVE  Bind(m, a, tag, now) \in Sound
<1> DEFINE p == Attested[a].principal
           accepted == Accept(m, a, now)
           profiled == WithAccess(accepted, p, tag)
<1>1. p \in Principals /\ m \in Kernels
  BY TrustAssumption DEF AttestationType, Sound
<1>2. accepted \in Kernels /\ accepted.capsules = m.capsules
  BY <1>1, AcceptType DEF Accept, Kernels
<1> HIDE DEF accepted
<1>3. profiled \in Kernels /\ profiled.capsules = m.capsules
  <2>1. /\ Register(accepted, p, tag) \in Kernels
        /\ Register(accepted, p, tag).capsules = accepted.capsules
    BY <1>1, <1>2, RegisterType DEF Register, Kernels
  <2>. QED
    BY <1>2, <2>1 DEF WithAccess
<1>4. Bind(m, a, tag, now) = Bump(profiled, {Identity(p), Profile(p), Plan})
  BY DEF Bind, accepted
<1> HIDE DEF profiled
<1>. QED
  BY <1>3, <1>4, PlanSound

LEMMA RevokeSound ==
  ASSUME NEW m \in Sound, NEW a \in Attestations, NEW at \in Times
  PROVE  Revoke(m, a, at) \in Sound
<1> DEFINE p == Attested[a].principal
           revokedAt == [m.revokedAt EXCEPT ![a] = at]
           revoked == [m EXCEPT !.revokedAt = revokedAt]
<1>1. m \in Kernels
  BY DEF Sound
<1>2. revokedAt \in [Attestations -> Times \cup {Never}]
  BY <1>1, Fields
<1>3. Revoke(m, a, at) = Bump(revoked, {Identity(p), Profile(p), Plan})
  BY DEF Revoke
<1> HIDE DEF revokedAt
<1>4. revoked \in Kernels
  BY <1>1, <1>2, Updates
<1>5. revoked.capsules = m.capsules
  BY <1>1 DEF Kernels
<1> HIDE DEF revoked
<1>. QED
  BY <1>3, <1>4, <1>5, PlanSound

\* Nothing is compiled from a receipt that is sent or delivered.
LEMMA SendSound ==
  ASSUME NEW m \in Sound, NEW r \in Receipts, NEW from \in Principals,
         NEW to \in Principals, NEW i \in Items, NEW at \in Times
  PROVE  Send(m, r, from, to, i, at) \in Sound
<1>1. m \in Kernels
  BY DEF Sound
<1>2. Send(m, r, from, to, i, at) \in Kernels
  BY <1>1, SendType
<1>3. Same(m, Send(m, r, from, to, i, at))
  BY <1>1 DEF Send, Same, Kernels
<1>. QED
  BY <1>2, <1>3, SameSound

LEMMA DeliverSound ==
  ASSUME NEW m \in Sound, NEW r \in Receipts, m.receipts[r] \in ReceiptType,
         NEW at \in Times
  PROVE  Deliver(m, r, at) \in Sound
<1>1. m \in Kernels
  BY DEF Sound
<1>2. Deliver(m, r, at) \in Kernels
  BY <1>1, DeliverType
<1>3. Same(m, Deliver(m, r, at))
  BY <1>1 DEF Deliver, Same, Kernels
<1>. QED
  BY <1>2, <1>3, SameSound

\* An observation is told to the capsules of the principal that observes.
LEMMA ObserveType ==
  ASSUME NEW m \in Kernels, NEW p \in Principals, NEW i \in Items, NEW at \in Times,
         NEW domains
  PROVE  /\ Observe(m, p, i, at, domains) \in Kernels
         /\ Observe(m, p, i, at, domains).seen = [m.seen EXCEPT ![<<p, i>>] = at]
         /\ Observe(m, p, i, at, domains).receipts = m.receipts
<1> DEFINE seen == [m.seen EXCEPT ![<<p, i>>] = at]
           known == [m EXCEPT !.seen = seen]
<1>1. seen \in [Principals \X Items -> Times \cup {Never}]
  BY Fields
<1>2. Observe(m, p, i, at, domains) = Bump(known, domains)
  BY DEF Observe
<1> HIDE DEF seen
<1>3. known \in Kernels
  BY <1>1, Updates
<1>4. known.seen = seen /\ known.receipts = m.receipts
  BY DEF Kernels
<1> HIDE DEF known
<1>5. Bump(known, domains) \in Kernels /\ Bump(known, domains).seen = known.seen
  BY <1>3, BumpType
<1>6. Bump(known, domains).receipts = known.receipts
  BY <1>3 DEF Bump, Kernels
<1>. QED
  BY <1>2, <1>4, <1>5, <1>6 DEF seen

LEMMA ObserveSound ==
  ASSUME NEW m \in Sound, NEW p \in Principals, NEW i \in Items, NEW at \in Times,
         NEW domains, Profile(p) \in domains
  PROVE  Observe(m, p, i, at, domains) \in Sound
<1> DEFINE seen == [m.seen EXCEPT ![<<p, i>>] = at]
           known == [m EXCEPT !.seen = seen]
<1>1. m \in Kernels /\ m.seen \in [Principals \X Items -> Times \cup {Never}]
  BY Fields DEF Sound
<1>2. seen \in [Principals \X Items -> Times \cup {Never}]
  BY <1>1
<1>3. \A q \in Principals, j \in Items : q # p => seen[<<q, j>>] = m.seen[<<q, j>>]
  BY <1>1
<1>4. Observe(m, p, i, at, domains) = Bump(known, domains)
  BY DEF Observe
<1> HIDE DEF seen
<1>5. known \in Kernels
  BY <1>1, <1>2, Updates
<1>6. /\ known.capsules = m.capsules /\ known.access = m.access
      /\ known.published = m.published /\ known.canonical = m.canonical
      /\ known.seen = seen
  BY <1>1 DEF Kernels
<1> HIDE DEF known
<1>7. \A q \in Principals : Stamp(q) \cap domains = {} => q # p
  BY DEF Stamp
<1>. QED
  BY <1>3, <1>4, <1>5, <1>6, <1>7, BumpSound

LEMMA RevealSound ==
  ASSUME NEW m \in Sound, NEW r \in Receipts, m.receipts[r] \in ReceiptType,
         NEW at \in Times
  PROVE  Reveal(m, r, at) \in Sound
<1> DEFINE receipt == [m.receipts[r] EXCEPT !.state = "observed", !.observedAt = at]
           told == [m EXCEPT !.receipts[r] = receipt]
           to == m.receipts[r].to
           i == m.receipts[r].item
<1>1. m \in Kernels /\ to \in Principals /\ i \in Items /\ receipt \in ReceiptType
  BY DEF ReceiptType, Sound
<1>2. told = [m EXCEPT !.receipts[r].state = "observed", !.receipts[r].observedAt = at]
  BY <1>1 DEF Kernels
<1>3. Reveal(m, r, at) = Observe(told, to, i, at, {Communication(to), Profile(to)})
  BY <1>2 DEF Reveal
<1> HIDE DEF receipt
<1>4. told \in Sound
  <2>1. told \in Kernels
    BY <1>1, ReceiptUpdate
  <2>2. Same(m, told)
    BY <1>1 DEF Same, Kernels
  <2>. QED
    BY <2>1, <2>2, SameSound
<1> HIDE DEF told, to, i
<1>. QED
  BY <1>1, <1>3, <1>4, ObserveSound

\* Nothing is compiled from the state of an authorization, but a commit is told to all.
LEMMA StateSound ==
  ASSUME NEW m \in Sound, NEW n \in DOMAIN m.auths,
         NEW state \in {"authorized", "dispatched", "unknown", "outcome", "committed",
                        "applied", "not_applied"}
  PROVE  /\ [m EXCEPT !.auths[n].state = state] \in Sound
         /\ [m EXCEPT !.auths[n].state = state] \in Kernels
         /\ [m EXCEPT !.auths[n].state = state].seen = m.seen
         /\ DOMAIN [m EXCEPT !.auths[n].state = state].auths = DOMAIN m.auths
<1>1. m \in Kernels
  BY DEF Sound
<1>2. [m EXCEPT !.auths[n].state = state] \in Kernels
  BY <1>1, StateType
<1>3. Same(m, [m EXCEPT !.auths[n].state = state])
  BY <1>1 DEF Same, Kernels
<1>4. [m EXCEPT !.auths[n].state = state].seen = m.seen
  BY <1>1, StateType
<1>5. DOMAIN [m EXCEPT !.auths[n].state = state].auths = DOMAIN m.auths
  BY <1>1, StateType
<1>. QED
  BY <1>2, <1>3, <1>4, <1>5, SameSound

LEMMA CommitSound ==
  ASSUME NEW m \in Sound, NEW n \in DOMAIN m.auths
  PROVE  Commit(m, n) \in Sound
<1> DEFINE moved == [m EXCEPT !.auths[n].state = "committed"]
           counted == [moved EXCEPT !.canonical = moved.canonical + 1]
<1>1. m \in Kernels
  BY DEF Sound
<1>2. moved \in Kernels /\ moved.capsules = m.capsules
  BY <1>1, StateType DEF Kernels
<1>3. [m EXCEPT !.canonical = @ + 1, !.auths[n].state = "committed"] = counted
  BY <1>1 DEF Kernels
<1>4. Commit(m, n) = Bump(counted, {Canonical, Plan})
  BY <1>3 DEF Commit
<1> HIDE DEF moved
<1>5. moved.canonical + 1 \in Nat
  BY <1>2, Fields
<1>6. counted \in Kernels
  BY <1>2, <1>5, Updates
<1>7. counted.capsules = m.capsules
  BY <1>2 DEF Kernels
<1> HIDE DEF counted
<1>. QED
  BY <1>4, <1>6, <1>7, PlanSound

-----------------------------------------------------------------------------
(* The entries of an operation, one after the other.                        *)

\* What up to four entries replay to.
LEMMA ReplayUnrolled ==
  ASSUME NEW S, NEW es \in Seq(S), Len(es) \in 0 .. 4, NEW d
  PROVE  LET d1 == Replayed(d, es[1])
             d2 == Replayed(d1, es[2])
             d3 == Replayed(d2, es[3])
             d4 == Replayed(d3, es[4])
         IN /\ Len(es) = 0 => ReplayAll(es, d) = d
            /\ Len(es) = 1 => ReplayAll(es, d) = d1
            /\ Len(es) = 2 => ReplayAll(es, d) = d2
            /\ Len(es) = 3 => ReplayAll(es, d) = d3
            /\ Len(es) = 4 => ReplayAll(es, d) = d4
<1> DEFINE Unrolled(f) == [i \in 0 .. Len(es) |->
             IF i = 0 THEN d ELSE Replayed(f[i - 1], es[i])]
           after == CHOOSE f : f = Unrolled(f)
           d1 == Replayed(d, es[1])
           d2 == Replayed(d1, es[2])
           d3 == Replayed(d2, es[3])
           d4 == Replayed(d3, es[4])
           g == [i \in 0 .. Len(es) |-> IF i = 0 THEN d ELSE IF i = 1 THEN d1
                                        ELSE IF i = 2 THEN d2 ELSE IF i = 3 THEN d3 ELSE d4]
<1>1. ReplayAll(es, d) = after[Len(es)]
  BY DEF ReplayAll
<1>2. g = Unrolled(g)
  OBVIOUS
<1>3. after = Unrolled(after)
  BY <1>2
<1> HIDE DEF after
<1>4. \A i \in 0 .. Len(es) :
        after[i] = IF i = 0 THEN d ELSE Replayed(after[i - 1], es[i])
  BY <1>3
<1>5. after[0] = d
  BY <1>4
<1>6. Len(es) >= 1 => after[1] = d1
  BY <1>4, <1>5
<1>7. Len(es) >= 2 => after[2] = d2
  BY <1>4, <1>6
<1>8. Len(es) >= 3 => after[3] = d3
  BY <1>4, <1>7
<1>9. Len(es) >= 4 => after[4] = d4
  BY <1>4, <1>8
<1> HIDE DEF d1, d2, d3, d4
<1>10. Len(es) = 0 => ReplayAll(es, d) = d
  BY <1>1, <1>5
<1>11. Len(es) = 1 => ReplayAll(es, d) = d1
  <2>1. ASSUME Len(es) = 1 PROVE ReplayAll(es, d) = d1
    <3>1. ReplayAll(es, d) = after[1]
      BY <1>1, <2>1
    <3>. QED
      BY <1>6, <2>1, <3>1
  <2>. QED
    BY <2>1
<1>12. Len(es) = 2 => ReplayAll(es, d) = d2
  <2>1. ASSUME Len(es) = 2 PROVE ReplayAll(es, d) = d2
    <3>1. ReplayAll(es, d) = after[2]
      BY <1>1, <2>1
    <3>. QED
      BY <1>7, <2>1, <3>1
  <2>. QED
    BY <2>1
<1>13. Len(es) = 3 => ReplayAll(es, d) = d3
  <2>1. ASSUME Len(es) = 3 PROVE ReplayAll(es, d) = d3
    <3>1. ReplayAll(es, d) = after[3]
      BY <1>1, <2>1
    <3>. QED
      BY <1>8, <2>1, <3>1
  <2>. QED
    BY <2>1
<1>14. Len(es) = 4 => ReplayAll(es, d) = d4
  <2>1. ASSUME Len(es) = 4 PROVE ReplayAll(es, d) = d4
    <3>1. ReplayAll(es, d) = after[4]
      BY <1>1, <2>1
    <3>. QED
      BY <1>9, <2>1, <3>1
  <2>. QED
    BY <2>1
<1>. QED
  BY <1>10, <1>11, <1>12, <1>13, <1>14 DEF d1, d2, d3, d4

\* An entry whose reducer gives the next kernel, or refuses, keeps the files behind it.
LEMMA StepReads ==
  ASSUME NEW m, NEW n, NEW e, NEW d \in Readings(m), Reduce(m, e) \in Readings(n)
  PROVE  Replayed(d, e) \in Readings(n)
BY DEF Replayed, Readings

\* The kernels of an operation, ms[0] before it and ms[i] after its i-th entry, agree with
\* the reducers of its entries.
Agree(ms, es) == \A i \in 1 .. Len(es) : Reduce(ms[i - 1], es[i]) \in Readings(ms[i])

\* The files that read as the kernel before the operation read as the kernel after it.
LEMMA OperationReads ==
  ASSUME NEW S, NEW es \in Seq(S), Len(es) \in 0 .. 4, NEW ms, Agree(ms, es),
         NEW d \in Readings(ms[0])
  PROVE  ReplayAll(es, d) \in Readings(ms[Len(es)])
<1> DEFINE d1 == Replayed(d, es[1])
           d2 == Replayed(d1, es[2])
           d3 == Replayed(d2, es[3])
           d4 == Replayed(d3, es[4])
<1>1. \A i \in 1 .. Len(es) : Reduce(ms[i - 1], es[i]) \in Readings(ms[i])
  BY DEF Agree
<1>2. ASSUME Len(es) >= 1 PROVE d1 \in Readings(ms[1])
  <2>1. Reduce(ms[0], es[1]) \in Readings(ms[1])
    BY <1>1, <1>2
  <2>. QED
    BY <2>1, StepReads
<1>3. ASSUME Len(es) >= 2 PROVE d2 \in Readings(ms[2])
  <2>1. Reduce(ms[1], es[2]) \in Readings(ms[2])
    BY <1>1, <1>3
  <2> HIDE DEF d1
  <2>. QED
    BY <1>2, <1>3, <2>1, StepReads
<1>4. ASSUME Len(es) >= 3 PROVE d3 \in Readings(ms[3])
  <2>1. Reduce(ms[2], es[3]) \in Readings(ms[3])
    BY <1>1, <1>4
  <2> HIDE DEF d2
  <2>. QED
    BY <1>3, <1>4, <2>1, StepReads
<1>5. ASSUME Len(es) >= 4 PROVE d4 \in Readings(ms[4])
  <2>1. Reduce(ms[3], es[4]) \in Readings(ms[4])
    BY <1>1, <1>5
  <2> HIDE DEF d3
  <2>. QED
    BY <1>4, <1>5, <2>1, StepReads
<1>6. /\ Len(es) = 0 => ReplayAll(es, d) = d
      /\ Len(es) = 1 => ReplayAll(es, d) = d1
      /\ Len(es) = 2 => ReplayAll(es, d) = d2
      /\ Len(es) = 3 => ReplayAll(es, d) = d3
      /\ Len(es) = 4 => ReplayAll(es, d) = d4
  BY ReplayUnrolled
<1> HIDE DEF d1, d2, d3, d4
<1>7. CASE Len(es) = 0
  BY <1>6, <1>7
<1>8. CASE Len(es) = 1
  BY <1>2, <1>6, <1>8
<1>9. CASE Len(es) = 2
  BY <1>3, <1>6, <1>9
<1>10. CASE Len(es) = 3
  BY <1>4, <1>6, <1>10
<1>11. CASE Len(es) = 4
  BY <1>5, <1>6, <1>11
<1>. QED
  BY <1>7, <1>8, <1>9, <1>10, <1>11

\* An operation that is completed or cut short.
Ends(m, es) == Done(m, es) \/ \E n \in 0 .. Len(es) - 1 : Torn(es, n)

\* However an operation ends, the memory is one of its kernels and the files read as it.
LEMMA OperationEnds ==
  ASSUME NEW S, NEW es \in Seq(S), Len(es) \in 1 .. 4, NEW ms, Agree(ms, es),
         ms[0] = memory, durable \in Readings(memory), Ends(ms[Len(es)], es)
  PROVE  durable' \in Readings(memory') /\ \E i \in 0 .. Len(es) : memory' = ms[i]
<1>1. CASE Done(ms[Len(es)], es)
  BY <1>1, OperationReads DEF Done
<1>2. ASSUME NEW n \in 0 .. Len(es) - 1, Torn(es, n)
      PROVE  durable' = memory' /\ memory' = ms[n]
  <2> DEFINE written == SubSeq(es, 1, n)
             d == ReplayAll(written, durable)
  <2>1. /\ written \in Seq(S) /\ Len(written) = n
        /\ \A i \in 1 .. n : written[i] = es[i]
    OBVIOUS
  <2>2. Agree(ms, written)
    BY <2>1 DEF Agree
  <2> HIDE DEF written
  <2>3. d \in Readings(ms[n])
    <3>1. Len(written) \in 0 .. 4 /\ durable \in Readings(ms[0])
      BY <2>1
    <3>. QED
      BY <2>1, <2>2, <3>1, OperationReads
  <2>4. d # Unreadable /\ memory' = d /\ durable' = d
    BY <1>2 DEF Torn, written
  <2>. QED
    BY <2>3, <2>4 DEF Readings
<1>. QED
  BY <1>1, <1>2 DEF Ends, Readings

-----------------------------------------------------------------------------
(* The reducers.                                                            *)

\* Each event has its reducer.
LEMMA Reducers ==
  ASSUME NEW d
  PROVE  /\ \A a, tag, now, revision :
              Reduce(d, <<"identity_bound", a, tag, now, revision>>) =
                ReplayIdentityBound(d, a, tag, now, revision)
         /\ \A a, at : Reduce(d, <<"identity_revoked", a, at>>) =
                         Check(a \in Accepted(d), Revoke(d, a, at))
         /\ \A p, tag, revision :
              Reduce(d, <<"registered", p, tag, revision>>) = ReplayProfile(d, p, tag, revision)
         /\ \A i : Reduce(d, <<"published", i>>) = ReplayPublished(d, i)
         /\ \A r, from, to, i, at :
              Reduce(d, <<"sent", r, from, to, i, at>>) = ReplaySent(d, r, from, to, i, at)
         /\ \A r, at : Reduce(d, <<"delivered", r, at>>) = ReplayDelivered(d, r, at)
         /\ \A r, at : Reduce(d, <<"observed", r, at>>) = ReplayObserved(d, r, at)
         /\ \A p, i, at : Reduce(d, <<"information_observed", p, i, at>>) =
                            ReplayInformationObserved(d, p, i, at)
         /\ \A c : Reduce(d, <<"capsule_compiled", c>>) = ReplayCapsule(d, c)
         /\ \A c : Reduce(d, <<"capsule_identity_bound", c>>) = Unreadable
         /\ \A n, b : Reduce(d, <<"authorization_identity_bound", n, b>>) =
                        ReplayIdentityOfAuthorization(d, n, b)
         /\ \A n : Reduce(d, <<"dispatch_attested", n>>) =
                     [d EXCEPT !.attested = @ \cup {n}]
         /\ \A n, id, applied : Reduce(d, <<"reconciled_evidence", n, id, applied>>) =
                                  ReplayReconciled(d, n, id, applied)
BY DEF Reduce

\* The events of the transactions.
LEMMA TransactionReducers ==
  ASSUME NEW d
  PROVE  /\ \A a : Reduce(d, <<"authorized", a>>) = [d EXCEPT !.auths = Append(@, a)]
         /\ \A n : Reduce(d, <<"dispatch_recorded", n>>) =
                     [d EXCEPT !.auths[n].state = "dispatched"]
         /\ \A n : Reduce(d, <<"reconciliation_required", n>>) =
                     [d EXCEPT !.auths[n].state = "unknown"]
         /\ \A n : Reduce(d, <<"outcome_observed", n>>) =
                     [d EXCEPT !.auths[n].state = "outcome"]
         /\ \A n : Reduce(d, <<"committed", n>>) = Commit(d, n)
<1>1. \A a : Reduce(d, <<"authorized", a>>) = [d EXCEPT !.auths = Append(@, a)]
  BY DEF Reduce, ReplayTransaction
<1>2. \A n : Reduce(d, <<"dispatch_recorded", n>>) = [d EXCEPT !.auths[n].state = "dispatched"]
  BY DEF Reduce, ReplayTransaction
<1>3. \A n : Reduce(d, <<"reconciliation_required", n>>) = [d EXCEPT !.auths[n].state = "unknown"]
  BY DEF Reduce, ReplayTransaction
<1>4. \A n : Reduce(d, <<"outcome_observed", n>>) = [d EXCEPT !.auths[n].state = "outcome"]
  BY DEF Reduce, ReplayTransaction
<1>5. \A n : Reduce(d, <<"committed", n>>) = Commit(d, n)
  BY DEF Reduce, ReplayTransaction
<1>. QED
  BY <1>1, <1>2, <1>3, <1>4, <1>5

\* A check leads where it is to lead, or refuses.
LEMMA Checked ==
  ASSUME NEW m, NEW condition
  PROVE  Check(condition, m) \in Readings(m)
BY DEF Check, Readings

-----------------------------------------------------------------------------
(* The operations that append one entry or two.                             *)

\* What an operation that teaches nobody anything keeps.
Kept == IInv' /\ memory'.seen = memory.seen

\* The invariant holds of the operation that leaves a sound kernel.
LEMMA Ending ==
  ASSUME IInv, UNCHANGED <<clock, limits>>,
         memory' \in Sound, durable' \in Readings(memory')
  PROVE  IInv'
<1>1. memory' \in Kernels
  BY DEF Sound
<1>. QED
  BY <1>1 DEF IInv, TypeOK, ReplayAgrees, Readings

\* The operation of one entry.
LEMMA PerformOne ==
  ASSUME IInv, NEW m \in Sound,
         NEW e, Reduce(memory, e) \in Readings(m), Perform(m, <<e>>)
  PROVE  IInv' /\ memory' \in {memory, m}
<1> DEFINE es == <<e>>
           ms == [i \in {0, 1} |-> IF i = 0 THEN memory ELSE m]
<1>1. es \in Seq({e}) /\ Len(es) = 1 /\ es[1] = e
  OBVIOUS
<1>2. ms[0] = memory /\ ms[1] = m
  OBVIOUS
<1> HIDE DEF es, ms
<1>3. Agree(ms, es)
  BY <1>1, <1>2 DEF Agree
<1>4. Ends(ms[Len(es)], es)
  BY <1>1, <1>2 DEF Perform, Ends, es
<1>5. durable \in Readings(memory)
  BY DEF IInv, ReplayAgrees, Readings
<1>6. durable' \in Readings(memory') /\ \E i \in 0 .. Len(es) : memory' = ms[i]
  <2>1. Len(es) \in 1 .. 4 /\ ms[0] = memory
    BY <1>1, <1>2
  <2>. QED
    BY <1>1, <1>3, <1>4, <1>5, <2>1, OperationEnds
<1>7. memory' \in {memory, m}
  BY <1>1, <1>2, <1>6
<1>8. memory' \in Sound
  BY <1>7 DEF IInv
<1>. QED
  BY <1>6, <1>7, <1>8, Ending DEF Perform

\* The operation of one entry that teaches nobody anything.
LEMMA KeptOne ==
  ASSUME IInv, NEW m \in Sound, m.seen = memory.seen,
         NEW e, Reduce(memory, e) \in Readings(m), Perform(m, <<e>>)
  PROVE  Kept
<1>1. IInv' /\ memory' \in {memory, m}
  BY PerformOne
<1>. QED
  BY <1>1 DEF Kept

\* The operation of two entries.
LEMMA PerformTwo ==
  ASSUME IInv, NEW m \in Sound, m.seen = memory.seen,
         NEW m1 \in Sound, m1.seen = memory.seen,
         NEW e1, Reduce(memory, e1) \in Readings(m1),
         NEW e2, Reduce(m1, e2) \in Readings(m), Perform(m, <<e1, e2>>)
  PROVE  Kept
<1> DEFINE es == <<e1, e2>>
           ms == [i \in {0, 1, 2} |-> IF i = 0 THEN memory ELSE IF i = 1 THEN m1 ELSE m]
<1>1. es \in Seq({e1, e2}) /\ Len(es) = 2 /\ es[1] = e1 /\ es[2] = e2
  OBVIOUS
<1>2. ms[0] = memory /\ ms[1] = m1 /\ ms[2] = m
  OBVIOUS
<1> HIDE DEF es, ms
<1>3. Agree(ms, es)
  BY <1>1, <1>2 DEF Agree
<1>4. Ends(ms[Len(es)], es)
  BY <1>1, <1>2 DEF Perform, Ends, es
<1>5. durable \in Readings(memory)
  BY DEF IInv, ReplayAgrees, Readings
<1>6. durable' \in Readings(memory') /\ \E i \in 0 .. Len(es) : memory' = ms[i]
  BY <1>1, <1>2, <1>3, <1>4, <1>5, OperationEnds
<1>7. memory' \in {memory, m1, m}
  BY <1>1, <1>2, <1>6
<1>8. memory' \in Sound /\ memory'.seen = memory.seen
  BY <1>7 DEF IInv
<1>. QED
  BY <1>6, <1>8, Ending DEF Kept, Perform

\* bind_principal: the reducer of its entry accepts what it accepted, or refuses.
LEMMA KeptBindPrincipal ==
  ASSUME IInv, NEW a \in Attestations, NEW tag \in BOOLEAN, BindPrincipal(a, tag)
  PROVE  Kept
<1> DEFINE p == Attested[a].principal
           m == Bind(memory, a, tag, clock)
           e == <<"identity_bound", a, tag, clock, m.access[p].revision>>
<1>1. memory \in Kernels /\ clock \in Times /\ memory \in Sound
  BY DEF IInv, TypeOK
<1>2. m \in Sound /\ m.seen = memory.seen
  BY <1>1, BindType, BindSound
<1>3. Reduce(memory, e) = ReplayIdentityBound(memory, a, tag, clock, m.access[p].revision)
  BY Reducers
<1>4. Reduce(memory, e) \in Readings(m)
  BY <1>3, Checked DEF ReplayIdentityBound
<1>5. Perform(m, <<e>>)
  BY DEF BindPrincipal
<1> HIDE DEF m, e
<1>. QED
  BY <1>2, <1>4, <1>5, KeptOne

\* revoke_principal_attestation: one entry, refused only of what was never accepted.
LEMMA KeptRevoke ==
  ASSUME IInv, NEW a \in Attestations, NEW at \in Times, RevokePrincipalAttestation(a, at)
  PROVE  Kept
<1> DEFINE m == Revoke(memory, a, at)
           e == <<"identity_revoked", a, at>>
<1>1. memory \in Kernels /\ memory \in Sound
  BY DEF IInv, TypeOK
<1>2. m \in Sound /\ m.seen = memory.seen
  BY <1>1, RevokeType, RevokeSound
<1>3. Reduce(memory, e) = Check(a \in Accepted(memory), m)
  BY Reducers
<1>4. Reduce(memory, e) \in Readings(m)
  BY <1>3, Checked
<1>5. Perform(m, <<e>>)
  BY DEF RevokePrincipalAttestation
<1> HIDE DEF m, e
<1>. QED
  BY <1>2, <1>4, <1>5, KeptOne

\* register_principal and update_principal_access: one entry, with the next revision.
LEMMA KeptSetAccess ==
  ASSUME IInv, NEW p \in Principals, NEW tag \in BOOLEAN, SetAccess(p, tag)
  PROVE  Kept
<1> DEFINE registered == Register(memory, p, tag)
           m == Bump(registered, {Profile(p), Plan})
           e == <<"registered", p, tag, memory.access[p].revision + 1>>
<1>1. memory \in Kernels /\ memory \in Sound
  BY DEF IInv, TypeOK
<1>2. /\ registered \in Kernels /\ registered.seen = memory.seen
      /\ registered.capsules = memory.capsules
  BY <1>1, RegisterType DEF Register, Kernels
<1>3. Reduce(memory, e) = ReplayProfile(memory, p, tag, memory.access[p].revision + 1)
  BY Reducers
<1>4. Reduce(memory, e) \in Readings(m)
  BY <1>3, Checked DEF ReplayProfile
<1>5. Perform(m, <<e>>)
  BY DEF SetAccess
<1> HIDE DEF registered
<1>6. m \in Sound /\ m.seen = memory.seen
  BY <1>1, <1>2, BumpType, PlanSound
<1> HIDE DEF m, e
<1>. QED
  BY <1>4, <1>5, <1>6, KeptOne

\* publish_information: one entry, refused of what was published before.
LEMMA KeptPublish ==
  ASSUME IInv, NEW i \in Items, PublishInformation(i)
  PROVE  Kept
<1> DEFINE published == [memory EXCEPT !.published = memory.published \cup {i}]
           m == Bump(published, {Plan})
           e == <<"published", i>>
<1>1. memory \in Kernels /\ memory \in Sound
  BY DEF IInv, TypeOK
<1>2. memory.published \cup {i} \in SUBSET Items
  BY <1>1, Fields
<1>3. published \in Kernels
  BY <1>1, <1>2, Updates
<1>4. published.seen = memory.seen /\ published.capsules = memory.capsules
  BY <1>1 DEF Kernels
<1>5. Reduce(memory, e) = ReplayPublished(memory, i)
  BY Reducers
<1>6. Reduce(memory, e) \in Readings(m)
  BY <1>5, Checked DEF ReplayPublished
<1>7. Perform(m, <<e>>)
  BY DEF PublishInformation
<1> HIDE DEF published
<1>8. m \in Sound /\ m.seen = memory.seen
  BY <1>1, <1>3, <1>4, BumpType, PlanSound
<1> HIDE DEF m, e
<1>. QED
  BY <1>6, <1>7, <1>8, KeptOne

-----------------------------------------------------------------------------
(* A transfer.                                                              *)

\* What KnowledgeIsGrounded says of a step: of what somebody has come to know there is
\* a receipt that the step opened, and those who sent and observed it were bound by then,
\* or the host says so, of a principal and an item that it has made known.
ByReceipt(p, i, at, r) ==
  LET receipt == memory'.receipts[r]
      Bound(q, t) == \E b \in Range(memory.bound[q]) : b.at <= t
  IN /\ memory.receipts[r] = NoReceipt
     /\ receipt # NoReceipt /\ receipt.to = p /\ receipt.item = i
     /\ receipt.observedAt = at /\ receipt.sentAt <= receipt.deliveredAt
     /\ receipt.deliveredAt <= at
     /\ Bound(receipt.from, receipt.sentAt) /\ Bound(p, at)

ByTheHost(p, i, at) ==
  /\ memory'.receipts = memory.receipts
  /\ Registered(memory, p) /\ i \in memory.published /\ at <= clock

Grounded ==
  \A p \in Principals, i \in Items :
    LET at == memory'.seen[<<p, i>>]
    IN \/ at = memory.seen[<<p, i>>]
       \/ \E r \in Receipts : ByReceipt(p, i, at, r)
       \/ ByTheHost(p, i, at)

\* Who comes to know nothing has nothing to be grounded.
LEMMA KeptIsGrounded ==
  ASSUME memory'.seen = memory.seen
  PROVE  Grounded
BY DEF Grounded

\* observe_information: one entry, and what is seen is the word of the host.
LEMMA ObservationGrounded ==
  ASSUME IInv, NEW p \in Principals, NEW i \in Items, NEW at \in Times,
         ObserveInformation(p, i, at)
  PROVE  IInv' /\ Grounded
<1> DEFINE m == Observe(memory, p, i, at, {Profile(p)})
           e == <<"information_observed", p, i, at>>
<1>1. memory \in Kernels /\ memory \in Sound
  BY DEF IInv, TypeOK
<1>2. /\ m \in Sound /\ m.seen = [memory.seen EXCEPT ![<<p, i>>] = at]
      /\ m.receipts = memory.receipts
  BY <1>1, ObserveType, ObserveSound
<1>3. Reduce(memory, e) = ReplayInformationObserved(memory, p, i, at)
  BY Reducers
<1>4. Reduce(memory, e) \in Readings(m)
  BY <1>3, Checked DEF ReplayInformationObserved
<1>5. /\ Perform(m, <<e>>) /\ Registered(memory, p) /\ i \in memory.published
      /\ at <= clock
  BY DEF ObserveInformation
<1> HIDE DEF m, e
<1>6. IInv' /\ memory' \in {memory, m}
  BY <1>2, <1>4, <1>5, PerformOne
<1>7. ASSUME NEW q \in Principals, NEW j \in Items,
             memory'.seen[<<q, j>>] # memory.seen[<<q, j>>]
      PROVE  ByTheHost(q, j, memory'.seen[<<q, j>>])
  <2>1. memory' = m
    BY <1>6, <1>7
  <2>2. memory.seen \in [Principals \X Items -> Times \cup {Never}]
    BY <1>1, Fields
  <2>3. <<q, j>> = <<p, i>>
    BY <1>2, <1>7, <2>1, <2>2
  <2>4. q = p /\ j = i /\ memory'.seen[<<q, j>>] = at
    BY <1>2, <2>1, <2>2, <2>3
  <2>. QED
    BY <1>2, <1>5, <2>1, <2>4 DEF ByTheHost
<1>. QED
  BY <1>6, <1>7 DEF Grounded

\* Who has a current identity is bound by an attestation of no later than now.
LEMMA CurrentIsBound ==
  ASSUME NEW m \in Kernels, NEW p \in Principals, NEW now, Current(m, p, now)
  PROVE  \E b \in Range(m.bound[p]) : b.at <= now
<1>1. m.bound[p] \in Seq(Bindings) /\ m.bound[p] # <<>>
  BY Fields DEF Current
<1>2. Len(m.bound[p]) \in DOMAIN m.bound[p]
  BY <1>1
<1>3. Last(m.bound[p]) = m.bound[p][Len(m.bound[p])] /\ Last(m.bound[p]).at <= now
  BY DEF Current, Last
<1>. QED
  BY <1>2, <1>3 DEF Range

\* The kernels of a transfer, and the reducers that lead from one to the next.
LEMMA TransferSteps ==
  ASSUME NEW m \in Sound, NEW r \in Receipts, NEW from \in Principals,
         NEW to \in Principals, NEW i \in Items, NEW times \in [1 .. 3 -> Times]
  PROVE  LET s == Send(m, r, from, to, i, times[1])
             d == Deliver(s, r, times[2])
             o == Reveal(d, r, times[3])
         IN /\ s \in Sound /\ s.seen = m.seen /\ s.bound = m.bound
            /\ d \in Sound /\ d.seen = m.seen /\ d.bound = m.bound
            /\ o \in Sound /\ o.seen = [m.seen EXCEPT ![<<to, i>>] = times[3]]
            /\ o.bound = m.bound
            /\ o.receipts[r] \in ReceiptType
            /\ o.receipts[r].from = from /\ o.receipts[r].to = to
            /\ o.receipts[r].item = i /\ o.receipts[r].sentAt = times[1]
            /\ o.receipts[r].deliveredAt = times[2] /\ o.receipts[r].observedAt = times[3]
            /\ Reduce(m, <<"sent", r, from, to, i, times[1]>>) \in Readings(s)
            /\ Reduce(s, <<"delivered", r, times[2]>>) \in Readings(d)
            /\ Reduce(d, <<"observed", r, times[3]>>) \in Readings(o)
<1> DEFINE s == Send(m, r, from, to, i, times[1])
           d == Deliver(s, r, times[2])
           o == Reveal(d, r, times[3])
<1>0. m \in Kernels
  BY DEF Sound
<1>1. times[1] \in Times /\ times[2] \in Times /\ times[3] \in Times
  OBVIOUS
<1>2. /\ s \in Kernels /\ s \in Sound /\ s.seen = m.seen /\ s.bound = m.bound
      /\ s.receipts[r] = [state |-> "sent", from |-> from, to |-> to, item |-> i,
                          sentAt |-> times[1], deliveredAt |-> Never, observedAt |-> Never]
  BY <1>0, <1>1, SendType, SendSound
<1>3. s.receipts[r] \in ReceiptType
  BY <1>1, <1>2 DEF ReceiptType
<1>4. Reduce(m, <<"sent", r, from, to, i, times[1]>>) \in Readings(s)
  <2>1. Reduce(m, <<"sent", r, from, to, i, times[1]>>) =
          ReplaySent(m, r, from, to, i, times[1])
    BY Reducers
  <2>. QED
    BY <2>1, Checked DEF ReplaySent
<1>5. Reduce(s, <<"delivered", r, times[2]>>) \in Readings(d)
  <2>1. Reduce(s, <<"delivered", r, times[2]>>) = ReplayDelivered(s, r, times[2])
    BY Reducers
  <2>. QED
    BY <2>1, Checked DEF ReplayDelivered
<1>6. Reduce(d, <<"observed", r, times[3]>>) \in Readings(o)
  <2>1. Reduce(d, <<"observed", r, times[3]>>) = ReplayObserved(d, r, times[3])
    BY Reducers
  <2>. QED
    BY <2>1, Checked DEF ReplayObserved
<1> HIDE DEF s
<1>7. /\ d \in Kernels /\ d \in Sound /\ d.seen = s.seen /\ d.bound = s.bound
      /\ d.receipts[r] \in ReceiptType /\ SameTransfer(d.receipts[r], s.receipts[r])
      /\ d.receipts[r].deliveredAt = times[2]
  BY <1>1, <1>2, <1>3, DeliverType, DeliverSound
<1>8. /\ d.receipts[r].from = from /\ d.receipts[r].to = to
      /\ d.receipts[r].item = i /\ d.receipts[r].sentAt = times[1]
  BY <1>2, <1>7 DEF SameTransfer
<1> HIDE DEF d
<1>9. /\ o \in Sound /\ o.bound = d.bound
      /\ o.seen = [d.seen EXCEPT ![<<d.receipts[r].to, d.receipts[r].item>>] = times[3]]
      /\ o.receipts[r] \in ReceiptType /\ SameTransfer(o.receipts[r], d.receipts[r])
      /\ o.receipts[r].deliveredAt = d.receipts[r].deliveredAt
      /\ o.receipts[r].observedAt = times[3]
  BY <1>1, <1>7, RevealType, RevealSound
<1>10. o.seen = [m.seen EXCEPT ![<<to, i>>] = times[3]]
  BY <1>2, <1>7, <1>8, <1>9
<1>11. /\ o.receipts[r].from = from /\ o.receipts[r].to = to
       /\ o.receipts[r].item = i /\ o.receipts[r].sentAt = times[1]
  BY <1>8, <1>9 DEF SameTransfer
<1> HIDE DEF o
<1>. QED
  BY <1>2, <1>4, <1>5, <1>6, <1>7, <1>9, <1>10, <1>11 DEF s, d, o

\* A transfer keeps the invariant, and teaches only what was sent, delivered and observed.
LEMMA TransferGrounded ==
  ASSUME IInv, NEW r \in Receipts, NEW from \in Principals, NEW to \in Principals,
         NEW i \in Items, NEW times \in [1 .. 3 -> 1 .. clock],
         NEW stages \in SUBSET {"delivered", "observed"},
         TransferInformation(r, from, to, i, times, stages)
  PROVE  IInv' /\ Grounded
<1> DEFINE s == Send(memory, r, from, to, i, times[1])
           d == Deliver(s, r, times[2])
           o == Reveal(d, r, times[3])
           sending == <<"sent", r, from, to, i, times[1]>>
           delivery == <<"delivered", r, times[2]>>
           observation == <<"observed", r, times[3]>>
           done == Transferred(memory, r, from, to, i, times, stages)
<1>1. memory \in Kernels /\ memory \in Sound /\ clock \in Times
  BY DEF IInv, TypeOK
<1>2. times \in [1 .. 3 -> Times] /\ times[1] \in Times /\ times[2] \in Times
      /\ times[3] \in Times
  BY <1>1, TrustAssumption DEF Times
<1>3. /\ s \in Sound /\ s.seen = memory.seen /\ s.bound = memory.bound
      /\ d \in Sound /\ d.seen = memory.seen /\ d.bound = memory.bound
      /\ o \in Sound /\ o.seen = [memory.seen EXCEPT ![<<to, i>>] = times[3]]
      /\ o.bound = memory.bound
      /\ o.receipts[r] \in ReceiptType
      /\ o.receipts[r].from = from /\ o.receipts[r].to = to
      /\ o.receipts[r].item = i /\ o.receipts[r].sentAt = times[1]
      /\ o.receipts[r].deliveredAt = times[2] /\ o.receipts[r].observedAt = times[3]
      /\ Reduce(memory, sending) \in Readings(s)
      /\ Reduce(s, delivery) \in Readings(d)
      /\ Reduce(d, observation) \in Readings(o)
  BY <1>1, <1>2, TransferSteps
<1>4. /\ Current(memory, from, times[1]) /\ Perform(done[1], done[2])
      /\ memory.receipts[r] = NoReceipt
  BY DEF TransferInformation
<1>5. \/ done = <<s, <<sending>>>>
      \/ done = <<d, <<sending, delivery>>>>
      \/ /\ done = <<o, <<sending, delivery, observation>>>>
         /\ Current(d, to, times[3])
         /\ ~ (times[2] < times[1]) /\ ~ (times[3] < times[2])
  BY DEF Transferred
<1> HIDE DEF s, d, o, sending, delivery, observation, done
<1>6. CASE done = <<s, <<sending>>>>
  <2>1. Perform(s, <<sending>>)
    BY <1>4, <1>6
  <2>2. Kept
    BY <1>3, <2>1, KeptOne
  <2>. QED
    BY <2>2, KeptIsGrounded DEF Kept
<1>7. CASE done = <<d, <<sending, delivery>>>>
  <2>1. Perform(d, <<sending, delivery>>)
    BY <1>4, <1>7
  <2>2. Kept
    BY <1>3, <2>1, PerformTwo
  <2>. QED
    BY <2>2, KeptIsGrounded DEF Kept
<1>8. ASSUME done = <<o, <<sending, delivery, observation>>>>, Current(d, to, times[3]),
             ~ (times[2] < times[1]), ~ (times[3] < times[2])
      PROVE  IInv' /\ Grounded
  <2> DEFINE es == <<sending, delivery, observation>>
             ms == [n \in {0, 1, 2, 3} |-> IF n = 0 THEN memory ELSE IF n = 1 THEN s
                                           ELSE IF n = 2 THEN d ELSE o]
  <2>1. /\ es \in Seq({sending, delivery, observation}) /\ Len(es) = 3
        /\ es[1] = sending /\ es[2] = delivery /\ es[3] = observation
    OBVIOUS
  <2>2. ms[0] = memory /\ ms[1] = s /\ ms[2] = d /\ ms[3] = o
    OBVIOUS
  <2>3. Perform(o, es)
    BY <1>4, <1>8
  <2> HIDE DEF es, ms
  <2>4. Agree(ms, es)
    BY <1>3, <2>1, <2>2 DEF Agree
  <2>5. Ends(ms[Len(es)], es)
    BY <2>1, <2>2, <2>3 DEF Perform, Ends
  <2>6. durable \in Readings(memory)
    BY DEF IInv, ReplayAgrees, Readings
  <2>7. durable' \in Readings(memory') /\ \E n \in 0 .. Len(es) : memory' = ms[n]
    <3>1. Len(es) \in 1 .. 4 /\ ms[0] = memory
      BY <2>1, <2>2
    <3>. QED
      BY <2>1, <2>4, <2>5, <2>6, <3>1, OperationEnds
  <2>8. memory' \in {memory, s, d, o}
    BY <2>1, <2>2, <2>7
  <2>9. IInv'
    <3>1. memory' \in Sound
      BY <1>1, <1>3, <2>8
    <3>. QED
      BY <2>3, <2>7, <3>1, Ending DEF Perform
  <2>10. CASE memory'.seen = memory.seen
    BY <2>9, <2>10, KeptIsGrounded
  <2>11. ASSUME memory' = o PROVE Grounded
    <3>1. \E b \in Range(memory.bound[from]) : b.at <= times[1]
      BY <1>1, <1>4, CurrentIsBound
    <3>2. \E b \in Range(memory.bound[to]) : b.at <= times[3]
      <4>1. \E b \in Range(d.bound[to]) : b.at <= times[3]
        BY <1>3, <1>8, CurrentIsBound DEF Sound
      <4>. QED
        BY <1>3, <4>1
    <3>3. times[1] <= times[2] /\ times[2] <= times[3]
      BY <1>2, <1>8, TrustAssumption DEF Times
    <3>4. o.receipts[r] # NoReceipt
      BY <1>3 DEF ReceiptType, NoReceipt
    <3>5. ASSUME NEW p \in Principals, NEW j \in Items,
                 memory'.seen[<<p, j>>] # memory.seen[<<p, j>>]
          PROVE  p = to /\ j = i /\ memory'.seen[<<p, j>>] = times[3]
      <4>1. memory.seen \in [Principals \X Items -> Times \cup {Never}]
        BY <1>1, Fields
      <4>2. <<p, j>> \in Principals \X Items
        OBVIOUS
      <4>3. <<p, j>> = <<to, i>>
        BY <1>3, <2>11, <3>5, <4>1, <4>2
      <4>. QED
        BY <1>3, <2>11, <4>1, <4>2, <4>3
    <3>6. ByReceipt(to, i, times[3], r)
      BY <1>3, <1>4, <2>11, <3>1, <3>2, <3>3, <3>4 DEF ByReceipt
    <3>. QED
      BY <3>5, <3>6 DEF Grounded
  <2>. QED
    BY <1>3, <2>8, <2>9, <2>10, <2>11
<1>. QED
  BY <1>5, <1>6, <1>7, <1>8

-----------------------------------------------------------------------------
(* Capsules and authorizations.                                             *)

\* A capsule that is accurate is appended to the capsules of a kernel.
LEMMA AppendCapsule ==
  ASSUME NEW m \in Sound, NEW c \in CapsuleType, Stamp(c.principal) \subseteq c.stamp,
         Matches(m, c)
  PROVE  /\ [m EXCEPT !.capsules = Append(m.capsules, c)] \in Sound
         /\ [m EXCEPT !.capsules = Append(m.capsules, c)].seen = m.seen
<1> DEFINE s == m.capsules
           t == Append(s, c)
           k == [m EXCEPT !.capsules = t]
<1>1. m \in Kernels /\ Accurate(m) /\ s \in Seq(CapsuleType)
  BY Fields DEF Sound
<1>2. /\ t \in Seq(CapsuleType) /\ Len(t) = Len(s) + 1
      /\ \A n \in 1 .. Len(s) : t[n] = s[n]
      /\ t[Len(s) + 1] = c
  BY <1>1, AppendProperties
<1>3. /\ DOMAIN t = 1 .. Len(s) + 1 /\ DOMAIN s = 1 .. Len(s) /\ Len(s) \in Nat
  BY <1>1, <1>2
<1>4. ASSUME NEW n \in DOMAIN s
      PROVE  Stamp(s[n].principal) \subseteq s[n].stamp /\ (Usable(s[n]) => Matches(m, s[n]))
  BY <1>1 DEF Accurate
<1> HIDE DEF s, t
<1>5. k \in Kernels
  BY <1>1, <1>2, Updates
<1>6. /\ k.capsules = t /\ k.access = m.access /\ k.published = m.published
      /\ k.seen = m.seen /\ k.canonical = m.canonical
  BY <1>1 DEF Kernels
<1> HIDE DEF k
<1>7. ASSUME NEW x \in CapsuleType, Matches(m, x)
      PROVE  Matches(k, x)
  <2>1. x.principal \in Principals
    BY DEF CapsuleType
  <2>2. Partition(k, x.principal, x.at) = Partition(m, x.principal, x.at)
    BY <1>6, <2>1, SamePartition
  <2>. QED
    BY <1>6, <1>7, <2>2 DEF Matches
<1>8. ASSUME NEW n \in DOMAIN t
      PROVE  Stamp(t[n].principal) \subseteq t[n].stamp /\ (Usable(t[n]) => Matches(k, t[n]))
  <2>1. CASE n = Len(s) + 1
    BY <1>2, <1>7, <2>1
  <2>2. CASE n \in 1 .. Len(s)
    <3>1. s[n] \in CapsuleType
      BY <1>1, <1>3, <2>2
    <3>. QED
      BY <1>2, <1>3, <1>4, <1>7, <2>2, <3>1
  <2>. QED
    BY <1>3, <2>1, <2>2
<1>. QED
  BY <1>5, <1>6, <1>8 DEF Sound, Accurate, k, t, s

\* An authorization is appended to the authorizations of a kernel.
LEMMA AppendAuthorization ==
  ASSUME NEW m \in Sound, NEW a \in AuthorizationType
  PROVE  /\ [m EXCEPT !.auths = Append(m.auths, a)] \in Sound
         /\ [m EXCEPT !.auths = Append(m.auths, a)].seen = m.seen
<1> DEFINE auths == Append(m.auths, a)
<1>0. m \in Kernels
  BY DEF Sound
<1>1. auths \in Seq(AuthorizationType)
  BY <1>0, Fields
<1> HIDE DEF auths
<1>2. [m EXCEPT !.auths = auths] \in Kernels
  BY <1>0, <1>1, Updates
<1>3. Same(m, [m EXCEPT !.auths = auths])
  BY <1>0, OtherFields
<1>4. [m EXCEPT !.auths = auths] \in Sound
  BY <1>2, <1>3, SameSound
<1>. QED
  BY <1>3, <1>4 DEF Same, auths

\* A capsule is of its type when it is compiled, and when its stamp is widened.
LEMMA CompiledType ==
  ASSUME NEW m \in Kernels, NEW p \in Principals, clock \in Times
  PROVE  /\ Compiled(m, p) \in CapsuleType
         /\ [Compiled(m, p) EXCEPT
               !.stamp = Compiled(m, p).stamp \cup {Identity(p), Communication(p)},
               !.binding = BindingOf(m, p)] \in CapsuleType
         /\ \A c \in {Compiled(m, p),
                    [Compiled(m, p) EXCEPT
                       !.stamp = Compiled(m, p).stamp \cup {Identity(p), Communication(p)},
                       !.binding = BindingOf(m, p)]} :
              Stamp(c.principal) \subseteq c.stamp /\ Matches(m, c)
<1> DEFINE c == Compiled(m, p)
           more == {Identity(p), Communication(p)}
           binding == BindingOf(m, p)
           strong == [c EXCEPT !.stamp = c.stamp \cup more, !.binding = binding]
<1>1. Partition(m, p, clock) \in SUBSET Items
  BY DEF Partition
<1>2. m.access[p].revision \in Nat /\ m.canonical \in Nat
  BY Fields
<1>3. Stamp(p) \in SUBSET Domains /\ more \in SUBSET Domains
  BY DEF Stamp, Domains
<1>4. binding \in Nat
  BY Fields DEF BindingOf
<1>5. /\ c.principal = p /\ c.items = Partition(m, p, clock) /\ c.at = clock
      /\ c.access = m.access[p].revision /\ c.canonical = m.canonical /\ c.stamp = Stamp(p)
  BY DEF Compiled
<1>6. c \in CapsuleType
  BY <1>1, <1>2, <1>3 DEF Compiled, CapsuleType
<1> HIDE DEF c, more, binding
<1>7. strong \in CapsuleType
  BY <1>3, <1>4, <1>5, <1>6 DEF CapsuleType
<1>8. /\ strong.principal = p /\ strong.items = c.items /\ strong.at = clock
      /\ strong.access = c.access /\ strong.canonical = c.canonical
      /\ strong.stamp = c.stamp \cup more
  BY <1>5, <1>6 DEF CapsuleType
<1> HIDE DEF strong
<1>9. Stamp(c.principal) \subseteq c.stamp /\ Matches(m, c)
  BY <1>5 DEF Matches
<1>10. Stamp(strong.principal) \subseteq strong.stamp /\ Matches(m, strong)
  BY <1>5, <1>8 DEF Matches
<1>. QED
  BY <1>6, <1>7, <1>9, <1>10 DEF c, more, binding, strong

\* compile_capsule: one entry, which holds the capsule.
LEMMA KeptCompileCapsule ==
  ASSUME IInv, NEW p \in Principals, CompileCapsule(p)
  PROVE  Kept
<1> DEFINE c == Compiled(memory, p)
           m == [memory EXCEPT !.capsules = Append(memory.capsules, c)]
           e == <<"capsule_compiled", c>>
<1>1. memory \in Kernels /\ memory \in Sound /\ clock \in Times
  BY DEF IInv, TypeOK
<1>2. c \in CapsuleType /\ Stamp(c.principal) \subseteq c.stamp /\ Matches(memory, c)
  BY <1>1, CompiledType
<1>3. Perform(m, <<e>>)
  BY DEF CompileCapsule
<1>4. Reduce(memory, e) = ReplayCapsule(memory, c)
  BY Reducers
<1>5. Reduce(memory, e) \in Readings(m)
  BY <1>4 DEF ReplayCapsule, Readings
<1> HIDE DEF c
<1>6. m \in Sound /\ m.seen = memory.seen
  BY <1>1, <1>2, AppendCapsule
<1> HIDE DEF m, e
<1>. QED
  BY <1>3, <1>5, <1>6, KeptOne

\* compile_strong_capsule: the second entry has no reducer, the files are unreadable.
LEMMA KeptCompileStrongCapsule ==
  ASSUME IInv, NEW p \in Principals, CompileStrongCapsule(p)
  PROVE  Kept
<1> DEFINE c == Compiled(memory, p)
           strong == [c EXCEPT !.stamp = c.stamp \cup {Identity(p), Communication(p)},
                               !.binding = BindingOf(memory, p)]
           m1 == [memory EXCEPT !.capsules = Append(memory.capsules, c)]
           m == [memory EXCEPT !.capsules = Append(memory.capsules, strong)]
           e1 == <<"capsule_compiled", c>>
           e2 == <<"capsule_identity_bound", c>>
<1>1. memory \in Kernels /\ memory \in Sound /\ clock \in Times
  BY DEF IInv, TypeOK
<1>2. /\ c \in CapsuleType /\ Stamp(c.principal) \subseteq c.stamp /\ Matches(memory, c)
      /\ strong \in CapsuleType /\ Stamp(strong.principal) \subseteq strong.stamp
      /\ Matches(memory, strong)
  BY <1>1, CompiledType
<1>3. Perform(m, <<e1, e2>>)
  BY DEF CompileStrongCapsule
<1>4. Reduce(memory, e1) = ReplayCapsule(memory, c) /\ Reduce(m1, e2) = Unreadable
  BY Reducers
<1>5. Reduce(memory, e1) \in Readings(m1) /\ Reduce(m1, e2) \in Readings(m)
  BY <1>4 DEF ReplayCapsule, Readings
<1> HIDE DEF c, strong
<1>6. m1 \in Sound /\ m1.seen = memory.seen
  BY <1>1, <1>2, AppendCapsule
<1>7. m \in Sound /\ m.seen = memory.seen
  BY <1>1, <1>2, AppendCapsule
<1> HIDE DEF m1, m, e1, e2
<1>. QED
  BY <1>3, <1>5, <1>6, <1>7, PerformTwo

\* What authorize appends is an authorization.
LEMMA AuthorizationOfType ==
  ASSUME NEW m \in Kernels, NEW p \in Principals, clock \in Times, NEW n \in Nat,
         NEW b \in Nat
  PROVE  Authorization(m, p, n, b) \in AuthorizationType
<1>1. m.canonical \in Nat
  BY Fields
<1>. QED
  BY <1>1 DEF Authorization, AuthorizationType

\* authorize: one entry, which holds the authorization.
LEMMA KeptAuthorize ==
  ASSUME IInv, NEW p \in Principals, NEW n \in {0} \cup DOMAIN memory.capsules,
         Authorize(p, n)
  PROVE  Kept
<1> DEFINE a == Authorization(memory, p, n, 0)
           m == [memory EXCEPT !.auths = Append(memory.auths, a)]
           e == <<"authorized", a>>
<1>1. memory \in Kernels /\ memory \in Sound /\ clock \in Times
  BY DEF IInv, TypeOK
<1>2. n \in Nat
  BY <1>1, Fields
<1>3. a \in AuthorizationType
  BY <1>1, <1>2, AuthorizationOfType
<1>4. Perform(m, <<e>>)
  BY DEF Authorize
<1>5. Reduce(memory, e) = m
  BY TransactionReducers
<1> HIDE DEF a
<1>6. m \in Sound /\ m.seen = memory.seen
  BY <1>1, <1>3, AppendAuthorization
<1>7. Reduce(memory, e) \in Readings(m)
  BY <1>5 DEF Readings
<1> HIDE DEF m, e
<1>. QED
  BY <1>4, <1>6, <1>7, KeptOne

\* What replaces the last element of a sequence might have been appended instead.
LEMMA LastReplaced ==
  ASSUME NEW S, NEW s \in Seq(S), NEW x \in S, NEW y \in S
  PROVE  /\ Len(s) + 1 \in DOMAIN Append(s, x) /\ Append(s, x)[Len(s) + 1] = x
         /\ [Append(s, x) EXCEPT ![Len(s) + 1] = y] = Append(s, y)
<1> DEFINE n == Len(s) + 1
           t == Append(s, x)
           u == Append(s, y)
           r == [t EXCEPT ![n] = y]
<1>1. /\ t \in Seq(S) /\ Len(t) = n /\ n \in 1 .. n
      /\ \A k \in 1 .. Len(s) : t[k] = s[k]
      /\ t[n] = x
  BY AppendProperties
<1>2. /\ u \in Seq(S) /\ Len(u) = n
      /\ \A k \in 1 .. Len(s) : u[k] = s[k]
      /\ u[n] = y
  BY AppendProperties
<1>3. Len(s) \in Nat
  OBVIOUS
<1>4. n \in DOMAIN t
  BY <1>1
<1> HIDE DEF t, u
<1>5. \A k \in 1 .. n : k = n \/ k \in 1 .. Len(s)
  BY <1>3
<1> HIDE DEF n
<1>6. n \in 1 .. Len(t)
  BY <1>1
<1>7. /\ r \in Seq(S) /\ Len(r) = Len(t)
      /\ \A k \in 1 .. Len(t) : r[k] = IF k = n THEN y ELSE t[k]
  BY <1>1, <1>6, ExceptSeq
<1> HIDE DEF r
<1>8. \A k \in 1 .. n : r[k] = u[k]
  BY <1>1, <1>2, <1>5, <1>7
<1>9. r = u
  BY <1>1, <1>2, <1>7, <1>8, SeqEqual
<1>. QED
  BY <1>1, <1>4, <1>9 DEF r, t, u, n

\* authorize_strong: the second entry gives the authorization of the first its binding.
LEMMA KeptAuthorizeStrong ==
  ASSUME IInv, NEW p \in Principals, NEW n \in {0} \cup DOMAIN memory.capsules,
         AuthorizeStrong(p, n)
  PROVE  Kept
<1> DEFINE b == BindingOf(memory, p)
           a1 == Authorization(memory, p, n, 0)
           a == Authorization(memory, p, n, b)
           m1 == [memory EXCEPT !.auths = Append(memory.auths, a1)]
           m == [memory EXCEPT !.auths = Append(memory.auths, a)]
           last == Len(memory.auths) + 1
           e1 == <<"authorized", a1>>
           e2 == <<"authorization_identity_bound", last, b>>
<1>1. memory \in Kernels /\ memory \in Sound /\ clock \in Times
  BY DEF IInv, TypeOK
<1>2. n \in Nat /\ b \in Nat /\ memory.auths \in Seq(AuthorizationType)
  BY <1>1, Fields DEF BindingOf
<1>3. a1 \in AuthorizationType /\ a \in AuthorizationType
  BY <1>1, <1>2, AuthorizationOfType
<1>4. Perform(m, <<e1, e2>>)
  BY DEF AuthorizeStrong
<1>5. Reduce(memory, e1) = m1
  BY TransactionReducers
<1>6. Reduce(m1, e2) =
        Check(last \in DOMAIN m1.auths, [m1 EXCEPT !.auths[last].binding = b])
  <2>1. Reduce(m1, e2) = ReplayIdentityOfAuthorization(m1, last, b)
    BY Reducers
  <2> HIDE DEF m1, e2
  <2>. QED
    BY <2>1 DEF ReplayIdentityOfAuthorization
<1>7. a = [a1 EXCEPT !.binding = b]
  BY DEF Authorization
<1> HIDE DEF a, a1, b
<1>8. m1 \in Sound /\ m1.seen = memory.seen
  BY <1>1, <1>3, AppendAuthorization
<1>9. m \in Sound /\ m.seen = memory.seen
  BY <1>1, <1>3, AppendAuthorization
<1>10. [m1 EXCEPT !.auths[last].binding = b] = m
  <2>1. m1.auths = Append(memory.auths, a1)
    BY <1>1 DEF Kernels
  <2>2. /\ last \in DOMAIN Append(memory.auths, a1) /\ Append(memory.auths, a1)[last] = a1
        /\ [Append(memory.auths, a1) EXCEPT ![last] = a] = Append(memory.auths, a)
    <3> DEFINE s == memory.auths
    <3>1. s \in Seq(AuthorizationType)
      BY <1>2
    <3> HIDE DEF s
    <3>2. /\ Len(s) + 1 \in DOMAIN Append(s, a1) /\ Append(s, a1)[Len(s) + 1] = a1
          /\ [Append(s, a1) EXCEPT ![Len(s) + 1] = a] = Append(s, a)
      BY <1>3, <3>1, LastReplaced
    <3>. QED
      BY <3>2 DEF s
  <2>3. [m1 EXCEPT !.auths[last].binding = b] =
          [m1 EXCEPT !.auths = [m1.auths EXCEPT ![last] = [m1.auths[last] EXCEPT !.binding = b]]]
    OBVIOUS
  <2>4. [m1 EXCEPT !.auths[last].binding = b] = [m1 EXCEPT !.auths = Append(memory.auths, a)]
    BY <1>7, <2>1, <2>2, <2>3
  <2>5. [m1 EXCEPT !.auths = Append(memory.auths, a)] = m
    BY <1>1 DEF Kernels
  <2>. QED
    BY <2>4, <2>5
<1>11. Reduce(memory, e1) \in Readings(m1) /\ Reduce(m1, e2) \in Readings(m)
  BY <1>5, <1>6, <1>10, Checked DEF Readings
<1> HIDE DEF m1, m, e1, e2
<1>. QED
  BY <1>4, <1>8, <1>9, <1>11, PerformTwo

-----------------------------------------------------------------------------
(* Dispatches and reconciliations.                                          *)

\* The attestation of a dispatch leaves the authorizations as they are.
LEMMA AttestedType ==
  ASSUME NEW m \in Sound, NEW n \in DOMAIN m.auths
  PROVE  LET attested == [m EXCEPT !.attested = m.attested \cup {n}]
         IN /\ attested \in Sound /\ attested.seen = m.seen /\ attested.auths = m.auths
            /\ Reduce(m, <<"dispatch_attested", n>>) \in Readings(attested)
<1> DEFINE ids == m.attested \cup {n}
           attested == [m EXCEPT !.attested = ids]
<1>0. m \in Kernels
  BY DEF Sound
<1>1. ids \in SUBSET Nat
  BY <1>0, Fields
<1>2. attested \in Sound
  <2> HIDE DEF ids
  <2>1. attested \in Kernels
    BY <1>0, <1>1, Updates
  <2>2. Same(m, attested)
    BY <1>0, OtherFields
  <2> HIDE DEF attested
  <2>. QED
    BY <2>1, <2>2, SameSound
<1>3. attested.seen = m.seen /\ attested.auths = m.auths
  BY <1>0 DEF Kernels
<1>4. Reduce(m, <<"dispatch_attested", n>>) = attested
  BY Reducers
<1>. QED
  BY <1>2, <1>3, <1>4 DEF Readings

\* dispatch_strong that dispatch refuses: the attestation remains, in memory and files.
LEMMA KeptAttestOnly ==
  ASSUME IInv, NEW n \in DOMAIN memory.auths, NEW presented, AttestOnly(n, presented)
  PROVE  Kept
<1> DEFINE m == [memory EXCEPT !.attested = memory.attested \cup {n}]
           e == <<"dispatch_attested", n>>
<1>1. memory \in Sound
  BY DEF IInv
<1>2. m \in Sound /\ m.seen = memory.seen /\ Reduce(memory, e) \in Readings(m)
  BY <1>1, AttestedType
<1>3. Perform(m, <<e>>)
  BY DEF AttestOnly
<1> HIDE DEF m, e
<1>. QED
  BY <1>2, <1>3, KeptOne

\* The kernel m in which the authorization n has that state.
WithState(m, n, state) == [m EXCEPT !.auths[n].state = state]

\* Of two states that an authorization takes one after the other, the second remains.
LEMMA LaterState ==
  ASSUME NEW m \in Kernels, NEW n \in DOMAIN m.auths, NEW x, NEW y
  PROVE  /\ WithState(WithState(m, n, x), n, y) = WithState(m, n, y)
         /\ Commit(WithState(m, n, x), n) = Commit(m, n)
<1> DEFINE k == [m EXCEPT !.auths[n].state = x]
           auths(z) == [m.auths EXCEPT ![n].state = z]
<1>1. m.auths \in Seq(AuthorizationType) /\ m.auths[n] \in AuthorizationType
  BY Fields
<1>2. k = [m EXCEPT !.auths = auths(x)] /\ k.auths = auths(x) /\ k.canonical = m.canonical
  BY DEF Kernels
<1>3. [auths(x) EXCEPT ![n].state = y] = auths(y)
  BY <1>1 DEF AuthorizationType
<1>4. [auths(x) EXCEPT ![n].state = "committed"] = auths("committed")
  BY <1>1 DEF AuthorizationType
<1>5. [k EXCEPT !.auths[n].state = y] = [m EXCEPT !.auths[n].state = y]
  <2>1. [k EXCEPT !.auths[n].state = y] = [k EXCEPT !.auths = [k.auths EXCEPT ![n].state = y]]
    OBVIOUS
  <2>. QED
    BY <1>2, <1>3, <2>1 DEF Kernels
<1>6. [k EXCEPT !.canonical = @ + 1, !.auths[n].state = "committed"] =
        [m EXCEPT !.canonical = @ + 1, !.auths[n].state = "committed"]
  <2>1. [k EXCEPT !.canonical = @ + 1, !.auths[n].state = "committed"] =
          [k EXCEPT !.canonical = k.canonical + 1,
                    !.auths = [k.auths EXCEPT ![n].state = "committed"]]
    BY <1>2 DEF Kernels
  <2>2. [m EXCEPT !.canonical = @ + 1, !.auths[n].state = "committed"] =
          [m EXCEPT !.canonical = m.canonical + 1, !.auths = auths("committed")]
    BY DEF Kernels
  <2>. QED
    BY <1>2, <1>4, <2>1, <2>2 DEF Kernels
<1>7. Commit(k, n) = Commit(m, n)
  <2> DEFINE domains == {Canonical, Plan}
             kk == [k EXCEPT !.canonical = @ + 1, !.auths[n].state = "committed"]
             mm == [m EXCEPT !.canonical = @ + 1, !.auths[n].state = "committed"]
  <2>1. Commit(k, n) = Bump(kk, domains) /\ Commit(m, n) = Bump(mm, domains)
    BY DEF Commit
  <2>2. kk = mm
    BY <1>6
  <2> HIDE DEF kk, mm, domains
  <2>. QED
    BY <2>1, <2>2
<1>. QED
  BY <1>5, <1>7 DEF WithState

\* The kernels of a dispatch, and the reducers that lead from one to the next.
LEMMA DispatchSteps ==
  ASSUME NEW m \in Sound, NEW n \in DOMAIN m.auths
  PROVE  LET attested == [m EXCEPT !.attested = m.attested \cup {n}]
             dispatched == [attested EXCEPT !.auths[n].state = "dispatched"]
             unknown == [attested EXCEPT !.auths[n].state = "unknown"]
             outcome == [attested EXCEPT !.auths[n].state = "outcome"]
             committed == Commit(attested, n)
         IN /\ \A k \in {attested, dispatched, unknown, outcome, committed} :
                 k \in Sound /\ k.seen = m.seen
            /\ Reduce(m, <<"dispatch_attested", n>>) \in Readings(attested)
            /\ Reduce(attested, <<"dispatch_recorded", n>>) \in Readings(dispatched)
            /\ Reduce(dispatched, <<"reconciliation_required", n>>) \in Readings(unknown)
            /\ Reduce(dispatched, <<"outcome_observed", n>>) \in Readings(outcome)
            /\ Reduce(outcome, <<"committed", n>>) \in Readings(committed)
<1> DEFINE attested == [m EXCEPT !.attested = m.attested \cup {n}]
           dispatched == [attested EXCEPT !.auths[n].state = "dispatched"]
           unknown == [attested EXCEPT !.auths[n].state = "unknown"]
           outcome == [attested EXCEPT !.auths[n].state = "outcome"]
           committed == Commit(attested, n)
<1>0. /\ attested \in Sound /\ attested.seen = m.seen /\ n \in DOMAIN attested.auths
      /\ Reduce(m, <<"dispatch_attested", n>>) \in Readings(attested)
  BY AttestedType
<1>1. /\ attested \in Kernels /\ attested.seen = m.seen /\ n \in DOMAIN attested.auths
      /\ Reduce(m, <<"dispatch_attested", n>>) \in Readings(attested)
  BY <1>0 DEF Sound
<1> HIDE DEF attested
<1>2. dispatched \in Sound /\ dispatched.seen = m.seen
  BY <1>0, <1>1, StateType, StateSound
<1>3. unknown \in Sound /\ unknown.seen = m.seen
  BY <1>0, <1>1, StateType, StateSound
<1>4. outcome \in Sound /\ outcome.seen = m.seen
  BY <1>0, <1>1, StateType, StateSound
<1>5. committed \in Sound /\ committed.seen = m.seen
  BY <1>0, <1>1, CommitType, CommitSound
<1>6. Reduce(attested, <<"dispatch_recorded", n>>) = dispatched
  BY TransactionReducers
<1>7. Reduce(dispatched, <<"reconciliation_required", n>>) = unknown
  <2>1. [dispatched EXCEPT !.auths[n].state = "unknown"] = unknown
    <3>1. /\ dispatched = WithState(attested, n, "dispatched")
          /\ unknown = WithState(attested, n, "unknown")
          /\ [dispatched EXCEPT !.auths[n].state = "unknown"] = WithState(dispatched, n, "unknown")
      BY DEF WithState
    <3> HIDE DEF dispatched, unknown
    <3>. QED
      BY <1>1, <3>1, LaterState
  <2> HIDE DEF dispatched, unknown
  <2>2. Reduce(dispatched, <<"reconciliation_required", n>>) =
          [dispatched EXCEPT !.auths[n].state = "unknown"]
    BY TransactionReducers
  <2>. QED
    BY <2>1, <2>2
<1>8. Reduce(dispatched, <<"outcome_observed", n>>) = outcome
  <2>1. [dispatched EXCEPT !.auths[n].state = "outcome"] = outcome
    <3>1. /\ dispatched = WithState(attested, n, "dispatched")
          /\ outcome = WithState(attested, n, "outcome")
          /\ [dispatched EXCEPT !.auths[n].state = "outcome"] = WithState(dispatched, n, "outcome")
      BY DEF WithState
    <3> HIDE DEF dispatched, outcome
    <3>. QED
      BY <1>1, <3>1, LaterState
  <2> HIDE DEF dispatched, outcome
  <2>2. Reduce(dispatched, <<"outcome_observed", n>>) =
          [dispatched EXCEPT !.auths[n].state = "outcome"]
    BY TransactionReducers
  <2>. QED
    BY <2>1, <2>2
<1>9. Reduce(outcome, <<"committed", n>>) = committed
  <2>1. Commit(outcome, n) = committed
    <3>1. outcome = WithState(attested, n, "outcome")
      BY DEF WithState
    <3> HIDE DEF outcome
    <3>. QED
      BY <1>1, <3>1, LaterState
  <2> HIDE DEF outcome, committed
  <2>2. Reduce(outcome, <<"committed", n>>) = Commit(outcome, n)
    BY TransactionReducers
  <2>. QED
    BY <2>1, <2>2
<1> HIDE DEF dispatched, unknown, outcome, committed
<1>10. \A k \in {attested, dispatched, unknown, outcome, committed} :
         k \in Sound /\ k.seen = m.seen
  BY <1>0, <1>2, <1>3, <1>4, <1>5
<1>11. /\ Reduce(attested, <<"dispatch_recorded", n>>) \in Readings(dispatched)
       /\ Reduce(dispatched, <<"reconciliation_required", n>>) \in Readings(unknown)
       /\ Reduce(dispatched, <<"outcome_observed", n>>) \in Readings(outcome)
       /\ Reduce(outcome, <<"committed", n>>) \in Readings(committed)
  BY <1>6, <1>7, <1>8, <1>9 DEF Readings
<1>. QED
  BY <1>1, <1>10, <1>11 DEF attested, dispatched, unknown, outcome, committed

\* How a dispatch ends: with all its entries, or cut short by a crash.
LEMMA DispatchEnds ==
  ASSUME IInv, NEW n \in DOMAIN memory.auths, NEW presented, NEW outcome,
         DispatchStrong(n, presented, outcome)
  PROVE  LET done == Outcome([memory EXCEPT !.attested = @ \cup {n}], n, outcome)
         IN /\ Ends(done[1], <<<<"dispatch_attested", n>>, <<"dispatch_recorded", n>>>> \o done[2])
            /\ UNCHANGED <<clock, limits>>
BY DEF DispatchStrong, Perform, Ends

\* An operation of three entries.
LEMMA EndsThree ==
  ASSUME memory \in Sound, durable \in Readings(memory),
         NEW m1 \in Sound, NEW m2 \in Sound, NEW m \in Sound,
         NEW e1, NEW e2, NEW e3,
         m1.seen = memory.seen, m2.seen = memory.seen, m.seen = memory.seen,
         Reduce(memory, e1) \in Readings(m1), Reduce(m1, e2) \in Readings(m2),
         Reduce(m2, e3) \in Readings(m), Ends(m, <<e1, e2, e3>>)
  PROVE  durable' \in Readings(memory') /\ memory' \in Sound /\ memory'.seen = memory.seen
<1> DEFINE es == <<e1, e2, e3>>
           ms == [i \in {0, 1, 2, 3} |-> IF i = 0 THEN memory ELSE IF i = 1 THEN m1
                                         ELSE IF i = 2 THEN m2 ELSE m]
<1>1. /\ es \in Seq({e1, e2, e3}) /\ Len(es) = 3
      /\ es[1] = e1 /\ es[2] = e2 /\ es[3] = e3
  OBVIOUS
<1>2. ms[0] = memory /\ ms[1] = m1 /\ ms[2] = m2 /\ ms[3] = m
  OBVIOUS
<1>3. Ends(m, es)
  OBVIOUS
<1> HIDE DEF es, ms
<1>4. Agree(ms, es)
  BY <1>1, <1>2 DEF Agree
<1>5. Len(es) \in 1 .. 4 /\ ms[0] = memory /\ Ends(ms[Len(es)], es)
  BY <1>1, <1>2, <1>3
<1>6. durable' \in Readings(memory') /\ \E i \in 0 .. Len(es) : memory' = ms[i]
  BY <1>1, <1>4, <1>5, OperationEnds
<1>7. memory' \in {memory, m1, m2, m}
  BY <1>1, <1>2, <1>6
<1>. QED
  BY <1>6, <1>7

\* An operation of four entries.
LEMMA EndsFour ==
  ASSUME memory \in Sound, durable \in Readings(memory),
         NEW m1 \in Sound, NEW m2 \in Sound, NEW m3 \in Sound, NEW m \in Sound,
         NEW e1, NEW e2, NEW e3, NEW e4,
         m1.seen = memory.seen, m2.seen = memory.seen, m3.seen = memory.seen,
         m.seen = memory.seen,
         Reduce(memory, e1) \in Readings(m1), Reduce(m1, e2) \in Readings(m2),
         Reduce(m2, e3) \in Readings(m3), Reduce(m3, e4) \in Readings(m),
         Ends(m, <<e1, e2, e3, e4>>)
  PROVE  durable' \in Readings(memory') /\ memory' \in Sound /\ memory'.seen = memory.seen
<1> DEFINE es == <<e1, e2, e3, e4>>
           ms == [i \in {0, 1, 2, 3, 4} |->
                    IF i = 0 THEN memory ELSE IF i = 1 THEN m1
                    ELSE IF i = 2 THEN m2 ELSE IF i = 3 THEN m3 ELSE m]
<1>1. /\ es \in Seq({e1, e2, e3, e4}) /\ Len(es) = 4
      /\ es[1] = e1 /\ es[2] = e2 /\ es[3] = e3 /\ es[4] = e4
  OBVIOUS
<1>2. ms[0] = memory /\ ms[1] = m1 /\ ms[2] = m2 /\ ms[3] = m3 /\ ms[4] = m
  OBVIOUS
<1>3. Ends(m, es)
  OBVIOUS
<1> HIDE DEF es, ms
<1>4. Agree(ms, es)
  BY <1>1, <1>2 DEF Agree
<1>5. Len(es) \in 1 .. 4 /\ ms[0] = memory /\ Ends(ms[Len(es)], es)
  BY <1>1, <1>2, <1>3
<1>6. durable' \in Readings(memory') /\ \E i \in 0 .. Len(es) : memory' = ms[i]
  BY <1>1, <1>4, <1>5, OperationEnds
<1>7. memory' \in {memory, m1, m2, m3, m}
  BY <1>1, <1>2, <1>6
<1>. QED
  BY <1>6, <1>7

\* The entries of a dispatch whose adapter leaves one more.
LEMMA TwoAndOne ==
  ASSUME NEW a, NEW b, NEW c
  PROVE  <<a, b>> \o <<c>> = <<a, b, c>>
<1> DEFINE S == {a, b, c}
           s == <<a, b>>
           t == <<c>>
           u == <<a, b, c>>
<1>1. s \in Seq(S) /\ Len(s) = 2 /\ s[1] = a /\ s[2] = b
  OBVIOUS
<1>2. t \in Seq(S) /\ Len(t) = 1 /\ t[1] = c
  OBVIOUS
<1>3. u \in Seq(S) /\ Len(u) = 3 /\ u[1] = a /\ u[2] = b /\ u[3] = c
  OBVIOUS
<1> HIDE DEF S, s, t, u
<1>4. /\ s \o t \in Seq(S) /\ Len(s \o t) = 3
      /\ \A i \in 1 .. 3 : (s \o t)[i] = IF i <= 2 THEN s[i] ELSE t[i - 2]
  <2>1. /\ s \o t \in Seq(S) /\ Len(s \o t) = Len(s) + Len(t)
        /\ \A i \in 1 .. Len(s) + Len(t) :
             (s \o t)[i] = IF i <= Len(s) THEN s[i] ELSE t[i - Len(s)]
    BY <1>1, <1>2, ConcatProperties
  <2>. QED
    BY <1>1, <1>2, <2>1
<1>5. \A i \in 1 .. 3 : (s \o t)[i] = u[i]
  BY <1>1, <1>2, <1>3, <1>4
<1>6. s \o t = u
  BY <1>3, <1>4, <1>5, SeqEqual
<1>. QED
  BY <1>6 DEF s, t, u

\* The entries of a dispatch whose adapter leaves two more.
LEMMA TwoAndTwo ==
  ASSUME NEW a, NEW b, NEW c, NEW d
  PROVE  <<a, b>> \o <<c, d>> = <<a, b, c, d>>
<1> DEFINE S == {a, b, c, d}
           s == <<a, b>>
           t == <<c, d>>
           u == <<a, b, c, d>>
<1>1. s \in Seq(S) /\ Len(s) = 2 /\ s[1] = a /\ s[2] = b
  OBVIOUS
<1>2. t \in Seq(S) /\ Len(t) = 2 /\ t[1] = c /\ t[2] = d
  OBVIOUS
<1>3. u \in Seq(S) /\ Len(u) = 4 /\ u[1] = a /\ u[2] = b /\ u[3] = c /\ u[4] = d
  OBVIOUS
<1> HIDE DEF S, s, t, u
<1>0. /\ s \o t \in Seq(S) /\ Len(s \o t) = Len(s) + Len(t)
      /\ \A i \in 1 .. Len(s) + Len(t) :
           (s \o t)[i] = IF i <= Len(s) THEN s[i] ELSE t[i - Len(s)]
  BY <1>1, <1>2, ConcatProperties
<1>4. /\ s \o t \in Seq(S) /\ Len(s \o t) = 4
      /\ \A i \in 1 .. 4 : (s \o t)[i] = IF i <= 2 THEN s[i] ELSE t[i - 2]
  BY <1>0, <1>1, <1>2
<1>5. \A i \in 1 .. 4 : (s \o t)[i] = u[i]
  BY <1>1, <1>2, <1>3, <1>4
<1>6. s \o t = u
  BY <1>3, <1>4, <1>5, SeqEqual
<1>. QED
  BY <1>6 DEF s, t, u

\* dispatch_strong: three entries or four, the reducers of which lead to its outcome.
LEMMA KeptDispatchStrong ==
  ASSUME IInv, NEW n \in DOMAIN memory.auths, NEW presented,
         NEW result \in {"unknown", "outcome", "committed"},
         DispatchStrong(n, presented, result)
  PROVE  Kept
<1> DEFINE attested == [memory EXCEPT !.attested = memory.attested \cup {n}]
           dispatched == [attested EXCEPT !.auths[n].state = "dispatched"]
           unknown == [attested EXCEPT !.auths[n].state = "unknown"]
           outcome == [attested EXCEPT !.auths[n].state = "outcome"]
           committed == Commit(attested, n)
           e1 == <<"dispatch_attested", n>>
           e2 == <<"dispatch_recorded", n>>
           u == <<"reconciliation_required", n>>
           o == <<"outcome_observed", n>>
           c == <<"committed", n>>
           done == Outcome(attested, n, result)
<1>1. /\ memory \in Kernels /\ memory \in Sound
      /\ durable \in Readings(memory)
  BY DEF IInv, TypeOK, ReplayAgrees, Readings
<1>2. /\ \A k \in {attested, dispatched, unknown, outcome, committed} :
           k \in Sound /\ k.seen = memory.seen
      /\ Reduce(memory, e1) \in Readings(attested)
      /\ Reduce(attested, e2) \in Readings(dispatched)
      /\ Reduce(dispatched, u) \in Readings(unknown)
      /\ Reduce(dispatched, o) \in Readings(outcome)
      /\ Reduce(outcome, c) \in Readings(committed)
  BY <1>1, DispatchSteps
<1>3. Ends(done[1], <<e1, e2>> \o done[2])
  BY DispatchEnds
<1>4. UNCHANGED <<clock, limits>>
  BY DispatchEnds
<1>5. \/ done = <<unknown, <<u>>>>
      \/ done = <<outcome, <<o>>>>
      \/ done = <<committed, <<o, c>>>>
  BY DEF Outcome
<1> HIDE DEF attested, dispatched, unknown, outcome, committed, e1, e2, u, o, c, done
<1>6. durable' \in Readings(memory') /\ memory' \in Sound /\ memory'.seen = memory.seen
  <2>1. CASE done = <<unknown, <<u>>>>
    <3>1. <<e1, e2>> \o done[2] = <<e1, e2, u>>
      BY <2>1, TwoAndOne
    <3>. QED
      BY <1>1, <1>2, <1>3, <2>1, <3>1, EndsThree
  <2>2. CASE done = <<outcome, <<o>>>>
    <3>1. <<e1, e2>> \o done[2] = <<e1, e2, o>>
      BY <2>2, TwoAndOne
    <3>. QED
      BY <1>1, <1>2, <1>3, <2>2, <3>1, EndsThree
  <2>3. CASE done = <<committed, <<o, c>>>>
    <3>1. <<e1, e2>> \o done[2] = <<e1, e2, o, c>>
      BY <2>3, TwoAndTwo
    <3>. QED
      BY <1>1, <1>2, <1>3, <2>3, <3>1, EndsFour
  <2>. QED
    BY <1>5, <2>1, <2>2, <2>3
<1>. QED
  BY <1>4, <1>6, Ending DEF Kept

\* An operation of one entry.
LEMMA EndsOne ==
  ASSUME memory \in Sound, durable \in Readings(memory),
         NEW m \in Sound, m.seen = memory.seen,
         NEW e, Reduce(memory, e) \in Readings(m), Ends(m, <<e>>)
  PROVE  durable' \in Readings(memory') /\ memory' \in Sound /\ memory'.seen = memory.seen
<1> DEFINE es == <<e>>
           ms == [i \in {0, 1} |-> IF i = 0 THEN memory ELSE m]
<1>1. es \in Seq({e}) /\ Len(es) = 1 /\ es[1] = e
  OBVIOUS
<1>2. ms[0] = memory /\ ms[1] = m
  OBVIOUS
<1>3. Ends(m, es)
  OBVIOUS
<1> HIDE DEF es, ms
<1>4. Agree(ms, es)
  BY <1>1, <1>2 DEF Agree
<1>5. Len(es) \in 1 .. 4 /\ ms[0] = memory /\ Ends(ms[Len(es)], es)
  BY <1>1, <1>2, <1>3
<1>6. durable' \in Readings(memory') /\ \E i \in 0 .. Len(es) : memory' = ms[i]
  BY <1>1, <1>4, <1>5, OperationEnds
<1>7. memory' \in {memory, m}
  BY <1>1, <1>2, <1>6
<1>. QED
  BY <1>6, <1>7

\* An operation of two entries.
LEMMA EndsTwo ==
  ASSUME memory \in Sound, durable \in Readings(memory),
         NEW m1 \in Sound, NEW m \in Sound, m1.seen = memory.seen, m.seen = memory.seen,
         NEW e1, NEW e2,
         Reduce(memory, e1) \in Readings(m1), Reduce(m1, e2) \in Readings(m),
         Ends(m, <<e1, e2>>)
  PROVE  durable' \in Readings(memory') /\ memory' \in Sound /\ memory'.seen = memory.seen
<1> DEFINE es == <<e1, e2>>
           ms == [i \in {0, 1, 2} |-> IF i = 0 THEN memory ELSE IF i = 1 THEN m1 ELSE m]
<1>1. es \in Seq({e1, e2}) /\ Len(es) = 2 /\ es[1] = e1 /\ es[2] = e2
  OBVIOUS
<1>2. ms[0] = memory /\ ms[1] = m1 /\ ms[2] = m
  OBVIOUS
<1>3. Ends(m, es)
  OBVIOUS
<1> HIDE DEF es, ms
<1>4. Agree(ms, es)
  BY <1>1, <1>2 DEF Agree
<1>5. Len(es) \in 1 .. 4 /\ ms[0] = memory /\ Ends(ms[Len(es)], es)
  BY <1>1, <1>2, <1>3
<1>6. durable' \in Readings(memory') /\ \E i \in 0 .. Len(es) : memory' = ms[i]
  BY <1>1, <1>4, <1>5, OperationEnds
<1>7. memory' \in {memory, m1, m}
  BY <1>1, <1>2, <1>6
<1>. QED
  BY <1>6, <1>7

\* What a reconciliation leaves before it is committed.
Reconciled(m, n, id, applied) ==
  [m EXCEPT !.consumed = m.consumed \cup {id},
            !.auths[n].state = IF applied THEN "applied" ELSE "not_applied"]

\* A reconciliation leaves a kernel, the one that its entry is reduced to.
LEMMA ReconciledType ==
  ASSUME NEW m \in Sound, NEW n \in DOMAIN m.auths, NEW id \in EvidenceIds,
         NEW applied \in BOOLEAN
  PROVE  /\ Reconciled(m, n, id, applied) \in Sound
         /\ Reconciled(m, n, id, applied).seen = m.seen
         /\ DOMAIN Reconciled(m, n, id, applied).auths = DOMAIN m.auths
         /\ Reduce(m, <<"reconciled_evidence", n, id, applied>>) \in
              Readings(Reconciled(m, n, id, applied))
<1> DEFINE state == IF applied THEN "applied" ELSE "not_applied"
           resolved == [m EXCEPT !.auths[n].state = state]
           consumed == m.consumed \cup {id}
           k == [resolved EXCEPT !.consumed = consumed]
<1>0. m \in Kernels
  BY DEF Sound
<1>1. /\ resolved \in Kernels /\ resolved \in Sound /\ resolved.seen = m.seen
      /\ DOMAIN resolved.auths = DOMAIN m.auths
  <2>1. state \in {"authorized", "dispatched", "unknown", "outcome", "committed", "applied",
                   "not_applied"}
    OBVIOUS
  <2>2. \A x \in {"authorized", "dispatched", "unknown", "outcome", "committed", "applied",
                  "not_applied"} :
          /\ [m EXCEPT !.auths[n].state = x] \in Kernels
          /\ [m EXCEPT !.auths[n].state = x] \in Sound
          /\ [m EXCEPT !.auths[n].state = x].seen = m.seen
          /\ DOMAIN [m EXCEPT !.auths[n].state = x].auths = DOMAIN m.auths
    <3> TAKE x \in {"authorized", "dispatched", "unknown", "outcome", "committed",
                    "applied", "not_applied"}
    <3>1. [m EXCEPT !.auths[n].state = x] \in Kernels
      BY StateSound
    <3>2. [m EXCEPT !.auths[n].state = x] \in Sound
      BY StateSound
    <3>3. [m EXCEPT !.auths[n].state = x].seen = m.seen
      BY StateSound
    <3>4. DOMAIN [m EXCEPT !.auths[n].state = x].auths = DOMAIN m.auths
      BY StateSound
    <3>. QED
      BY <3>1, <3>2, <3>3, <3>4
  <2> HIDE DEF state
  <2>. QED
    BY <2>1, <2>2
<1>2. consumed \in SUBSET EvidenceIds
  BY <1>0, Fields
<1>3. k = Reconciled(m, n, id, applied)
  BY <1>0 DEF Reconciled, Kernels
<1>4. [m EXCEPT !.auths[n].state = IF applied THEN "applied" ELSE "not_applied",
                !.consumed = m.consumed \cup {id}] = k
  BY <1>0 DEF Kernels
<1>5. Reduce(m, <<"reconciled_evidence", n, id, applied>>) = ReplayReconciled(m, n, id, applied)
  BY Reducers
<1> HIDE DEF resolved, state, consumed
<1>6. k \in Sound
  <2>1. k \in Kernels
    BY <1>1, <1>2, Updates
  <2>2. Same(resolved, k)
    BY <1>1, OtherFields
  <2> HIDE DEF k
  <2>. QED
    BY <1>1, <2>1, <2>2, SameSound
<1>7. k.seen = resolved.seen /\ k.auths = resolved.auths
  BY <1>1 DEF Kernels
<1> HIDE DEF k
<1>8. Reduce(m, <<"reconciled_evidence", n, id, applied>>) \in Readings(k)
  BY <1>4, <1>5, Checked DEF ReplayReconciled
<1>. QED
  BY <1>1, <1>3, <1>6, <1>7, <1>8

\* The entries of a reconciliation that is committed.
LEMMA Appended ==
  ASSUME NEW x, NEW y
  PROVE  Append(<<x>>, y) = <<x, y>>
<1> DEFINE s == <<x>>
           u == <<x, y>>
<1>1. s \in Seq({x, y}) /\ Len(s) = 1 /\ s[1] = x
  OBVIOUS
<1>2. u \in Seq({x, y}) /\ Len(u) = 2 /\ u[1] = x /\ u[2] = y
  OBVIOUS
<1> HIDE DEF s, u
<1>3. /\ Append(s, y) \in Seq({x, y}) /\ Len(Append(s, y)) = 2
      /\ Append(s, y)[1] = x /\ Append(s, y)[2] = y
  <2> DEFINE S == {x, y}
  <2>1. s \in Seq(S) /\ y \in S
    BY <1>1
  <2> HIDE DEF S
  <2>2. /\ Append(s, y) \in Seq(S) /\ Len(Append(s, y)) = Len(s) + 1
        /\ \A i \in 1 .. Len(s) : Append(s, y)[i] = s[i]
        /\ Append(s, y)[Len(s) + 1] = y
    BY <2>1, AppendProperties
  <2>. QED
    BY <1>1, <2>2 DEF S
<1>4. \A i \in 1 .. 2 : Append(s, y)[i] = u[i]
  BY <1>2, <1>3
<1>5. Append(s, y) = u
  BY <1>2, <1>3, <1>4, SeqEqual
<1>. QED
  BY <1>5 DEF s, u

\* How a reconciliation ends: with all its entries, or cut short by a crash.
LEMMA ReconciliationEnds ==
  ASSUME NEW n, NEW id \in EvidenceIds, NEW at, NEW applied \in BOOLEAN,
         ReconcileStrong(n, id, at, applied)
  PROVE  LET m == Reconciled(memory, n, id, applied)
             e == <<"reconciled_evidence", n, id, applied>>
         IN /\ applied => Ends(Commit(m, n), <<e, <<"committed", n>>>>)
            /\ ~applied => Ends(m, <<e>>)
            /\ UNCHANGED <<clock, limits>>
<1> DEFINE m == Reconciled(memory, n, id, applied)
           e == <<"reconciled_evidence", n, id, applied>>
           entries == IF applied THEN Append(<<e>>, <<"committed", n>>) ELSE <<e>>
<1>2. /\ Ends(IF applied THEN Commit(m, n) ELSE m, entries)
      /\ UNCHANGED <<clock, limits>>
  BY DEF ReconcileStrong, Reconciled, Perform, Ends
<1>3. Append(<<e>>, <<"committed", n>>) = <<e, <<"committed", n>>>>
  BY Appended
<1> HIDE DEF m, e
<1>4. /\ applied => Ends(Commit(m, n), <<e, <<"committed", n>>>>)
      /\ ~applied => Ends(m, <<e>>)
  BY <1>2, <1>3
<1>. QED
  BY <1>2, <1>4 DEF m, e

\* reconcile_strong: the evidence is consumed with the first entry, also across a crash.
LEMMA KeptReconcileStrong ==
  ASSUME IInv, NEW n \in DOMAIN memory.auths, NEW id \in EvidenceIds, NEW at \in Times,
         NEW applied \in BOOLEAN, ReconcileStrong(n, id, at, applied)
  PROVE  Kept
<1> DEFINE m1 == Reconciled(memory, n, id, applied)
           m == Commit(m1, n)
           e1 == <<"reconciled_evidence", n, id, applied>>
           e2 == <<"committed", n>>
<1>1. /\ memory \in Kernels /\ memory \in Sound
      /\ durable \in Readings(memory)
  BY DEF IInv, TypeOK, ReplayAgrees, Readings
<1>2. /\ m1 \in Sound /\ m1.seen = memory.seen /\ n \in DOMAIN m1.auths
      /\ Reduce(memory, e1) \in Readings(m1)
  BY <1>1, ReconciledType
<1>3. /\ applied => Ends(m, <<e1, e2>>)
      /\ ~applied => Ends(m1, <<e1>>)
      /\ UNCHANGED <<clock, limits>>
  BY ReconciliationEnds
<1> HIDE DEF m1
<1>4. m \in Sound /\ m.seen = memory.seen
  BY <1>2, CommitType, CommitSound DEF Sound
<1>5. Reduce(m1, e2) \in Readings(m)
  BY TransactionReducers DEF Readings
<1> HIDE DEF m, e1, e2
<1>6. durable' \in Readings(memory') /\ memory' \in Sound /\ memory'.seen = memory.seen
  <2>1. CASE applied
    BY <1>1, <1>2, <1>3, <1>4, <1>5, <2>1, EndsTwo
  <2>2. CASE ~applied
    BY <1>1, <1>2, <1>3, <2>2, EndsOne
  <2>. QED
    BY <2>1, <2>2
<1>. QED
  BY <1>3, <1>6, Ending DEF Kept

-----------------------------------------------------------------------------
(* The invariant.                                                           *)

\* A kernel whose host has bound and published before is a kernel.
LEMMA EarlyKernelType == EarlyKernel \in Kernels
<1> DEFINE bound == [p \in Principals |->
                       IF p \in DOMAIN BoundBefore
                         THEN <<[attestation |-> BoundBefore[p], at |-> 1]>> ELSE <<>>]
<1>1. 1 \in Times /\ Never = MaxTime + 1
  BY TrustAssumption DEF Times, Never
<1>2. bound \in [Principals -> Seq(Bindings)]
  <2>1. ASSUME NEW p \in DOMAIN BoundBefore
        PROVE  <<[attestation |-> BoundBefore[p], at |-> 1]>> \in Seq(Bindings)
    <3>1. [attestation |-> BoundBefore[p], at |-> 1] \in Bindings
      BY <1>1, TrustAssumption DEF Bindings
    <3>. QED
      BY <3>1
  <2>2. <<>> \in Seq(Bindings)
    OBVIOUS
  <2>. QED
    BY <2>1, <2>2
<1>3. [a \in Attestations |-> Never] \in [Attestations -> Times \cup {Never}]
  OBVIOUS
<1>4. [p \in Principals |->
         IF p \in DOMAIN BoundBefore
           THEN [revision |-> 1, tag |-> TRUE] ELSE [revision |-> 0, tag |-> FALSE]]
        \in [Principals -> [revision : Nat, tag : BOOLEAN]]
  OBVIOUS
<1>5. [x \in Principals \X Items |-> Never] \in [Principals \X Items -> Times \cup {Never}]
  OBVIOUS
<1>6. [r \in Receipts |-> NoReceipt] \in [Receipts -> ReceiptType \cup {NoReceipt}]
  OBVIOUS
<1>7. PublishedBefore \in SUBSET Items
  BY TrustAssumption
<1>8. <<>> \in Seq(CapsuleType) /\ <<>> \in Seq(AuthorizationType)
  OBVIOUS
<1> HIDE DEF bound
<1>. QED
  BY <1>2, <1>3, <1>4, <1>5, <1>6, <1>7, <1>8 DEF EarlyKernel, Kernels, bound

\* Saving a snapshot makes the files read as the memory, or not at all.
LEMMA KeptSaveSnapshot ==
  ASSUME IInv, SaveSnapshot
  PROVE  Kept
<1>1. durable' \in Readings(memory') /\ memory' = memory /\ UNCHANGED <<clock, limits>>
  BY DEF SaveSnapshot, Readings
<1>2. memory' \in Sound
  BY <1>1 DEF IInv
<1>3. IInv'
  BY <1>1, <1>2, Ending
<1>. QED
  BY <1>1, <1>3 DEF Kept

\* The host's clock is not the kernel's.
LEMMA KeptTick ==
  ASSUME IInv, Tick
  PROVE  Kept
<1>1. clock' \in Times
  BY TrustAssumption DEF IInv, TypeOK, Tick, Times
<1>2. UNCHANGED <<memory, durable, limits>>
  BY DEF Tick
<1>. QED
  BY <1>1, <1>2 DEF Kept, IInv, TypeOK, ReplayAgrees

\* The kernel that the host starts from satisfies the invariant.
LEMMA Initially == Init => IInv
<1> SUFFICES ASSUME Init PROVE IInv
  OBVIOUS
<1>1. clock \in Times
  BY TrustAssumption DEF Init, Times
<1>2. EarlyKernel \in Sound
  BY EarlyKernelType DEF EarlyKernel, Sound, Accurate
<1>. QED
  BY <1>1, <1>2, EarlyKernelType DEF Init, IInv, TypeOK, ReplayAgrees

\* Every step keeps the invariant, and what it teaches is grounded.
LEMMA Steps ==
  ASSUME IInv, [Next]_vars
  PROVE  IInv' /\ Grounded
<1>0. Kept => IInv' /\ Grounded
  BY KeptIsGrounded DEF Kept
<1>1. CASE Tick
  BY <1>0, <1>1, KeptTick
<1>2. CASE SaveSnapshot
  BY <1>0, <1>2, KeptSaveSnapshot
<1>3. ASSUME NEW a \in Attestations, NEW tag \in BOOLEAN, BindPrincipal(a, tag)
      PROVE  IInv' /\ Grounded
  BY <1>0, <1>3, KeptBindPrincipal
<1>4. ASSUME NEW a \in Attestations, NEW at \in Times, RevokePrincipalAttestation(a, at)
      PROVE  IInv' /\ Grounded
  BY <1>0, <1>4, KeptRevoke
<1>5. ASSUME NEW i \in Items, PublishInformation(i)
      PROVE  IInv' /\ Grounded
  BY <1>0, <1>5, KeptPublish
<1>6. ASSUME NEW p \in Principals, NEW tag \in BOOLEAN, SetAccess(p, tag)
      PROVE  IInv' /\ Grounded
  BY <1>0, <1>6, KeptSetAccess
<1>15. ASSUME NEW p \in Principals, NEW i \in Items, NEW at \in Times,
              ObserveInformation(p, i, at)
       PROVE  IInv' /\ Grounded
  BY <1>15, ObservationGrounded
<1>7. ASSUME NEW p \in Deciders, CompileCapsule(p) \/ CompileStrongCapsule(p)
      PROVE  IInv' /\ Grounded
  <2>1. p \in Principals
    BY TrustAssumption
  <2>. QED
    BY <1>0, <1>7, <2>1, KeptCompileCapsule, KeptCompileStrongCapsule
<1>8. ASSUME NEW p \in Deciders, NEW n \in {0} \cup DOMAIN memory.capsules,
             Authorize(p, n) \/ AuthorizeStrong(p, n)
      PROVE  IInv' /\ Grounded
  <2>1. p \in Principals
    BY TrustAssumption
  <2>. QED
    BY <1>0, <1>8, <2>1, KeptAuthorize, KeptAuthorizeStrong
<1>9. ASSUME NEW r \in Receipts, NEW from \in Principals, NEW to \in Principals,
             NEW i \in Items, NEW times \in [1 .. 3 -> 1 .. clock],
             NEW stages \in SUBSET {"delivered", "observed"},
             TransferInformation(r, from, to, i, times, stages)
      PROVE  IInv' /\ Grounded
  BY <1>9, TransferGrounded
<1>10. ASSUME NEW n \in DOMAIN memory.auths, NEW presented \in DispatchAttestations,
              NEW outcome \in {"unknown", "outcome", "committed"},
              DispatchStrong(n, presented, outcome)
       PROVE  IInv' /\ Grounded
  BY <1>0, <1>10, KeptDispatchStrong
<1>11. ASSUME NEW n \in DOMAIN memory.auths, NEW presented \in DispatchAttestations,
              AttestOnly(n, presented)
       PROVE  IInv' /\ Grounded
  BY <1>0, <1>11, KeptAttestOnly
<1>12. ASSUME NEW n \in DOMAIN memory.auths, NEW id \in EvidenceIds, NEW at \in Times,
              NEW applied \in BOOLEAN, ReconcileStrong(n, id, at, applied)
       PROVE  IInv' /\ Grounded
  BY <1>0, <1>12, KeptReconcileStrong
<1>13. CASE UNCHANGED vars
  <2>1. IInv'
    BY <1>13 DEF vars, IInv, TypeOK, ReplayAgrees
  <2>2. memory'.seen = memory.seen
    BY <1>13 DEF vars
  <2>. QED
    BY <2>1, <2>2, KeptIsGrounded
<1>14. Revocable \subseteq Attestations
  BY TrustAssumption
<1>. QED
  BY <1>1, <1>2, <1>3, <1>4, <1>5, <1>6, <1>7, <1>8, <1>9, <1>10, <1>11, <1>12, <1>13,
     <1>14, <1>15 DEF Next

\* The invariant of trust_runtime.py: the kernel is one, and whatever was done, in
\* whatever order and wherever a crash cut it short, the files restore this very kernel
\* or refuse to open.
THEOREM Invariance == Spec => []IInv
<1>1. IInv /\ [Next]_vars => IInv'
  BY Steps
<1>. QED
  BY <1>1, Initially, PTL DEF Spec

\* The ledgers, profiles, receipts, capsules and authorizations of trust_runtime.py keep
\* their types.
THEOREM TypeCorrect == Spec => []TypeOK
<1>1. IInv => TypeOK
  BY DEF IInv
<1>. QED
  BY <1>1, Invariance, PTL

\* The reducers of trust_recovery.py restore what the operations left in memory, or
\* refuse: no open yields another ledger of identities, receipts and authorizations.
THEOREM RestartGivesLedgers == Spec => []ReplayAgrees
<1>1. IInv => ReplayAgrees
  BY DEF IInv
<1>. QED
  BY <1>1, Invariance, PTL

\* A capsule of trust_runtime.py that is usable at its cut is what compile_capsule would
\* make of the kernel for the same time: the domains that the operations bump and those a
\* capsule is stamped with leave out nothing that it was compiled from, and no crash
\* between two entries revives a capsule that has become stale.
THEOREM FreshCapsules == Spec => []FreshCapsulesAreAccurate
<1>1. IInv => FreshCapsulesAreAccurate
  <2> SUFFICES ASSUME IInv, NEW c \in Range(memory.capsules), Usable(c)
               PROVE  Matches(memory, c)
    BY DEF FreshCapsulesAreAccurate, Matches
  <2>1. PICK n \in DOMAIN memory.capsules : c = memory.capsules[n]
    BY DEF Range
  <2>. QED
    BY <2>1 DEF IInv, Sound, Accurate
<1>. QED
  BY <1>1, Invariance, PTL

\* Only a transfer that was sent, delivered and observed by bound principals, in this
\* order and in one operation, and the word of the host in observe_information teach a
\* principal anything: no other operation of the kernel, crash or restart does.
THEOREM KnowledgeGrounded == Spec => KnowledgeIsGrounded
<1>1. IInv /\ [Next]_vars => Grounded
  BY Steps
<1>. QED
  BY <1>1, Invariance, PTL
     DEF Spec, KnowledgeIsGrounded, Grounded, ByReceipt, ByTheHost

=============================================================================
