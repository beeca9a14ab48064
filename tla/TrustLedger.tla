---------------------------- MODULE TrustLedger ----------------------------
(***************************************************************************)
(* Who acts, and what an actor may know: the identity ledger of            *)
(* identity.py, the access profiles and deliveries of principals.py, the   *)
(* receipts of communication.py, the decision capsules with the cut and    *)
(* the stamp they are bound to, and the operations of trust_runtime.py     *)
(* that authorize, dispatch and reconcile on that ground.                  *)
(*                                                                         *)
(* The kernel is one record, memory.  Every operation runs under the       *)
(* writer lock and appends one or more entries to the journal; durable is  *)
(* what open would make of the snapshot and these entries, through the     *)
(* reducers of trust_recovery.py and lineage_recovery.py, and Unreadable   *)
(* when one of them raises.  A crash may come between two entries of one   *)
(* operation.  The host passes its own clock as the time of a decision,    *)
(* and times up to it for what has already happened.                       *)
(*                                                                         *)
(* A generation is only ever compared with the one a capsule captured, and *)
(* a bump always changes it: a capsule keeps the domains of its stamp, and *)
(* is stale from the first bump of one of them.  Adapters that call back   *)
(* into the kernel are in ActionTransactions.                              *)
(***************************************************************************)
EXTENDS Naturals, Sequences, FiniteSets, SequencesExt

CONSTANTS
  Principals, Items, Receipts, EvidenceIds,
  Attestations,   \* the ids of the host's attestations
  Attested,       \* what each says: [principal, subject, revision, issued, until, strong]
  Tagged,         \* the items that only a profile with the tag may see
  MaxTime,        \* bound: the clock, and every time
  MaxRevision,    \* bound: revisions of an access profile
  MaxVersion,     \* bound: canonical versions
  Limits,         \* bound: [capsules, auths : Nat, transfers, observations, dispatches : BOOLEAN], what happens
  Deciders,       \* bound: the principals that compile capsules and act
  Revocable,      \* bound: the attestations that are revoked
  BoundBefore,    \* of each principal that was bound before, the attestation
  PublishedBefore,\* the items that were published before
  Unreadable      \* the journal cannot be replayed

Times == 1 .. MaxTime
Never == MaxTime + 1

AttestationType ==
  [principal : Principals, subject : STRING, revision : Nat \ {0},
   issued : Times, until : Times \cup {Never}, strong : BOOLEAN]

ASSUME TrustAssumption ==
  /\ MaxTime \in Nat \ {0} /\ MaxRevision \in Nat /\ MaxVersion \in Nat
  /\ Attested \in [Attestations -> AttestationType]
  /\ \A a \in Attestations : Attested[a].issued <= Attested[a].until
  /\ Tagged \subseteq Items /\ PublishedBefore \subseteq Items
  /\ Deciders \subseteq Principals /\ Revocable \subseteq Attestations
  /\ DOMAIN BoundBefore \subseteq Principals
  /\ \A p \in DOMAIN BoundBefore :
       /\ BoundBefore[p] \in Attestations
       /\ Attested[BoundBefore[p]].principal = p /\ Attested[BoundBefore[p]].issued = 1
  /\ \A p, q \in DOMAIN BoundBefore :
       Attested[BoundBefore[p]].subject = Attested[BoundBefore[q]].subject => p = q

VARIABLES
  clock,    \* the host's
  memory,   \* the kernel
  durable,  \* what open would restore, or Unreadable
  limits    \* bound: the member of Limits this behaviour keeps to

vars == <<clock, memory, durable, limits>>

-----------------------------------------------------------------------------
(* The identity ledger. *)

Accepted(m) == {b.attestation : b \in UNION {Range(m.bound[p]) : p \in Principals}}

\* The attestations already accepted for the subject of a.
SameSubject(m, a) == {b \in Accepted(m) : Attested[b].subject = Attested[a].subject}

\* _validate and the refusals of accept
Acceptable(m, a, now) ==
  /\ now \in Attested[a].issued .. Attested[a].until
  /\ a \notin Accepted(m)
  /\ \A b \in SameSubject(m, a) :
       /\ Attested[b].principal = Attested[a].principal
       /\ Attested[b].revision < Attested[a].revision

Accept(m, a, now) ==
  [m EXCEPT !.bound[Attested[a].principal] =
     Append(@, [attestation |-> a, at |-> now])]

\* The number of the current binding stands for its id; 0 for no binding.
BindingOf(m, p) == Len(m.bound[p])

\* current, at the floor of 0.8
Current(m, p, now) ==
  /\ m.bound[p] # <<>>
  /\ LET b == Last(m.bound[p]) IN
       /\ b.at <= now
       /\ now < m.revokedAt[b.attestation]
       /\ now \in Attested[b.attestation].issued .. Attested[b.attestation].until
       /\ Attested[b.attestation].strong

-----------------------------------------------------------------------------
(* Access profiles, deliveries, freshness. *)

Registered(m, p) == m.access[p].revision > 0

Register(m, p, tag) ==
  [m EXCEPT !.access[p] = [revision |-> @.revision + 1, tag |-> tag]]

\* info_available
Available(m, p, i, t) ==
  /\ Registered(m, p)
  /\ i \in m.published
  /\ i \in Tagged => m.access[p].tag
  /\ m.seen[<<p, i>>] <= t

\* build_partition: what p may know at t
Partition(m, p, t) == {i \in Items : Available(m, p, i, t)}

\* bump: every capsule whose stamp names one of these domains is stale from now on.
Bump(m, domains) ==
  [m EXCEPT !.capsules = [n \in DOMAIN m.capsules |->
     [m.capsules[n] EXCEPT !.stale = @ \/ m.capsules[n].stamp \cap domains # {}]]]

Identity(p) == <<"principal-identity", p>>
Profile(p) == <<"principal", p>>
Communication(p) == <<"communication", p>>
Plan == <<"plan">>
Canonical == <<"canonical">>

-----------------------------------------------------------------------------
(* The changes of the memory, which the reducers of the journal share. *)

\* register the profile, or update it if the tags differ
WithAccess(m, p, tag) ==
  IF Registered(m, p) /\ m.access[p].tag = tag THEN m ELSE Register(m, p, tag)

Bind(m, a, tag, now) ==
  LET p == Attested[a].principal
  IN Bump(WithAccess(Accept(m, a, now), p, tag), {Identity(p), Profile(p), Plan})

Revoke(m, a, at) ==
  LET p == Attested[a].principal
  IN Bump([m EXCEPT !.revokedAt[a] = at], {Identity(p), Profile(p), Plan})

Observe(m, p, i, at, domains) == Bump([m EXCEPT !.seen[<<p, i>>] = at], domains)

NoReceipt == [state |-> "none"]

Send(m, r, from, to, i, at) ==
  [m EXCEPT !.receipts[r] =
     [state |-> "sent", from |-> from, to |-> to, item |-> i,
      sentAt |-> at, deliveredAt |-> Never, observedAt |-> Never]]

Deliver(m, r, at) ==
  [m EXCEPT !.receipts[r].state = "delivered", !.receipts[r].deliveredAt = at]

\* A fault of the observation below: what depends on the profile is not told.
QuietReveal(m, r, at) ==
  LET to == m.receipts[r].to
  IN Observe([m EXCEPT !.receipts[r].state = "observed", !.receipts[r].observedAt = at],
             to, m.receipts[r].item, at, {Communication(to)})

\* observed, and the observation of the item by the recipient
Reveal(m, r, at) ==
  LET to == m.receipts[r].to
  IN Observe([m EXCEPT !.receipts[r].state = "observed", !.receipts[r].observedAt = at],
             to, m.receipts[r].item, at, {Communication(to), Profile(to)})

Commit(m, n) ==
  Bump([m EXCEPT !.canonical = @ + 1, !.auths[n].state = "committed"], {Canonical, Plan})

-----------------------------------------------------------------------------
(* The replay of one entry, <<event, arguments>>: Unreadable where the       *)
(* reducer raises.                                                           *)

Check(condition, d) == IF condition THEN d ELSE Unreadable

\* A fault of the reducer below: the access profile waits for the next snapshot.
ForgetfulIdentityBound(d, a, tag, now, revision) ==
  LET p == Attested[a].principal
  IN Check(Acceptable(d, a, now), Bump(Accept(d, a, now), {Identity(p), Profile(p), Plan}))

ReplayIdentityBound(d, a, tag, now, revision) ==
  LET e == Bind(d, a, tag, now)
  IN Check(Acceptable(d, a, now) /\ e.access[Attested[a].principal].revision = revision, e)

ReplayReconciled(d, n, id, applied) ==
  Check(id \notin d.consumed /\ d.auths[n].state = "unknown",
        [d EXCEPT !.auths[n].state = IF applied THEN "applied" ELSE "not_applied",
                  !.consumed = @ \cup {id}])

\* principal.registered and principal.access_changed
ReplayProfile(d, p, tag, revision) ==
  LET e == Bump(Register(d, p, tag), {Profile(p), Plan})
  IN Check(e.access[p].revision = revision, e)

\* information.published: an item is published once.
ReplayPublished(d, i) ==
  Check(i \notin d.published, Bump([d EXCEPT !.published = @ \cup {i}], {Plan}))

ReplaySent(d, r, from, to, i, at) ==
  Check(d.receipts[r] = NoReceipt, Send(d, r, from, to, i, at))

ReplayDelivered(d, r, at) == Check(d.receipts[r].state = "sent", Deliver(d, r, at))

ReplayObserved(d, r, at) == Check(d.receipts[r].state = "delivered", Reveal(d, r, at))

\* information.observed: the item may be one that this kernel does not know.
ReplayInformationObserved(d, p, i, at) ==
  Check(Registered(d, p), Observe(d, p, i, at, {Profile(p)}))

ReplayCapsule(d, c) == [d EXCEPT !.capsules = Append(@, c)]

ReplayIdentityOfAuthorization(d, n, b) ==
  Check(n \in DOMAIN d.auths, [d EXCEPT !.auths[n].binding = b])

\* The entries of the transactions, whose reducers are in ActionTransactions.
ReplayTransaction(d, e) ==
  CASE e[1] = "authorized" -> [d EXCEPT !.auths = Append(@, e[2])]
    [] e[1] = "dispatch_recorded" -> [d EXCEPT !.auths[e[2]].state = "dispatched"]
    [] e[1] = "reconciliation_required" -> [d EXCEPT !.auths[e[2]].state = "unknown"]
    [] e[1] = "outcome_observed" -> [d EXCEPT !.auths[e[2]].state = "outcome"]
    [] e[1] = "committed" -> Commit(d, e[2])

Reduce(d, e) ==
  CASE e[1] = "identity_bound" -> ReplayIdentityBound(d, e[2], e[3], e[4], e[5])
    [] e[1] = "identity_revoked" -> Check(e[2] \in Accepted(d), Revoke(d, e[2], e[3]))
    [] e[1] = "registered" -> ReplayProfile(d, e[2], e[3], e[4])
    [] e[1] = "published" -> ReplayPublished(d, e[2])
    [] e[1] = "sent" -> ReplaySent(d, e[2], e[3], e[4], e[5], e[6])
    [] e[1] = "delivered" -> ReplayDelivered(d, e[2], e[3])
    [] e[1] = "observed" -> ReplayObserved(d, e[2], e[3])
    [] e[1] = "information_observed" ->
         ReplayInformationObserved(d, e[2], e[3], e[4])
    [] e[1] = "capsule_compiled" -> ReplayCapsule(d, e[2])
    [] e[1] = "capsule_identity_bound" -> Unreadable   \* registered, but nothing reduces it
    [] e[1] = "authorization_identity_bound" -> ReplayIdentityOfAuthorization(d, e[2], e[3])
    [] e[1] = "dispatch_attested" -> [d EXCEPT !.attested = @ \cup {e[2]}]
    [] e[1] = "reconciled_evidence" -> ReplayReconciled(d, e[2], e[3], e[4])
    [] OTHER -> ReplayTransaction(d, e)

Replayed(d, e) == IF d = Unreadable THEN Unreadable ELSE Reduce(d, e)

ReplayAll(entries, d) ==
  LET after[i \in 0 .. Len(entries)] ==
        IF i = 0 THEN d ELSE Replayed(after[i - 1], entries[i])
  IN after[Len(entries)]

-----------------------------------------------------------------------------
\* A kernel whose host has bound some principals, each by one attestation, and published
\* some items.
EarlyKernel ==
  [bound |-> [p \in Principals |->
                IF p \in DOMAIN BoundBefore
                  THEN <<[attestation |-> BoundBefore[p], at |-> 1]>> ELSE <<>>],
   revokedAt |-> [a \in Attestations |-> Never],
   access |-> [p \in Principals |->
                 IF p \in DOMAIN BoundBefore
                   THEN [revision |-> 1, tag |-> TRUE] ELSE [revision |-> 0, tag |-> FALSE]],
   published |-> PublishedBefore,
   seen |-> [x \in Principals \X Items |-> Never],
   receipts |-> [r \in Receipts |-> NoReceipt],
   capsules |-> <<>>, auths |-> <<>>, attested |-> {}, consumed |-> {}, canonical |-> 1]

Init ==
  /\ clock = 1
  /\ memory = EarlyKernel
  /\ durable = memory
  /\ limits \in Limits

-----------------------------------------------------------------------------
(* An operation that leaves memory m and appends these entries, or is cut    *)
(* short by a crash after some of them, the kernel being opened again.       *)

Done(m, entries) ==
  /\ memory' = m
  /\ durable' = ReplayAll(entries, durable)

Torn(entries, n) ==
  LET d == ReplayAll(SubSeq(entries, 1, n), durable)
  IN /\ d # Unreadable
     /\ memory' = d
     /\ durable' = d

Perform(m, entries) ==
  /\ \/ Done(m, entries)
     \/ \E n \in 0 .. Len(entries) - 1 : Torn(entries, n)
  /\ UNCHANGED <<clock, limits>>

Tick ==
  /\ clock < MaxTime
  /\ clock' = clock + 1
  /\ UNCHANGED <<memory, durable, limits>>

\* bind_principal
BindPrincipal(a, tag) ==
  LET p == Attested[a].principal
      m == Bind(memory, a, tag, clock)
  IN /\ Acceptable(memory, a, clock)
     /\ m.access[p].revision <= MaxRevision
     /\ Perform(m, <<<<"identity_bound", a, tag, clock, m.access[p].revision>>>>)

\* revoke_principal_attestation: the time of the revocation is the host's word.
RevokePrincipalAttestation(a, at) ==
  /\ a \in Accepted(memory)
  /\ Perform(Revoke(memory, a, at), <<<<"identity_revoked", a, at>>>>)

\* register_principal and update_principal_access
SetAccess(p, tag) ==
  /\ memory.access[p].revision < MaxRevision
  /\ Perform(Bump(Register(memory, p, tag), {Profile(p), Plan}),
             <<<<"registered", p, tag, memory.access[p].revision + 1>>>>)

\* publish_information: an item that is already there is replaced.
PublishInformation(i) ==
  Perform(Bump([memory EXCEPT !.published = @ \cup {i}], {Plan}), <<<<"published", i>>>>)

\* observe_information: what the host itself says a principal has observed, without a
\* receipt and whether or not an identity is bound; an earlier time of it is replaced.
ObserveInformation(p, i, at) ==
  /\ limits.observations
  /\ i \in memory.published /\ Registered(memory, p)
  /\ at <= clock
  /\ Perform(Observe(memory, p, i, at, {Profile(p)}),
             <<<<"information_observed", p, i, at>>>>)

\* A fault of the transfer below: what was observed is recorded before the recipient is known.
HastyTransferred(m, r, from, to, i, times, stages) ==
  LET s == Send(m, r, from, to, i, times[1])
      d == Deliver(s, r, times[2])
  IN IF "delivered" \notin stages \/ times[2] < times[1]
     THEN <<s, <<<<"sent", r, from, to, i, times[1]>>>>>>
     ELSE IF "observed" \notin stages \/ times[3] < times[2]
     THEN <<d, <<<<"sent", r, from, to, i, times[1]>>, <<"delivered", r, times[2]>>>>>>
     ELSE <<Reveal(d, r, times[3]),
            <<<<"sent", r, from, to, i, times[1]>>, <<"delivered", r, times[2]>>,
              <<"observed", r, times[3]>>>>>>

\* What a transfer leaves, and its entries: it stops at the first stage that the host has
\* no evidence of or that is refused, and what it did up to there stays.
Transferred(m, r, from, to, i, times, stages) ==
  LET s == Send(m, r, from, to, i, times[1])
      d == Deliver(s, r, times[2])
      sending == <<"sent", r, from, to, i, times[1]>>
      delivery == <<"delivered", r, times[2]>>
  IN IF "delivered" \notin stages \/ times[2] < times[1]
     THEN <<s, <<sending>>>>
     ELSE IF \/ "observed" \notin stages
             \/ ~Current(d, to, times[3])
             \/ times[3] < times[2]
     THEN <<d, <<sending, delivery>>>>
     ELSE <<Reveal(d, r, times[3]), <<sending, delivery, <<"observed", r, times[3]>>>>>>

\* transfer_information
TransferInformation(r, from, to, i, times, stages) ==
  /\ limits.transfers
  /\ i \in memory.published
  /\ Current(memory, from, times[1])
  /\ Registered(memory, to)
  /\ from # to
  /\ memory.receipts[r] = NoReceipt
  /\ LET done == Transferred(memory, r, from, to, i, times, stages)
     IN Perform(done[1], done[2])

-----------------------------------------------------------------------------
\* The domains that a capsule depends on, but for those of the mission and the evidence,
\* which nothing here changes.
Stamp(p) == {Canonical, Plan, Profile(p)}

\* What compile_capsule binds: the cut and the stamp are captured at once.
Compiled(m, p) ==
  [principal |-> p, items |-> Partition(m, p, clock), access |-> m.access[p].revision,
   canonical |-> m.canonical, at |-> clock, stamp |-> Stamp(p), stale |-> FALSE,
   binding |-> 0]

\* compile_capsule
CompileCapsule(p) ==
  LET c == Compiled(memory, p)
  IN /\ Registered(memory, p)
     /\ Len(memory.capsules) < limits.capsules
     /\ Perform([memory EXCEPT !.capsules = Append(@, c)], <<<<"capsule_compiled", c>>>>)

\* compile_strong_capsule: the stamp is widened once the capsule is recorded.
CompileStrongCapsule(p) ==
  LET c == Compiled(memory, p)
      strong == [c EXCEPT !.stamp = @ \cup {Identity(p), Communication(p)},
                          !.binding = BindingOf(memory, p)]
  IN /\ Current(memory, p, clock)
     /\ Len(memory.capsules) < limits.capsules
     /\ Perform([memory EXCEPT !.capsules = Append(@, strong)],
                <<<<"capsule_compiled", c>>, <<"capsule_identity_bound", c>>>>)

\* usable_at_cut
Usable(c) == ~c.stale

\* validate_capsule
ValidCapsule(m, c, p) ==
  /\ c.principal = p
  /\ c.access = m.access[p].revision
  /\ c.items = Partition(m, p, c.at)
  /\ c.canonical = m.canonical
  /\ Usable(c)

\* authorize: n is the capsule, or 0; one action that must not be repeated.
Authorization(m, p, n, binding) ==
  [principal |-> p, capsule |-> n, at |-> clock, canonical |-> m.canonical,
   binding |-> binding, state |-> "authorized"]

MayAuthorize(m, p, n) ==
  /\ Len(m.auths) < limits.auths
  /\ \A a \in Range(m.auths) : a.principal = p => a.state # "unknown"
  /\ n # 0 => /\ ValidCapsule(m, m.capsules[n], p)
              /\ \A a \in Range(m.auths) : a.capsule # n \/ a.at # clock

Authorize(p, n) ==
  LET a == Authorization(memory, p, n, 0)
  IN /\ MayAuthorize(memory, p, n)
     /\ Perform([memory EXCEPT !.auths = Append(@, a)], <<<<"authorized", a>>>>)

\* authorize_strong: the binding is recorded by an entry of its own.
AuthorizeStrong(p, n) ==
  LET b == BindingOf(memory, p)
  IN /\ Current(memory, p, clock)
     /\ n # 0 => Identity(p) \in memory.capsules[n].stamp
     /\ MayAuthorize(memory, p, n)
     /\ Perform([memory EXCEPT !.auths = Append(@, Authorization(memory, p, n, b))],
                <<<<"authorized", Authorization(memory, p, n, 0)>>,
                  <<"authorization_identity_bound", Len(memory.auths) + 1, b>>>>)

\* dispatch_eligible, and the states a dispatch may start from
Dispatchable(m, n) ==
  /\ m.auths[n].canonical = m.canonical
  /\ m.auths[n].state \in {"authorized", "not_applied"}

\* What an adapter leaves, with the entries: nothing is known of the outcome, or it is
\* observed, and committed if it is verified.
Outcome(m, n, outcome) ==
  CASE outcome = "unknown" ->
         <<[m EXCEPT !.auths[n].state = "unknown"], <<<<"reconciliation_required", n>>>>>>
    [] outcome = "outcome" ->
         <<[m EXCEPT !.auths[n].state = "outcome"], <<<<"outcome_observed", n>>>>>>
    [] outcome = "committed" ->
         <<Commit(m, n), <<<<"outcome_observed", n>>, <<"committed", n>>>>>>

\* The authorization was bound to the very identity that is current now.
SameIdentity(m, n) ==
  /\ m.auths[n].binding # 0
  /\ m.auths[n].binding = BindingOf(m, m.auths[n].principal)

\* What an adapter's host attests of a dispatch: for which authorization, on which
\* attestation of the principal, and whether its assurance reaches the floor.
DispatchAttestations ==
  [authorization : DOMAIN memory.auths, attestation : Attestations, strong : BOOLEAN]

\* verify_dispatch_attestation
Verified(m, n, presented) ==
  /\ presented.authorization = n
  /\ presented.attestation = Last(m.bound[m.auths[n].principal]).attestation
  /\ presented.strong

\* dispatch_strong: the attestation of the dispatch is recorded, whatever comes of it.
DispatchStrong(n, presented, outcome) ==
  LET attested == [memory EXCEPT !.attested = @ \cup {n}]
      done == Outcome(attested, n, outcome)
      entries == <<<<"dispatch_attested", n>>, <<"dispatch_recorded", n>>>> \o done[2]
  IN /\ Current(memory, memory.auths[n].principal, clock)
     /\ SameIdentity(memory, n)
     /\ Verified(memory, n, presented)
     /\ Dispatchable(memory, n)
     /\ limits.dispatches /\ memory.canonical < MaxVersion
     /\ Perform(done[1], entries)

\* dispatch_strong, refused by dispatch after the attestation was recorded
AttestOnly(n, presented) ==
  /\ limits.dispatches
  /\ Current(memory, memory.auths[n].principal, clock)
  /\ SameIdentity(memory, n)
  /\ Verified(memory, n, presented)
  /\ ~Dispatchable(memory, n)
  /\ Perform([memory EXCEPT !.attested = @ \cup {n}], <<<<"dispatch_attested", n>>>>)

\* reconcile_strong
ReconcileStrong(n, id, at, applied) ==
  LET m == [memory EXCEPT !.consumed = @ \cup {id},
                          !.auths[n].state = IF applied THEN "applied" ELSE "not_applied"]
      evidence == <<<<"reconciled_evidence", n, id, applied>>>>
      entries == IF applied THEN Append(evidence, <<"committed", n>>) ELSE evidence
  IN /\ memory.auths[n].state = "unknown"
     /\ Current(memory, memory.auths[n].principal, at)
     /\ at <= clock
     /\ id \notin memory.consumed
     /\ memory.canonical < MaxVersion
     /\ Perform(IF applied THEN Commit(m, n) ELSE m, entries)

\* _restore_trust_state accepts every binding again, in the order of their numbers.
Restorable(m) ==
  \A p \in Principals : \A n \in DOMAIN m.bound[p] :
    Acceptable([m EXCEPT !.bound[p] = SubSeq(@, 1, n - 1)],
               m.bound[p][n].attestation, m.bound[p][n].at)

\* save_snapshot
SaveSnapshot ==
  /\ durable' = IF Restorable(memory) THEN memory ELSE Unreadable
  /\ UNCHANGED <<clock, memory, limits>>

-----------------------------------------------------------------------------
Next ==
  \/ Tick \/ SaveSnapshot
  \/ \E a \in Attestations :
       \/ \E tag \in BOOLEAN : BindPrincipal(a, tag)
       \/ a \in Revocable /\ \E at \in Times : RevokePrincipalAttestation(a, at)
  \/ \E i \in Items : PublishInformation(i)
  \/ \E p \in Principals, tag \in BOOLEAN : SetAccess(p, tag)
  \/ \E p \in Principals, i \in Items, at \in Times : ObserveInformation(p, i, at)
  \/ \E p \in Deciders :
       \/ CompileCapsule(p)
       \/ CompileStrongCapsule(p)
       \/ \E n \in {0} \cup DOMAIN memory.capsules :
            Authorize(p, n) \/ AuthorizeStrong(p, n)
  \/ \E r \in Receipts, from, to \in Principals, i \in Items,
        times \in [1 .. 3 -> 1 .. clock], stages \in SUBSET {"delivered", "observed"} :
       TransferInformation(r, from, to, i, times, stages)
  \/ \E n \in DOMAIN memory.auths :
       \/ \E presented \in DispatchAttestations :
            \/ \E outcome \in {"unknown", "outcome", "committed"} :
                 DispatchStrong(n, presented, outcome)
            \/ AttestOnly(n, presented)
       \/ \E id \in EvidenceIds, at \in Times, applied \in BOOLEAN :
            ReconcileStrong(n, id, at, applied)

Spec == Init /\ [][Next]_vars

-----------------------------------------------------------------------------
(* Types. *)

Bindings == [attestation : Attestations, at : Times]

ReceiptType ==
  [state : {"sent", "delivered", "observed"}, from : Principals, to : Principals,
   item : Items, sentAt : Times, deliveredAt : Times \cup {Never},
   observedAt : Times \cup {Never}]

Domains ==
  {Canonical, Plan} \cup
  UNION {{Identity(p), Profile(p), Communication(p)} : p \in Principals}

CapsuleType ==
  [principal : Principals, items : SUBSET Items, access : Nat, canonical : Nat,
   at : Times, stamp : SUBSET Domains, stale : BOOLEAN, binding : Nat]

AuthorizationType ==
  [principal : Principals, capsule : Nat, at : Times, canonical : Nat, binding : Nat,
   state : {"authorized", "dispatched", "unknown", "outcome", "committed", "applied",
            "not_applied"}]

Kernels ==
  [bound : [Principals -> Seq(Bindings)],
   revokedAt : [Attestations -> Times \cup {Never}],
   access : [Principals -> [revision : Nat, tag : BOOLEAN]],
   published : SUBSET Items,
   seen : [Principals \X Items -> Times \cup {Never}],
   receipts : [Receipts -> ReceiptType \cup {NoReceipt}],
   capsules : Seq(CapsuleType), auths : Seq(AuthorizationType),
   attested : SUBSET Nat, consumed : SUBSET EvidenceIds, canonical : Nat]

TypeOK ==
  /\ clock \in Times
  /\ memory \in Kernels
  /\ durable \in Kernels \cup {Unreadable}
  /\ limits \in Limits

-----------------------------------------------------------------------------
(* Properties. *)

\* What the journal keeps of every operation is what the memory holds, whichever
\* operations came between, a crash between two entries of one of them included:
\* the kernel that opens is the kernel that wrote.
ReplayAgrees == durable # Unreadable => durable = memory

\* What a principal comes to know, or knows at another time than before, was observed in
\* that very step: by a receipt that the step opened, of a transfer from a principal that
\* was bound when it was sent to one that was bound when it was observed, in the order of
\* the stages; or else by the word of the host, which moves no receipt and speaks only of
\* registered principals and published items.  A transfer that was refused at a later
\* stage, a restart or any other operation teaches nobody anything.
KnowledgeIsGrounded ==
  [][\A p \in Principals, i \in Items :
       LET at == memory'.seen[<<p, i>>]
           Bound(q, t) == \E b \in Range(memory.bound[q]) : b.at <= t
           ByReceipt(r) ==
             LET receipt == memory'.receipts[r] IN
               /\ memory.receipts[r] = NoReceipt
               /\ receipt # NoReceipt /\ receipt.to = p /\ receipt.item = i
               /\ receipt.observedAt = at /\ receipt.sentAt <= receipt.deliveredAt
               /\ receipt.deliveredAt <= at
               /\ Bound(receipt.from, receipt.sentAt) /\ Bound(p, at)
       IN \/ at = memory.seen[<<p, i>>]
          \/ \E r \in Receipts : ByReceipt(r)
          \/ /\ memory'.receipts = memory.receipts
             /\ Registered(memory, p) /\ i \in memory.published /\ at <= clock]_vars

\* A capsule that is not stale is accurate: whatever was bound, registered, published,
\* transferred, observed or committed since it was compiled, and whichever crash came
\* between, its principal's access profile, what that principal may know at the time of
\* the decision and the canonical version are still those it was compiled from.
FreshCapsulesAreAccurate ==
  \A c \in Range(memory.capsules) : Usable(c) =>
    /\ c.access = memory.access[c.principal].revision
    /\ c.items = Partition(memory, c.principal, c.at)
    /\ c.canonical = memory.canonical

=============================================================================
