-------------------------- MODULE PolicyExecution --------------------------
(***************************************************************************)
(* What happens to a policy that was assessed as executable: one step of   *)
(* it, from the decision to the outcome of its action, in every world that *)
(* its certificates allow.  The certificates are those of                  *)
(* PolicyCertificates; that the host passes what they say to               *)
(* PolicyExecutabilityEvaluator.evaluate, which takes them as arguments,   *)
(* is an assumption (Inputs).                                              *)
(*                                                                         *)
(* The world is not in the code: it chooses the history, the conditional   *)
(* reveals, the latency of every stage within its interval, the branches   *)
(* that are taken and the outcome.                                         *)
(***************************************************************************)
EXTENDS PolicyCertificates, Integers

CONSTANTS
  Policies,   \* bound: families of the policies that are assessed
  MaxTime,    \* bound: the end of every commitment and horizon
  Unmodeled   \* an outcome that no certificate names

VARIABLES
  policy,     \* what the host knows and assessed
  phase,      \* how far the step is
  run         \* what the world did so far

vars == <<policy, phase, run>>

StageNames == {Stages[i] : i \in DOMAIN Stages}

\* What the types of the artifacts say of a policy: its times are numbers and may be
\* negative, and a signature has the same dimensions in every history.
Typed(p) ==
  /\ p.reaction.reveal \in Int \X Int
  /\ p.reaction.stages \in [StageNames -> Int \X Int]
  /\ p.reaction.safe \in [authorization : Int, dispatch : Int, effect : Int]
  /\ p.requiredReaction \in 0 .. 4
  /\ \A commitments \in {p.branches.pre, p.branches.post} :
       \A row \in UNION {commitments[branch] : branch \in DOMAIN commitments} :
         row.start \in Int /\ row.end \in Int
  /\ \A s, u \in {p.recall.signatures[h] : h \in DOMAIN p.recall.signatures} :
       s = [d \in DOMAIN u |-> s[d]]

ASSUME PoliciesTyped ==
  /\ MaxTime \in Nat
  /\ \A family \in Policies : \A p \in family : Typed(p)

\* A policy that the host could create: every artifact passed its own refusals.
Creatable(p) ==
  /\ Classes(p.info.classes)
  /\ \A event \in p.info.reveals : RevealCreatable(event)
  /\ EnvelopeCreatable(p.reaction)
  /\ \A i \in DOMAIN p.preparedness.profiles : ProfileCreatable(p.preparedness.profiles[i])
  /\ Aggregable(p.preparedness)
  /\ ContinuationCreatable(p.continuation)
  /\ \A c \in p.proof.contexts : ContextCreatable(c)
  /\ SufficiencyCreatable(p.proof.certificate)
  /\ CoverageCreatable(p.coverage)

Seal(p) ==
  IF p.seal # "sealed" THEN p.seal
  ELSE IssuedStatus(p.proof.certificate, p.proof.contexts)

\* Whether the seal was issued before it became what it is.
Issued(p) ==
  Sealable(p.proof.closure, p.proof.certificate, p.proof.contexts, p.proof.required,
           p.proof.passes, p.proof.accepted)

\* What the host passes to evaluate: what the certificates say.
Inputs(p) ==
  [snapshot |-> p.snapshot, expected |-> p.expected, mission |-> p.mission,
   nonanticipative |-> NonAnticipative(p.info),
   recall |-> RecallLevel(p.recall),
   totality |-> TotalityMode(p.totality),
   edges |-> \A edge \in p.edges : MismatchedFields(edge) = {},
   commitments |-> "SHARED_COMMITMENT_CONFLICT" \notin CoherenceBlockers(p.info, p.branches),
   information |-> PreservesInformation(p.capability),
   reaction |-> ReactionClass(p.reaction), requiredReaction |-> p.requiredReaction,
   preparedness |-> Aggregate(p.preparedness), requiredPreparedness |-> p.requiredPreparedness,
   composition |-> CompositionStatus(p.proof.contexts, p.proof.accepted),
   route |-> PolicyCertifiable(p.info, p.branches, p.nodes),
   continuation |-> p.continuation, horizon |-> p.horizon, seal |-> Seal(p),
   debts |-> p.proof.certificate.debts \cup Debts(p.proof.contexts),
   accepted |-> p.proof.accepted]

Executable(p) == Executability(Inputs(p)) \in BoundedExecutability

-----------------------------------------------------------------------------
\* Before the step; nothing that a certificate names has happened.
Idle == [history |-> "", seen |-> {}, stage |-> 0, clock |-> 0,
         at |-> [i \in DOMAIN Stages |-> 0], branches |-> {}, held |-> {}, outcome |-> Unmodeled]

Init ==
  /\ \E family \in Policies : policy \in {p \in family : Creatable(p) /\ Issued(p)}
  /\ phase = "assessed"
  /\ run = Idle

\* The step begins in some history, with everything committed that may be needed.
Begin(h) ==
  /\ phase = "assessed" /\ Executable(policy)
  /\ h \in DOMAIN policy.info.actions
  /\ phase' = "deciding"
  /\ run' = [run EXCEPT !.history = h,
                        !.held = Rows(policy.branches.scope, policy.branches.pre)]
  /\ UNCHANGED policy

\* The principal has seen the reveals of its own that were available in time, and those
\* that waited for a condition that has come about.
Decide(occurred) ==
  /\ phase = "deciding"
  /\ occurred \subseteq {event \in policy.info.reveals : event.available = Condition}
  /\ phase' = "reacting"
  /\ run' = [run EXCEPT !.seen =
       UNION {event.refines :
                event \in {e \in policy.info.reveals :
                             /\ e.principal = policy.info.principal
                             /\ IF e.available = Condition THEN e \in occurred
                                ELSE e.available <= policy.info.time}}]
  /\ UNCHANGED policy

\* Branches that can be taken together.
Compatible(branches) ==
  \A left, right \in branches : ~MutuallyExclusive(policy.branches.groups, left, right)

\* The reveal: the branches are known, and what they need is committed.
Reveal(t, branches) ==
  /\ phase = "reacting" /\ run.stage = 0
  /\ t \in policy.reaction.reveal[1] .. policy.reaction.reveal[2]
  /\ Compatible(branches)
  /\ run' = [run EXCEPT !.stage = 1, !.clock = t, !.branches = branches,
                        !.held = Rows(branches, policy.branches.post)]
  /\ UNCHANGED <<policy, phase>>

\* A stage takes its time.
Elapse(latency) ==
  LET stage == policy.reaction.stages[Stages[run.stage]]
  IN /\ phase = "reacting" /\ run.stage \in DOMAIN Stages
     /\ latency \in stage[1] .. stage[2]
     /\ run' = [run EXCEPT !.stage = @ + 1, !.clock = @ + latency,
                           !.at[run.stage] = run.clock + latency]
     /\ phase' = IF run.stage = Len(Stages) THEN "acted" ELSE phase
     /\ UNCHANGED policy

\* A world whose residual is closed by a proof has no other outcomes than the supported.
Happen(outcome) ==
  /\ phase = "acted"
  /\ outcome = Unmodeled => ~(policy.coverage.residual = "CLOSED" /\ policy.coverage.proof)
  /\ phase' = "happened"
  /\ run' = [run EXCEPT !.outcome = outcome]
  /\ UNCHANGED policy

Successors(outcome) ==
  IF outcome = Unmodeled THEN {}
  ELSE {handler \in policy.totality.handlers : Handles(handler, outcome)}

\* The child of the edge, or a handler of the outcome, takes over.
Continue ==
  /\ phase = "happened"
  /\ Successors(run.outcome) # {}
  /\ phase' = "continued"
  /\ UNCHANGED <<policy, run>>

Supported == {outcome \in policy.totality.outcomes : outcome.supported}

Next ==
  \/ \E h \in DOMAIN policy.info.actions : Begin(h)
  \/ \E occurred \in SUBSET policy.info.reveals : Decide(occurred)
  \/ \E t \in 0 .. MaxTime :
       \/ \E branches \in SUBSET policy.branches.scope \ {{}} : Reveal(t, branches)
       \/ Elapse(t)
  \/ \E outcome \in Supported \cup {Unmodeled} : Happen(outcome)
  \/ Continue

Spec == Init /\ [][Next]_vars

-----------------------------------------------------------------------------
(* Properties. *)

Runs ==
  [history : {""} \cup DOMAIN policy.info.actions,
   seen : SUBSET UNION {event.refines : event \in policy.info.reveals},
   stage : 0 .. Len(Stages) + 1, clock : Nat, at : [DOMAIN Stages -> Nat],
   branches : SUBSET policy.branches.scope,
   held : SUBSET (Rows(policy.branches.scope, policy.branches.pre)
                  \cup Rows(policy.branches.scope, policy.branches.post)),
   outcome : Supported \cup {Unmodeled}]

\* Type invariant: a step of a policy that the host could create and that was sealed.
TypeOK ==
  /\ \E family \in Policies : policy \in family
  /\ Creatable(policy) /\ Issued(policy)
  /\ phase \in {"assessed", "deciding", "reacting", "acted", "happened", "continued"}
  /\ run \in Runs

ClassOf(h) == {c \in DOMAIN policy.info.classes : h \in policy.info.classes[c]}

\* The principal never acts on what it cannot know: in a history that it cannot tell from
\* another, and that no reveal of its own has told it by now, it does what it would do in
\* the other; and histories that are merged are alike in every respect that recall names.
NoAnticipation ==
  phase = "reacting" /\ run.stage = 0 =>
    /\ \A c \in ClassOf(run.history) \ run.seen :
         \A k \in policy.info.classes[c] \cap DOMAIN policy.info.actions :
           policy.info.actions[k] = policy.info.actions[run.history]
    /\ \A alias \in policy.recall.aliases : \A h, k \in alias :
         policy.recall.signatures[h] = policy.recall.signatures[k]

\* A policy that must react in bounded time, and whose reaction rests on no proof from
\* outside, authorizes, dispatches and takes effect in time, whatever each stage takes.
GuaranteedInTime ==
  phase \in {"reacting", "acted"} /\ policy.requiredReaction >= 2 /\ ~policy.reaction.dynamic =>
    /\ run.at[Len(PreAuthorization)] <= policy.reaction.safe.authorization
    /\ run.at[Len(PreAuthorization) + 1] <= policy.reaction.safe.dispatch
    /\ run.at[Len(Stages)] <= policy.reaction.safe.effect

HeldAt(row, t) == row[2].start <= t /\ t < row[2].end

\* A resource that one commitment holds exclusively is held by no other at that time: by
\* none of another branch before the reveal, when any branch may come, and by none of the
\* branches that are taken together after it.
NeverDoubleBooked ==
  \A left, right \in run.held : \A t \in 0 .. MaxTime :
    left # right /\ left[2].resource = right[2].resource
      /\ (left[2].exclusive \/ right[2].exclusive)
    => ~(HeldAt(left, t) /\ HeldAt(right, t))

\* What happens has a successor, a residual outcome one that is meant for it; where the
\* world is closed, that is so for whatever happens.  The branches that are taken are
\* viable and what a child requires is there.
NeverStranded ==
  phase = "happened" =>
    /\ (run.outcome # Unmodeled \/ OpenWorldComplete(policy.coverage)) =>
         \E handler \in policy.totality.handlers :
           /\ handler.outcome = run.outcome.ref
           /\ handler.kind \in {"reconciliation", "recovery"}
                \/ handler.kind = IF run.outcome.residual THEN "residual_handler" ELSE "successor"
           /\ run.outcome.residual => handler.legitimate
    /\ run.branches \subseteq policy.branches.viable
    /\ \A edge \in policy.edges :
         DOMAIN edge.child \subseteq DOMAIN edge.parent
         /\ \A key \in DOMAIN edge.child : edge.parent[key] = edge.child[key]

=============================================================================
