----------------------- MODULE PolicyExecutionProofs -----------------------
(***************************************************************************)
(* What an executable policy promises, for every policy that the host      *)
(* could create: its principal does not act on what it cannot know, it     *)
(* reacts in time, its branches are not committed twice, and what happens  *)
(* after it has a successor.                                               *)
(*                                                                         *)
(* Every proof takes the same two halves: what the assessment says of the  *)
(* policy (Assessment, below, and the lemmas that open one certificate     *)
(* each), and what the world has done so far (IInv).  The fourth property  *)
(* is the certificates' word on the policy; the other three relate it to   *)
(* what the step has seen, how long it has taken and what it holds.        *)
(***************************************************************************)
EXTENDS PolicyExecution, TLAPS

Started == phase # "assessed"
Decided == Started /\ phase # "deciding"

\* Only an executable policy is begun, in a history that it has an action for, and only
\* the reaction makes the stage advance.
StartedInv ==
  /\ Started => Executable(policy) /\ run.history \in DOMAIN policy.info.actions
  /\ ~Decided => run.stage = 0
  /\ phase = "reacting" => run.stage <= Len(Stages)

\* Whatever was revealed to the principal by the time of the decision, it has seen.
SeenInv ==
  Decided =>
    \A event \in policy.info.reveals :
      event.principal = policy.info.principal /\ AvailableBy(event, policy.info.time)
        => event.refines \subseteq run.seen

\* The latest that the first n stages may end.
Latest(e, n) ==
  LET s(i) == IF i <= n THEN e.stages[Stages[i]][2] ELSE 0
  IN e.reveal[2] + s(1) + s(2) + s(3) + s(4) + s(5) + s(6) + s(7) + s(8) + s(9)

\* Every stage has ended by then, and one that has not begun has no time yet.
ClockInv ==
  /\ run.stage > 0 => run.clock <= Latest(policy.reaction, run.stage - 1)
  /\ \A i \in DOMAIN Stages :
       run.at[i] <= IF i < run.stage THEN Latest(policy.reaction, i) ELSE 0

\* What is held is what any branch needs before the reveal, or what the branches that
\* were taken need after it.
HeldInv ==
  \/ run.held = {}
  \/ Started /\ run.held = Rows(policy.branches.scope, policy.branches.pre)
  \/ Started /\ Compatible(run.branches) /\ run.held = Rows(run.branches, policy.branches.post)

\* What happened is what a certificate names, unless the world is open.
OutcomeInv ==
  phase \in {"happened", "continued"} =>
    \/ run.outcome \in Supported /\ run.outcome # Unmodeled
    \/ run.outcome = Unmodeled /\ ~(policy.coverage.residual = "CLOSED" /\ policy.coverage.proof)

IInv == TypeOK /\ StartedInv /\ SeenInv /\ ClockInv /\ HeldInv /\ OutcomeInv

-----------------------------------------------------------------------------
(* What an assessment says of the policy. *)

Assessment(p) ==
  /\ NonAnticipative(p.info)
  /\ RecallLevel(p.recall) = "recall_sufficient"
  /\ TotalityMode(p.totality) = "total"
  /\ \A edge \in p.edges : MismatchedFields(edge) = {}
  /\ CoherenceBlockers(p.info, p.branches) = {}
  /\ ReactionClass(p.reaction) >= p.requiredReaction

\* A policy is executable only if every certificate says what the step relies on.
LEMMA ExecutableAssessment ==
  ASSUME NEW p, Executable(p), Typed(p)
  PROVE  Assessment(p)
<1> DEFINE x == Inputs(p)
<1>1. Blockers(x) = {} /\ Unknowns(x) = {}
  BY Zenon DEF Executable, Executability, BoundedExecutability
<1>2. /\ x.nonanticipative /\ x.recall # "recall_insufficient" /\ x.totality # "incomplete"
      /\ x.edges /\ x.commitments /\ x.route /\ ~(x.reaction < x.requiredReaction)
  BY <1>1 DEF Blockers, When
<1>3. x.recall # "recall_unknown" /\ x.totality \notin {"unknown", "unsupported"}
  BY <1>1 DEF Unknowns, When
<1>4. /\ x.nonanticipative = NonAnticipative(p.info) /\ x.recall = RecallLevel(p.recall)
      /\ x.totality = TotalityMode(p.totality) /\ x.reaction = ReactionClass(p.reaction)
      /\ x.requiredReaction = p.requiredReaction
      /\ x.edges = (\A edge \in p.edges : MismatchedFields(edge) = {})
      /\ x.route = PolicyCertifiable(p.info, p.branches, p.nodes)
  BY DEF Inputs
<1> HIDE DEF x
<1>5. NonAnticipative(p.info) /\ \A edge \in p.edges : MismatchedFields(edge) = {}
  BY <1>2, <1>4
<1>6. RecallLevel(p.recall) = "recall_sufficient"
  BY <1>2, <1>3, <1>4 DEF RecallLevel
<1>7. TotalityMode(p.totality) = "total"
  BY <1>2, <1>3, <1>4 DEF TotalityMode
<1>8. CoherenceBlockers(p.info, p.branches) = {}
  BY <1>2, <1>4 DEF PolicyCertifiable
<1>9. ReactionClass(p.reaction) \in 0 .. 4
  BY DEF ReactionClass
<1>10. ReactionClass(p.reaction) >= p.requiredReaction
  BY <1>2, <1>4, <1>9 DEF Typed
<1> QED
  BY <1>5, <1>6, <1>7, <1>8, <1>10 DEF Assessment

\* The nine stages; the seventh is the authorization.
LEMMA NineStages ==
  /\ Len(Stages) = 9 /\ DOMAIN Stages = 1 .. 9 /\ Len(PreAuthorization) = 7
  /\ Stages[1] = "ingestion" /\ Stages[2] = "canonical_commit" /\ Stages[3] = "relocation"
  /\ Stages[4] = "capsule_compile" /\ Stages[5] = "model_or_solver"
  /\ Stages[6] = "verification" /\ Stages[7] = "authorization" /\ Stages[8] = "dispatch"
  /\ Stages[9] = "external_effect_start"
BY DEF Stages, PreAuthorization

\* Histories that the principal cannot tell apart have one action, unless a reveal of its
\* own, available at the decision, tells them apart.
LEMMA RevealedOrSame ==
  ASSUME NEW info, NonAnticipative(info), NEW c \in DOMAIN info.classes,
         NEW h \in info.classes[c] \cap DOMAIN info.actions,
         NEW k \in info.classes[c] \cap DOMAIN info.actions,
         info.actions[h] # info.actions[k]
  PROVE  \E event \in info.reveals :
           /\ c \in event.refines /\ event.principal = info.principal
           /\ AvailableBy(event, info.time)
<1>1. c \in Diverging(info)
  BY Zenon DEF Diverging
<1>2. PICK event \in PrincipalReveals(info, c) : AvailableBy(event, info.time)
  BY Zenon, <1>1 DEF NonAnticipative, Violations
<1> QED
  BY <1>2 DEF PrincipalReveals, RevealsOf

\* Histories that are merged have the same signature.
LEMMA MergedAlike ==
  ASSUME NEW p, Typed(p), RecallLevel(p.recall) = "recall_sufficient",
         NEW alias \in p.recall.aliases, NEW h \in alias, NEW k \in alias
  PROVE  p.recall.signatures[h] = p.recall.signatures[k]
<1> DEFINE S == p.recall.signatures
          base == CHOOSE g \in alias : TRUE
<1>1. ~Mismatch(p.recall, alias) /\ Missing(p.recall, alias) = {}
  BY DEF RecallLevel
<1>2. base \in alias /\ alias \subseteq DOMAIN S
  BY <1>1 DEF Missing
<1>3. \A g \in alias : \A d \in DOMAIN S[base] : S[g][d] = S[base][d]
  BY <1>1 DEF Mismatch
<1>4. \A g \in alias : S[g] = [d \in DOMAIN S[base] |-> S[g][d]]
  BY <1>2 DEF Typed
<1>5. \A g \in alias : S[g] = S[base]
  <2> SUFFICES ASSUME NEW g \in alias PROVE S[g] = S[base]
    OBVIOUS
  <2>1. S[base] = [d \in DOMAIN S[base] |-> S[base][d]]
    BY <1>2, <1>4
  <2> QED
    BY <1>3, <1>4, <2>1
<1> QED
  BY <1>5

\* A supported outcome has a handler that is meant for it.
LEMMA Handled ==
  ASSUME NEW t, TotalityMode(t) = "total", NEW outcome \in t.outcomes, outcome.supported
  PROVE  \E handler \in t.handlers : Handles(handler, outcome)
BY DEF TotalityMode

\* Coherent branches are viable, and no two of their commitments clash.
LEMMA CoherentBranches ==
  ASSUME NEW info, NEW b, CoherenceBlockers(info, b) = {}
  PROVE  ~PreConflict(b) /\ ~PostConflict(b) /\ b.scope \subseteq b.viable
BY Zenon DEF CoherenceBlockers

\* A bounded reaction that rests on no outside proof is timely at its slowest.
LEMMA TimelyWhenRequired ==
  ASSUME NEW e, ReactionClass(e) >= 2, ~e.dynamic
  PROVE  Timely(e, 2)
BY DEF ReactionClass

\* One stage after another: each adds what it may take at most, and what the reaction is
\* measured by are the sums up to the authorization, the dispatch and the effect.
LEMMA LatestSums ==
  ASSUME NEW e, e.reveal \in Int \X Int, e.stages \in [StageNames -> Int \X Int]
  PROVE  /\ \A n \in 0 .. 9 : Latest(e, n) \in Int
         /\ Latest(e, 0) = e.reveal[2]
         /\ \A n \in 0 .. 8 : Latest(e, n + 1) = Latest(e, n) + e.stages[Stages[n + 1]][2]
         /\ Latest(e, 7) = Total(e, 2)
         /\ Latest(e, 8) = Total(e, 2) + e.stages["dispatch"][2]
         /\ Latest(e, 9) = Latest(e, 8) + e.stages["external_effect_start"][2]
<1> DEFINE s(i) == e.stages[Stages[i]][2]
          L(n, i) == IF i <= n THEN s(i) ELSE 0
<1>1. s(1) \in Int /\ s(2) \in Int /\ s(3) \in Int /\ s(4) \in Int /\ s(5) \in Int
      /\ s(6) \in Int /\ s(7) \in Int /\ s(8) \in Int /\ s(9) \in Int
  BY NineStages DEF StageNames
<1>2. \A n \in 0 .. 9 : Latest(e, n) = e.reveal[2] + L(n, 1) + L(n, 2) + L(n, 3) + L(n, 4)
                          + L(n, 5) + L(n, 6) + L(n, 7) + L(n, 8) + L(n, 9)
  BY DEF Latest
<1>3. Total(e, 2) = e.reveal[2] + s(1) + s(2) + s(3) + s(4) + s(5) + s(6) + s(7)
  BY NineStages DEF Total
<1>4. s(8) = e.stages["dispatch"][2] /\ s(9) = e.stages["external_effect_start"][2]
  BY NineStages
<1>5. e.reveal[2] \in Int
  OBVIOUS
<1> HIDE DEF s
<1>6. \A n \in 0 .. 9 : Latest(e, n) \in Int
  BY <1>1, <1>2, <1>5
<1>7. Latest(e, 0) = e.reveal[2]
  BY <1>1, <1>2, <1>5
<1>8. \A n \in 0 .. 8 : Latest(e, n + 1) = Latest(e, n) + s(n + 1)
  BY <1>1, <1>2, <1>5
<1>9. Latest(e, 7) = Total(e, 2) /\ Latest(e, 8) = Total(e, 2) + s(8)
      /\ Latest(e, 9) = Latest(e, 8) + s(9)
  BY <1>1, <1>2, <1>3, <1>5
<1> QED
  BY <1>4, <1>6, <1>7, <1>8, <1>9 DEF s

-----------------------------------------------------------------------------
(* What the world has done so far. *)

LEMMA PolicyTyped ==
  ASSUME TypeOK
  PROVE  /\ Typed(policy) /\ EnvelopeCreatable(policy.reaction) /\ MaxTime \in Nat
         /\ \A i \in DOMAIN Stages :
              /\ policy.reaction.stages[Stages[i]] \in Int \X Int
              /\ Interval(policy.reaction.stages[Stages[i]])
<1>1. Typed(policy) /\ EnvelopeCreatable(policy.reaction) /\ MaxTime \in Nat
  BY PoliciesTyped DEF TypeOK, Creatable
<1>2. \A i \in DOMAIN Stages : Stages[i] \in StageNames
  BY DEF StageNames
<1>3. policy.reaction.stages \in [StageNames -> Int \X Int]
  BY <1>1 DEF Typed
<1> QED
  BY <1>1, <1>2, <1>3 DEF EnvelopeCreatable

LEMMA TypeInit == Init => TypeOK
<1> SUFFICES ASSUME Init PROVE TypeOK
  OBVIOUS
<1>1. run = Idle /\ 0 \in 0 .. Len(Stages) + 1
  BY NineStages DEF Init
<1>2. Idle.at \in [DOMAIN Stages -> Nat] /\ Idle.outcome \in Supported \cup {Unmodeled}
  BY DEF Idle
<1>3. run \in Runs
  BY <1>1, <1>2 DEF Idle, Runs
<1> QED
  BY <1>3 DEF Init, TypeOK

LEMMA TypeStep == TypeOK /\ [Next]_vars => TypeOK'
<1> SUFFICES ASSUME TypeOK, [Next]_vars PROVE TypeOK'
  OBVIOUS
<1>0. policy' = policy
  BY DEF Next, Begin, Decide, Reveal, Elapse, Happen, Continue, vars
<1>1. Runs' = Runs
  BY <1>0 DEF Runs, Supported
<1>2. SUFFICES run' \in Runs /\ phase' \in {"assessed", "deciding", "reacting", "acted",
                                             "happened", "continued"}
  BY <1>0, <1>1 DEF TypeOK, Creatable, Issued
<1> USE DEF TypeOK
<1>3. ASSUME NEW h \in DOMAIN policy.info.actions, Begin(h) PROVE <1>2!1
  BY <1>3 DEF Begin, Runs
<1>4. ASSUME NEW occurred \in SUBSET policy.info.reveals, Decide(occurred) PROVE <1>2!1
  <2>1. run'.seen \subseteq UNION {event.refines : event \in policy.info.reveals}
    BY <1>4 DEF Decide, Runs
  <2> QED
    BY <1>4, <2>1 DEF Decide, Runs
<1>5. ASSUME NEW t \in 0 .. MaxTime, NEW branches \in SUBSET policy.branches.scope \ {{}},
             Reveal(t, branches) PROVE <1>2!1
  <2>1. Rows(branches, policy.branches.post)
          \subseteq Rows(policy.branches.scope, policy.branches.post)
    BY DEF Rows
  <2> QED
    <3>1. t \in Nat /\ 1 \in 0 .. Len(Stages) + 1
      BY NineStages
    <3>2. run' = [run EXCEPT !.stage = 1, !.clock = t, !.branches = branches,
                             !.held = Rows(branches, policy.branches.post)]
      BY <1>5 DEF Reveal
    <3>3. run' \in Runs
      BY <2>1, <3>1, <3>2 DEF Runs
    <3> QED
      BY <1>5, <3>3 DEF Reveal
<1>6. ASSUME NEW latency \in 0 .. MaxTime, Elapse(latency) PROVE <1>2!1
  <2>1. run.stage + 1 \in 0 .. Len(Stages) + 1 /\ run.clock + latency \in Nat
    <3>1. run.stage \in DOMAIN Stages /\ run.clock \in Nat
      BY <1>6 DEF Elapse, Runs
    <3> QED
      BY <3>1, NineStages
  <2> QED
    BY <1>6, <2>1 DEF Elapse, Runs
<1>7. ASSUME NEW outcome \in Supported \cup {Unmodeled}, Happen(outcome) PROVE <1>2!1
  BY <1>7 DEF Happen, Runs
<1>8. CASE Continue
  BY <1>8 DEF Continue
<1>9. CASE UNCHANGED vars
  BY <1>9 DEF vars
<1> QED
  BY <1>3, <1>4, <1>5, <1>6, <1>7, <1>8, <1>9 DEF Next

\* A step keeps its policy, begins only with one that is executable, and its stages are
\* those of the reaction.
LEMMA StartedStep == TypeOK /\ StartedInv /\ [Next]_vars => StartedInv' /\ policy' = policy
<1> SUFFICES ASSUME TypeOK, StartedInv, [Next]_vars PROVE StartedInv' /\ policy' = policy
  OBVIOUS
<1>0. policy' = policy
  BY DEF Next, Begin, Decide, Reveal, Elapse, Happen, Continue, vars
<1>1. run.stage \in 0 .. 10 /\ run \in Runs
  <2>1. run \in Runs
    BY DEF TypeOK
  <2>2. run.stage \in 0 .. Len(Stages) + 1
    BY <2>1 DEF Runs
  <2> QED
    BY <2>1, <2>2, NineStages
<1> USE DEF StartedInv, Started, Decided
<1>2. ASSUME NEW h \in DOMAIN policy.info.actions, Begin(h) PROVE StartedInv'
  BY <1>0, <1>1, <1>2 DEF Begin, Runs
<1>3. ASSUME NEW occurred \in SUBSET policy.info.reveals, Decide(occurred) PROVE StartedInv'
  <2>1. /\ run'.stage = run.stage /\ run'.history = run.history
        /\ phase = "deciding" /\ phase' = "reacting"
    BY <1>1, <1>3 DEF Decide, Runs
  <2> QED
    BY <1>0, <2>1, NineStages
<1>4. ASSUME NEW t \in 0 .. MaxTime, NEW branches \in SUBSET policy.branches.scope,
             Reveal(t, branches) PROVE StartedInv'
  <2>1. run'.stage = 1 /\ run'.history = run.history /\ phase = "reacting" /\ phase' = phase
    BY <1>1, <1>4 DEF Reveal, Runs
  <2> QED
    BY <1>0, <2>1, NineStages
<1>5. ASSUME NEW latency \in 0 .. MaxTime, Elapse(latency) PROVE StartedInv'
  <2>1. /\ run'.stage = run.stage + 1 /\ run'.history = run.history /\ phase = "reacting"
        /\ phase' = IF run.stage = Len(Stages) THEN "acted" ELSE phase
    BY <1>1, <1>5 DEF Elapse, Runs
  <2> QED
    BY <1>0, <1>1, <2>1, NineStages
<1>6. ASSUME NEW outcome \in Supported \cup {Unmodeled}, Happen(outcome) PROVE StartedInv'
  BY <1>0, <1>1, <1>6 DEF Happen, Runs
<1>7. CASE Continue
  BY <1>0, <1>7 DEF Continue
<1>8. CASE UNCHANGED vars
  BY <1>8 DEF vars
<1> QED
  BY <1>0, <1>2, <1>3, <1>4, <1>5, <1>6, <1>7, <1>8 DEF Next

\* The decision rests on every reveal of the principal that is available by then.
LEMMA SeenStep == TypeOK /\ StartedInv /\ SeenInv /\ [Next]_vars => SeenInv'
<1> SUFFICES ASSUME TypeOK, StartedInv, SeenInv, [Next]_vars PROVE SeenInv'
  OBVIOUS
<1>0. policy' = policy /\ run \in Runs
  BY StartedStep DEF TypeOK
<1> USE DEF SeenInv, Started, Decided
<1>1. ASSUME NEW h \in DOMAIN policy.info.actions, Begin(h) PROVE SeenInv'
  BY <1>1 DEF Begin
<1>2. ASSUME NEW occurred \in SUBSET policy.info.reveals, Decide(occurred) PROVE SeenInv'
  <2>1. \A event \in policy.info.reveals :
          event.principal = policy.info.principal /\ AvailableBy(event, policy.info.time)
            => event.refines \subseteq run'.seen
    BY <1>0, <1>2 DEF Decide, Runs, AvailableBy
  <2> QED
    BY <1>0, <2>1
<1>3. ASSUME NEW t \in 0 .. MaxTime, NEW branches \in SUBSET policy.branches.scope,
             Reveal(t, branches) PROVE SeenInv'
  BY <1>0, <1>3 DEF Reveal, Runs
<1>4. ASSUME NEW latency \in 0 .. MaxTime, Elapse(latency) PROVE SeenInv'
  BY <1>0, <1>4 DEF Elapse, Runs
<1>5. ASSUME NEW outcome \in Supported \cup {Unmodeled}, Happen(outcome) PROVE SeenInv'
  BY <1>0, <1>5 DEF Happen, Runs
<1>6. CASE Continue
  BY <1>6 DEF Continue
<1>7. CASE UNCHANGED vars
  BY <1>7 DEF vars
<1> QED
  BY <1>1, <1>2, <1>3, <1>4, <1>5, <1>6, <1>7 DEF Next

\* The reveal is at its latest when the reaction begins, and a stage adds no more than the
\* most it may take.
LEMMA ClockStep == TypeOK /\ StartedInv /\ ClockInv /\ [Next]_vars => ClockInv'
<1> SUFFICES ASSUME TypeOK, StartedInv, ClockInv, [Next]_vars PROVE ClockInv'
  OBVIOUS
<1> DEFINE e == policy.reaction
<1>0. /\ policy' = policy /\ run \in Runs /\ run.stage \in 0 .. 10
      /\ run.clock \in Nat /\ run.at \in [1 .. 9 -> Nat]
  <2>1. run \in Runs
    BY DEF TypeOK
  <2>2. run.stage \in 0 .. Len(Stages) + 1 /\ run.clock \in Nat /\ run.at \in [DOMAIN Stages -> Nat]
    BY <2>1 DEF Runs
  <2> QED
    BY <2>1, <2>2, NineStages, StartedStep
<1>1. /\ \A n \in 0 .. 9 : Latest(e, n) \in Int
      /\ Latest(e, 0) = e.reveal[2]
      /\ \A n \in 0 .. 8 : Latest(e, n + 1) = Latest(e, n) + e.stages[Stages[n + 1]][2]
  BY PolicyTyped, LatestSums DEF Typed
<1> HIDE DEF e
<1>2. /\ run.stage > 0 => run.clock <= Latest(e, run.stage - 1)
      /\ \A i \in 1 .. 9 : run.at[i] <= IF i < run.stage THEN Latest(e, i) ELSE 0
  BY NineStages DEF ClockInv, e
<1>3. SUFFICES /\ run'.stage > 0 => run'.clock <= Latest(e, run'.stage - 1)
               /\ \A i \in 1 .. 9 : run'.at[i] <= IF i < run'.stage THEN Latest(e, i) ELSE 0
  BY <1>0, NineStages DEF ClockInv, e
<1>4. ASSUME run'.stage = run.stage, run'.clock = run.clock, run'.at = run.at PROVE <1>3!1
  BY <1>2, <1>4
<1>5. ASSUME NEW h \in DOMAIN policy.info.actions, Begin(h) PROVE <1>3!1
  BY <1>0, <1>4, <1>5 DEF Begin, Runs
<1>6. ASSUME NEW occurred \in SUBSET policy.info.reveals, Decide(occurred) PROVE <1>3!1
  BY <1>0, <1>4, <1>6 DEF Decide, Runs
<1>7. ASSUME NEW t \in 0 .. MaxTime, NEW branches \in SUBSET policy.branches.scope,
             Reveal(t, branches) PROVE <1>3!1
  <2>1. run'.stage = 1 /\ run'.clock = t /\ run'.at = run.at /\ run.stage = 0
        /\ t \in e.reveal[1] .. e.reveal[2]
    BY <1>0, <1>7 DEF Reveal, Runs, e
  <2>2. e.reveal \in Int \X Int /\ Interval(e.reveal)
    BY PolicyTyped DEF Typed, EnvelopeCreatable, e
  <2>3. t <= e.reveal[2] /\ t >= 0
    BY <2>1, <2>2 DEF Interval
  <2>4. \A i \in 1 .. 9 : run.at[i] = 0
    BY <1>0, <1>2, <2>1
  <2> QED
    BY <1>1, <2>1, <2>3, <2>4
<1>8. ASSUME NEW latency \in 0 .. MaxTime, Elapse(latency) PROVE <1>3!1
  <2> DEFINE stage == e.stages[Stages[run.stage]]
  <2>1. /\ run'.stage = run.stage + 1 /\ run'.clock = run.clock + latency
        /\ run'.at = [run.at EXCEPT ![run.stage] = run.clock + latency]
        /\ run.stage \in 1 .. 9 /\ latency \in stage[1] .. stage[2]
    BY <1>0, <1>8, NineStages DEF Elapse, Runs, e
  <2>2. stage[1] \in Int /\ stage[2] \in Int
    BY <2>1, PolicyTyped, NineStages DEF e
  <2> HIDE DEF stage
  <2>3. latency <= stage[2] /\ latency \in Int
    BY <2>1, <2>2
  <2>4. Latest(e, run.stage) = Latest(e, run.stage - 1) + stage[2]
    <3>1. run.stage - 1 \in 0 .. 8 /\ (run.stage - 1) + 1 = run.stage
      BY <2>1
    <3> QED
      BY <1>1, <3>1 DEF stage
  <2>5. Latest(e, run.stage) \in Int /\ Latest(e, run.stage - 1) \in Int
    BY <1>1, <2>1
  <2>6. run'.clock <= Latest(e, run.stage)
    BY <1>0, <1>2, <2>1, <2>2, <2>3, <2>4, <2>5
  <2>7. (run.stage + 1) - 1 = run.stage
    BY <2>1
  <2> QED
    BY <1>0, <1>2, <2>1, <2>6, <2>7
<1>9. ASSUME NEW outcome \in Supported \cup {Unmodeled}, Happen(outcome) PROVE <1>3!1
  BY <1>0, <1>4, <1>9 DEF Happen, Runs
<1>10. CASE Continue
  BY <1>4, <1>10 DEF Continue
<1>11. CASE UNCHANGED vars
  BY <1>4, <1>11 DEF vars
<1> QED
  BY <1>5, <1>6, <1>7, <1>8, <1>9, <1>10, <1>11 DEF Next

\* What is held changes at the beginning and at the reveal only.
LEMMA HeldStep == TypeOK /\ StartedInv /\ HeldInv /\ [Next]_vars => HeldInv'
<1> SUFFICES ASSUME TypeOK, StartedInv, HeldInv, [Next]_vars PROVE HeldInv'
  OBVIOUS
<1>0. policy' = policy /\ run \in Runs
  BY StartedStep DEF TypeOK
<1> USE DEF HeldInv, Started, Compatible
<1>1. ASSUME NEW h \in DOMAIN policy.info.actions, Begin(h) PROVE HeldInv'
  BY <1>0, <1>1 DEF Begin, Runs
<1>2. ASSUME NEW occurred \in SUBSET policy.info.reveals, Decide(occurred) PROVE HeldInv'
  BY <1>0, <1>2 DEF Decide, Runs
<1>3. ASSUME NEW t \in 0 .. MaxTime, NEW branches \in SUBSET policy.branches.scope,
             Reveal(t, branches) PROVE HeldInv'
  BY <1>0, <1>3 DEF Reveal, Runs
<1>4. ASSUME NEW latency \in 0 .. MaxTime, Elapse(latency) PROVE HeldInv'
  BY <1>0, <1>4 DEF Elapse, Runs
<1>5. ASSUME NEW outcome \in Supported \cup {Unmodeled}, Happen(outcome) PROVE HeldInv'
  BY <1>0, <1>5 DEF Happen, Runs
<1>6. CASE Continue
  BY <1>0, <1>6 DEF Continue
<1>7. CASE UNCHANGED vars
  BY <1>0, <1>7 DEF vars
<1> QED
  BY <1>1, <1>2, <1>3, <1>4, <1>5, <1>6, <1>7 DEF Next

\* What happens is supported, or no certificate names it and the world is open.
LEMMA OutcomeStep == TypeOK /\ StartedInv /\ OutcomeInv /\ [Next]_vars => OutcomeInv'
<1> SUFFICES ASSUME TypeOK, StartedInv, OutcomeInv, [Next]_vars PROVE OutcomeInv'
  OBVIOUS
<1>0. policy' = policy /\ run \in Runs /\ Supported' = Supported
  BY StartedStep DEF TypeOK, Supported
<1> USE DEF OutcomeInv
<1>1. ASSUME NEW h \in DOMAIN policy.info.actions, Begin(h) PROVE OutcomeInv'
  BY <1>1 DEF Begin
<1>2. ASSUME NEW occurred \in SUBSET policy.info.reveals, Decide(occurred) PROVE OutcomeInv'
  BY <1>2 DEF Decide
<1>3. ASSUME NEW t \in 0 .. MaxTime, NEW branches \in SUBSET policy.branches.scope,
             Reveal(t, branches) PROVE OutcomeInv'
  BY <1>3 DEF Reveal
<1>4. ASSUME NEW latency \in 0 .. MaxTime, Elapse(latency) PROVE OutcomeInv'
  BY <1>4 DEF Elapse
<1>5. ASSUME NEW outcome \in Supported \cup {Unmodeled}, Happen(outcome) PROVE OutcomeInv'
  BY <1>0, <1>5 DEF Happen, Runs
<1>6. CASE Continue
  BY <1>0, <1>6 DEF Continue
<1>7. CASE UNCHANGED vars
  BY <1>0, <1>7 DEF vars
<1> QED
  BY <1>1, <1>2, <1>3, <1>4, <1>5, <1>6, <1>7 DEF Next

LEMMA IInvInit == Init => IInv
<1> SUFFICES ASSUME Init PROVE IInv
  OBVIOUS
<1>1. /\ phase = "assessed" /\ run.stage = 0 /\ run.held = {}
      /\ run.at = [i \in DOMAIN Stages |-> 0]
  BY DEF Init, Idle
<1>2. ClockInv
  BY <1>1, NineStages DEF ClockInv
<1> QED
  BY <1>1, <1>2, TypeInit
     DEF IInv, StartedInv, Started, Decided, SeenInv, HeldInv, OutcomeInv

LEMMA IInvariant == Spec => []IInv
<1>1. IInv /\ [Next]_vars => IInv'
  BY TypeStep, StartedStep, SeenStep, ClockStep, HeldStep, OutcomeStep DEF IInv
<1> QED
  BY IInvInit, <1>1, PTL DEF Spec

\* A policy that was begun was assessed.
LEMMA BegunAssessed == IInv /\ Started => Assessment(policy)
BY ExecutableAssessment, PolicyTyped DEF IInv, StartedInv

-----------------------------------------------------------------------------
(* The theorems. *)

\* TypeOK: the policy is one that the host could create and seal, and its step has the
\* shape that the model gives it, for every family of policies.
THEOREM TypeCorrect == Spec => []TypeOK
BY IInvariant, PTL DEF IInv

\* NoAnticipation: for every partition, every set of reveals and every choice of actions,
\* an executable policy does in a history what it would do in every history that its
\* principal has not been told apart from it (NonAnticipativityValidator.validate,
\* DecisionRecallCertificate.evaluate).
THEOREM ActsOnWhatItKnows == Spec => []NoAnticipation
<1>1. IInv => NoAnticipation
  <2> SUFFICES ASSUME IInv, phase = "reacting" PROVE NoAnticipation!2
    BY DEF NoAnticipation
  <2>1. Assessment(policy) /\ Typed(policy)
    BY BegunAssessed, PolicyTyped DEF Started, IInv
  <2>2. run.history \in DOMAIN policy.info.actions /\ SeenInv /\ Decided
    BY DEF IInv, StartedInv, Started, Decided
  <2>3. ASSUME NEW c \in ClassOf(run.history) \ run.seen,
               NEW k \in policy.info.classes[c] \cap DOMAIN policy.info.actions,
               policy.info.actions[k] # policy.info.actions[run.history]
        PROVE  FALSE
    <3>1. c \in DOMAIN policy.info.classes /\ run.history \in policy.info.classes[c]
      BY DEF ClassOf
    <3>2. PICK event \in policy.info.reveals :
            /\ c \in event.refines /\ event.principal = policy.info.principal
            /\ AvailableBy(event, policy.info.time)
      BY <2>1, <2>2, <2>3, <3>1, RevealedOrSame DEF Assessment
    <3> QED
      BY <2>2, <3>2 DEF SeenInv
  <2>4. ASSUME NEW alias \in policy.recall.aliases, NEW h \in alias, NEW k \in alias
        PROVE  policy.recall.signatures[h] = policy.recall.signatures[k]
    BY <2>1, MergedAlike DEF Assessment
  <2> QED
    BY <2>3, <2>4
<1> QED
  BY IInvariant, <1>1, PTL

\* GuaranteedInTime: whatever each of the nine stages takes within its interval, an
\* executable policy that must react in bounded time authorizes, dispatches and takes
\* effect before it is too late (DecisionReactionEnvelope.create).
THEOREM ReactsInTime == Spec => []GuaranteedInTime
<1>1. IInv => GuaranteedInTime
  <2> SUFFICES ASSUME IInv, phase \in {"reacting", "acted"}, policy.requiredReaction >= 2,
                      ~policy.reaction.dynamic
               PROVE  GuaranteedInTime!2
    BY DEF GuaranteedInTime
  <2> DEFINE e == policy.reaction
  <2>1. Assessment(policy) /\ Typed(policy) /\ EnvelopeCreatable(e) /\ TypeOK
    BY BegunAssessed, PolicyTyped DEF Started, IInv
  <2>2. ReactionClass(e) >= 2
    BY <2>1 DEF Assessment, Typed, ReactionClass
  <2>3. Timely(e, 2)
    BY <2>2, TimelyWhenRequired
  <2>4. /\ Latest(e, 7) = Total(e, 2) /\ Latest(e, 8) = Total(e, 2) + e.stages["dispatch"][2]
        /\ Latest(e, 9) = Latest(e, 8) + e.stages["external_effect_start"][2]
        /\ Latest(e, 7) \in Int /\ Latest(e, 8) \in Int /\ Latest(e, 9) \in Int
    BY <2>1, LatestSums DEF Typed
  <2>5. Latest(e, 7) <= e.safe.authorization /\ Latest(e, 8) <= e.safe.dispatch
        /\ Latest(e, 9) <= e.safe.effect
    BY <2>3, <2>4 DEF Timely
  <2>6. e.safe.authorization \in Nat /\ e.safe.dispatch \in Nat /\ e.safe.effect \in Nat
    BY <2>1 DEF Typed, EnvelopeCreatable
  <2>7. \A i \in {7, 8, 9} : run.at[i] \in Nat
                              /\ run.at[i] <= IF i < run.stage THEN Latest(e, i) ELSE 0
    <3>1. run.at \in [DOMAIN Stages -> Nat]
      BY <2>1 DEF TypeOK, Runs
    <3> QED
      BY <3>1, NineStages DEF IInv, ClockInv
  <2> HIDE DEF e
  <2>8. /\ run.at[7] <= e.safe.authorization /\ run.at[8] <= e.safe.dispatch
        /\ run.at[9] <= e.safe.effect
    BY <2>4, <2>5, <2>6, <2>7
  <2> QED
    BY <2>8, NineStages DEF e
<1> QED
  BY IInvariant, <1>1, PTL

\* NeverDoubleBooked: no two commitments that an executable policy holds at once claim one
\* resource exclusively, before the reveal and after it, for every set of branches and
\* commitments (PolicyCoherenceEvaluator.evaluate).
THEOREM CommitmentsCompatible == Spec => []NeverDoubleBooked
<1>1. IInv => NeverDoubleBooked
  <2> SUFFICES ASSUME IInv, NEW left \in run.held, NEW right \in run.held,
                      NEW t \in 0 .. MaxTime,
                      left # right, left[2].resource = right[2].resource,
                      left[2].exclusive \/ right[2].exclusive,
                      HeldAt(left, t), HeldAt(right, t)
               PROVE  FALSE
    BY DEF NeverDoubleBooked
  <2> DEFINE b == policy.branches
  <2>0. Started /\ HeldInv /\ TypeOK
    BY DEF IInv, HeldInv, StartedInv, Started
  <2>1. Assessment(policy) /\ Typed(policy) /\ MaxTime \in Nat
    BY <2>0, BegunAssessed, PolicyTyped
  <2>2. ~PreConflict(b) /\ ~PostConflict(b)
    BY <2>1, CoherentBranches DEF Assessment
  <2>3. \A row \in Rows(b.scope, b.pre) \cup Rows(b.scope, b.post) :
          row[2].start \in Int /\ row[2].end \in Int
    BY <2>1 DEF Typed, Rows
  <2>4. run.held \subseteq Rows(b.scope, b.pre) \cup Rows(b.scope, b.post)
    BY <2>0 DEF TypeOK, Runs
  <2>5. ExclusiveConflict(left[2], right[2])
    BY <2>1, <2>3, <2>4 DEF HeldAt, ExclusiveConflict, Overlaps
  <2>6. CASE run.held = Rows(b.scope, b.pre)
    BY <2>2, <2>5, <2>6 DEF PreConflict
  <2>7. CASE Compatible(run.branches) /\ run.held = Rows(run.branches, b.post)
    <3>1. run.branches \subseteq b.scope
      BY <2>0 DEF TypeOK, Runs
    <3>2. left \in Rows(b.scope, b.post) /\ left[1] \in run.branches
          /\ right \in Rows(b.scope, b.post) /\ right[1] \in run.branches
      BY <2>7, <3>1 DEF Rows
    <3> QED
      BY <2>2, <2>5, <2>7, <3>2 DEF PostConflict, Compatible
  <2> QED
    BY <2>0, <2>6, <2>7 DEF HeldInv
<1> QED
  BY IInvariant, <1>1, PTL

\* NeverStranded: whatever the certificates name has a handler that is meant for it, and so
\* has whatever happens in a world that is closed; the branches taken are viable, and every
\* edge gives its child what it requires (PolicyTotalityCertificate.evaluate,
\* PolicyEdgeCertificate.evaluate).
THEOREM OutcomesHandled == Spec => []NeverStranded
<1>1. IInv => NeverStranded
  <2> SUFFICES ASSUME IInv, phase = "happened" PROVE NeverStranded!2
    BY DEF NeverStranded
  <2>1. Assessment(policy) /\ TypeOK /\ OutcomeInv
    BY BegunAssessed DEF Started, IInv
  <2>2. ASSUME run.outcome # Unmodeled \/ OpenWorldComplete(policy.coverage)
        PROVE  \E handler \in policy.totality.handlers : Handles(handler, run.outcome)
    <3>1. run.outcome \in Supported
      BY <2>1, <2>2 DEF OutcomeInv, OpenWorldComplete
    <3> QED
      BY <2>1, <3>1, Handled DEF Supported, Assessment
  <2>3. run.branches \subseteq policy.branches.viable
    <3>1. run.branches \subseteq policy.branches.scope
      BY <2>1 DEF TypeOK, Runs
    <3> QED
      BY <2>1, <3>1, CoherentBranches DEF Assessment
  <2>4. ASSUME NEW edge \in policy.edges, NEW key \in DOMAIN edge.child
        PROVE  key \in DOMAIN edge.parent /\ edge.parent[key] = edge.child[key]
    BY <2>1, <2>4 DEF Assessment, MismatchedFields
  <2> QED
    BY <2>2, <2>3, <2>4 DEF Handles
<1> QED
  BY IInvariant, <1>1, PTL

=============================================================================
