------------------------- MODULE MCPolicyExecution -------------------------
(***************************************************************************)
(* A policy that is executable, and every policy that differs from it in   *)
(* one respect: what the principal knows, what it recalls, how long it     *)
(* takes, what its branches commit, what may happen, which proofs it rests *)
(* on, and what else the assessment looks at.                              *)
(***************************************************************************)
EXTENDS PolicyExecution, TLC

Event(refines, principal, available) ==
  [refines |-> refines, principal |-> principal, available |-> available, predicates |-> {"p"}]

Info(actions, reveals, principal, access) ==
  [principal |-> "agent", access |-> 1, partition |-> 1, time |-> 1,
   epoch |-> [principal |-> principal, access |-> access],
   classes |-> ("merged" :> {"h1", "h2"} @@ "alone" :> {"h3"}),
   actions |-> actions, reveals |-> reveals]

SameAction == [h \in {"h1", "h2", "h3"} |-> "wait"]

Stage(i, latency) == [s \in {Stages[k] : k \in DOMAIN Stages} |->
                        IF s = Stages[i] THEN latency ELSE <<0, 0>>]

Reaction(reveal, stages, safe, closed, dynamic) ==
  [reveal |-> reveal, stages |-> stages, clocks |-> {"clock"}, closed |-> closed,
   dynamic |-> dynamic,
   safe |-> [authorization |-> safe[1], dispatch |-> safe[2], effect |-> safe[3]]]

Commitment(start, end, exclusive) ==
  [resource |-> "gpu", start |-> start, end |-> end, exclusive |-> exclusive]

Branches(viable, pre, post, groups) ==
  [principals |-> {"agent"}, partitions |-> {1}, nodes |-> {"node"},
   scope |-> {"red", "blue"}, viable |-> viable, pre |-> pre, post |-> post, groups |-> groups]

NoCommitments == [b \in {"red", "blue"} |-> {}]

Outcome(ref, supported, residual) == [ref |-> ref, supported |-> supported, residual |-> residual]
Handler(outcome, kind, legitimate) ==
  [outcome |-> outcome, kind |-> kind, legitimate |-> legitimate]

Context(scope, theory, worlds, horizon, debts) ==
  [scope |-> scope, theory |-> theory, worlds |-> worlds, horizon |-> horizon, debts |-> debts,
   assurance |-> 3]

Proof(contexts, required, passes, debts) ==
  [contexts |-> contexts, accepted |-> {"known"}, required |-> required, passes |-> passes,
   closure |-> {"act", "node", "proof"},
   certificate |-> [complete |-> TRUE, action |-> "act", debts |-> debts,
                    included |-> {"act", "node", "proof"}, excluded |-> {}]]

OneContext == {Context("s", "finite-world-set", {"w1"}, <<0, 2>>, {})}

Profile(level, cap) == [axes |-> ("routing" :> level @@ "recovery" :> 4), cap |-> cap]

Preparedness(structure, profiles, count, independent) ==
  [structure |-> structure, profiles |-> profiles, count |-> count, independent |-> independent,
   coexist |-> TRUE]

Continuation(mission, terminal, horizon) ==
  [mission |-> mission, terminal |-> terminal, horizon |-> horizon, discovery |-> {},
   fallback |-> FALSE, debts |-> {}]

Coverage(residual, proof) ==
  [mode |-> "total", adequacy |-> "STRONG", residual |-> residual, proof |-> proof,
   debts |-> IF residual = "ACTIVE" THEN {"open"} ELSE {}]

Good ==
  [info |-> Info(SameAction, {}, "agent", 1),
   recall |-> [signatures |-> <<>>, aliases |-> {}],
   totality |-> [outcomes |-> {Outcome("done", TRUE, FALSE)},
                 handlers |-> {Handler("done", "successor", FALSE)}, solver |-> "PROVED"],
   edges |-> {}, branches |-> Branches({"red", "blue"}, NoCommitments, NoCommitments, {}),
   nodes |-> {"node"},
   capability |-> [destructive |-> FALSE, robust |-> FALSE],
   reaction |-> Reaction(<<0, 0>>, Stage(1, <<0, 0>>), <<2, 2, 2>>, FALSE, FALSE),
   requiredReaction |-> 2,
   preparedness |-> Preparedness("sequence", <<Profile(3, 5)>>, 1, FALSE),
   requiredPreparedness |-> 2,
   proof |-> Proof(OneContext, 2, {"pass"}, {}),
   continuation |-> Continuation(1, "MISSION_COMPLETE", 1), horizon |-> 2, mission |-> 1,
   coverage |-> Coverage("CLOSED", TRUE), seal |-> "sealed", snapshot |-> 1, expected |-> 1]

-----------------------------------------------------------------------------
SomeEvents ==
  {Event({"merged"}, "agent", 0), Event({"merged"}, "agent", 2), Event({"merged"}, "other", 0),
   Event({"merged"}, "agent", Condition), Event({"alone"}, "agent", 0)}

Knowing ==
  {[Good EXCEPT !.info = Info(actions, reveals, bound[1], bound[2])] :
     actions \in UNION {[H -> {"wait", "act"}] : H \in SUBSET {"h1", "h2", "h3"} \ {{}}},
     reveals \in {R \in SUBSET SomeEvents : Cardinality(R) <= 2},
     bound \in {<<"agent", 1>>, <<"other", 1>>, <<"agent", 2>>}}

Recalling ==
  {[Good EXCEPT !.recall = [signatures |-> signatures, aliases |-> aliases]] :
     signatures \in UNION {[H -> [{"risk", "transition"} -> {0, 1}]] :
                             H \in {{"h1", "h2", "h3"}, {"h1", "h2"}, {}}},
     aliases \in SUBSET {{"h1", "h2"}, {"h2", "h3"}, {"h1", "h2", "h3"}}}

Intervals == {<<0, 0>>, <<0, 1>>, <<1, 1>>}

Reacting ==
  {[Good EXCEPT !.reaction = Reaction(reveal, stages, safe, closed, dynamic),
                !.requiredReaction = required] :
     reveal \in {<<0, 1>>},
     stages \in {[Stage(3, a) EXCEPT !["dispatch"] = b, !["external_effect_start"] = c] :
                   a, b, c \in Intervals},
     safe \in {<<1, 2, 2>>, <<2, 2, 3>>, <<2, 3, 4>>},
     closed, dynamic \in BOOLEAN, required \in {1, 2, 4}}

SomeCommitments ==
  {{}} \cup {{Commitment(i[1], i[2], exclusive)} :
               i \in {<<0, 2>>, <<1, 3>>, <<2, 3>>}, exclusive \in BOOLEAN}

Committing ==
  {[Good EXCEPT !.branches =
      Branches({"red", "blue"}, ("red" :> pre @@ "blue" :> {Commitment(0, 2, TRUE)}),
               ("red" :> red @@ "blue" :> blue), groups)] :
     pre, red, blue \in SomeCommitments, groups \in {{}, {{"red", "blue"}}}}
  \cup {[Good EXCEPT !.branches = Branches({"red"}, NoCommitments, NoCommitments, {})]}

SomeHandlers ==
  {Handler(ref, kind, legitimate) :
     ref \in {"done", "lost", "*"}, legitimate \in BOOLEAN,
     kind \in {"successor", "recovery", "residual_handler", "catch_all"}}

Ending ==
  {[Good EXCEPT !.totality =
      [outcomes |-> {Outcome("done", TRUE, residual), Outcome("lost", supported, TRUE)},
       handlers |-> handlers, solver |-> "PROVED"], !.coverage = coverage] :
     residual, supported \in BOOLEAN,
     handlers \in {{a, b} : a, b \in SomeHandlers} \cup {{}},
     coverage \in {Coverage("CLOSED", TRUE), Coverage("ACTIVE", FALSE)}}
  \cup {[Good EXCEPT !.totality.solver = solver] : solver \in {"UNKNOWN", "UNSUPPORTED"}}

Proving ==
  {[Good EXCEPT !.proof = Proof(
      {Context("s", "finite-world-set", {"w1", "w2"}, <<0, 2>>, {}),
       Context("s", "finite-world-set", worlds, horizon, debts),
       Context(scope, theory, others, <<1, 3>>, {})}, 2, {"pass"}, {})] :
     worlds, others \in SUBSET {"w1", "w2", "w3"},
     horizon \in {<<0, 0>>, <<0, 1>>, <<3, 3>>}, debts \in {{}, {"known"}, {"new"}},
     scope \in {"s", "other"}, theory \in {"finite-world-set", "linear"}}

Edge(parent, child) == [parent |-> parent, child |-> child]

Stitching ==
  {[Good EXCEPT !.edges = {Edge(parent, child)}] :
     parent, child \in UNION {[K -> {0, 1}] : K \in SUBSET {"authority", "resource"}}}

Preparing ==
  {[Good EXCEPT !.preparedness = Preparedness(structure, <<Profile(a, 5), Profile(b, cap)>>,
                                              count, independent)] :
     structure \in {"sequence", "or", "k_of_n", "contingency"}, a, b, cap \in {1, 3},
     count \in {1, 2}, independent \in BOOLEAN}

Otherwise ==
  {[Good EXCEPT !.capability = [destructive |-> TRUE, robust |-> robust]] : robust \in BOOLEAN}
  \cup {[Good EXCEPT !.continuation = Continuation(mission, terminal, horizon)] :
          mission \in {1, 2}, terminal \in {"MISSION_COMPLETE", "RECOVERY_BOUNDARY"},
          horizon \in {1, 2}}
  \cup {[Good EXCEPT !.seal = seal, !.snapshot = snapshot] :
          seal \in {"sealed", "stale", "revoked"}, snapshot \in {1, 2}}
  \cup {[Good EXCEPT !.proof = Proof(OneContext, required, passes, debts)] :
          required \in {2, 4}, passes \in {{}, {"pass"}}, debts \in {{}, {"known"}, {"new"}}}

SomePolicies ==
  {Knowing, Recalling, Reacting, Committing, Ending, Proving, Stitching, Preparing, Otherwise}
=============================================================================
