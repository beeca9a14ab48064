------------------------- MODULE MCPolicyAuthority -------------------------
(***************************************************************************)
(* A bundle that fits is there and the world changes around it; or one     *)
(* registry is filled with whatever the host may offer; or the bundle is   *)
(* built from nothing while the world changes.                             *)
(***************************************************************************)
EXTENDS PolicyAuthority

CONSTANTS agent, other, act

Artifact(family) ==
  CASE family = "frontiers" -> [principal |-> agent, access |-> 1]
    [] family = "partitions" ->
         [principal |-> agent, mission |-> 1, canonical |-> 1, access |-> 1, epoch |-> 1]
    [] family = "epochs" ->
         [principal |-> agent, partition |-> 1, frontier |-> 1, access |-> 1,
          snapshot |-> Snapshot([EmptyKernel EXCEPT !.actions = {act}]), until |-> 2]
    [] family = "nodes" ->
         [principal |-> agent, executors |-> {agent}, epoch |-> 1, partition |-> 1,
          frontier |-> 1, snapshot |-> Snapshot([EmptyKernel EXCEPT !.actions = {act}]),
          candidates |-> {act}, selected |-> {act}, sealed |-> TRUE]
    [] family = "selections" ->
         [principal |-> agent, partition |-> 1, actions |-> {act}, action |-> act,
          superseded |-> FALSE, generations |-> [plan |-> 1]]
    [] family = "sufficiency" ->
         [action |-> act, epoch |-> 1, principal |-> agent, partition |-> 1, node |-> 1,
          complete |-> TRUE, covers |-> TRUE]
    [] family = "seals" ->
         [sufficiency |-> 1, mission |-> 1, canonical |-> 1, status |-> "sealed",
          covers |-> TRUE]
    [] family = "assessments" ->
         [status |-> "EXEC_BOUNDED", action |-> act, mission |-> 1, plan |-> 1, node |-> 1,
          partition |-> 1, actions |-> {act}, seal |-> "sealed", mixed |-> FALSE]

Recorded(family, artifact) ==
  Entry(EmptyKernel, "policy.registered", [family |-> family, artifact |-> artifact])

Proposed == <<Entry(EmptyKernel, "action.proposed", act)>>

InOrder == <<"frontiers", "partitions", "epochs", "nodes", "selections", "sufficiency", "seals",
             "assessments">>

Complete ==
  Proposed \o [i \in DOMAIN InOrder |-> Recorded(InOrder[i], Artifact(InOrder[i]))]

\* With a selection that does not depend on the plan.
Independent ==
  [Complete EXCEPT ![6] = Recorded("selections",
     [Artifact("selections") EXCEPT !.generations = [evidence |-> 0]])]

\* The canonical state has moved since the information was registered.
Outdated ==
  SubSeq(Complete, 1, 3) \o
  <<Entry(Committed(EmptyKernel), "canonical.committed", Committed(EmptyKernel).canonical)>>

Limit(before, more, churn, families, free, revisions) ==
  [before |-> before, last |-> Len(before) + more, churn |-> churn, families |-> families,
   free |-> free, revisions |-> revisions]

\* An authorization takes three entries.
\* An assessment of a partition that is registered only after it.
EarlyLimits == {Limit(Complete, 3, 2, {"assessments", "partitions"}, {"assessments"}, 2)}

SomeLimits ==
  {Limit(Complete, 3 + 2, 3, Families, {}, 2), Limit(Independent, 3 + 1, 3, Families, {}, 2)}
  \cup {Limit(Complete, 3 + 1, 2, {family}, {family}, 2) : family \in Families}
  \cup {Limit(Proposed, 8 + 3 + 1, 2, Families, {}, 1),
        Limit(Outdated, 6 + 3, 2, Families, {}, 1)}
  \cup EarlyLimits

SealLimits == {Limit(Complete, 3 + 2, 2, {"seals"}, {}, 2)}
=============================================================================
