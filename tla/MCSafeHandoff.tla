--------------------------- MODULE MCSafeHandoff ---------------------------
(***************************************************************************)
(* Five ranks, of which two trade boundaries for distance and one costs    *)
(* work; an edge over two domains, one of which no predicate is named      *)
(* after, or over the other alone; three units of work and two protected   *)
(* reactions.                                                              *)
(***************************************************************************)
EXTENDS SafeHandoff

Rank(debt, boundaries, horizon, preparedness, workload, distance) ==
  [debt |-> debt, boundaries |-> boundaries, horizon |-> horizon,
   preparedness |-> preparedness, workload |-> workload, distance |-> distance]

First == Rank(1, 2, 0, 0, 2, 1)

SomeRanks ==
  {First, Rank(1, 1, 0, 0, 2, 2), Rank(0, 2, 1, 1, 1, 1), Rank(0, 0, 1, 1, 0, 0),
   Rank(1, 1, 0, 1, 3, 1)}

SomePolicy ==
  [handoffs |-> 3, deferral |-> 1, advance |-> 0, reduction |-> 0,
   floors |-> {<<1, 1>>}, stutters |-> 1, recoveryStutters |-> 1, latestSafe |-> 1]

SomeContract ==
  [predicates |-> {"db:ready", "quota:left"}, refreshRequired |-> {"db:ready"},
   generations |-> [d \in {"db", "network"} |-> 0], window |-> <<0, 1>>,
   locks |-> TRUE, effects |-> TRUE, invalidators |-> TRUE, opaque |-> FALSE]

OneDomain == [SomeContract EXCEPT !.generations = [d \in {"db"} |-> 0]]

OneMatches == [d \in {"db"} |-> {"db:ready"}]

SomeMatches == [d \in {"db", "network"} |-> IF d = "db" THEN {"db:ready"} ELSE {}]

Unit(id, cost, value, mandatory) ==
  [id |-> id, cost |-> cost, value |-> value, mandatory |-> mandatory]

SomeUnits ==
  {Unit("repair", 2, 1, TRUE), Unit("audit", 2, 4, FALSE), Unit("probe", 1, 1, FALSE)}

SomeReactions ==
  {[id |-> "rollback", amount |-> 2, from |-> 0, releaseAfter |-> 2],
   [id |-> "failover", amount |-> 4, from |-> 1, releaseAfter |-> 2]}
=============================================================================
