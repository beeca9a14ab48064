\* Any host; the edge is crossed on an assessment made before a drift.
SPECIFICATION Spec
CONSTANTS
  Ranks <- SomeRanks
  FirstRank <- First
  Policy <- SomePolicy
  Contract <- SomeContract
  Matches <- SomeMatches
  WorkUnits <- SomeUnits
  Protected <- SomeReactions
  TotalBudget = 5
  MaxTime = 2
  MaxGeneration = 1
  None = None
INVARIANTS
  ActivationCurrent
CHECK_DEADLOCK FALSE
