\* Three handoffs, one stutter of each kind, a domain that drifts once.
SPECIFICATION CarefulSpec
CONSTANTS
  Ranks <- SomeRanks
  FirstRank <- First
  Policy <- SomePolicy
  Contract <- OneDomain
  Matches <- OneMatches
  WorkUnits <- SomeUnits
  Protected <- SomeReactions
  TotalBudget = 5
  MaxTime = 2
  MaxGeneration = 1
  None = None
INVARIANTS
  BudgetKept
PROPERTIES
  LoopEnds
CHECK_DEADLOCK FALSE
