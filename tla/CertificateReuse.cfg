\* Any host; a certificate is shown for one handoff after another.
SPECIFICATION Spec
CONSTANTS
  Ranks <- SomeRanks
  FirstRank <- First
  Policy <- SomePolicy
  Contract <- SomeContract
  Matches <- SomeMatches
  WorkUnits <- SomeUnits
  Protected <- SomeReactions
  TotalBudget = 5
  MaxTime = 2
  MaxGeneration = 1
  None = None
INVARIANTS
  HandoffBudgets
CHECK_DEADLOCK FALSE
