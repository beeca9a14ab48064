\* Three transactions of two actions, dispatches two deep.
SPECIFICATION Spec
CONSTANTS
  t1 = t1
  t2 = t2
  t3 = t3
  Txs = {t1, t2, t3}
  NoTx = NoTx
  Actions = {"once", "again"}
  Idempotent = {"again"}
  Principals = {"agent"}
  MaxDepth = 2
INVARIANTS
  AtMostOnce
  LedgerTruthful
  VersionCountsCommits
  ReplayAgrees
PROPERTY
  TerminalStatesLast
SYMMETRY AnyTransaction
CHECK_DEADLOCK FALSE
