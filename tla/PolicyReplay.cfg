\* The journal is bounded, so that a behaviour stops.
SPECIFICATION Spec
CONSTANTS
  agent = agent
  other = other
  act = act
  Principals = {agent, other}
  Actions = {act, other}
  Acting = agent
  Limits <- EarlyLimits
  Unreadable = Unreadable
  Condition = Condition
INVARIANTS
  NothingRefused
CHECK_DEADLOCK FALSE
