\* The journal is bounded, so that a behaviour stops.
SPECIFICATION Spec
CONSTANTS
  agent = agent
  other = other
  act = act
  Principals = {agent, other}
  Actions = {act, other}
  Acting = agent
  Limits <- SomeLimits
  Unreadable = Unreadable
  Condition = Condition
INVARIANTS
  IssuedOnOneSnapshot
  DispatchOnUnchangedBundle
PROPERTIES
  ReplayAgrees
CHECK_DEADLOCK FALSE
