\* One step of a policy; the step ends, so that the system stops.
SPECIFICATION Spec
CONSTANTS
  Policies <- SomePolicies
  MaxTime = 4
  Condition = Condition
  Unmodeled = Unmodeled
INVARIANTS
  NoAnticipation
  GuaranteedInTime
  NeverDoubleBooked
  NeverStranded
CHECK_DEADLOCK FALSE
