\* Two decisions in time, one transfer, one capsule, one authorization.
SPECIFICATION Spec
CONSTANTS
  actor = actor
  sender = sender
  Principals = {actor, sender}
  Items = {"i"}
  Tagged = {"i"}
  Receipts = {"r"}
  EvidenceIds = {"e"}
  Attestations = {"first", "second", "other"}
  Attested <- SomeAttested
  MaxTime = 2
  MaxRevision = 1
  MaxVersion = 2
  Limits <- SomeLimits
  Deciders = {actor}
  Revocable = {"first"}
  BoundBefore <- SomeBound
  PublishedBefore = {"i"}
  Unreadable = Unreadable
INVARIANTS
  ReplayAgrees
  FreshCapsulesAreAccurate
PROPERTIES
  KnowledgeIsGrounded
CHECK_DEADLOCK FALSE
