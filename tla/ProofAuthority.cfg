\* One proof of one artifact, two sources of one domain, one query.
SPECIFICATION Spec
CONSTANTS
  left = left
  right = right
  middle = middle
  Sources = {"policy", "other"}
  RevisionIds = {"A", "B"}
  Domains = {"d"}
  Queries = {"q"}
  Profiles = {"checker"}
  Envelopes = {"envelope"}
  Artifacts = {"proof"}
  Nodes = {left, right, middle}
  Roots = {"r", "s"}
  DomainsOf <- DomainsOfAll
  EnvelopeShapes <- SomeEnvelopes
  ManifestShapes <- SomeManifests
  CauseSets <- SomeCauses
  MaxSequence = 4
  MaxRevision = 2
  Limits <- SomeLimits
  None = None
  Unreadable = Unreadable
INVARIANTS
  ReplayAgrees
  SupportIsGrounded
PROPERTIES
  IssuedOnUntouchedInputs
  DispatchOnUnchangedProof
