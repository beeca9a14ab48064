\* Two kernels, one authorization, three epochs.
SPECIFICATION Spec
CONSTANTS
  w1 = w1
  w2 = w2
  kA = kA
  kB = kB
  aA = aA
  p = p
  q = q
  doc = doc
  Writers = {w1, w2}
  NoWriter = NoWriter
  MaxEpoch = 3
  MaxRevision = 1
  Kernels = {kA, kB}
  Auths = {aA}
  HomeOf <- MCHomeOf
  Principals = {p, q}
  PrincipalOf <- MCPrincipalOf
  Document = doc
INVARIANTS
  ReplayMatchesMemory
  SoleAuthority
CHECK_DEADLOCK FALSE
