\* A kernel and another caller, two compactions of three representations, two epochs.
SPECIFICATION Spec
CONSTANTS
  w = w
  kernel = kernel
  other = other
  c1 = c1
  c2 = c2
  S = S
  T = T
  U = U
  x = x
  y = y
  Writers = {w}
  NoWriter = NoWriter
  MaxEpoch = 2
  MaxRevision = 6
  Callers = {kernel, other}
  Kernels = {kernel}
  Compactions = {c1, c2}
  NoCompaction = NoCompaction
  Reps = {S, T, U}
  NoRep = NoRep
  Contents = {x, y}
  NoContent = NoContent
  Requests <- MCRequests
  Unreadable = Unreadable
INVARIANTS
  SwitchesChain
  RecoverableUnlessOvertaken
  ReplayAgrees
PROPERTY
  AuthorityKept
CHECK_DEADLOCK FALSE
