\* Two writers, two epochs, three writes, every kind of intent.
SPECIFICATION Spec
CONSTANTS
  w1 = w1
  w2 = w2
  A = A
  B = B
  k = k
  s = s
  t = t
  up = up
  down = down
  NoWriter = NoWriter
  NoKey = NoKey
  NoIntent = NoIntent
  a1 = a1
  a2 = a2
  Writers = {w1, w2}
  Threads = {a1, a2}
  WriterIds = {A, B}
  IdOf <- MCIdOf
  Scopes = {s, t}
  Keys = {k}
  Operations = {up, down}
  IntentIds = {"e2", "n1", "k1", "k2", "k3", "x1"}
  Intents <- AllIntents
  MaxEpoch = 2
  MaxRevision = 3
INVARIANTS
  TypeOK
  EpochsSliceRevisions
  FreshCopyWhenWriteAllowed
  ExclusiveNonIdempotent
  OneIntentPerKey
  DurableDecisions
PROPERTY
  ImplementsRegistry
SYMMETRY AnyThread
