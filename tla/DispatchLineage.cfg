\* Two authorizations of one action, one migration, six entries in the journal.
SPECIFICATION Spec
CONSTANTS
  u1 = u1
  u2 = u2
  Auths = {u1, u2}
  NoAuth = NoAuth
  Mission = "mission"
  Canonical = "canonical-state"
  Actions = {"action"}
  Grants = {"grant"}
  Sources = {"source"}
  Contents = {1, 2}
  Revoked = 2
  Kinds = {"SCHEMA", "WORLD_MODEL"}
  Schema = "SCHEMA"
  v2 = v2
  Manifests = {v2}
  NoBinding = NoBinding
  Unreadable = Unreadable
  MaxLog = 6
  MaxChanges = 2
INVARIANTS
  CurrentLineage
  RestartKeepsAuthority
PROPERTIES
  DispatchOnUnchangedBasis
  StaleForever
SYMMETRY AnyAuthorization
CHECK_DEADLOCK FALSE
