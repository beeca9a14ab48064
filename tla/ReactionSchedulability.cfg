\* Two jobs of five contents, two resources of three, three registrations
\* and one change.
SPECIFICATION Spec
CONSTANTS
  JobIds = {"deploy", "rollback"}
  ResourceIds = {"writer", "quota"}
  JobContracts <- SomeJobs
  ResourceContracts <- SomeResources
  Modes = {"INTERVAL_ROBUST", "EXACT_BOUNDED"}
  MaxExactJobs = 2
  MaxRevisions = 4
  MaxMission = 2
  MaxCertificates = 1
  None = None
INVARIANTS
  AuthorizedIsFeasible
CHECK_DEADLOCK FALSE
