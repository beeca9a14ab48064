----------------------- MODULE ReactionSchedulability -----------------------
(***************************************************************************)
(* Reaction jobs, the control-plane resources that serve them, and the     *)
(* certificate that the jobs can be served together: the contracts of      *)
(* control_plane.py, the bounded demand test of schedulability.py and the  *)
(* registry of schedulability_runtime.py, up to the authorization that     *)
(* rests on a certificate.                                                 *)
(*                                                                         *)
(* Times and amounts of service are integers.  A revision of a contract is *)
(* a pair of its number and its content: two revisions of one content have *)
(* different digests, because the digest covers the revision id.           *)
(***************************************************************************)
EXTENDS Integers, FiniteSets, FiniteSetsExt, SequencesExt

CONSTANTS
  JobIds,            \* the reaction_job_ids
  ResourceIds,       \* the resource_ids of the control plane
  JobContracts,      \* the contents a host registers for each job ...
  ResourceContracts, \* ... and for each resource
  Modes,             \* the analysis modes asked for, of AnalysisModes
  MaxExactJobs,      \* MAX_EXACT_JOBS
  MaxRevisions,      \* bound on the contracts registered
  MaxMission,        \* bound on the revisions of the mission
  MaxCertificates,   \* bound on the certificates registered
  None               \* no contract, no certificate, no bound

AnalysisModes == {"EXACT_BOUNDED", "CONSERVATIVE_OVERAPPROX",
                  "INTERVAL_ROBUST", "SCENARIO_STRESS", "UNSUPPORTED"}

ResourceKinds == {"SERIAL", "CONCURRENCY", "RATE_LIMIT", "CAPACITY_WINDOW",
                  "AUTHORITY_HUMAN", "KERNEL_WRITER"}

(***************************************************************************)
(* Contracts.                                                              *)
(***************************************************************************)

Intervals == {i \in Nat \X Nat : i[1] <= i[2]}

\* What ControlPlaneResourceRevision.create accepts.
ValidResource(r) ==
  /\ r.kind \in ResourceKinds
  /\ r.capacity \in Nat /\ r.concurrency \in Nat /\ r.rate \in Nat
  /\ r.window \in Nat \ {0}
  /\ r.available \in Intervals
  /\ r.opaque \in BOOLEAN
  /\ r.bound # None => r.bound \in 0..r.capacity

\* What ReactionResourceDemand.create accepts.
ValidDemand(d) ==
  /\ d.resource \in ResourceIds
  /\ d.service \in Nat /\ d.units \in Nat
  /\ d.offset \in Intervals /\ d.window \in Intervals

\* What ReactionJobContract.create accepts: the demands are a set, because
\* two demands with the same content are refused.
ValidJob(j) ==
  /\ j.release \in Intervals
  /\ j.deadline >= j.release[2]
  /\ j.demands # {} /\ \A d \in j.demands : ValidDemand(d)

ASSUME ContractsAreValid ==
  /\ \A id \in ResourceIds : \A r \in ResourceContracts[id] : ValidResource(r)
  /\ \A id \in JobIds : \A j \in JobContracts[id] : ValidJob(j)
  /\ Modes \subseteq AnalysisModes

StrongBound(r) == ~r.opaque \/ r.bound # None

EffectiveCapacity(r) == IF r.bound = None THEN r.capacity ELSE r.bound

OneAtATime(r) == r.kind \in {"SERIAL", "KERNEL_WRITER"}

\* The parts in which the service of a resource is counted: a rate limit
\* grants its capacity once per window.
Parts(r) == IF r.kind = "RATE_LIMIT" THEN r.window ELSE 1

\* The service, in parts, that a resource grants in one unit of time.
Grants(r) ==
  IF r.kind = "RATE_LIMIT" THEN EffectiveCapacity(r)
  ELSE r.rate * (IF OneAtATime(r) THEN Min({EffectiveCapacity(r), 1})
                                  ELSE EffectiveCapacity(r))

\* The service, in parts, that a resource grants from a to b.
AvailableService(r, a, b) ==
  Grants(r) * Max({0, Min({b, r.available[2]}) - Max({a, r.available[1]})})

ConcurrencyCap(r) ==
  IF OneAtATime(r) THEN Min({r.concurrency, 1}) ELSE r.concurrency

(***************************************************************************)
(* The demand test.                                                        *)
(***************************************************************************)

\* The window in which a job needs a demand served.
DemandWindow(j, d) ==
  LET start == j.release[1] + d.offset[1] + d.window[1]
      end   == Min({j.deadline, j.release[2] + d.offset[2] + d.window[2]})
  IN  <<start, Max({start, end})>>

\* The pairs <<job, demand>> by which a set of jobs loads a resource.
Rows(cohort, jobs, id) ==
  {<<i, d>> \in cohort \X UNION {jobs[i].demands : i \in cohort} :
     d \in jobs[i].demands /\ d.resource = id}

ServiceOf(rows) == MapThenSumSet(LAMBDA row : row[2].service, rows)
UnitsOf(rows) == MapThenSumSet(LAMBDA row : row[2].units, rows)

\* The resources that a cohort overloads; jobs and resources are functions
\* from ids to contents.
Overloads(cohort, jobs, resources) ==
  {id \in ResourceIds :
     LET rows    == Rows(cohort, jobs, id)
         windows == {DemandWindow(jobs[row[1]], row[2]) : row \in rows}
         r       == resources[id]
     IN  /\ rows # {}
         /\ \/ id \notin DOMAIN resources
            \/ ~StrongBound(r)
            \/ ServiceOf(rows) * Parts(r)
                 > AvailableService(r, Min({w[1] : w \in windows}),
                                       Max({w[2] : w \in windows}))
            \/ UnitsOf(rows) > ConcurrencyCap(r)}

\* A bug that enumerates the cohorts up to, and not including, all the jobs.
PartialCohorts(ids, exclusions) ==
  {c \in SUBSET ids : c # {} /\ c # ids /\ ~ \E p \in exclusions : p \subseteq c}

\* The sets of jobs that may be released together.
Cohorts(ids, exclusions) ==
  {c \in SUBSET ids : c # {} /\ ~ \E p \in exclusions : p \subseteq c}

IndividuallyFeasible(jobs, resources) ==
  \A i \in DOMAIN jobs : Overloads({i}, jobs, resources) = {}

JointlyFeasible(jobs, resources, exclusions) ==
  \A c \in Cohorts(DOMAIN jobs, exclusions) : Overloads(c, jobs, resources) = {}

\* The level that ReactionSchedulabilityEvaluator.evaluate finds.
LevelOf(jobs, resources, exclusions, known, mode, proven) ==
  CASE mode = "UNSUPPORTED" \/ ~IndividuallyFeasible(jobs, resources) -> 0
    [] Cardinality(DOMAIN jobs) > MaxExactJobs -> 1
    [] ~JointlyFeasible(jobs, resources, IF known THEN exclusions ELSE {}) -> 1
    [] ~known \/ mode = "SCENARIO_STRESS" -> 1
    [] mode = "INTERVAL_ROBUST" -> IF proven THEN 4 ELSE 3
    [] OTHER -> 2

Contents(revisions) == [id \in DOMAIN revisions |-> revisions[id].content]

\* The certificate of a set of revisions: it binds the digests of the jobs
\* and of the resources, here the revisions themselves.
Evaluate(jobs, resources, exclusions, known, mode, proven, mission) ==
  [jobs |-> jobs, resources |-> resources, exclusions |-> exclusions,
   mission |-> mission,
   level |-> LevelOf(Contents(jobs), Contents(resources), exclusions, known,
                     mode, proven)]

SupportsStrongJointGuarantee(c) == c.level \in {2, 3, 4}

(***************************************************************************)
(* The registry of the kernel.                                             *)
(***************************************************************************)
VARIABLES
  reactionJobs,          \* reaction_jobs: the current revision of each job, or None
  controlPlaneResources, \* control_plane_resources: the same of each resource
  revisions,             \* the number of revisions registered
  mission,               \* the version of the mission
  draft,                 \* a certificate evaluated and not registered, or None
  certificates,          \* schedulability_certificates
  relied                 \* what an authorization issued by this step rests on:
                         \* its level and the contents current now; or None

vars == <<reactionJobs, controlPlaneResources, revisions, mission, draft,
          certificates, relied>>

Init ==
  /\ reactionJobs = [i \in JobIds |-> None]
  /\ controlPlaneResources = [i \in ResourceIds |-> None]
  /\ revisions = 0
  /\ mission = 1
  /\ draft = None
  /\ certificates = {}
  /\ relied = None

Registered(registry) == {id \in DOMAIN registry : registry[id] # None}

\* The revision that takes the place of another, or of none.
NextRevision(old, content) ==
  [number |-> IF old = None THEN 1 ELSE old.number + 1, content |-> content]

RegisterControlPlaneResource(id, content) ==
  /\ revisions < MaxRevisions
  /\ revisions' = revisions + 1
  /\ controlPlaneResources' = [controlPlaneResources EXCEPT ![id] = NextRevision(@, content)]
  /\ relied' = None
  /\ UNCHANGED <<reactionJobs, mission, draft, certificates>>

\* The job is created for the current mission; the registry refuses another.
RegisterReactionJob(id, content) ==
  /\ revisions < MaxRevisions
  /\ revisions' = revisions + 1
  /\ reactionJobs' = [reactionJobs EXCEPT ![id] = NextRevision(@, content)]
  /\ relied' = None
  /\ UNCHANGED <<controlPlaneResources, mission, draft, certificates>>

ReviseMission ==
  /\ mission < MaxMission
  /\ mission' = mission + 1
  /\ relied' = None
  /\ UNCHANGED <<reactionJobs, controlPlaneResources, revisions, draft,
                 certificates>>

\* A host evaluates some registered jobs against the registered resources.
\* The evaluator is not part of the kernel and takes no lock: the registry
\* may change before the certificate is brought to it.
EvaluateJobs(ids, exclusions, known, mode, proven) ==
  /\ ids # {}
  /\ Cardinality(certificates) < MaxCertificates
  /\ draft' = Evaluate(
       [i \in ids |-> reactionJobs[i]],
       [i \in Registered(controlPlaneResources) |-> controlPlaneResources[i]],
       exclusions, known, mode, proven, mission)
  /\ relied' = None
  /\ UNCHANGED <<reactionJobs, controlPlaneResources, revisions, mission,
                 certificates>>

\* _certificate_current_objects: every revision bound by the certificate is
\* the current one.
CurrentObjects(c) ==
  /\ \A i \in DOMAIN c.jobs : reactionJobs[i] = c.jobs[i]
  /\ \A i \in DOMAIN c.resources : controlPlaneResources[i] = c.resources[i]

RegisterSchedulabilityCertificate ==
  /\ draft # None
  /\ draft.mission = mission
  /\ CurrentObjects(draft)
  /\ certificates' = certificates \union {draft}
  /\ draft' = None
  /\ relied' = None
  /\ UNCHANGED <<reactionJobs, controlPlaneResources, revisions, mission>>

\* The schedulability part of _require_wave6_bundle, and the authorization
\* that authorize_schedulable_policy then issues.
AuthorizeSchedulablePolicy(c) ==
  /\ c.mission = mission
  /\ SupportsStrongJointGuarantee(c)
  /\ CurrentObjects(c)
  /\ relied' =
       [exclusions |-> c.exclusions, level |-> c.level,
        jobs |-> [i \in DOMAIN c.jobs |-> reactionJobs[i].content],
        resources |-> [i \in Registered(controlPlaneResources) |->
                         controlPlaneResources[i].content]]
  /\ UNCHANGED <<reactionJobs, controlPlaneResources, revisions, mission, draft,
                 certificates>>

Pairs == {{i, j} : <<i, j>> \in {p \in JobIds \X JobIds : p[1] # p[2]}}

Next ==
  \/ \E id \in ResourceIds : \E r \in ResourceContracts[id] : RegisterControlPlaneResource(id, r)
  \/ \E id \in JobIds : \E j \in JobContracts[id] : RegisterReactionJob(id, j)
  \/ ReviseMission
  \/ \E ids \in SUBSET Registered(reactionJobs), known, proven \in BOOLEAN,
        mode \in Modes :
       \E exclusions \in SUBSET {p \in Pairs : p \subseteq ids} :
         EvaluateJobs(ids, exclusions, known, mode, proven)
  \/ RegisterSchedulabilityCertificate
  \/ \E c \in certificates : AuthorizeSchedulablePolicy(c)

Spec == Init /\ [][Next]_vars

(***************************************************************************)
(* What a certificate should mean, independently of the demand test.       *)
(***************************************************************************)

\* The windows a row may turn out to have, once the release of its job and
\* its offset are known.
Realizations(j, d) ==
  {LET start == t + o + d.window[1]
   IN  <<start, Max({start, Min({j.deadline, t + o + d.window[2]})})>> :
     t \in j.release[1]..j.release[2], o \in d.offset[1]..d.offset[2]}

\* The parts of service a resource has to give, one cell each.
Cells(r) ==
  {t \in r.available[1]..r.available[2] : t < r.available[2]} \X (1..Grants(r))

\* A schedule: every row can be given the cells it needs, inside its window,
\* no cell twice.
ScheduleExists(rows, window, r) ==
  LET order == SetToSeq(rows)
      Own(k, free) == {x \in free : window[order[k]][1] <= x[1] /\ x[1] < window[order[k]][2]}
      serves[k \in 0..Len(order), free \in SUBSET Cells(r)] ==
        \/ k = 0
        \/ \E taken \in kSubset(order[k][2].service * Parts(r), Own(k, free)) :
             serves[k - 1, free \ taken]
  IN  serves[Len(order), Cells(r)]

\* The rows of a cohort on one resource can be served whatever the releases.
Servable(rows, jobs, r) ==
  LET windows == [row \in rows |-> Realizations(jobs[row[1]], row[2])]
      choices == {w \in [rows -> UNION {windows[row] : row \in rows}] :
                    \A row \in rows : w[row] \in windows[row]}
  IN  \A w \in choices : ScheduleExists(rows, w, r)

Feasible(a) ==
  \A c \in SUBSET DOMAIN a.jobs, id \in ResourceIds :
    LET rows == Rows(c, a.jobs, id)
    IN  rows = {} \/ (\E p \in a.exclusions : p \subseteq c) \/ ( /\ id \in DOMAIN a.resources
                       /\ Servable(rows, a.jobs, a.resources[id]) )

\* A job released at one instant, that loads no resource by two demands.
Punctual(j) ==
  /\ j.release[1] = j.release[2]
  /\ \A d \in j.demands :
       /\ d.offset[1] = d.offset[2]
       /\ \A e \in j.demands : e.resource = d.resource => e = d

(***************************************************************************)
(* Properties.                                                             *)
(***************************************************************************)

\* An authorization that rests on a strong certificate rests on jobs and
\* resources that are current and for which a schedule exists: whichever of
\* the jobs are released together, each resource can give every job, inside
\* its window, the service it needs.  This is about jobs released at a known
\* instant that load each resource once: the code tests one window per cohort, from the
\* earliest release to the latest end.
AuthorizedIsFeasible ==
  relied # None =>
    ((\A i \in DOMAIN relied.jobs : Punctual(relied.jobs[i])) => Feasible(relied))

=============================================================================
