SPECIFICATION Spec
CONSTANTS
  p1 = p1
  quota = quota
  limits = limits
  workload = workload
  budget = budget
  governance = governance
  pdb = pdb
  resources = resources
  review = review
  unknown = unknown
  None = None
  Plans = {p1}
  Findings = {"finding"}
  Objects = {budget, workload}
  Actions = {pdb, resources, unknown}
  ActionsOf <- PartlyInvalid
  TargetsOf <- TargetsOfActions
  Direct = {pdb, resources}
  Invalid = {unknown}
  Upserts = {pdb}
  Slow = {pdb, resources}
  ApprovalRequired = {}
  FindingOf <- OneFinding
  Initial <- Fresh
  Lag = TRUE
  Modes = {TRUE}
  MaxEdits = 1
  MaxGeneration = 3
INVARIANTS
  SnapshotPreChange
  ChangedIsEligible
  RollbackRemovesChanges
PROPERTIES
  WritesRespectOthers
