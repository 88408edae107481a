SPECIFICATION LiveSpec
CONSTANTS
  p1 = p1
  quota = quota
  limits = limits
  workload = workload
  budget = budget
  governance = governance
  pdb = pdb
  resources = resources
  review = review
  unknown = unknown
  None = None
  Plans = {p1}
  Findings = {"finding"}
  Objects = {quota, limits}
  Actions = {review, governance}
  ActionsOf <- ProposalAndGovernance
  TargetsOf <- TargetsOfActions
  Direct = {governance}
  Invalid = {}
  Upserts = {governance}
  Slow = {}
  ApprovalRequired = {p1}
  FindingOf <- OneFinding
  Initial <- Fresh
  Lag = TRUE
  Modes = {TRUE, FALSE}
  MaxEdits = 0
  MaxGeneration = 4
INVARIANTS
  TypeOK
  GatedWrites
  RunAgrees
  AppliedIsInCluster
PROPERTIES
  StatusCatchesUp
  RollbackEnds
