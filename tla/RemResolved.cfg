SPECIFICATION LiveSpec
CONSTANTS
  p1 = p1
  quota = quota
  limits = limits
  workload = workload
  budget = budget
  governance = governance
  pdb = pdb
  resources = resources
  review = review
  unknown = unknown
  None = None
  Plans = {p1}
  Findings = {"finding"}
  Objects = {workload}
  Actions = {resources}
  ActionsOf <- OnePatch
  TargetsOf <- TargetsOfActions
  Direct = {resources}
  Invalid = {}
  Upserts = {}
  Slow = {resources}
  ApprovalRequired = {}
  FindingOf <- OneFinding
  Initial <- Fresh
  Lag = FALSE
  Modes = {TRUE}
  MaxEdits = 0
  MaxGeneration = 2
PROPERTIES
  ResolvedIsReported
