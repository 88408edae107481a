SPECIFICATION PlatformSpec
CONSTANTS
    BreakerCallers = {c1, c2, c3}
    BreakerThreshold = 3
    BreakerCooldown = 2
    PromptSubjects <- Subjects
    PromptAnswers <- Answers
    PromptExcluded = {"kube-system"}
    MaxProjectedEvidence = 10
    MaxProjectedResources = 20
    MaxProjectedActions = 12
    MaxProjectedSteps = 10
    MaxAttempts = 256
    LimiterKeys = {k1, k2}
    LimiterLimit = 2
    LimiterInterval = 3
    LimiterIdle = 2
    LimiterCapacity = 1
    FindingIds = {"f1"}
    ExceptionIds = {"e1", "e2"}
    FindingSource <- Sources
    FindingGroups = {"g1", "g2"}
    ExceptionScopes = {"f1", "g1"}
    MaxLifetime = 1
    Reported = {"open", "resolved"}
    PgWorkers = {w1, w2}
    PgFaults = TRUE
    PgFindingIds = {"f1"}
    PgExceptionIds = {"e1"}
    PgGroups = {"g1"}
    PgScopes = {"f1"}
    PgReported = {"open"}
    PlanActors = {"user1", "user2", "agent"}
    PlanKinds <- Kinds
    PlanRunStates = {"succeeded"}
    PlannerFindings <- AnyFinding
    ScanObjects <- Cluster
    ScanFixed <- Lasting
    CorrInputs <- Inputs
    CorrWindows <- Windows
    CorrBase = 90
    CorrPoints <- Points
    CorrLatest = 2
    ListIds = {1, 2, 3}
    ListFields = {1, 2}
    ListSpaces <- Spaces
    ListPrincipals <- Callers
    ListLimits = {1}
    ListStarts <- Starts
    ListChanges = 1
    AdapterCallers = {a1, a2}
    AdapterLists <- Kubescape
    ReportContents <- Reports
    AdapterTTL = 2
    CollectTime = 1
    AdapterEnd = 4
    KeyCallers = {v1, v2}
    Keys = {"k1", "k2"}
    Tokens <- Bearers
    MaxAges = {1, 2}
    MaxAgeLimit = 1
    DefaultAge = 1
    FetchTime = 1
    KeysEnd = 4
INVARIANTS
    PlatformTypeOK
    OutageCostsOneRequestEach
    RefusedOnlyWhenEmpty
    NoSecondBudget
    ExecutionApproved
    RowsFollowCluster
    OnlyGovernanceIsAutomatic
    PreviewTellsTheWrites
    ScanJudgesItsMoments
    CorrelationIsDeterministic
    WalkIsComplete
    OnlineIsFresh
    WithdrawnKeysDie
PROPERTIES
    BreakerRecovers
    MemoryReopens
    ExceptionsOnlyAge
    DecisionIsFinal
    AgentExecutes
CHECK_DEADLOCK FALSE
