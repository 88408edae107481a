SPECIFICATION ScanSpec
CONSTANTS
    PlannerFindings <- ScanOnly
    ScanObjects <- WholeCluster
    ScanFixed <- WholeCluster
INVARIANT HumanOnlyNeedsApproval
CHECK_DEADLOCK FALSE
