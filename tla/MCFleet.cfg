SPECIFICATION FairSpec
CONSTANTS
    None = None
    Rollouts = {"o", "r", "s"}
    Calls = {"c1", "c2"}
    Overlapping = {"o"}
    Assignments <- MCAssignments
    Targets <- MCTargets
    MaxAttempts = 2
    Backoff = TRUE
    Filters <- MCFilters
    Kinds = {"retry", "skip", "rollback"}
    MaxRecoveries = 1
INVARIANTS PlanSound WorkInOrder
PROPERTIES SuccessStands ExecuteReturns
CHECK_DEADLOCK FALSE
