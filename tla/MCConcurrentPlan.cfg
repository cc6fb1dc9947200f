SPECIFICATION Spec
CONSTANTS
    N = 4
    Cell <- Cells
    Keys <- Shared
    Target <- Targets
    MaxWorkers = 2
    MaxRate = 4
    Timeout = 2
    Limit = 1
    Eager = TRUE
    MaxTime = 2
CHECK_DEADLOCK FALSE
INVARIANTS
    HistoryAccepted
    ChildrenWithinLimits
    WaitIsJustified
PROPERTY PlanAdvances
