SPECIFICATION Spec
CONSTANTS
    N = 3
    Timeouts <- SomeTimeouts
    Limits <- SomeLimits
    Pause = 1
    Retained = 1
    Callbacks = 2
    MaxTime = 3
CHECK_DEADLOCK FALSE
INVARIANT TrialsOwned
PROPERTY DeadlineEndsPlan
