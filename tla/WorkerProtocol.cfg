SPECIFICATION Spec
CONSTANTS
    Roles = {"client", "server"}
    MaxRuns = 2
    Callbacks = 2
    PendingCaptures = 1
    PendingEvents = 1
    PipeFrames = 1
    Legacy = TRUE
    Live = TRUE
CHECK_DEADLOCK FALSE
INVARIANTS
    HonestWorkerAccepted
    DeliveryAccounted
    RunsComplete
PROPERTY SessionEnds
