SPECIFICATION AsyncSpec
CONSTANT Interruptible = FALSE
CHECK_DEADLOCK FALSE
INVARIANTS
    VerdictStands
    OwnershipReported
    AdmissionExact
    TaskSettled
PROPERTIES
    ContainedDespiteCallback
    ImplementsOwnedWorker
    CallEnds
    CancelledTaskEnds
