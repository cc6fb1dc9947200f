SPECIFICATION Spec
CONSTANTS
    Profiles <- MCProfiles
    MaxCallbacks = 3
    PendingItems = 2
    PendingBytes = 4
    RetainedLimit = 3
CHECK_DEADLOCK FALSE
INVARIANTS
    CaptureIsHonest
    OutcomeIsNative
    EvidenceAccepted
    NothingMisattributed
PROPERTY RunSettles
