CONSTANTS
    HeaderSize = 2
    MaxFrameBytes = 2
    MaxEventBytes = 1
    PendingEvents = 1
    PendingBytes = 3
    PendingControls = 4
    ControlBytes = 15
    PipeBytes = 4
    ChunkBytes = 4
    MaxEvents = 2
SPECIFICATION Spec
INVARIANTS FramesExact TerminalReserved
PROPERTIES OrphanStops StreamDecided
CHECK_DEADLOCK FALSE
