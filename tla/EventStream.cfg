SPECIFICATION Spec
CONSTANTS
    Tasks = {"main", "other"}
    Main = "main"
    MaxEvents = 2
    MaxBytes = 2
    MaxPuts = 2
CHECK_DEADLOCK FALSE
INVARIANTS
    WaiterIsWoken
    EventsAccounted
    FailureSurfaces
PROPERTY StreamServed
