SPECIFICATION LifecycleSpec
CHECK_DEADLOCK FALSE
CONSTANTS
    Conns = {c1, c2}
    Requests = {r1}
    MaxMessages = 3
INVARIANTS StopDrains WebStoreOpen
PROPERTY ShutdownTerminates
