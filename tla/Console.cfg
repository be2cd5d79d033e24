SPECIFICATION Spec
CONSTANTS
    RingSize = 3
    DotEvery = 2
    Sizes <- MCSizes
    Capacities <- MCCapacities
    PanicLen = 2
    MaxBytes = 5
INVARIANTS
    ConsoleTypeOK
    MessagesContiguous
    MirrorsLog
PROPERTIES
    ReadExact
    CallsReturn
    PanicReported
CHECK_DEADLOCK FALSE
