SPECIFICATION HeapSpec
CONSTANTS
    HeapStart = 16
    HeapLimit = 247
    Sizes <- MCSizes
INVARIANTS
    HeapTypeOK
    HeapCutExactly
    FreeAcceptsExactlyLive
    PayloadKept
PROPERTIES
    ImplementsAllocator
