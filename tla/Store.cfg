SPECIFICATION FairSpec
CONSTANTS
    Events = {e1, e2, e3}
    Window = 2
    SegmentBytes = 2
    MaxBytes = 3
    Retention = 1
    MaxSegments = 4
    MaxClock = 2
    MaxCrashes = 2
    MaxCorruptions = 1
    None = None
INVARIANTS
    TypeOK
    SuppressesOnlyKnown
    WindowIsExact
    OpenSegmentIsWhole
    SizeBound
    MemoryMatchesDisk
PROPERTIES
    ImplementsEventLog
    StartsAgain
CHECK_DEADLOCK FALSE
