SPECIFICATION Spec
CONSTANTS
    Events = {e1, e2, e3}
    Window = 2
    SegmentBytes = 2
    MaxBytes = 4
    Retention = 1
    MaxSegments = 5
    MaxClock = 2
    MaxCrashes = 0
    MaxCorruptions = 0
    None = None
INVARIANTS
    RetentionBoundsAge
CHECK_DEADLOCK FALSE
