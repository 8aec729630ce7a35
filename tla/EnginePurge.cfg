SPECIFICATION Spec
CONSTANTS
    Tracks = {1, 2}
    LastTimeOfDay = 6
    Messages <- MCMessages
    MinimumObservations = 2
    MaximumTracks = 2
    MaximumObservations = 2
    InactiveAfter = 4
    MaximumReordering = 1
    GapAfter = 2
    EvidenceTtl = 2
    PairInterval = {1, 2}
    WindowDuration = 2
    WindowMinimum = 2
    Findings = {{}}
    KinematicSeverities = {"WARNING"}
    MaxIngests = 5
INVARIANTS
    NominalOnlyAfterExpiry
CHECK_DEADLOCK FALSE
