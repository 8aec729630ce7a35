SPECIFICATION Spec
CONSTANTS
    Tracks = {1}
    LastTimeOfDay = 5
    Messages <- MCMessages
    MinimumObservations = 2
    MaximumTracks = 2
    MaximumObservations = 2
    InactiveAfter = 4
    MaximumReordering = 1
    GapAfter = 2
    EvidenceTtl = 2
    PairInterval = {1, 2}
    WindowDuration = 2
    WindowMinimum = 2
    Findings = {{}, {"PAIR"}}
    KinematicSeverities = {"WARNING"}
    MaxIngests = 4
INVARIANTS
    EventStateIsTrackState
CHECK_DEADLOCK FALSE
