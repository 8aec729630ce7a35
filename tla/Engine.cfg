SPECIFICATION Spec
CONSTANTS
    Tracks = {1, 2, 3}
    LastTimeOfDay = 4
    Messages <- MCMessages
    MinimumObservations = 2
    MaximumTracks = 2
    MaximumObservations = 2
    InactiveAfter = 3
    MaximumReordering = 1
    GapAfter = 2
    EvidenceTtl = 2
    PairInterval = {1, 2}
    WindowDuration = 2
    WindowMinimum = 2
    Findings = {{}, {"PAIR"}, {"WINDOW", "LATENCY"}}
    KinematicSeverities = {"WARNING"}
    MaxIngests = 4
INVARIANTS
    TypeOK
    SnapshotsMatchTracks
    NoExpiredEvidence
    SeenIsTheWindow
PROPERTIES
    QuestionableUntilExpired
    ChangesAreAnnounced
CHECK_DEADLOCK FALSE
