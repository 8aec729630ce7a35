SPECIFICATION Spec
CONSTANTS
    Aircraft = {1, 2}
    Times = {1, 2}
    Shapes = {"malformed", "position", "velocity", "latOnly", "outOfRange"}
    Subscribers = {}
    QueueMaxsize = 2
    SubscriberMaxsize = 2
    MaximumTracks = 1
    DelayCap = 2
    Losses = {"eof", "reset"}
    StoreMayFail = TRUE
    MaxFrames = 3
    MaxFaults = 2
    MaxEvents = 1
INVARIANTS
    TypeOK
    FramesAccounted
    HealthMatchesConnection
    ArrivalOrder
    StatesBounded
CHECK_DEADLOCK FALSE
