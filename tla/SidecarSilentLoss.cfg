SPECIFICATION Spec
CONSTANTS
    Aircraft = {1}
    Times = {1}
    Shapes = {"malformed", "position", "latOnly"}
    Subscribers = {s1}
    QueueMaxsize = 2
    SubscriberMaxsize = 2
    MaximumTracks = 1
    DelayCap = 2
    Losses = {"eof", "reset"}
    StoreMayFail = TRUE
    MaxFrames = 3
    MaxFaults = 2
    MaxEvents = 1
INVARIANTS
    NoSilentLoss
CHECK_DEADLOCK FALSE
