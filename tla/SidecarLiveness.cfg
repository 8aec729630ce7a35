SPECIFICATION FairSpec
CONSTANTS
    Aircraft = {1}
    Times = {1}
    Shapes = {"malformed", "position", "latOnly"}
    Subscribers = {s1}
    QueueMaxsize = 1
    SubscriberMaxsize = 2
    MaximumTracks = 1
    DelayCap = 2
    Losses = {"eof", "reset"}
    StoreMayFail = TRUE
    MaxFrames = 2
    MaxFaults = 2
    MaxEvents = 1
INVARIANTS
    StreamHasNoGaps
PROPERTIES
    FramesAreTaken
    OrderlyEndReconnects
    StopCompletes
CHECK_DEADLOCK FALSE
