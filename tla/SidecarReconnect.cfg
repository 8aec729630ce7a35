SPECIFICATION FairSpec
CONSTANTS
    Aircraft = {1}
    Times = {1}
    Shapes = {"position"}
    Subscribers = {s1}
    QueueMaxsize = 2
    SubscriberMaxsize = 2
    MaximumTracks = 1
    DelayCap = 2
    Losses = {"eof", "reset"}
    StoreMayFail = TRUE
    MaxFrames = 1
    MaxFaults = 2
    MaxEvents = 1
PROPERTIES
    ReconnectIsAutomatic
CHECK_DEADLOCK FALSE
