SPECIFICATION RepeatsSpec
CONSTANTS
    Aircrafts = {h1}
    Rows <- MCRows
    SpeedRanges <- MCSpeedRanges
    Quiet <- MCQuiet
    ActiveFor = 1
    LostAfter = 2
    LostUntil = 4
    MaxMinute = 3
    Verdicts = {0, 1}
    MaxAcknowledged = 1
    MaxFaults = 0
INVARIANTS
    NoDuplicates
CHECK_DEADLOCK FALSE
