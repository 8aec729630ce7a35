SPECIFICATION ServicesSpec
CONSTANTS
    Clients = {c1, c2}
    Offsets <- MCOffsets
    Speeds = {1, 2}
    LoopDelay = 1
    MaxTime = 3
    MaxCommands = 2
    Names = {n1, n2}
    Mails = {m1, m2}
    Browsers = {b1}
    LoginLimit = 1
    RequestLimit = 2
    Minute = 2
    SessionLength = 2
    MaxClock = 3
    Evidence <- MCEvidence
    Operators = {o1, o2}
    ActionIds = {a1}
    Contents = {"ACKNOWLEDGE", "ANNOTATE"}
    MaxAssessed = 2
    Flights = {f1, f2}
    LocalReports <- MCLocalReports
    ExternalReports <- MCExternalReports
    PollInterval = 2
    CacheTtl = 2
    FailureBackoff = 1
    FailureThreshold = 2
    CircuitOpen = 3
    RetryAfter = {1}
    MaxAge = 2
    MaxSkew = 0
    MaxTimeDelta = 2
    MaxDistance = 1
    MaxAltitude = 1
    MaxTick = 4
    Policy <- MCPolicy
    Lines <- MCLines
    BatchLimit = 2
    Aircrafts = {h1}
    Rows <- MCRows
    SpeedRanges <- MCSpeedRanges
    Quiet <- MCQuiet
    ActiveFor = 0
    LostAfter = 1
    LostUntil = 4
    MaxMinute = 2
    Verdicts = {0, 1}
    MaxAcknowledged = 2
    MaxFaults = 1
    Starts <- MCStarts
    Headings <- MCHeadings
    Flips <- MCFlips
    Cells = 512
    MaxApart = 2
    MaxSteps = 3
    MaxReceived = 3
    Incidents = {1, 2}
    Sections = {3, 4}
    Artifacts <- MCArtifacts
    Unversioned <- MCUnversioned
    BatchSize = 2
    MaxAttempts = 2
    MaxIngests = 3
    MaxSyncs = 3
    Reference <- MCReference
    MaxIterations = 2
    ResultLimit = 2
    Texts <- MCTexts
    MaxCalls = 2
    MaxQueries = 1
    Sockets = {s1, s2}
    MaxDelay = 3
    MaxTable = 2
    MaxWire = 1
    MaxFetches = 2
    Commands = {p1, p2}
    EarlyDays = {1}
    HoldoutDay = 7
    LineStates = {"QUESTIONABLE"}
    Cooldown = 2
    RoutineSpan = 1
    MaxFiles = 2
    MaxLines = 2
    MaxExports = 2
INVARIANTS
    ReplayKeepsTime
    AuditIsComplete
    LimitsHold
    ActionsAreRecordedOnce
    ProviderIsSpared
    EvidenceIsBacked
    AcknowledgementsStand
    FixesAreTrue
    ReportIsTrue
    CitationsAreGrounded
    ViewHasASource
    FieldStudyIsSound
CHECK_DEADLOCK FALSE
