SPECIFICATION EdgeSpec
CONSTANTS
    QueueCapacity = 1
    MaxBackoff = 3
    Readings = {{}}
    Instances <- MCInstances
    StaleAfter = 1
    PipelineStaleAfter = 1
    ClockTolerance = 0
    Reports <- MCReports
INVARIANTS
    AcceptedIsKept
    RecordIsLatest
    
PROPERTIES
    DeliveredInTheEnd
CHECK_DEADLOCK FALSE
