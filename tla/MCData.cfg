SPECIFICATION DataSpec
CONSTANTS
    BatchRows = 2
    NDecisions = 2
    MaxRuns = 2
    MaxFails = 2
    QueueMax = 2
    BatchSize = 2
    NRows = 4
    NHours = 2
    MaxPosition = 1
    MaxDelay = 2
    MaxInFlight = 1
    NTicks = 3
    MaxGap = 1
INVARIANTS
    DataTypeOK
    FiredIsRecorded
    CleanCloseIsComplete
    BooksBalance
    CapWithoutRejects
PROPERTIES
    ImplementsReplicatedLog
    Replicated
    CloseIsBounded
CHECK_DEADLOCK FALSE
