SPECIFICATION LiveSpec
CONSTANTS
    NOrders = 2
    Requested = 2
    None = None
    MaxPushes = 2
    MaxBreaks = 1
    SkipMessages = TRUE
    FreshTicks = 0
    Nothing = Nothing
    MaxSeq = 3
    MaxWire = 2
    BufferMax = 2
    MaxLinks = 2
    TConfirm = 2
    NConfirm = 3
    MaxGap = 1
INVARIANTS
    LiveTypeOK
    ReportsWhatFilled
    StatusIsFinal
    FailedMeansNothingDone
    NoLostWakeup
    MissingWasSkipped
    TopIsCurrent
    RowsOnlyWhenFresh
    CleanExitClosesSink
    FiresAreConfirmed
PROPERTIES
    CallEnds
    StreamHeals
    Resyncs
    ExitsWhenAsked
CHECK_DEADLOCK FALSE
