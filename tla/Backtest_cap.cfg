SPECIFICATION BacktestSpec
CONSTANTS
    MaxPosition = 1
    MaxDelay = 2
    MaxInFlight = 1
    NTicks = 3
    MaxGap = 1
INVARIANT CapHolds
CHECK_DEADLOCK FALSE
