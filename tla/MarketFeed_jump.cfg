SPECIFICATION MarketFeedSpec
CONSTANTS
    SkipMessages = TRUE
    FreshTicks = 0
    Nothing = Nothing
    MaxSeq = 3
    MaxWire = 2
    BufferMax = 3
    MaxLinks = 1
INVARIANTS
    JumpsAreResynced
CHECK_DEADLOCK FALSE
