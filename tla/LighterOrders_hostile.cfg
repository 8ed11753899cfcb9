SPECIFICATION FairSpec
CONSTANTS
  None = None
  MaxCalls = 3
  MaxSigns = 4
  MaxQueue = 1
INVARIANTS
  TypeOK
  NonceNeverAhead
  AcceptedInOrder
  VerdictHolds
  ColdIsFresh
  StaleCostsOne
PROPERTIES
  CallEnds
