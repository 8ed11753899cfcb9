SPECIFICATION Spec
CONSTANTS
  None = None
  MaxCalls = 3
  MaxSigns = 4
  MaxQueue = 1
PROPERTIES
  ClientIdsUnique
