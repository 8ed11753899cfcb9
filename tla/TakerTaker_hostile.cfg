SPECIFICATION Spec
CONSTANTS
  None = None
  Qty = 1
  Dust = 1
  MaxQty = 1
  StartInventory <- MCFlat
  PartialFills = FALSE
  ClipReduceOnly = FALSE
  LateFills = TRUE
  SlowFills = TRUE
  PushLag = TRUE
  UnaskedPushes = FALSE
  PushLoss = TRUE
  Snapshots <- MCSnapshots
  Crashes = TRUE
  MaxStream = 2
  MaxLate = 1
  MaxOverlay = 0
  VenueBound = 1
  MaxConsecutiveFailures = 2
  DailyLossCap = 1
  HasCooldown = FALSE
  PnlValues = {}
  PnlBound = 0
INVARIANTS
  HaltStopsOrders
  CacheConverges
PROPERTIES
  ReconcileFirst
