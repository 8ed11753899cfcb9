SPECIFICATION FairSpec
CONSTANTS
  None = None
  Qty = 1
  Dust = 1
  MaxQty = 1
  StartInventory <- MCFlat
  PartialFills = FALSE
  ClipReduceOnly = FALSE
  LateFills = TRUE
  SlowFills = FALSE
  PushLag = FALSE
  UnaskedPushes = FALSE
  PushLoss = FALSE
  Snapshots <- MCSnapshots
  Crashes = FALSE
  MaxStream = 2
  MaxLate = 1
  MaxOverlay = 1
  VenueBound = 2
  MaxConsecutiveFailures = 2
  DailyLossCap = 2
  HasCooldown = TRUE
  PnlValues <- MCPnl
  PnlBound = 1
PROPERTY
  DriftCaught
