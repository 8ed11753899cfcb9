SPECIFICATION Spec
CONSTANTS
  None = None
  Qty = 1
  Dust = 1
  MaxQty = 2
  StartInventory <- MCStart
  PartialFills = FALSE
  ClipReduceOnly = TRUE
  LateFills = FALSE
  SlowFills = FALSE
  PushLag = FALSE
  UnaskedPushes = FALSE
  PushLoss = FALSE
  Snapshots <- MCSnapshots
  Crashes = FALSE
  MaxStream = 2
  MaxLate = 0
  MaxOverlay = 1
  VenueBound = 3
  MaxConsecutiveFailures = 3
  DailyLossCap = 2
  HasCooldown = TRUE
  PnlValues <- MCPnl
  PnlBound = 1
INVARIANT
  Hedged
