SPECIFICATION Spec
CONSTANTS
  None = None
  Qty = 1
  Dust = 1
  MaxQty = 2
  StartInventory <- MCFlat
  PartialFills = FALSE
  ClipReduceOnly = FALSE
  LateFills = FALSE
  SlowFills = FALSE
  PushLag = TRUE
  UnaskedPushes = FALSE
  PushLoss = FALSE
  Snapshots <- MCSnapshots
  Crashes = FALSE
  MaxStream = 2
  MaxLate = 0
  MaxOverlay = 1
  VenueBound = 3
  MaxConsecutiveFailures = 3
  DailyLossCap = 2
  HasCooldown = TRUE
  PnlValues <- MCPnl
  PnlBound = 1
INVARIANT
  CapHeld
