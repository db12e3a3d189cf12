SPECIFICATION Spec
CONSTANTS
  None = None
  OrStart = 1
  OrEnd = 2
  EntryCutoff = 3
  WhipsawTime = 3
  HardClose = 4
  FomcFlattenTime = None
  MinWidth = 1
  MaxWidth = 8
  Buffer = 1
  SizingMode = "risk_pct"
  FixedContracts = None
  RiskBp = 300
  MinContracts = 2
  SanityCap = 5
  RScale = 2
  BreakevenR = 1
  Tp1R = 2
  CapR = 3
  Tp1ClosePct = 50
  RunnerMode = "old"
  PointValue = 2
  LossLimitUsd = 5
  LossLimitPct = None
  Equities <- MCEquities
  StopDistances <- MCStopDistances
INVARIANTS
  SizeWithinRails
  SizeIsLargestAffordable
  RefusedExactlyWhenAbsurd
CHECK_DEADLOCK FALSE
