SPECIFICATION Spec
CONSTANTS
  None = None
  OrStart = 1
  OrEnd = 2
  EntryCutoff = 3
  WhipsawTime = 3
  HardClose = 4
  FomcFlattenTime = None
  MinWidth = 1
  MaxWidth = 8
  Buffer = 1
  SizingMode = "risk_pct"
  FixedContracts = None
  RiskBp = 1000
  MinContracts = 1
  SanityCap = 3
  RScale = 2
  BreakevenR = 1
  Tp1R = 2
  CapR = 3
  Tp1ClosePct = 50
  RunnerMode = "old"
  PointValue = 1
  LossLimitUsd = 5
  LossLimitPct = None
  RangeEnd = 2
  RangeShapes <- MCRangeShapes
  Shapes <- MCShapes
  Prices = {4}
  DefaultEquity = 80
  SessionEnd = 5
  MaxLag = 1
  MaxCrashes = 0
  MaxErrors = 0
  Commands = {}
INVARIANT HardCloseLeavesNothing
CHECK_DEADLOCK FALSE
