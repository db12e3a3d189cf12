SPECIFICATION Spec
CONSTANTS
  None = None
  OrStart = 1
  OrEnd = 2
  EntryCutoff = 3
  WhipsawTime = 4
  HardClose = 4
  FomcFlattenTime = None
  MinWidth = 1
  MaxWidth = 8
  Buffer = 1
  SizingMode = "risk_pct"
  FixedContracts = None
  RiskBp = 1000
  MinContracts = 1
  SanityCap = 3
  RScale = 2
  BreakevenR = 1
  Tp1R = 2
  CapR = 3
  Tp1ClosePct = 50
  RunnerMode = "old"
  PointValue = 1
  LossLimitUsd = 5
  LossLimitPct = None
  RangeShapes <- MCRangeShapes
  BarShapes <- MCBarShapes
  Candles <- MCCandles
  Equity = 80
  EndTime = 4
  MaxGap = 1
  FillsOvertake = TRUE
  MaxOrders = 3
  MaxRows = 1
  MaxMishaps = 1
INVARIANTS
  TypeOK
  OpenIsProtected
  SettledBooksAgree
  EntriesGoneAtHardClose
PROPERTIES
  ClosesOpposeTheEntry
CHECK_DEADLOCK FALSE
