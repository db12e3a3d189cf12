SPECIFICATION Spec
CONSTANTS
  None = None
  c1 = c1
  c2 = c2
  w1 = w1
  w2 = w2
  Configs <- MCConfigs
  Threads <- MCThreads
  OpensAt <- MCOpensAt
  HardCloseAt <- MCHardCloseAt
  Exceptions <- MCExceptions
  DayLength = 6
  WarmupBuffer = 1
  WindDownBuffer = 1
  ScanDays = 5
  FirstDay = 4
  EndTime = 53
  MaxSaves = 2
  MaxFaults = 1
INVARIANT OneConfigPerDate
CHECK_DEADLOCK FALSE
