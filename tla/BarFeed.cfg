SPECIFICATION Spec
CONSTANTS
  None = None
  Timeframe = 2
  Period = 2
  Lookback = 2
  HistoryLen = 2
  Window = 2
  WarmUp = 4
  Shape <- MCShape
  EndTime = 7
  MaxTimeouts = 1
  MaxErrors = 1
INVARIANTS
  TypeOK
  FedInOrder
  OnlyLongGapsLoseBars
  IndicatorsMatch
PROPERTIES
  FeedCatchesUp
CHECK_DEADLOCK FALSE
