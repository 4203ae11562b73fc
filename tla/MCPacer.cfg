SPECIFICATION FairSpec
CONSTANTS
  Period = 4
  Shift = 2
  MaxCorrection = 4
  PGain = 1
  IGain = 1
  DcTimes = {0, 1, 2, 4}
  Stalls = {0, 9}
  Lags = {0, 3}
  MaxTicks = 7
INVARIANTS
  TypeOK
  OverrunExact
PROPERTIES
  CatchUpEnds
\* The calls of pace() have a bound.
CHECK_DEADLOCK FALSE
