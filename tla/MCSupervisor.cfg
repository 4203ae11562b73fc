SPECIFICATION FairSpec
CONSTANTS
  Callers = {c1, c2}
  Admin = admin
  Nobody = nobody
  MaxAttempts = 2
  MaxOutages = 2
INVARIANTS
  TypeOK
  BusUsedOpen
  LossRemembered
PROPERTIES
  OneRebuildPerLoss
  LockReleased
  BusRecovered
CHECK_DEADLOCK FALSE
