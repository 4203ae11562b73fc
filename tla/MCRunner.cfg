SPECIFICATION FairSpec
CONSTANTS
  UseDc = TRUE
  DcOpGateCycles = 1
  DcSettleCycles = 1
  HoldConfirmCycles = 2
  NudgeInterval = 2
  AwaitBound = 3
  MaxWkcErrors = 2
  ExpectedWkc = 3
  Controls = {c1}
  TeardownCfg = 2
  RequireRealtime = TRUE
  JoinFloor = 0
  MaxOverrun = 4
INVARIANTS
  TypeOK
  BusOpenWhileRunning
  ToldExactlyOnce
  ReasonTruthful
  WindowBounded
  AbortOnlyWhenStuck
PROPERTIES
  StopEnds
  FaultEndsRun
  ImplementsRunLife
\* The run really ends once the Runner is gone.
CHECK_DEADLOCK FALSE
