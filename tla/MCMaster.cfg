SPECIFICATION Spec
CONSTANTS
  UseDc = TRUE
  DcOpGateCycles = 2
  DcSettleCycles = 2
  HoldConfirmCycles = 2
  NudgeInterval = 2
  AwaitBound = 5
  MaxWkcErrors = 2
  ExpectedWkc = 3
  MaxCycles = 6
INVARIANTS
  TypeOK
  FaultExact
  BringupExact
  OperationalExact
  CauseKept
\* The bus really stops once it is closed.
CHECK_DEADLOCK FALSE
