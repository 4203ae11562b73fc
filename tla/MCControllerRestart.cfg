\* A target pushed while the run is ending, and the next run.
SPECIFICATION RestartSpec
CONSTANTS
  QueueCap = 4
  MaxGen = 1
  Callers = {c1}
  Devs = {"SwitchOnDisabled", "SwitchedOn", "OperationEnabled", "FaultReactionActive", "Fault"}
  FaultResetWindow = 2
  ClearConfirm = 1
  HomingTimeout = 1
  ModeEchoCycles = 1
  MaxPending = 1
INVARIANT OkMeansOwnMotion
\* The threads may all have stopped.
CHECK_DEADLOCK FALSE
