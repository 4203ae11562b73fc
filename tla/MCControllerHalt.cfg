\* A halt drained together with the motion command before it.
SPECIFICATION Spec
CONSTANTS
  QueueCap = 4
  MaxGen = 1
  Callers = {c1}
  Devs = {"SwitchOnDisabled", "SwitchedOn", "OperationEnabled", "FaultReactionActive", "Fault"}
  FaultResetWindow = 2
  ClearConfirm = 1
  HomingTimeout = 1
  ModeEchoCycles = 1
  MaxPending = 2
PROPERTY HaltLatches
\* The threads may all have stopped.
CHECK_DEADLOCK FALSE
