SPECIFICATION Spec
CONSTANTS
  QueueCap = 4
  MaxGen = 2
  Callers = {c1, c2}
  Devs = {"SwitchOnDisabled", "SwitchedOn", "OperationEnabled", "FaultReactionActive", "Fault"}
  FaultResetWindow = 2
  ClearConfirm = 2
  HomingTimeout = 2
  ModeEchoCycles = 1
  MaxPending = 1
INVARIANTS
  TypeOK
  OneLiveMove
  NoOrphanedSlot
  FirstTerminalWins
  HomingExclusive
  NoLostWakeup
PROPERTIES
  ResetEdgesReal
\* The threads may all have stopped.
CHECK_DEADLOCK FALSE
SYMMETRY CallerSymmetry
