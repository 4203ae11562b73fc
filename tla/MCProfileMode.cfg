SPECIFICATION Spec
CONSTANTS
  Devs = {"SwitchOnDisabled", "SwitchedOn", "OperationEnabled", "Fault"}
  HaltSettle = 2
  HandshakeTimeout = 2
  ModeEchoCycles = 2
  QuickStopSet = TRUE
INVARIANTS
  TypeOK
  NoLostSetpoint
PROPERTIES
  RaisedAfterHalt
  NoCommandSurvives
