\* A target that comes before the drive has left another mode.
SPECIFICATION Spec
CONSTANTS
  Devs = {"SwitchOnDisabled", "SwitchedOn", "OperationEnabled", "Fault"}
  HaltSettle = 2
  HandshakeTimeout = 2
  ModeEchoCycles = 2
  QuickStopSet = TRUE
PROPERTY CompletedWasAcknowledged
