------------------------------- MODULE Cia402 -------------------------------
(***************************************************************************)
(* The CiA402 vocabulary of src/ethercat/cia402.{hpp,cpp}: the states a    *)
(* statusword decodes to, the statusword bits the code reads, and the      *)
(* goal-seeking Cia402Fsm::step, which answers one controlword per cycle.  *)
(***************************************************************************)

DevStates == {"NotReadyToSwitchOn", "SwitchOnDisabled", "ReadyToSwitchOn",
              "SwitchedOn", "OperationEnabled", "QuickStopActive",
              "FaultReactionActive", "Fault"}

ControlWords == {"DisableVoltage", "Shutdown", "SwitchOn", "EnableOperation",
                 "QuickStop", "FaultReset"}

\* Statusword bit 2, operation_enabled(): it is also set in the state coding of
\* a quick stop and of a fault reaction.
OperationEnabledBit(dev) ==
  dev \in {"OperationEnabled", "QuickStopActive", "FaultReactionActive"}

\* Statusword bit 3, fault().
FaultBit(dev) == dev \in {"FaultReactionActive", "Fault"}

\* Statusword bit 1, switched_on().
SwitchedOnBit(dev) ==
  dev \in {"SwitchedOn", "OperationEnabled", "QuickStopActive", "FaultReactionActive"}

\* The goals the callers of step() ask for: SwitchedOn, OperationEnabled and
\* ReadyToSwitchOn.  A fault comes before any goal.
FsmStep(dev, goal) ==
  IF dev = "Fault" THEN "FaultReset"
  ELSE IF dev = "FaultReactionActive" THEN "DisableVoltage"
  ELSE IF goal = "ReadyToSwitchOn" THEN "Shutdown"
  ELSE IF goal = "SwitchedOn"
       THEN IF dev = "SwitchOnDisabled" THEN "Shutdown" ELSE "SwitchOn"
  ELSE IF dev = "SwitchOnDisabled" THEN "Shutdown"
  ELSE IF dev = "ReadyToSwitchOn" THEN "SwitchOn"
  ELSE IF dev \in {"SwitchedOn", "OperationEnabled", "QuickStopActive"}
       THEN "EnableOperation"
  ELSE "DisableVoltage"
=============================================================================
