------------------------- MODULE ControllerRestart --------------------------
(***************************************************************************)
(* ServoController over a rebuild of its bus: the run of ServoController   *)
(* ends with a bus fault, and the next motion call builds a new one        *)
(* (maybe_recover_bus; how it does so, and with how many attempts, is      *)
(* Supervisor).  reset_run_state sets everything a run publishes, the move *)
(* ids and the slot back to their first values.  The command queue is not  *)
(* part of the run: it is a member of the controller and keeps what was    *)
(* pushed after the last drain.                                            *)
(***************************************************************************)
EXTENDS ServoController

VARIABLES
  runs,     \* how many runs there have been
  left,     \* history: how many commands in the queue the run before has left
  foreign   \* history: the active target was pushed for a call of the run before

restartVars == <<runs, left, foreign>>

\* The bound on runs: one rebuild.
MaxRuns == 2

RestartInit == Init /\ runs = 1 /\ left = 0 /\ foreign = FALSE

\* The latest target of the queue, which the drain adopts, is a left-over.
LatestIsLeft == \A i \in (left + 1) .. Len(queue) : queue[i].kind # "SetTarget"

StepOfRun ==
  /\ Next
  /\ left' = IF queue' = <<>> THEN 0 ELSE left
  /\ foreign' = IF CycleStep /\ Adopts THEN LatestIsLeft ELSE foreign
  /\ UNCHANGED runs

\* maybe_recover_bus down to spawn_runner: the thread of the dead run is joined
\* and reset_run_state has run.  The wake bump of on_stop came long before, and
\* every caller of the dead run has left its call.
Restart ==
  /\ runs < MaxRuns
  /\ rt = "Exited" /\ busLost /\ stopper = "Idle"
  /\ \A c \in Callers : pc[c] = "Idle"
  /\ runs' = runs + 1
  /\ busLost' = FALSE /\ stopping' = FALSE /\ rtExited' = FALSE
  /\ nextGen' = 0 /\ slot' = 0
  /\ active' = 0 /\ completed' = 0 /\ failed' = 0 /\ ended' = {}
  /\ faulted' = FALSE /\ homing' = "Idle"
  /\ rt' = "Running" /\ lifecycle' = "Init" /\ motion' = "Hold" /\ resetBit' = FALSE
  /\ left' = Len(queue)
  /\ foreign' = FALSE
  /\ UNCHANGED <<queue, homingCycles, homingEcho, resetCycles, clearStreak, callerVars,
                 woken, stopper>>

RestartNext == StepOfRun \/ Restart

RestartSpec == RestartInit /\ [][RestartNext]_<<vars, restartVars>>

-----------------------------------------------------------------------------
\* servo_controller.cpp, maybe_recover_bus: "once the link is back a call
\* rebuilds, then executes its motion normally": a call that is told success
\* is not told so because of a target that the run before has left behind.
OkMeansOwnMotion ==
  \A c \in Callers :
    pc[c] = "Check" /\ verb[c] = "go_to" /\ MoveOk(gen[c]) => ~foreign
=============================================================================
