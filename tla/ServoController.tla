-------------------------- MODULE ServoController ---------------------------
(***************************************************************************)
(* ServoController of src/viam/lib/servo_controller.cpp during one run of  *)
(* its Runner: the threads of the motor API (go_to and go_for, home,       *)
(* set_rpm, halt, disable, enable, fault_reset, stop) against the          *)
(* real-time thread, which drains the command queue, steps the lifecycle   *)
(* and publishes the outcome of moves once per cycle.                      *)
(*                                                                         *)
(* The drive is the environment: in every cycle it may report any CiA402   *)
(* state, any mode echo and any homing or target bit.  The motion mode is  *)
(* reduced to the last command it took since its reset, and the            *)
(* controlword to its fault-reset bit.  The checks of the API that         *)
(* only refuse a call (degraded, e-stop, powered, mode switch while        *)
(* moving) are not modelled: a refused call changes nothing, and whatever  *)
(* they have seen may have changed by the time the call acts.  A call may  *)
(* begin after the loop has left; the rebuild of a lost bus, which a       *)
(* motion call looks for first, is not part of this module.                *)
(***************************************************************************)
EXTENDS CommandQueue, Cia402

CONSTANTS
  Callers,           \* threads that call go_to, go_for or home
  Devs,              \* the CiA402 states the drive reports
  FaultResetWindow,  \* fault_reset_window_cycles
  ClearConfirm,      \* fault_reset_clear_confirm_cycles
  HomingTimeout,     \* StartHoming.timeout_cycles
  ModeEchoCycles,    \* kModeEchoCycles
  MaxPending         \* bound on the queue when an operator command is pushed

ASSUME ControllerAssumption ==
  /\ Devs \subseteq DevStates
  /\ FaultResetWindow \in Nat \ {0, 1}
  /\ ClearConfirm \in Nat \ {0}
  /\ HomingTimeout \in Nat \ {0}
  /\ ModeEchoCycles \in Nat \ {0}
  /\ MaxPending \in Nat

VARIABLES
  \* shared: the published state and the API's own atomics
  nextGen,       \* next_generation_
  slot,          \* motion_slot_
  active,        \* active_generation
  completed,     \* completed_generation
  failed,        \* failed_generation
  faulted,       \* faulted
  homing,        \* homing_state
  stopping,      \* stopping_
  rtExited,      \* rt_exited_
  busLost,       \* bus_lost_
  \* the real-time thread
  rt,            \* where the thread is in its cycle
  lifecycle,     \* lifecycle_
  motion,        \* the command the motion mode last took
  resetBit,      \* bit 7 of last_cw_
  homingCycles,  \* homing_cycles_
  homingEcho,    \* homing_echo_wait_
  resetCycles,   \* reset_cycles_, modulo the reset window
  clearStreak,   \* clear_streak_
  \* the API threads
  pc,            \* where a caller is
  verb,          \* the call it makes
  gen,           \* its move id
  cur,           \* the slot value its compare-and-swap expects
  woken,         \* wake_seq_ has moved since the caller loaded it
  stopper,       \* where the thread that calls stop() is
  \* history
  ended          \* move ids published as completed or as failed

moveVars   == <<active, completed, failed, ended>>
stepVars   == <<lifecycle, motion, resetBit, homingCycles, homingEcho, resetCycles, clearStreak>>
rtVars     == <<rt, stepVars>>
callerVars == <<pc, verb, gen, cur>>
endVars    == <<stopping, rtExited, busLost, stopper>>
vars == <<queue, nextGen, slot, moveVars, faulted, homing, rtVars, callerVars, woken,
          endVars>>

Lifecycles == {"Init", "Enabling", "Operational", "Homing", "Resetting", "Disabled"}
Motions    == {"Hold", "Target", "Velocity"}
Verbs      == {"go_to", "home"}
Pcs        == {"Idle", "Claim", "Cas", "Push", "Sdo", "HomePush", "Load",
               "Check", "Parked", "Restore"}

TypeOK ==
  /\ queue \in Seq(Commands) /\ Len(queue) <= QueueCap
  /\ nextGen \in Gens /\ slot \in Gens
  /\ active \in Gens /\ completed \in Gens /\ failed \in Gens
  /\ faulted \in BOOLEAN
  /\ homing \in {"Idle", "Running", "Done", "Failed"}
  /\ stopping \in BOOLEAN /\ rtExited \in BOOLEAN /\ busLost \in BOOLEAN
  /\ rt \in {"Running", "Window", "Exited"}
  /\ lifecycle \in Lifecycles
  /\ motion \in Motions
  /\ resetBit \in BOOLEAN
  /\ homingCycles \in 0 .. (HomingTimeout - 1)
  /\ homingEcho \in 0 .. (ModeEchoCycles - 1)
  /\ resetCycles \in 0 .. (FaultResetWindow - 1)
  /\ clearStreak \in 0 .. (ClearConfirm - 1)
  /\ pc \in [Callers -> Pcs]
  /\ verb \in [Callers -> Verbs]
  /\ gen \in [Callers -> Gens]
  /\ cur \in [Callers -> Gens]
  /\ woken \in [Callers -> BOOLEAN]
  /\ stopper \in {"Idle", "Locked", "Done"}
  /\ ended \subseteq Gens

Init ==
  /\ queue = <<>> /\ nextGen = 0 /\ slot = 0
  /\ active = 0 /\ completed = 0 /\ failed = 0
  /\ faulted = FALSE /\ homing = "Idle"
  /\ stopping = FALSE /\ rtExited = FALSE /\ busLost = FALSE
  /\ rt = "Running" /\ lifecycle = "Init" /\ motion = "Hold" /\ resetBit = FALSE
  /\ homingCycles = 0 /\ homingEcho = 0 /\ resetCycles = 0 /\ clearStreak = 0
  /\ pc = [c \in Callers |-> "Idle"] /\ verb = [c \in Callers |-> "go_to"]
  /\ gen = [c \in Callers |-> 0] /\ cur = [c \in Callers |-> 0]
  /\ woken = [c \in Callers |-> FALSE]
  /\ stopper = "Idle"
  /\ ended = {}

\* bump_wake: whoever has loaded wake_seq_ will not park, or is woken.
WakeIf(bump) ==
  woken' = [c \in Callers |-> woken[c] \/ (bump /\ pc[c] \in {"Check", "Parked"})]

-----------------------------------------------------------------------------
(***************************************************************************)
(* step_lifecycle: the routing of the batch, common to all states.         *)
(***************************************************************************)

\* Does abort_active_move fail g?  Not if there is none or it has completed.
AbortsAnyMove(g) == g # 0
Aborts(g) == g # 0 /\ completed # g

\* halt and disable cancel the move that was active before this batch ...
CancelsActive == (Has("Halt") \/ Has("Disable")) /\ Aborts(active)

\* ... then a new target is adopted, and a new velocity after it.
Adopts == Has("SetTarget") /\ LatestGen("SetTarget") # active
ActiveRouted == IF Adopts THEN LatestGen("SetTarget") ELSE active
MotionRouted ==
  IF Has("SetVelocity") THEN "Velocity"
  ELSE IF Adopts THEN "Target"
  ELSE IF HaltSupersedes THEN "Hold" ELSE motion

\* A homing request outside Operational is failed.
HomingRefused == Has("StartHoming") /\ lifecycle # "Operational"

-----------------------------------------------------------------------------
(***************************************************************************)
(* The end of a cycle.                                                     *)
(***************************************************************************)

\* What a cycle reads of the drive: the state its statusword decodes to, whether
\* the fault code is that of the emergency stop (read in Fault only), and whether
\* the target is reached (read when powered only).
Inputs ==
  {seen \in [dev : Devs, estop : BOOLEAN, atTarget : BOOLEAN] :
     /\ seen.estop => seen.dev = "Fault"
     /\ seen.atTarget => OperationEnabledBit(seen.dev)}

\* publish_state finds move g live and the target reached, and completes it.
\* m: the command of the motion mode, which reports no target in a velocity run.
Completes(g, failedNow, m, atTarget) ==
  /\ g # 0 /\ completed # g /\ failedNow # g
  /\ atTarget /\ m # "Velocity"

\* The rest of a cycle once its state has chosen: the lifecycle moves to lc, the
\* motion mode to m, the word w goes out, and the outcome is published.  late:
\* abort_active_move is called after the adoption; outcome: the homing result
\* published, "None" if none is.  A caller that looks between these stores
\* looks again after the bump that follows them.
EndCycle(seen, lc, m, w, late, outcome) ==
  LET g         == ActiveRouted
      cancelled == IF CancelsActive THEN {active} ELSE {}
      aborted   == IF late /\ Aborts(g) THEN {g} ELSE {}
      failedNow == IF aborted # {} THEN g ELSE IF cancelled # {} THEN active ELSE failed
      done      == IF Completes(g, failedNow, m, seen.atTarget) THEN {g} ELSE {}
  IN  /\ rt = "Running"
      /\ Drained
      /\ lifecycle' = lc
      /\ motion' = m
      /\ resetBit' = (w = "FaultReset")
      /\ active' = g
      /\ failed' = failedNow
      /\ completed' = IF done # {} THEN g ELSE completed
      /\ ended' = ended \cup cancelled \cup aborted \cup done
      /\ homing' = IF outcome # "None" THEN outcome
                   ELSE IF HomingRefused THEN "Failed" ELSE homing
      /\ faulted' = FaultBit(seen.dev)
      /\ WakeIf(\/ cancelled \cup aborted \cup done # {}
                \/ HomingRefused \/ outcome # "None"
                \/ FaultBit(seen.dev) /\ ~faulted)
      /\ UNCHANGED <<rt, nextGen, slot, callerVars, endVars>>

\* enter_resetting: no command survives, and the first reset edge goes out
\* unless the drive reports the emergency stop.
EnterResetting(seen, late, outcome) ==
  /\ resetCycles' = 0
  /\ clearStreak' = 0
  /\ EndCycle(seen, "Resetting", "Hold", IF seen.estop THEN "DisableVoltage" ELSE "FaultReset",
             late, outcome)

(***************************************************************************)
(* step_lifecycle: one action per state.                                   *)
(***************************************************************************)

StepInit(seen) ==
  /\ lifecycle = "Init"
  /\ \/ /\ seen.dev = "Fault"
        /\ EnterResetting(seen, FALSE, "None")
     \/ /\ seen.dev # "Fault"
        /\ EndCycle(seen, "Enabling", MotionRouted, "DisableVoltage", FALSE, "None")
        /\ UNCHANGED <<resetCycles, clearStreak>>
  /\ UNCHANGED <<homingCycles, homingEcho>>

\* Held at SwitchedOn until the drive echoes the commanded mode.
StepEnabling(seen, echoed) ==
  /\ lifecycle = "Enabling"
  /\ \/ /\ seen.dev = "Fault"
        /\ EnterResetting(seen, FALSE, "None")
     \/ /\ seen.dev # "Fault"
        /\ IF ~echoed /\ seen.dev \in {"SwitchedOn", "OperationEnabled"}
           THEN EndCycle(seen, "Enabling", MotionRouted, FsmStep(seen.dev, "SwitchedOn"),
                        FALSE, "None")
           ELSE EndCycle(seen, IF seen.dev = "OperationEnabled" THEN "Operational" ELSE "Enabling",
                        MotionRouted, FsmStep(seen.dev, "OperationEnabled"), FALSE, "None")
        /\ UNCHANGED <<resetCycles, clearStreak>>
  /\ UNCHANGED <<homingCycles, homingEcho>>

\* modeFault: the motion mode reports a mode not adopted or a set-point not
\* acknowledged, and drops its command.
StepOperational(seen, modeFault) ==
  /\ lifecycle = "Operational"
  /\ \/ /\ seen.dev = "Fault"
        /\ EnterResetting(seen, TRUE, "None")
        /\ UNCHANGED <<homingCycles, homingEcho>>
     \/ /\ seen.dev # "Fault" /\ Has("Disable")
        /\ EndCycle(seen, "Disabled", "Hold", "DisableVoltage", FALSE, "None")
        /\ UNCHANGED <<homingCycles, homingEcho, resetCycles, clearStreak>>
     \/ /\ seen.dev # "Fault" /\ ~Has("Disable") /\ Has("StartHoming")
        /\ homingCycles' = 0
        /\ homingEcho' = 0
        /\ EndCycle(seen, "Homing", "Hold", "EnableOperation", FALSE, "None")
        /\ UNCHANGED <<resetCycles, clearStreak>>
     \/ /\ seen.dev # "Fault" /\ ~Has("Disable") /\ ~Has("StartHoming")
        /\ EndCycle(seen, "Operational", IF modeFault THEN "Hold" ELSE MotionRouted,
                   "EnableOperation", modeFault, "None")
        /\ UNCHANGED <<homingCycles, homingEcho, resetCycles, clearStreak>>

\* finish_homing: the result is published and the ladder is climbed again.
FinishHoming(seen, lc, w, outcome) ==
  /\ homingCycles' = 0
  /\ homingEcho' = 0
  /\ EndCycle(seen, lc, "Hold", w, FALSE, outcome)
  /\ UNCHANGED <<resetCycles, clearStreak>>

HomingGoesOn(seen, cycles, echo) ==
  /\ homingCycles' = cycles
  /\ homingEcho' = echo
  /\ EndCycle(seen, "Homing", MotionRouted, "EnableOperation", FALSE, "None")
  /\ UNCHANGED <<resetCycles, clearStreak>>

HomingTimedOutLate(cycles) == cycles > HomingTimeout
HomingTimedOut(cycles) == cycles >= HomingTimeout

\* err, attained: the homing bits of the statusword.
StepHoming(seen, echoed, err, attained) ==
  LET cancelled == Has("Disable") \/ Has("Halt")
  IN  /\ lifecycle = "Homing"
      /\ \/ /\ seen.dev = "Fault"
            /\ homingCycles' = 0
            /\ homingEcho' = 0
            /\ EnterResetting(seen, FALSE, "Failed")
         \/ /\ seen.dev # "Fault" /\ cancelled
            /\ FinishHoming(seen, IF Has("Disable") THEN "Disabled" ELSE "Enabling",
                            "DisableVoltage", "Failed")
         \/ /\ seen.dev # "Fault" /\ ~cancelled /\ ~echoed
            /\ IF homingEcho + 1 >= ModeEchoCycles
               THEN FinishHoming(seen, "Enabling", "EnableOperation", "Failed")
               ELSE HomingGoesOn(seen, homingCycles, homingEcho + 1)
         \/ /\ seen.dev # "Fault" /\ ~cancelled /\ echoed
            /\ IF err \/ attained
               THEN FinishHoming(seen, "Enabling", "EnableOperation",
                                 IF err THEN "Failed" ELSE "Done")
               ELSE IF HomingTimedOut(homingCycles + 1)
               THEN FinishHoming(seen, "Enabling", "EnableOperation", "Failed")
               ELSE HomingGoesOn(seen, homingCycles + 1, homingEcho)

\* Is a reset edge due by the window?
EdgeDueAlways(seen, cycles) == seen.dev = "Fault" /\ ~seen.estop
EdgeDue(seen, cycles) == seen.dev = "Fault" /\ ~seen.estop /\ cycles = 0

\* Both counters are dead outside Resetting, which starts by clearing them.
LeaveResetting == resetCycles' = 0 /\ clearStreak' = 0

StepResetting(seen) ==
  LET streak == IF seen.dev = "Fault" THEN 0 ELSE clearStreak + 1
      cycles == (resetCycles + 1) % FaultResetWindow
  IN  /\ lifecycle = "Resetting"
      /\ \/ /\ Has("Disable")
            /\ LeaveResetting
            /\ EndCycle(seen, "Disabled", MotionRouted, "DisableVoltage", FALSE, "None")
         \/ /\ ~Has("Disable") /\ streak >= ClearConfirm
            /\ LeaveResetting
            /\ EndCycle(seen, "Enabling", MotionRouted, FsmStep(seen.dev, "OperationEnabled"),
                       FALSE, "None")
         \/ /\ ~Has("Disable") /\ streak < ClearConfirm
            /\ clearStreak' = streak
            /\ resetCycles' = IF Has("FaultReset") THEN 0 ELSE cycles
            /\ EndCycle(seen, "Resetting", MotionRouted,
                       IF Has("FaultReset") \/ EdgeDue(seen, cycles)
                       THEN "FaultReset" ELSE "DisableVoltage", FALSE, "None")
      /\ UNCHANGED <<homingCycles, homingEcho>>

StepDisabled(seen) ==
  /\ lifecycle = "Disabled"
  /\ EndCycle(seen, IF Has("Enable") THEN "Enabling" ELSE "Disabled", MotionRouted,
             "DisableVoltage", FALSE, "None")
  /\ UNCHANGED <<homingCycles, homingEcho, resetCycles, clearStreak>>

(***************************************************************************)
(* publish_state, and the end of the run.                                  *)
(***************************************************************************)

\* on_stop: the loop finds the Runner asked to stop, at some cycle after stop()
\* has begun, or the bus is lost.  The lifecycle is not
\* stepped again in this run: its state is dead, and reset here as the next
\* run's reset_run_state does.
Leaves(lost) ==
  /\ rt = "Running" /\ (stopping \/ lost)
  /\ rt' = "Window"
  /\ rtExited' = TRUE
  /\ busLost' = lost
  /\ lifecycle' = "Init" /\ resetBit' = FALSE
  /\ homingCycles' = 0 /\ homingEcho' = 0 /\ resetCycles' = 0 /\ clearStreak' = 0
  /\ UNCHANGED <<queue, nextGen, slot, moveVars, faulted, homing, motion, callerVars,
                 stopping, stopper>>

OnStopSilent(lost) == Leaves(lost) /\ WakeIf(FALSE)
OnStop(lost) == Leaves(lost) /\ WakeIf(TRUE)

\* A cycle of the stopping window publishes and drains nothing.
StepStopping(seen) ==
  LET done  == Completes(active, failed, motion, seen.atTarget)
      fault == FaultBit(seen.dev) \/ busLost
  IN  /\ rt = "Window"
      /\ completed' = IF done THEN active ELSE completed
      /\ ended' = IF done THEN ended \cup {active} ELSE ended
      /\ faulted' = fault
      /\ WakeIf(done \/ (fault /\ ~faulted))
      /\ UNCHANGED <<queue, nextGen, slot, active, failed, homing, rtVars, callerVars,
                     endVars>>

RtExit ==
  /\ rt = "Window"
  /\ rt' = "Exited"
  /\ UNCHANGED <<queue, nextGen, slot, moveVars, faulted, homing, stepVars,
                 callerVars, woken, endVars>>

-----------------------------------------------------------------------------
(***************************************************************************)
(* The motor API.                                                          *)
(***************************************************************************)

\* A caller that holds api_mutex_ shared; stop() takes it exclusively.
HoldsLock(c) == pc[c] \in {"Claim", "Cas", "Push"}
MayLock == stopper # "Locked"

GenTerminal(g) == g # 0 /\ (completed = g \/ failed = g)
SlotBusy == slot # 0 /\ ~GenTerminal(slot)

Goto(c, where) == pc' = [pc EXCEPT ![c] = where]

\* A call that returns or throws: nothing of it is left.
Leave(c) ==
  /\ Goto(c, "Idle")
  /\ verb' = [verb EXCEPT ![c] = "go_to"]
  /\ gen' = [gen EXCEPT ![c] = 0]
  /\ cur' = [cur EXCEPT ![c] = 0]
  /\ woken' = [woken EXCEPT ![c] = FALSE]

\* release_motion_slot
SlotKept(g) == slot
SlotReleased(g) == IF slot = g THEN 0 ELSE slot

locals == <<verb, gen, cur, woken>>
sharedButSlot == <<nextGen, moveVars, faulted, rtVars, endVars>>

\* go_to, go_for and home take a move id first ...
Begin(c, v) ==
  /\ pc[c] = "Idle" /\ MayLock
  /\ nextGen < MaxGen
  /\ nextGen' = nextGen + 1
  /\ gen' = [gen EXCEPT ![c] = nextGen + 1]
  /\ verb' = [verb EXCEPT ![c] = v]
  /\ Goto(c, "Claim")
  /\ UNCHANGED <<queue, slot, moveVars, faulted, homing, rtVars, cur, woken, endVars>>

\* ... and then try_claim_motion_slot: load and judge, ...
ClaimLoad(c) ==
  /\ pc[c] = "Claim"
  /\ IF SlotBusy
     THEN Leave(c)
     ELSE /\ cur' = [cur EXCEPT ![c] = slot]
          /\ Goto(c, "Cas")
          /\ UNCHANGED <<verb, gen, woken>>
  /\ UNCHANGED <<queue, slot, homing, sharedButSlot>>

\* ... and swap if it has not changed since.
MaySwapBlindly(c) == TRUE
MaySwap(c) == slot = cur[c]

ClaimSwap(c) ==
  /\ pc[c] = "Cas"
  /\ IF MaySwap(c)
     THEN /\ slot' = gen[c]
          /\ Goto(c, IF verb[c] = "home" THEN "Sdo" ELSE "Push")
     ELSE /\ Goto(c, "Claim")
          /\ UNCHANGED slot
  /\ cur' = [cur EXCEPT ![c] = 0]
  /\ UNCHANGED <<queue, homing, verb, gen, woken, sharedButSlot>>

PushTarget(c) ==
  /\ pc[c] = "Push"
  /\ Push([kind |-> "SetTarget", gen |-> gen[c]])
  /\ Goto(c, "Load")
  /\ UNCHANGED <<slot, homing, locals, sharedButSlot>>

\* home: the homing objects are written by SDO, and a refused one ends the call.
SlotReleasedEarly(c) == 0
SlotDuringHome(c) == slot

HomeWrites(c) ==
  /\ pc[c] = "Sdo"
  /\ \/ /\ homing' = "Running"
        /\ slot' = SlotDuringHome(c)
        /\ Goto(c, "HomePush")
        /\ UNCHANGED locals
     \/ /\ homing' = "Failed"
        /\ Goto(c, "Restore")
        /\ UNCHANGED <<slot, locals>>
  /\ UNCHANGED <<queue, sharedButSlot>>

HomePush(c) ==
  /\ pc[c] = "HomePush" /\ MayLock
  /\ Push([kind |-> "StartHoming", gen |-> gen[c]])
  /\ Goto(c, "Load")
  /\ UNCHANGED <<slot, homing, locals, sharedButSlot>>

\* await_move and await_homing: load wake_seq_, look, park if nothing is decided.
AwaitLoad(c) ==
  /\ pc[c] = "Load"
  /\ Goto(c, "Check")
  /\ UNCHANGED <<queue, slot, homing, locals, sharedButSlot>>

\* Completed, or superseded by a newer move.
MoveOk(g) == completed >= g \/ active > g

AwaitMove(c) ==
  LET g == gen[c]
  IN  /\ pc[c] = "Check" /\ verb[c] = "go_to"
      /\ IF MoveOk(g)
         THEN Leave(c) /\ UNCHANGED slot
         ELSE IF stopping \/ rtExited \/ failed >= g \/ faulted
         THEN Leave(c) /\ slot' = SlotReleased(g)
         ELSE Goto(c, "Parked") /\ UNCHANGED <<locals, slot>>
      /\ UNCHANGED <<queue, homing, sharedButSlot>>

AwaitHoming(c) ==
  /\ pc[c] = "Check" /\ verb[c] = "home"
  /\ IF homing # "Running"
     THEN /\ Leave(c)
          /\ slot' = SlotReleased(gen[c])
          /\ UNCHANGED homing
     ELSE IF stopping \/ rtExited
     THEN /\ homing' = "Failed"
          /\ Goto(c, "Restore")
          /\ UNCHANGED <<locals, slot>>
     ELSE Goto(c, "Parked") /\ UNCHANGED <<locals, slot, homing>>
  /\ UNCHANGED <<queue, sharedButSlot>>

\* A home that throws has written the mode and the torque back by SDO by the
\* time it frees the slot.
HomeThrows(c) ==
  /\ pc[c] = "Restore"
  /\ slot' = SlotReleased(gen[c])
  /\ Leave(c)
  /\ UNCHANGED <<queue, homing, sharedButSlot>>

\* wake_seq_.wait returns once the sequence number has moved.
Wake(c) ==
  /\ pc[c] = "Parked" /\ woken[c]
  /\ Goto(c, "Load")
  /\ woken' = [woken EXCEPT ![c] = FALSE]
  /\ UNCHANGED <<queue, slot, homing, verb, gen, cur, sharedButSlot>>

\* halt, disable, enable, request_fault_reset and set_rpm, from any thread: they
\* push and return.  set_rpm looks at the slot first, without claiming it, so a
\* move may have claimed it by the time of the push.
Operate(kind) ==
  /\ MayLock
  /\ Len(queue) < MaxPending
  /\ Push(Command(kind))
  /\ UNCHANGED <<slot, homing, callerVars, woken, sharedButSlot>>

\* stop(): raise stopping_ and wake the waiters, then drop the Runner, whose
\* teardown raises its flag and joins the thread; the lock is held throughout.
Stop ==
  /\ stopper = "Idle" /\ \A c \in Callers : ~HoldsLock(c)
  /\ stopper' = "Locked"
  /\ stopping' = TRUE
  /\ WakeIf(TRUE)
  /\ UNCHANGED <<queue, nextGen, slot, moveVars, faulted, homing, rtVars, callerVars,
                 rtExited, busLost>>

DropRunner ==
  /\ stopper = "Locked" /\ rt = "Exited"
  /\ stopper' = "Done"
  /\ UNCHANGED <<queue, nextGen, slot, moveVars, faulted, homing, rtVars, callerVars,
                 woken, stopping, rtExited, busLost>>

-----------------------------------------------------------------------------
Cycle ==
  \E seen \in Inputs :
    \/ StepInit(seen)
    \/ \E echoed \in BOOLEAN : StepEnabling(seen, echoed)
    \/ \E modeFault \in BOOLEAN : StepOperational(seen, modeFault)
    \/ \E echoed, err, attained \in BOOLEAN : StepHoming(seen, echoed, err, attained)
    \/ StepResetting(seen)
    \/ StepDisabled(seen)

\* A call under way: it runs on until it parks or returns.
CallGoesOn(c) ==
  \/ ClaimLoad(c)
  \/ ClaimSwap(c)
  \/ PushTarget(c)
  \/ HomeWrites(c)
  \/ HomePush(c)
  \/ AwaitLoad(c)
  \/ AwaitMove(c)
  \/ AwaitHoming(c)
  \/ HomeThrows(c)
  \/ Wake(c)

Next ==
  \/ Cycle
  \/ \E lost \in BOOLEAN : OnStop(lost)
  \/ RtExit
  \/ \E seen \in Inputs : StepStopping(seen)
  \/ \E c \in Callers, v \in {"go_to", "home"} : Begin(c, v)
  \/ \E c \in Callers : CallGoesOn(c)
  \/ \E kind \in {"Halt", "Disable", "Enable", "FaultReset", "SetVelocity"} : Operate(kind)
  \/ Stop
  \/ DropRunner

Spec == Init /\ [][Next]_vars

-----------------------------------------------------------------------------
(***************************************************************************)
(* Properties.                                                             *)
(***************************************************************************)

\* The move of a caller that owns, or thinks it owns, the motion slot.
Claimed(c) ==
  pc[c] \in {"Push", "Sdo", "HomePush", "Load", "Check", "Parked", "Restore"}

QueuedTarget(g) ==
  \E i \in 1 .. Len(queue) : queue[i].kind = "SetTarget" /\ queue[i].gen = g

\* The steps of Cycle: only they drain the queue and move no caller.
CycleStep == rt = "Running" /\ queue' = <<>> /\ UNCHANGED <<rt, pc, stopper>>

\* Of all the callers inside go_to, go_for and home, at most one has a move that
\* has not ended: the slot admits one move at a time, however the claims race
\* with each other and with the publication of the previous move's end.
OneLiveMove ==
  \A c, d \in Callers :
    c # d /\ Claimed(c) /\ Claimed(d) => gen[c] \in ended \/ gen[d] \in ended

\* The slot never stays busy for a move that is gone: a caller is still inside
\* its call, or the real-time thread has the move or will find it in the queue.
NoOrphanedSlot ==
  SlotBusy =>
    \/ \E c \in Callers : Claimed(c) /\ gen[c] = slot
    \/ slot = active
    \/ QueuedTarget(slot)

\* First terminal wins: no move is published both as completed and as failed.
FirstTerminalWins == completed # 0 => completed # failed

\* While the drive runs its homing procedure, the call that asked for it is
\* still waiting for the outcome and no other move is under way.
HomingExclusive ==
  lifecycle = "Homing" /\ ~rtExited /\ ~stopping =>
    /\ homing = "Running"
    /\ \E c \in Callers : Claimed(c) /\ verb[c] = "home"
    /\ \A c \in Callers : Claimed(c) /\ verb[c] = "go_to" => gen[c] \in ended

\* A fault-reset word that recovery presents by itself is a rising edge of bit 7:
\* the word of the cycle before had it low.
ResetEdgesReal ==
  [][CycleStep /\ resetBit' /\ ~Has("FaultReset") => ~resetBit]_vars

\* No wake-up is lost: a caller that is parked, and that no bump has reached
\* since it loaded wake_seq_, would find no end, stop or fault published that it
\* returns or throws for.  (That a newer move has superseded its own bumps
\* nothing: it learns of it when that one ends.)
NoLostWakeup ==
  \A c \in Callers :
    pc[c] = "Parked" /\ ~woken[c] =>
      /\ ~stopping /\ ~rtExited
      /\ verb[c] = "go_to" => completed < gen[c] /\ failed < gen[c] /\ ~faulted
      /\ verb[c] = "home" => homing = "Running"

(***************************************************************************)
(* What comments and documents of the repository say.                      *)
(***************************************************************************)

\* servo_controller.cpp: a halt "latches the mode's halt only when it was the
\* latest stop-relevant command in this drain", and then it does latch.
HaltLatches ==
  [][CycleStep /\ lifecycle = "Operational" /\ HaltSupersedes => motion' = "Hold"]_vars
=============================================================================
