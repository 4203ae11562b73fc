---------------------------- MODULE ProfileMode -----------------------------
(***************************************************************************)
(* ProfilePositionMode of src/viam/lib/motion_mode.cpp with the            *)
(* Cia402Sequencer of src/ethercat/cia402_sequencer.hpp under it, cycle by *)
(* cycle on the real-time thread: the mode echo, the four-phase            *)
(* new-set-point handshake, halt, and the stop through a quick stop.       *)
(*                                                                         *)
(* Of the controller around them this module keeps where its lifecycle is  *)
(* (only Operational steps the mode), the batch of each cycle and the fate *)
(* of the active move.  A target may come at any cycle: who may send one   *)
(* is the business of ServoController.  The drive is the environment: it   *)
(* reports any state, mode (0x6061 is mapped) and statusword bits 10, 12.  *)
(***************************************************************************)
EXTENDS Integers, Cia402

CONSTANTS
  Devs,              \* the CiA402 states the drive reports
  HaltSettle,        \* kSetpointHaltSettleCycles
  HandshakeTimeout,  \* kHandshakeTimeoutCycles
  ModeEchoCycles,    \* kModeEchoCycles
  QuickStopSet       \* quick_stop_decel > 0

ASSUME ProfileAssumption ==
  /\ Devs \subseteq DevStates
  /\ HaltSettle \in Nat \ {0}
  /\ HandshakeTimeout \in Nat
  /\ ModeEchoCycles \in Nat \ {0}
  /\ QuickStopSet \in BOOLEAN

VARIABLES
  where,        \* the controller's lifecycle: "Ladder" is all that is neither of the others
  move,         \* the fate of the active generation
  intent,       \* intent_
  halted,       \* halted_
  pending,      \* pending_new_setpoint_
  echoWait,     \* echo_wait_cycles_
  handshake,    \* handshake_
  cyclesLeft,   \* handshake_cycles_remaining_
  idle,         \* state_.handshake_idle
  haltClear,    \* halt_clear_cycles_
  lastHalt,     \* bit 8 of the sequencer's last_cw_
  announced,    \* announced_op_
  modeChecked,  \* mode_checked_
  word,         \* the controlword on the wire: its kind, bit 8 and bit 4
  setpoint,     \* history: how far the active move's set-point has got
  fresh         \* history: a target came since the mode was last reset

modeVars      == <<intent, halted, pending, echoWait>>
sequencerVars == <<handshake, cyclesLeft, idle, haltClear, lastHalt, announced, modeChecked>>
vars == <<where, move, modeVars, sequencerVars, word, setpoint, fresh>>

Modes      == {"PP", "PV", "Homing", "Other"}
Handshakes == {"Idle", "WriteTarget", "AwaitAck", "ClearBit4", "AwaitAckClear"}
Words      == [kind : {"Enabled", "Ladder", "QuickStop", "Off"}, halt : BOOLEAN, bit4 : BOOLEAN]
Word(kind, halt, bit4) == [kind |-> kind, halt |-> halt, bit4 |-> bit4]

TypeOK ==
  /\ where \in {"Ladder", "Operational", "Homing", "Stopping"}
  /\ move \in {"None", "Live", "Completed", "Failed"}
  /\ intent \in Modes
  /\ halted \in BOOLEAN /\ pending \in BOOLEAN
  /\ echoWait \in 0 .. (ModeEchoCycles + 1)
  /\ handshake \in Handshakes
  /\ cyclesLeft \in 0 .. HandshakeTimeout
  /\ idle \in BOOLEAN
  /\ haltClear \in 0 .. HaltSettle
  /\ lastHalt \in BOOLEAN /\ announced \in BOOLEAN /\ modeChecked \in BOOLEAN
  /\ word \in Words
  /\ setpoint \in {"None", "Waiting", "Raised", "Acknowledged", "Dropped"}
  /\ fresh \in BOOLEAN

Init ==
  /\ where = "Ladder" /\ move = "None"
  /\ intent = "PP" /\ halted = FALSE /\ pending = FALSE /\ echoWait = 0
  /\ handshake = "Idle" /\ cyclesLeft = 0 /\ idle = TRUE
  /\ haltClear = HaltSettle /\ lastHalt = FALSE /\ announced = FALSE
  /\ modeChecked = FALSE
  /\ word = Word("Off", FALSE, FALSE)
  /\ setpoint = "None" /\ fresh = FALSE

\* One cycle's inputs: the drive's state, the mode it echoes, and bits 12 and 10,
\* which are read only while bit 2 is set.
Inputs ==
  {seen \in [dev : Devs, echo : Modes, ack : BOOLEAN, reached : BOOLEAN] :
     seen.ack \/ seen.reached => OperationEnabledBit(seen.dev)}

\* One cycle's batch.
Batches == [halt : BOOLEAN, disable : BOOLEAN, target : BOOLEAN, velocity : BOOLEAN]

-----------------------------------------------------------------------------
(***************************************************************************)
(* The commands, as step_lifecycle routes them: halt(), go_to() and        *)
(* set_velocity(), in that order.                                          *)
(***************************************************************************)

IntentOf(b)  == IF b.velocity THEN "PV" ELSE IF b.target THEN "PP" ELSE intent
HaltedOf(b)  == ~b.target /\ ~b.velocity /\ (halted \/ b.halt)
PendingOf(b) == pending \/ b.target

\* abort_active_move
AbortedIf(aborts, m) == IF aborts /\ m = "Live" THEN "Failed" ELSE m

\* A halt or a disable fails the move there was; a target makes a new one.
MoveOf(b) == IF b.target THEN "Live" ELSE AbortedIf(b.halt \/ b.disable, move)
SetpointOf(b) == IF b.target THEN "Waiting" ELSE setpoint

\* publish_state completes a live move that is_target_reached(): the intent is a
\* position, no handshake is under way, and the drive reports the target reached.
Published(m, seen) ==
  IF /\ m = "Live" /\ OperationEnabledBit(seen.dev)
     /\ intent' = "PP" /\ idle' /\ seen.reached
  THEN "Completed" ELSE m

(***************************************************************************)
(* reset(), of the mode and of the sequencer.                              *)
(***************************************************************************)
PendingKept == pending
PendingReset == FALSE

Reset ==
  /\ intent' = "PP" /\ halted' = FALSE /\ pending' = PendingReset /\ echoWait' = 0
  /\ handshake' = "Idle" /\ cyclesLeft' = 0 /\ idle' = TRUE
  /\ haltClear' = HaltSettle /\ lastHalt' = FALSE /\ announced' = FALSE
  /\ modeChecked' = FALSE
  /\ fresh' = FALSE

SetpointDropped(b) == IF MoveOf(b) = "Live" THEN "Dropped" ELSE SetpointOf(b)

-----------------------------------------------------------------------------
(***************************************************************************)
(* Cia402Sequencer::step in the steady loop.  (A drive fault never gets    *)
(* here: the controller takes it first.)                                   *)
(***************************************************************************)

\* Cycles the words on the wire have had Halt clear, up to HaltSettle.
HaltClearUncapped == IF lastHalt THEN 0 ELSE haltClear + 1
HaltClearNow ==
  IF lastHalt THEN 0 ELSE IF haltClear < HaltSettle THEN haltClear + 1 ELSE haltClear

\* Bit 4 may rise only once Halt has been clear long enough.
HaltSettledAlways == TRUE
HaltSettled == HaltClearNow >= HaltSettle

\* An acknowledge, or its clearing, that does not come in time.
TimedOutSilently(from, ack) == FALSE
TimedOut(from, ack) ==
  /\ cyclesLeft = 0
  /\ (from = "AwaitAck" /\ ~ack) \/ (from = "AwaitAckClear" /\ ack)

\* The handshake's next phase, from the phase it is in once a new set-point has
\* restarted it.
NextPhase(from, ack) ==
  CASE from = "Idle" -> "Idle"
    [] from = "WriteTarget" -> IF HaltSettled THEN "AwaitAck" ELSE "WriteTarget"
    [] from = "AwaitAck" -> IF ack THEN "ClearBit4"
                            ELSE IF cyclesLeft = 0 THEN "Idle" ELSE "AwaitAck"
    [] from = "ClearBit4" -> "AwaitAckClear"
    [] from = "AwaitAckClear" -> IF ~ack \/ cyclesLeft = 0 THEN "Idle" ELSE "AwaitAckClear"

Handshake(from, ack) ==
  LET to == NextPhase(from, ack)
  IN  /\ handshake' = to
      /\ cyclesLeft' = IF to \in {"AwaitAck", "AwaitAckClear"}
                       THEN IF from = to THEN cyclesLeft - 1 ELSE HandshakeTimeout
                       ELSE cyclesLeft
      /\ idle' = (to = "Idle")

\* Bit 4 is high from the raise to the cycle that sees the acknowledge.
Bit4(from, ack) ==
  NextPhase(from, ack) = "AwaitAck" \/ NextPhase(from, ack) = "ClearBit4"

\* The drive has dropped to SwitchedOn in a mode that is not the commanded one:
\* the sequencer asks the Runner to stop.
Mismatch(mode, seen) ==
  /\ ~modeChecked
  /\ SwitchedOnBit(seen.dev) /\ ~OperationEnabledBit(seen.dev)
  /\ seen.echo # mode

SequencerStep(mode, halt, newSetpoint, seen) ==
  LET from    == IF newSetpoint THEN "WriteTarget" ELSE handshake
      driving == OperationEnabledBit(seen.dev)
      bit4    == driving /\ mode # "PV" /\ Bit4(from, seen.ack)
      halts   == driving /\ halt
  IN  /\ haltClear' = HaltClearNow
      /\ IF driving /\ mode # "PV"
         THEN Handshake(from, seen.ack)
         ELSE /\ handshake' = from
              /\ idle' = (idle /\ ~newSetpoint)
              /\ UNCHANGED cyclesLeft
      /\ announced' = (announced \/ driving)
      /\ modeChecked' = (modeChecked \/ /\ SwitchedOnBit(seen.dev) /\ ~driving
                                        /\ seen.echo = mode)
      /\ word' = Word(IF driving THEN "Enabled" ELSE "Ladder", halts, bit4)
      /\ lastHalt' = halts

-----------------------------------------------------------------------------
(***************************************************************************)
(* ProfilePositionMode::step, with what the controller does around it.     *)
(***************************************************************************)

\* Until 0x6061 echoes the intent no set-point goes out.  A wait that is over is
\* reported once, and the intent falls back to the mode the drive runs.
WaitNow == IF echoWait > ModeEchoCycles THEN echoWait ELSE echoWait + 1

StepOperational(b, seen) ==
  LET mode       == IntentOf(b)
      echoed     == seen.echo = mode
      notAdopted == ~echoed /\ WaitNow = ModeEchoCycles
      newSp      == echoed /\ PendingOf(b)
      from       == IF newSp THEN "WriteTarget" ELSE handshake
      inStep     == OperationEnabledBit(seen.dev) /\ mode # "PV"
      fails      == notAdopted \/ (inStep /\ TimedOut(from, seen.ack))
  IN  /\ where = "Operational" /\ seen.dev # "Fault" /\ ~b.disable
      /\ SequencerStep(mode, HaltedOf(b), newSp, seen)
      /\ intent' = IF notAdopted THEN seen.echo ELSE mode
      /\ halted' = HaltedOf(b)
      /\ pending' = (PendingOf(b) /\ ~echoed /\ ~notAdopted)
      /\ echoWait' = IF echoed THEN 0 ELSE WaitNow
      /\ move' = Published(AbortedIf(fails, MoveOf(b)), seen)
      /\ setpoint' = IF inStep /\ from = "AwaitAck" /\ seen.ack THEN "Acknowledged"
                     ELSE IF inStep /\ from = "WriteTarget" /\ HaltSettled THEN "Raised"
                     ELSE SetpointOf(b)
      /\ fresh' = (fresh \/ b.target)
      /\ where' = IF Mismatch(mode, seen) THEN "Stopping" ELSE "Operational"

\* The drive faults, or the operator disables it: the mode is reset.  The fault
\* fails the move of this very batch too, the disable only the one before it.
LeaveOperational(b, seen) ==
  /\ where = "Operational" /\ (seen.dev = "Fault" \/ b.disable)
  /\ where' = "Ladder"
  /\ Reset
  /\ word' = Word("Off", FALSE, FALSE)
  /\ move' = Published(AbortedIf(seen.dev = "Fault", MoveOf(b)), seen)
  /\ setpoint' = SetpointDropped(b)

StartHoming(b, seen) ==
  /\ where = "Operational" /\ seen.dev # "Fault" /\ ~b.disable
  /\ where' = "Homing"
  /\ Reset
  /\ word' = Word("Enabled", FALSE, FALSE)
  /\ move' = Published(MoveOf(b), seen)
  /\ setpoint' = SetpointDropped(b)

\* The commands of a cycle that does not step the mode only change its intent.
Adopted(b, seen) ==
  /\ intent' = IntentOf(b)
  /\ halted' = HaltedOf(b)
  /\ pending' = PendingOf(b)
  /\ fresh' = (fresh \/ b.target)
  /\ UNCHANGED <<echoWait, sequencerVars>>
  /\ move' = Published(MoveOf(b), seen)
  /\ setpoint' = SetpointOf(b)

\* Homing runs with bit 4 high once mode 6 is echoed.
StepHoming(b, seen) ==
  /\ where = "Homing" /\ seen.dev # "Fault" /\ ~b.halt /\ ~b.disable
  /\ Adopted(b, seen)
  /\ word' = Word("Enabled", FALSE, seen.echo = "Homing")
  /\ UNCHANGED where

\* Its end resets the mode: off after a fault, a halt or a disable, with Halt on
\* the wire after an error or a timeout.
EndHoming(b, seen) ==
  /\ where = "Homing"
  /\ where' = "Ladder"
  /\ Reset
  /\ word' \in IF seen.dev = "Fault" \/ b.halt \/ b.disable
               THEN {Word("Off", FALSE, FALSE)}
               ELSE [kind : {"Enabled"}, halt : BOOLEAN, bit4 : {FALSE}]
  /\ move' = Published(MoveOf(b), seen)
  /\ setpoint' = SetpointDropped(b)

\* Enabling, Resetting and Disabled: the ladder's words carry neither bit.  The
\* mode is stepped from the cycle after the one that finds the drive enabled in
\* the commanded mode; a fault met on the way resets it.
StepLadder(b, seen) ==
  /\ where = "Ladder"
  /\ word' = Word(IF seen.dev = "Fault" THEN "Off" ELSE "Ladder", FALSE, FALSE)
  /\ \/ /\ Adopted(b, seen)
        /\ where' \in IF seen.dev = "OperationEnabled" /\ seen.echo = IntentOf(b)
                      THEN {"Ladder", "Operational"} ELSE {"Ladder"}
     \/ /\ seen.dev = "Fault"
        /\ Reset
        /\ move' = MoveOf(b)
        /\ setpoint' = SetpointDropped(b)
        /\ UNCHANGED where

\* The Runner's stopping window begins.
Stop ==
  /\ where # "Stopping"
  /\ where' = "Stopping"
  /\ UNCHANGED <<move, modeVars, sequencerVars, word, setpoint, fresh>>

\* step_shutdown: the quick stop if one is configured and the sequencer has driven
\* the drive since its reset, until the drive is off; else the voltage goes off.
QuickStops(seen) ==
  /\ QuickStopSet
  /\ announced /\ ~FaultBit(seen.dev) /\ seen.dev # "SwitchOnDisabled"

StepShutdown(seen) ==
  /\ where = "Stopping"
  /\ haltClear' = IF QuickStopSet THEN HaltClearNow ELSE haltClear
  /\ word' = Word(IF QuickStops(seen) THEN "QuickStop" ELSE "Off", FALSE, FALSE)
  /\ UNCHANGED <<where, modeVars, handshake, cyclesLeft, idle, lastHalt, announced,
                 modeChecked, setpoint, fresh>>
  /\ move' = Published(move, seen)

-----------------------------------------------------------------------------
Next ==
  \/ \E b \in Batches, seen \in Inputs :
        \/ StepOperational(b, seen)
        \/ LeaveOperational(b, seen)
        \/ StartHoming(b, seen)
        \/ StepHoming(b, seen)
        \/ EndHoming(b, seen)
        \/ StepLadder(b, seen)
  \/ Stop
  \/ \E seen \in Inputs : StepShutdown(seen)

Spec == Init /\ [][Next]_vars

-----------------------------------------------------------------------------
(***************************************************************************)
(* Properties.                                                             *)
(***************************************************************************)

\* The cycle in which the handshake raises bit 4 for a new set-point.
Raises ==
  /\ where = "Operational" /\ where' = "Operational"
  /\ word'.bit4 /\ handshake' = "AwaitAck" /\ cyclesLeft' = HandshakeTimeout

\* A new set-point is never raised together with a halt release: the word before
\* had bit 8 clear, whatever halts, moves, homing runs, refused modes and resets
\* came before (some drives ignore such an edge).
RaisedAfterHalt == [][Raises => ~word.halt]_vars

\* No command survives a fault, a disable or a homing run: in Operational bit 4
\* is high only for a target that came after the mode was last reset.
NoCommandSurvives ==
  [][where = "Operational" /\ word'.bit4 => fresh']_vars

\* No live positioning move is forgotten: its set-point waits for the mode echo,
\* is in the handshake, or was acknowledged by the drive, unless a reset dropped
\* it (a target drained together with a disable, or before a fault on the ladder).
NoLostSetpoint ==
  where = "Operational" /\ move = "Live" /\ intent = "PP" /\ setpoint # "Dropped" =>
    pending \/ handshake # "Idle" \/ setpoint = "Acknowledged"

(***************************************************************************)
(* What comments of the repository say.                                    *)
(***************************************************************************)

\* servo_controller.hpp, completed_generation: the "gen that reached target".  A
\* move published as completed was at least acknowledged by the drive.
CompletedWasAcknowledged ==
  [][/\ where = "Operational" /\ where' = "Operational"
     /\ move # "Completed" /\ move' = "Completed"
     => setpoint' = "Acknowledged"]_vars
=============================================================================
