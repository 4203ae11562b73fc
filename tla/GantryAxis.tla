----------------------------- MODULE GantryAxis -----------------------------
(***************************************************************************)
(* The gantry component (src/viam/module/gantry_axis.cpp) on top of the    *)
(* motor component (servo_motor.cpp) and the position frame of the         *)
(* controller below it (servo_controller.cpp): who knows which zero, over  *)
(* concurrent clients, homing runs, reset_zero_position and rebuilds of a  *)
(* lost bus.                                                               *)
(*                                                                         *)
(* Every request to the motor is a call of another component, so other     *)
(* clients act between two of them.  Positions are whole motor             *)
(* revolutions, on which the conversions to counts are exact; the motor    *)
(* has no absolute_encoder attribute, so its status reports homed only     *)
(* after a homing run.  A caller that awaits a run that ends leaves its    *)
(* call with an error at once (ServoController shows that it does).        *)
(*                                                                         *)
(* home_revs_ is a plain double that requests read and write without a     *)
(* lock; an aligned access is one step, so a reader sees the value before  *)
(* or after a concurrent write.                                            *)
(***************************************************************************)
EXTENDS Integers

CONSTANTS
  Clients,   \* threads that serve requests to the axis
  Nobody,    \* the motion slot is free
  Moves,     \* the millimetre targets asked for
  Length,    \* length_mm
  MmPerRev,  \* mm_per_rev
  Sign,      \* travel_direction
  Track,     \* the positions the carriage can be at, its home end at 0 (external)
  Shifts,    \* the origins the drive may count from (external)
  HomeEnds,  \* where a homing method may leave the carriage (external)
  Offsets    \* the positions given to reset_zero_position

ASSUME AxisAssumption ==
  /\ Nobody \notin Clients
  /\ Length \in Nat /\ MmPerRev \in Nat \ {0} /\ Sign \in {-1, 1}
  /\ Moves \subseteq Int /\ \A mm \in Moves : mm % MmPerRev = 0
  /\ Track \subseteq Int /\ 0 \in Track /\ HomeEnds \subseteq Track
  /\ Shifts \subseteq Int /\ Offsets \subseteq Int

VARIABLES
  \* the carriage and the drive (external)
  phys,       \* where the carriage is
  shift,      \* the drive's count minus phys
  \* the controller
  connected,  \* is_disconnected() is false
  zero,       \* zero_offset_counts
  homed,      \* homed
  homeCounts, \* home_counts
  slot,       \* the client whose call owns the motion slot
  target,     \* the raw target of the move under way, 0 without one
  homingRun,  \* a homing run is under way
  \* the axis and its clients
  homeRevs,   \* home_revs_
  pc,         \* where a client's request is
  arg,        \* what it carries to its next step
  \* history
  homePhys,   \* where the last homing run that attained home ended
  current,    \* the clients whose reply is about that run
  stored,     \* home_revs_ is about that run
  rezeroed,   \* reset_zero_position has been called since
  asked,      \* the millimetres of a client's move
  disturbed   \* something else moved the carriage or a frame since the move was asked for

driveVars   == <<phys, shift>>
frameVars   == <<zero, homed, homeCounts>>
motionVars  == <<slot, target, homingRun>>
clientVars  == <<pc, arg>>
historyVars == <<homePhys, current, stored, rezeroed, asked, disturbed>>
vars == <<driveVars, connected, frameVars, motionVars, homeRevs, clientVars, historyVars>>

Pcs == {"Idle", "Cleared", "GoTo", "Await", "Done", "Home", "Homing", "Attained",
        "Restore", "Reply", "Store"}

TypeOK ==
  /\ phys \in Track /\ shift \in Shifts
  /\ connected \in BOOLEAN
  /\ zero \in Int /\ homed \in BOOLEAN /\ homeCounts \in Int
  /\ slot \in Clients \cup {Nobody}
  /\ target \in Int /\ homingRun \in BOOLEAN
  /\ homeRevs \in Int
  /\ pc \in [Clients -> Pcs]
  /\ arg \in [Clients -> Int]
  /\ homePhys \in Track /\ current \subseteq Clients /\ stored \in BOOLEAN
  /\ rezeroed \in BOOLEAN
  /\ asked \in [Clients -> 0 .. Length]
  /\ disturbed \subseteq Clients

Init ==
  /\ phys \in Track /\ shift \in Shifts
  /\ connected = TRUE
  /\ zero = 0 /\ homed = FALSE /\ homeCounts = 0
  /\ slot = Nobody /\ target = 0 /\ homingRun = FALSE
  /\ homeRevs = 0
  /\ pc = [c \in Clients |-> "Idle"] /\ arg = [c \in Clients |-> 0]
  /\ homePhys = 0 /\ current = {} /\ stored = FALSE /\ rezeroed = FALSE
  /\ asked = [c \in Clients |-> 0] /\ disturbed = {}

raw == phys + shift

\* position_revs
PositionRevs == raw - zero

\* mm_to_revs, revs_to_mm
MmToRevs(mm)   == homeRevs + Sign * (mm \div MmPerRev)
RevsToMm(revs) == Sign * (revs - homeRevs) * MmPerRev

\* get_position, once homed() has let it through
GetPosition == RevsToMm(PositionRevs)

Goes(c, label) == pc' = [pc EXCEPT ![c] = label]

\* A request that is answered, or refused, carries nothing on.
Answered(c) ==
  /\ Goes(c, "Idle")
  /\ arg' = [arg EXCEPT ![c] = 0]
  /\ asked' = [asked EXCEPT ![c] = 0]
  /\ disturbed' = disturbed \ {c}

\* The clients with a move between the request and the answer, but for those in S.
MovingBut(S) == {c \in Clients \ S : asked[c] # 0 \/ pc[c] \in {"Cleared", "GoTo", "Await", "Done"}}

-----------------------------------------------------------------------------
(***************************************************************************)
(* move_to_position.                                                       *)
(***************************************************************************)

\* homed() asks the motor for its status; a target outside the axis is refused.
MoveUnbounded(c, mm) ==
  /\ pc[c] = "Idle"
  /\ homed
  /\ Goes(c, "Cleared")
  /\ asked' = [asked EXCEPT ![c] = mm]
  /\ UNCHANGED <<driveVars, connected, frameVars, motionVars, homeRevs, arg, homePhys,
                 current, stored, rezeroed, disturbed>>

Move(c, mm) ==
  /\ pc[c] = "Idle"
  /\ homed
  /\ mm >= 0 /\ mm <= Length
  /\ Goes(c, "Cleared")
  /\ asked' = [asked EXCEPT ![c] = mm]
  /\ UNCHANGED <<driveVars, connected, frameVars, motionVars, homeRevs, arg, homePhys,
                 current, stored, rezeroed, disturbed>>

MoveConverts(c) ==
  /\ pc[c] = "Cleared"
  /\ arg' = [arg EXCEPT ![c] = MmToRevs(asked[c])]
  /\ Goes(c, "GoTo")
  /\ UNCHANGED <<driveVars, connected, frameVars, motionVars, homeRevs, historyVars>>

\* maybe_recover_bus, which go_to and home() call first: the rebuilt run has no
\* reference and a free slot (reset_run_state) and keeps the software zero; ...
Rebuild(c) ==
  /\ pc[c] \in {"GoTo", "Home"} /\ ~connected
  /\ connected' = TRUE
  /\ homed' = FALSE
  /\ homeCounts' = 0
  /\ slot' = Nobody
  /\ UNCHANGED <<driveVars, zero, target, homingRun, homeRevs, clientVars, historyVars>>

\* ... or the rebuild fails, or the call is refused for a reason that changes
\* nothing (degraded, emergency stop, not energized, no homing method).
Refused(c) ==
  /\ pc[c] \in {"GoTo", "Home"}
  /\ Answered(c)
  /\ UNCHANGED <<driveVars, connected, frameVars, motionVars, homeRevs, homePhys, current,
                 stored, rezeroed>>

\* go_to: the target in the drive's frame is the zeroed one plus the zero.
RawTargetUnzeroed(revs) == revs
RawTarget(revs) == revs + zero

GoTo(c) ==
  /\ pc[c] = "GoTo" /\ connected
  /\ slot = Nobody
  /\ slot' = c
  /\ target' = RawTarget(arg[c])
  /\ Goes(c, "Await")
  /\ UNCHANGED <<driveVars, connected, frameVars, homingRun, homeRevs, arg, historyVars>>

\* The drive reaches the target, if it is on the track.
TargetReached(c) ==
  /\ pc[c] = "Await" /\ slot = c /\ connected
  /\ target - shift \in Track
  /\ phys' = target - shift
  /\ target' = 0
  /\ slot' = Nobody
  /\ Goes(c, "Done")
  /\ disturbed' = disturbed \cup MovingBut({c})
  /\ UNCHANGED <<shift, connected, frameVars, homingRun, homeRevs, arg, homePhys, current,
                 stored, rezeroed, asked>>

MoveReturns(c) ==
  /\ pc[c] = "Done"
  /\ Answered(c)
  /\ UNCHANGED <<driveVars, connected, frameVars, motionVars, homeRevs, homePhys, current,
                 stored, rezeroed>>

-----------------------------------------------------------------------------
(***************************************************************************)
(* home.                                                                   *)
(***************************************************************************)

\* GantryAxis::home asks the motor for its `home` do_command.
Home(c) ==
  /\ pc[c] = "Idle"
  /\ Goes(c, "Home")
  /\ UNCHANGED <<driveVars, connected, frameVars, motionVars, homeRevs, arg, historyVars>>

\* ServoController::home: the run owns the slot.
HomeClaims(c) ==
  /\ pc[c] = "Home" /\ connected
  /\ slot = Nobody
  /\ slot' = c
  /\ homingRun' = TRUE
  /\ Goes(c, "Homing")
  /\ UNCHANGED <<driveVars, connected, frameVars, target, homeRevs, arg, historyVars>>

\* step_lifecycle finds homing_attained.  The drive may count anew from where it
\* found the home end, or go on counting as before.
AttainedAt(end, origin) ==
  /\ homingRun /\ connected
  /\ phys' = end
  /\ shift' = origin
  /\ homeCounts' = end + origin
  /\ homed' = TRUE
  /\ homingRun' = FALSE
  /\ Goes(slot, "Attained")
  /\ homePhys' = end
  /\ current' = {}
  /\ stored' = FALSE
  /\ rezeroed' = FALSE
  /\ disturbed' = disturbed \cup MovingBut({})
  /\ UNCHANGED <<connected, slot, target, homeRevs, arg, asked>>

HomingAttainedKeepsZero(end, origin) ==
  /\ AttainedAt(end, origin)
  /\ UNCHANGED zero

HomingAttained(end, origin) ==
  /\ AttainedAt(end, origin)
  /\ zero' = 0

\* The run fails; the carriage is somewhere.
HomingFails(p) ==
  /\ homingRun
  /\ phys' = p
  /\ homingRun' = FALSE
  /\ slot' = Nobody
  /\ Goes(slot, "Idle")
  /\ disturbed' = disturbed \cup MovingBut({})
  /\ UNCHANGED <<shift, connected, frameVars, target, homeRevs, arg, homePhys, current,
                 stored, rezeroed, asked>>

\* home() frees its slot, which a rebuild may have freed before it, and then
\* restores the torque and the mode by SDO ...
HomeFreesSlot(c) ==
  /\ pc[c] = "Attained"
  /\ slot' = IF slot = c THEN Nobody ELSE slot
  /\ Goes(c, "Restore")
  /\ UNCHANGED <<driveVars, connected, frameVars, target, homingRun, homeRevs, arg,
                 historyVars>>

HomeRestores(c) ==
  /\ pc[c] = "Restore"
  /\ Goes(c, "Reply")
  /\ UNCHANGED <<driveVars, connected, frameVars, motionVars, homeRevs, arg, historyVars>>

\* ... which may throw, and then the axis keeps the reference it had.
HomeRestoreThrows(c) ==
  /\ pc[c] = "Restore"
  /\ Answered(c)
  /\ UNCHANGED <<driveVars, connected, frameVars, motionVars, homeRevs, homePhys, current,
                 stored, rezeroed>>

\* The reply of the `home` do_command carries home_position_revs.
HomeReplies(c) ==
  /\ pc[c] = "Reply"
  /\ arg' = [arg EXCEPT ![c] = homeCounts]
  /\ current' = IF homed THEN current \cup {c} ELSE current \ {c}
  /\ Goes(c, "Store")
  /\ UNCHANGED <<driveVars, connected, frameVars, motionVars, homeRevs, homePhys, stored,
                 rezeroed, asked, disturbed>>

HomeStores(c) ==
  /\ pc[c] = "Store"
  /\ homeRevs' = arg[c]
  /\ stored' = (c \in current)
  /\ current' = current \ {c}
  /\ pc' = [pc EXCEPT ![c] = "Idle"]
  /\ arg' = [arg EXCEPT ![c] = 0]
  /\ disturbed' = disturbed \cup MovingBut({})
  /\ UNCHANGED <<driveVars, connected, frameVars, motionVars, homePhys, rezeroed, asked>>

\* GantryAxis::do_command forwards {"home": true} and passes the reply on, so
\* home_revs_ keeps its value: the client's own call ends here.
HomeForwarded(c) ==
  /\ pc[c] = "Store"
  /\ Answered(c)
  /\ current' = current \ {c}
  /\ UNCHANGED <<driveVars, connected, frameVars, motionVars, homeRevs, homePhys, stored,
                 rezeroed>>

-----------------------------------------------------------------------------
(***************************************************************************)
(* Other clients of the motor, and the bus.                                *)
(***************************************************************************)

\* reset_zero_position: set_zero makes the present position read v.
ResetZero(v) ==
  /\ zero' = raw - v
  /\ rezeroed' = TRUE
  /\ disturbed' = disturbed \cup MovingBut({})
  /\ UNCHANGED <<driveVars, connected, homed, homeCounts, motionVars, homeRevs, clientVars,
                 homePhys, current, stored, asked>>

\* Whatever is under way ends with an error, the carriage somewhere.
EndsWithError(p) ==
  /\ phys' = p
  /\ target' = 0
  /\ homingRun' = FALSE
  /\ slot' = IF slot # Nobody /\ pc[slot] \in {"Await", "Homing"} THEN Nobody ELSE slot
  /\ pc' = [c \in Clients |-> IF pc[c] \in {"Await", "Homing"} THEN "Idle" ELSE pc[c]]
  /\ arg' = [c \in Clients |-> IF pc[c] = "Await" THEN 0 ELSE arg[c]]
  /\ asked' = [c \in Clients |-> IF pc[c] = "Await" THEN 0 ELSE asked[c]]
  /\ disturbed' = {c \in disturbed \cup MovingBut({}) : pc[c] # "Await"}

\* GantryAxis::stop and Motor::stop: a halt, and one that is not lost to a target
\* of the same batch, which ServoController shows it can be.
Stop(p) ==
  /\ connected /\ slot # Nobody
  /\ EndsWithError(p)
  /\ UNCHANGED <<shift, connected, frameVars, homeRevs, homePhys, current, stored, rezeroed>>

\* The bus is lost (on_stop).
BusLost ==
  /\ connected
  /\ connected' = FALSE
  /\ EndsWithError(phys)
  /\ UNCHANGED <<shift, frameVars, homeRevs, homePhys, current, stored, rezeroed>>

\* Meanwhile the carriage is pushed, or the drive loses power and with it its
\* count.
Dark(p, origin) ==
  /\ ~connected
  /\ phys' = p
  /\ shift' = origin
  /\ disturbed' = disturbed \cup MovingBut({})
  /\ UNCHANGED <<connected, frameVars, motionVars, homeRevs, clientVars, homePhys, current,
                 stored, rezeroed, asked>>

-----------------------------------------------------------------------------
ClientStep(c) ==
  \/ \E mm \in Moves : Move(c, mm)
  \/ MoveConverts(c)
  \/ Rebuild(c)
  \/ Refused(c)
  \/ GoTo(c)
  \/ TargetReached(c)
  \/ MoveReturns(c)
  \/ Home(c)
  \/ HomeClaims(c)
  \/ HomeFreesSlot(c)
  \/ HomeRestores(c)
  \/ HomeRestoreThrows(c)
  \/ HomeReplies(c)
  \/ HomeStores(c)
  \/ HomeForwarded(c)

Next ==
  \/ \E c \in Clients : ClientStep(c)
  \/ \E end \in HomeEnds, origin \in Shifts : HomingAttained(end, origin)
  \/ \E p \in Track : HomingFails(p) \/ Stop(p)
  \/ \E v \in Offsets : ResetZero(v)
  \/ BusLost
  \/ \E p \in Track, origin \in Shifts : Dark(p, origin)

Spec == Init /\ [][Next]_vars

-----------------------------------------------------------------------------
(***************************************************************************)
(* Properties.                                                             *)
(***************************************************************************)

\* What get_position reports is the distance of the carriage from where the
\* last homing run left it, as soon as the axis has kept that run's answer:
\* whatever zero was set before the run, whichever way the drive counts after
\* it, and never with a reference from before a rebuild of the bus.
PositionTrue ==
  homed /\ connected /\ stored /\ ~rezeroed
    => GetPosition = Sign * (phys - homePhys) * MmPerRev

\* A move that returns has brought the axis to the millimetre asked for, as the
\* axis itself reports it, unless another client or an outage interfered.
MoveLands ==
  \A c \in Clients :
    pc[c] = "Done" /\ c \notin disturbed => GetPosition = asked[c]

\* README.md: "`get_position` and `move_to_position` are refused until the motor
\* reports `homed`": no move of the axis runs without a reference.
MovesReferenced == \A c \in Clients : pc[c] = "Await" => homed
=============================================================================
