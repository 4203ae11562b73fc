# A TLA+ model of viam-ethercat

viam-ethercat is an EtherCAT master and a Viam motor module for CiA402 servo
drives. A real-time thread exchanges process data once per millisecond; the
threads of the motor API talk to it through a command queue and a handful of
atomics. These modules model that machinery from the source, check it with TLC
on small instances, and prove parts of it with TLAPS for all parameters.

Paths below are relative to the repository's `src/` directory.

## 1. The system

| Part | State it keeps | Operations | What makes it correct |
|---|---|---|---|
| `Master` (`ethercat/master.cpp`) | bring-up phase and counters, post-OP grace, bad-exchange streak, fault latch, latched AL code | `init`, `configure`, `bringup_step`, `process`, `close` | OP is declared, given up, and a bus fault latched exactly when the exchanges call for it; the cause of a refusal is kept |
| `SoemBackend` (`ethercat/soem_backend.cpp`) | open port, cached slave state | `open`, `request_state`, `reack_op`, `close`, SDO | the port is never used closed |
| `Runner`/`RtCore` (`ethercat/runner.cpp`) | phase, stop flag, stop reason, controls, thread | `attach`, `start`, `request_stop`, `stop`, the loop `rt_body` | a run ends once, for the true reason, in a bounded window; no exchange after close; `stop()` ends |
| `RxSnapshot` (`ethercat/pdo_cache.cpp`) | sequence number and payload cells | `publish`, `read` | a valid frame is of one publish |
| `CommandQueue` (`ethercat/pdo_cache.cpp`) | bounded queue | `push`, `drain` | coalescing keeps what the last command means |
| CiA402 (`ethercat/cia402.cpp`) | none | `decode`, `Cia402Fsm::step` | the enable ladder |
| `Cia402Sequencer` (`ethercat/cia402_sequencer.hpp`) | four-phase handshake, halt settle, enable history | `step`, `reset` | every set-point is acknowledged or reported; no edge on a halt release |
| `ServoController` (`viam/lib/servo_controller.cpp`) | lifecycle, generations (active, completed, failed), motion slot, wake sequence, homing state | API calls; per cycle `step`, `step_lifecycle`, `publish_state`; `on_stop` | one live move, no orphaned slot, one outcome per move, nobody parked for ever |
| its supervision (`start`, `bring_up`, `maybe_recover_bus`, `reconfigure`) | degraded, bus lost, Runner, Master | rebuild of the bus with retries | a lost bus is recovered once, and no state of the old run leaks into the new |
| `ProfilePositionMode`, `CyclicPositionMode` (`viam/lib/motion_mode.cpp`) | intent, pending set-point, echo wait; trajectory | `go_to`, `set_velocity`, `halt`, `step`, `step_shutdown`, `reset` | no command survives a reset, no move completes unseen |
| `DcPacer` (`ethercat/realtime.hpp`, `dc_sync.hpp`) | next deadline, integral | `advance`, `advance_to_deadline`, `pace` | deadlines stay on the grid, never go back, an overrun costs only what was missed |
| `GantryAxis` (`viam/module/gantry_axis.cpp`) | the motor position of the axis's zero | `home`, `move_to_position`, `get_position`, `stop`, `do_command` | millimetres are those of the last homing run; no move without a reference |
| `ServoMotor`, `main` (`viam/module`) | attributes, cached encoder mode | the Viam API | thin adapters |

Interactions. `ServoController` owns a `Master` and lends it to a one-shot
`Runner`, which calls back `sync_faulted`, `step`, `on_stop` and
`teardown_complete` on its thread. API threads push commands and park on
`wake_seq_`; the real-time thread drains the queue once per cycle, adopts the
move id that rode in the command, and publishes ids as completed or failed.
`stop()` holds `api_mutex_` exclusively while ~Runner raises the flag, waits,
joins and closes the bus. A bus fault ends the run and sets `bus_lost_`; the next
motion call takes the lock, tears everything down and builds a new Master and a
new Runner. The gantry axis is a client of the motor component, several requests
deep, and shares the motor's position frame with every other client of it.

What is hard. Three threads race on the stop cause and flag; a claim of the
motion slot races with other claims and with the end of the move before it;
commands coalesce in a drain; waiters check several atomics between two loads of
the wake sequence; the drive may fault, drop its mode or keep silent in any
cycle; counters decide at boundaries (grace, hold, bound, window, retry budget);
the seqlock depends on two fences; a rebuild races with callers that saw the loss
and with transfers under way, may fail half-way or meet a new loss, and must not
carry state of the old run over; the axis acts on what the motor said a request
ago. PROJECT.json lists each hazard at its line
with the property that watches it.

## 2. The modules

| Module | Models | Extends |
|---|---|---|
| `Master` | the operations of the Master and what they do to the drive's AL state | |
| `MasterHistory` | one caller in the code's order, plus the history of exchange outcomes | `Master` |
| `MasterProofs` | theorems about `MasterHistory` | `MasterHistory`, TLAPS |
| `Runner` | owner thread, real-time thread and an asking thread over the `Master` | `Master` |
| `RunLife` | what a `Runner` promises its owner: the life of one run | |
| `RunnerProofs` | theorems about `Runner`, and that it implements `RunLife` | `Runner`, TLAPS |
| `RxSnapshot` | the seqlock, access by access, under the C++ memory model | |
| `RxSnapshotProofs` | theorems about `RxSnapshot` | `RxSnapshot`, TLAPS |
| `Cia402` | state names, statusword bits, `Cia402Fsm::step` | |
| `CommandQueue` | `push` and the fields of a drained batch | |
| `ServoController` | one run of the controller: API threads against the cycle | `CommandQueue`, `Cia402` |
| `ServoControllerProofs` | theorems about `ServoController` | `ServoController`, TLAPS |
| `ControllerRestart` | `ServoController` over a rebuild, with its command queue | `ServoController` |
| `Supervisor` | start, stop, reconfigure, bring-up retries and recovery over many runs | `RunLife` |
| `SupervisorProofs` | theorems about `Supervisor` | `Supervisor`, TLAPS |
| `ProfileMode` | `ProfilePositionMode` and `Cia402Sequencer` | `Cia402` |
| `ProfileModeProofs` | theorems about `ProfileMode` | `ProfileMode`, TLAPS |
| `Pacer` | `DcPacer` and `dc_phase_correction` against a moving clock | |
| `PacerProofs` | theorems about `Pacer` | `Pacer`, TLAPS |
| `GantryAxis` | the axis, the motor component and the controller's position frame | |
| `GantryAxisProofs` | theorems about `GantryAxis` | `GantryAxis`, TLAPS |
| `MC*` | TLC instances | the module they name |

How state and actions correspond: each VARIABLE is commented with the member it
stands for, each action with the function. Notes on the abstractions:

- **Master.** An exchange is the working counter it returns: -1 (no frame), one
  short, full, one more than expected, the four cases the code tells apart. The
  AL status code is zero or not. The drive (external) answers AL requests, may
  refuse OP, and may drop out of OP at any time. A `configure()` that throws
  leaves every run counter as it was, as in the code; owners build a new `Master`
  to retry, so `MasterHistory` brings a Master up once.
- **Runner.** The two stores of a stop request are two steps for the owner, the
  asking thread and the fault path. Time is counted in loop periods while the
  owner waits: each iteration takes between 1 and `MaxOverrun` periods. `MaxOverrun = 4`
  equals the factor by which `stop()` multiplies its bound, which makes explicit
  what that bound assumes. A wedged `step()` is an action of its own. The 20
  cycles of slack are kept as in the code, and the 250 ms floor is a constant
  (0 in the run: the harder case). A `stop_join_timeout` given by the embedding
  program replaces the bound in the code and is not modelled.
- **RxSnapshot.** A load may return any value not older than what the reader has
  synchronised with. A relaxed load's knowledge takes effect at the acquire
  fence. One reader is enough: readers write nothing.
- **CommandQueue.** A push concurrent with a drain falls before or after the
  batch. `QuickStop` and `SetZero` commands exist in the type but are never
  pushed.
- **ServoController.** One cycle (`step` with `step_lifecycle` and
  `publish_state`) is one action: its stores are separate in the code, but the
  wake bump follows them, so a waiter that looks between two of them looks again.
  The claim of the slot (load, compare-and-swap), the push, the load of
  `wake_seq_`, the check and the park are separate steps of the callers. The
  motion mode is its last command, the controlword its bit 7 (`ProfileMode` has
  the rest). Checks that only refuse a call (degraded, emergency stop, mode
  switch while moving) are left out: that gives the model more behaviours, never
  fewer. A call may begin after the loop has left: nothing in `go_to` looks at
  `rt_exited_` before the push. `await_move` looks once at all published ids, which
  the code loads one after another; a cycle between two loads bumps `wake_seq_`, so
  whether the caller parks is the same and only the exit it takes may differ. A
  homing call that throws keeps the slot while it restores mode and torque. The
  drive's statusword decodes to one of the eight states; the undecodable patterns
  of `cia402.cpp:92` are not among the inputs. `reset_cycles_` is kept
  modulo the window, which is all the code reads.
- **ProfileMode.** The lifecycle is reduced to "Ladder", "Operational", "Homing",
  "Stopping". Targets may come in any cycle, more often than the slot allows. The
  drive reports any state, any mode and any bits 10 and 12 in every cycle; 0x6061
  is mapped (without it the code takes every mode as adopted). The echo counter
  stops one past its bound; the code's goes on, and its equality test would hold
  again only after the counter has wrapped. The bit-4
  counters kept for diagnostics are left out.
- **RunLife, Supervisor.** `RunLife` has the phase an owner reads, the reason the
  controls are told, whether a stop was asked for, and the port. `Runner` is shown
  to implement it, and `Supervisor` uses its actions for the runs it builds, so
  what is shown of many runs rests on what is shown of one. The real-time thread's
  `on_stop()` is two steps, because callers look at its flags without the lock:
  first `rt_exited_`, then the rest. A caller's move is reduced to refused, waiting
  or over, and an SDO transfer holds the shared lock. The bus is good or bad; a bad
  one (the drive and the real-time privileges of the process included) may fail any
  step and need not. The 5 ms poll of `attempt_bringup` may act inside `on_stop()`;
  its `kBringupWaitCap` is left out, since the Runner bounds the bring-up. A
  waiter that has not looked before `reset_run_state` stays parked
  on the new run, as in the code.
- **ControllerRestart.** One rebuild, when every caller of the old run has left.
  `left` and `foreign` are history: which commands in the queue, and which active
  target, come from the run before.
- **Pacer.** The clock moves at will between the steps of the thread, also between
  two readings in the catch-up loop (by less than a period there, or the loop need
  not end). Units are chosen so that gains and clamp are small; the proofs hold for
  all of them. An interrupted `clock_nanosleep` is an early wake-up: the code does
  not look at its result.
- **GantryAxis.** Every request to the motor is a call of another component, so
  other clients act between two of them. Positions are whole revolutions, on which
  the conversions are exact; the rounding and the int32 saturation of
  `revs_to_counts` are outside the model. `set_zero` is one step: what happens
  between its load and its store counts as before the store. A `Stop` is a halt
  that is not lost to a target of the same batch (the run `controller_halt` shows
  that one can be). The drive may count from another origin after a homing
  run or an outage. The motor has no absolute encoder, so `homed` means a homing
  run of this session.

## 3. What the runs check

Bounds are small because every counter only matters at its boundary: one below,
at, and one past it.

| Run | Instance | Checks | Distinct states |
|---|---|---|---|
| `master` | hold 2, bound 5, nudge every 2, grace 2, threshold 2, 6 steady exchanges | `TypeOK`, `FaultExact`, `BringupExact`, `OperationalExact`, `CauseKept` | 9 856 |
| `runner` | one control, window 2, hold 2, bound 3, threshold 2, overrun 4 | `TypeOK`, `BusOpenWhileRunning`, `ToldExactlyOnce`, `ReasonTruthful`, `WindowBounded`, `AbortOnlyWhenStuck`, `StopEnds`, `FaultEndsRun`, `ImplementsRunLife` | 44 899 |
| `snapshot` | two cells, three publishes | `TypeOK`, `NoTornRead`, `ReadReturns` | 5 709 |
| `controller` | two callers, two moves, five drive states, one operator command beside the callers' own | `TypeOK`, `OneLiveMove`, `NoOrphanedSlot`, `FirstTerminalWins`, `HomingExclusive`, `NoLostWakeup`, `ResetEdgesReal` | 959 392 |
| `supervisor` | two callers, two attempts, two outages | `TypeOK`, `BusUsedOpen`, `LossRemembered`, `OneRebuildPerLoss`, `LockReleased`, `BusRecovered` | 47 364 |
| `profile` | halt settle 2, time-outs 2, four drive states | `TypeOK`, `NoLostSetpoint`, `RaisedAfterHalt`, `NoCommandSurvives` | 69 435 |
| `pacer` | period 4, correction up to 4, stalls of 9, lags of 3, seven calls | `TypeOK`, `OverrunExact`, `CatchUpEnds` | 154 769 |
| `axis` | two clients, a track of three revolutions, two origins, one offset | `TypeOK`, `PositionTrue`, `MoveLands` | 867 820 |

`FaultExact`, `BringupExact` compare the counters' decisions with a definition
over the whole history: six steady exchanges hold a grace of two, a full bad run
after it and a good exchange on either side. The five drive states of
`controller` are the ones the code's branches separate; with all eight CiA402
states the set of reachable states is the same. Queue capacity 4 is above what the
callers and the operator can push before a drain; with capacity 2 a target is
dropped, nobody notices, and TLC shows `NoOrphanedSlot` violated (the hazard
about a full queue). Two move ids are enough for one move to be judged by another's id.
The symmetry of the callers is sound in the safety run: no property names one.

In `supervisor` two attempts give a first, a last and a retry between them, and
two outages let a loss fall into the rebuild after another. In `pacer` the
correction is as large as the period, so that the guard of `advance()` matters,
and a stall is more than two periods. The track of `axis` lets a move, a homing
run and a push end at different places.

Four more runs end in a violation, each of one property that quotes a comment or
the README. They are listed as findings in PROJECT.json:

| Run | Property | What happens |
|---|---|---|
| `controller_halt` | `HaltLatches` | motion pushed before a halt in the same batch is applied after it; the halt is lost |
| `controller_restart` | `OkMeansOwnMotion` | a target left in the queue by a dead run is run by the next one, and a new call with the same id is told success for it |
| `profile_complete` | `CompletedWasAcknowledged` | the previous mode's bit 10 completes a move whose set-point was never raised |
| `axis_reference` | `MovesReferenced` | a move of the axis after a bus loss passes the `homed` check, rebuilds the bus, and runs without a reference |

Other behaviours the models contain, which no run states as a property:

- a homing request that shares its cycle with a fault or its batch with a disable
  is dropped while its caller stays parked (`servo_controller.cpp:663`, against the
  comment at 610);
- a disable on the enable ladder is consumed and the drive energized
  (`servo_controller.cpp:625`);
- ids drawn in one order and claimed in the other (`servo_controller.cpp:1414`): a
  waiter returns success with its target still in the queue; or, when the move with
  the larger id has completed before its caller checks and the one with the smaller
  id completes next, `completed_generation` goes backwards and the first caller
  parks for a move that is over, although line 1130 says that completed and failed
  "hold the LAST terminal gen" of ids that are monotonic (TLC shows it in the
  instance of `controller`: thirteen states to a parked `go_to` whose id has ended);
- a stop during a homing run takes the sequencer's never-energized branch and
  switches a moving drive off although a quick stop is configured
  (`cia402_sequencer.hpp:141`);
- a poll between the two halves of `on_stop()` on the last attempt
  (`servo_controller.cpp:299`): `bring_up` returns on the strength of its comment at
  272, "degraded_ and the AL/fault tier are already set by
  on_stop(BringupAborted)", `maybe_recover_bus` finds the drive not degraded and
  logs a recovery, `degraded_` is stored afterwards with `bus_lost_` clear, and no
  later call rebuilds. `BusRecovered` names this case, `JudgedInsideOnStop`, as the
  one in which clients do not get the bus back; without the disjunct TLC finds it,
  and with it shows that there is no other;
- a run that reaches OP and faults between two polls leaves `bus_lost_` set; if a
  later attempt succeeds, the next motion call takes the healthy run down;
- in `GantryAxis`, a `home` whose mode restore throws, or that was sent through
  `do_command`, leaves the motor homed and the axis with its old zero; this is why
  `PositionTrue` speaks of the time after the axis has kept the answer. It does not
  speak either once the answer to an older run is stored over that to a newer one
  (`gantry_axis.cpp:181`), after which the axis reports from the older reference. A
  `reset_zero_position` after homing shifts the axis too.

`CHECK_DEADLOCK FALSE` appears where the system really stops: a closed bus, an
ended run.

## 4. Fairness

- `Runner`: the real-time thread is SCHED_FIFO and paced, so its loop keeps
  stepping unless wedged; the owner's loop in `stop()` polls with a sleep; a
  thread between the two stores of `request_stop()` finishes it. Weak fairness on
  these three. A wedge, the drive, and the calls that begin a stop have none.
- `RxSnapshot`: only a `read()` under way is fair; the writer may stop half-way
  through a publish.
- `Supervisor`: the real-time thread ends its bring-up one way or the other (the
  Runner bounds it) and its window after it; a thread that holds the lock goes on:
  weak fairness. A call under way, and a client that calls again after a refusal,
  get their turn at the lock: strong fairness, which is what "the client's retry
  loop is the reconnect policy" (`servo_controller.cpp:1041`) assumes. The bus owes
  nothing: `BusRecovered` is conditional on it staying good.
- `Pacer`: the catch-up loop waits for nothing, so it keeps stepping.
- `ServoController` is checked for safety only. That nobody is parked for ever is
  stated as the invariant `NoLostWakeup`: a parked caller no bump has reached finds
  no end, stop, fault or homing result published that it returns or throws for.
  That a newer move is active makes a waiter return too, but its adoption bumps
  nothing: such a waiter learns of it at the next bump. A move itself need not end,
  and the code gives it no time-out.

## 5. What is proved

`MasterProofs` (for every value of the thresholds, bounds and the number of
exchanges): `TypeCorrect`, `FaultLatch`, `BringupDecision`, `OperationalFlag`,
`CauseLatch`. The properties speak of the whole history while the code keeps
counters, so none is inductive. `IInv` adds what each counter says of the
history: `GraceInv` (what is left of the grace is a function of the number of
exchanges), `BadStreakInv` and `HoldStreakInv` (each streak is the trailing run
of bad or clean exchanges, maximal, and the former lies after the grace),
`FirstInv` (no earlier hold), `CauseInv` (a nudge's sight survives in the cache
until the latch takes it), and `FreshInv` for the phases before. A completed run
of `HoldConfirm` or `FaultThreshold` exchanges that ends here is then the
counter at its threshold. `Invariance` proves `IInv`, one lemma per action.

`RxSnapshotProofs` (any set of cells, any retry budget, any number of
publishes): `TypeCorrect`, `UntornRead`. The invariant relates what the reader
may still load to what it has loaded: a cell loaded from publish v obliges the
re-read, after the fence, to return at least 2v - 1, and an even value obliges
the cells to be at least as new as it. Equality of the two reads of the sequence
number then pins every cell to the same publish.

`RunnerProofs` (any set of controls, any window, any configuration of the Master
below): `TypeCorrect`, `BusStaysOpen`, `ToldOnce`, `ToldTheTruth`, `WindowKept`,
`WaitIsEnough`. `IInv` says where the two threads stand relative to each other:
`OwnerInv` (the owner's place and what has been built or is gone), `PhaseInv` (the
published phase at each place of the real-time thread), `WindowInv` (steps taken
and steps left add up to the window), `ReasonInv` (a cause is latched before the
flag is raised, and each cause has its place) and `WaitInv`: what the owner has
waited plus four periods for every iteration the thread still has to make is at
most 4 (window + 1), which is below the bound of `stop()`. This is where
`MaxOverrun <= 4` enters. `RunnerImplementsRunLife` shows that every step of the
Runner with its Master is a step of `RunLife` or a stutter, with the set of reasons
told as the mapped variable; `CausesOf`, `CausesTold` and `CausesSame` compute
that set before and after the loop tells the controls.

`ServoControllerProofs` (any number of callers and moves, any queue, windows and
time-outs): `TypeCorrect`, `OneMove`, `FirstEndStands`, `HomingAlone`,
`WakeupsKept`, `EdgesReal`, `SlotOwned`. None of the properties is inductive, for
one reason: whether a move has ended is known to the real-time thread, whose
knowledge reaches the callers through three atomics that each hold one id. `IInv`
says what is known where.

- `IdInv`: an id is drawn once, so no two calls under way share one, and no id in
  the slot, the queue or among the ends is undrawn.
- `SeenInv`: until its target is in the queue, and for a homing run always, the
  real-time thread has never seen a call's id; so it is neither active nor ended.
- `EndInv`: what is published as completed or failed is on record as ended, and
  `FirstTerminalWins`. An abort or a completion needs an active id that is neither
  published value, and `ended` is what a value once published leaves behind.
- `SlotInv`: a caller past its claim has its id in the slot, or its move has ended;
  what a claim has read is free or ended. With `IdInv` this is `OneLiveMove`.
- `QueueInv`: a queue with a target in it has a last one, the one the drain adopts.
  Stated as an invariant it needs no induction over the queue.
- `HomingInv`: while the run lasts, a homing request is in the queue or running,
  never both, its result is open and its caller waits; and a request about to be
  pushed has been announced. `HomingExclusive` follows with `OneLiveMove`.
- `NoLostWakeup` itself: each value a waiter looks at is followed by a bump, and
  what it saw at its check, after it had loaded `wake_seq_`, is still so.
- `ResetInv`: bit 7 is up only in the first cycle of a reset window, which is what
  the action property `ResetEdgesReal` needs of the word before.

`SlotOwned` needs one more invariant, `OwnerInv`: a slot that is not empty belongs
to a caller that has not pushed, to the last target of the queue, or to the active
move with no target behind it. It is preserved only by a push that gets through, so
the theorem is `Spec /\ []RoomInQueue => []NoOrphanedSlot`: the code ignores the
result of `push()`, and with a full queue the property is false (section 3). The
queue holds 64 commands unless configured otherwise and is drained every cycle.

Work on `WakeupsKept` corrected the property: as first stated it also covered the
return for a newer active id, which two moves never refute and three do.

`ProfileModeProofs` (any settle and time-out bounds, any drive): `TypeCorrect`,
`SetpointsKept`, `EdgeAfterHalt`, `CommandsReset`. `HaltInv` says that the
sequencer's own copy of the last word knows of a halt on the wire wherever the mode
is stepped; homing and the ladder write words behind its back, but none of these
reaches Operational. `FreshInv` says that a pending set-point, a handshake under
way and a raised bit 4 come from a target since the last reset. `SetpointInv`
strengthens `NoLostSetpoint` to every lifecycle and every intent, since a move
waits through a velocity run or a homing run, and adds that a handshake in its
second half has been acknowledged unless a newer target waits behind it: without
that, the step from AwaitAckClear to Idle would lose the move. `PhaseFacts` and
`StepFacts` say what one cycle of the sequencer does.

`SupervisorProofs` (any number of callers, attempts and outages):
`TypeCorrect`, `UsersHaveABus`, `LossKept`, `OneRebuild`. `LockInv` places every
thread inside or outside the lock, `ObjectInv` says which of Master
and Runner exist at each place, `CauseInv` that a run ends by request only under a
thread that drops it and that every other end has published its flag, and
`MarkerInv` that a served motor without a run has the marker set.

`PacerProofs` (any period, shift, gains, clamp, clock): `TypeCorrect`,
`OverrunCost`, `DeadlineMonotonic`. The invariant adds that a sleeping thread's
deadline is ahead of the clock. `NeverBackwards` is only proved; it follows from
the lemma `StepPositive` about the phase controller.

`GantryAxisProofs` (any clients, scale, direction, track and origins):
`TypeCorrect`, `PositionExact`, `MovesLand`. `SlotInv` says that the slot belongs
to the client under way, `FrameInv` when the drive's zero, the controller's home
position and the axis's copy of it agree, and `MoveInv` that an undisturbed move
carries the target of its own request. `TravelBack` is the arithmetic: the two
conversions are inverse on whole revolutions.

Assumptions: the ASSUMEs of the modules, which say that parameters are naturals
(not zero where the code excludes it), that there is a cell, that an iteration
takes at most four periods, and that the clock moves by less than a period
between two readings of the catch-up loop, and that the track holds the place
where it starts and moves of the axis are whole revolutions.

Only model-checked: liveness (`StopEnds`, `FaultEndsRun`, `ReadReturns`,
`LockReleased`, `BusRecovered`, `CatchUpEnds`), which this prover does not reach.
Every invariant and every action property of a passing run is stated by a theorem,
`NoOrphanedSlot` under the hypothesis above.

## 6. What is not modelled

Trajectory generation (`CyclicPositionMode`, `TrapezoidGenerator`, wpilib): the
set-points are floating point, and what makes them right is about those numbers.
Unit conversions, SDO codecs, PDO layouts, configuration validation, logging: no
state, tested by tables in `tests/`. Of `ServoMotor`, the SDO verbs and the
absolute-encoder verdict: the cached encoder mode is forgotten only if somebody
asks for the status while the bus is down (`servo_motor.cpp:473`), a staleness to
keep in mind. `main`: registration. Memory locking and scheduling: system calls.
SOEM, the kernel and the drive: external, as the environment.

## 7. Where to go on

The modules were written in the order `Master`, `Runner`, `RxSnapshot`,
`ServoController`, `ProfileMode`, then `RunLife` with its refinement, `Supervisor`,
`ControllerRestart`, `Pacer`, `GantryAxis`. Worth adding:

1. an abstract motion slot (free, claimed, ended) that `ServoController`
   implements, and `ProfileMode` under its discipline;
2. `CyclicPositionMode` over an abstract ramp (reseed, shutdown, completion).
