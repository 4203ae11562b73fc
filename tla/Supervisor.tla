----------------------------- MODULE Supervisor -----------------------------
(***************************************************************************)
(* The supervision of ServoController (src/viam/lib/servo_controller.cpp)  *)
(* over many runs: start(), stop(), reconfigure(), the bounded retries of  *)
(* bring_up(), the recovery of a lost bus by the next motion call          *)
(* (maybe_recover_bus), and what a restart does to the calls that wait on  *)
(* the run before.  A run is an instance of RunLife, which Runner          *)
(* implements; its on_stop() hook stores the flags the callers look at.    *)
(*                                                                         *)
(* A caller makes go_to calls (go_for differs in its target only) or SDO   *)
(* transfers.  The claim of the motion slot and the wait protocol are      *)
(* steps of their own in ServoController; here each is one step, and a     *)
(* parked caller looks whenever there is something for it to see.  The     *)
(* drive inside a run is reduced to completing the call or not.            *)
(***************************************************************************)
EXTENDS RunLife, Integers, Sequences

CONSTANTS
  Callers,        \* threads of the motor API
  Admin,          \* the thread that constructs, reconfigures and stops
  Nobody,         \* no thread holds api_mutex_ exclusively
  MaxAttempts,    \* kMaxBringupAttempts
  MaxOutages      \* bound: how often the bus goes bad

ASSUME SupervisorAssumption ==
  /\ Admin \notin Callers /\ Nobody \notin Callers \cup {Admin}
  /\ MaxAttempts \in Nat \ {0}
  /\ MaxOutages \in Nat

VARIABLES
  master,      \* master_ is not null
  runner,      \* rt_runner_ is not null
  publishing,  \* the reason of an on_stop() between its first store and its others
  stopping,    \* stopping_
  rtExited,    \* rt_exited_
  degraded,    \* degraded_
  busLost,     \* bus_lost_
  lock,        \* the exclusive holder of api_mutex_
  attempt,     \* bring_up: attempt
  admin,       \* what the admin thread has done last
  pc,          \* where a thread is
  good,        \* the bus, its drive and the real-time set-up work (external)
  outages,     \* how often the bus went bad
  owed         \* a bus fault or a failed rebuild since the last recovery began

objVars  == <<master, runner>>
flagVars == <<stopping, rtExited, degraded, busLost>>
envVars  == <<good, outages>>
vars == <<runVars, objVars, publishing, flagVars, lock, attempt, admin, pc, envVars, owed>>

Threads == Callers \cup {Admin}
DropPcs == {"DropRebuild", "DropRetry", "DropGiveUp", "DropStop"}
Pcs     == {"Idle", "Entry", "Lock", "Enter", "Await", "Sdo", "Build", "Spawn", "Poll",
            "Verdict"} \cup DropPcs

TypeOK ==
  /\ RunTypeOK
  /\ master \in BOOLEAN /\ runner \in BOOLEAN
  /\ publishing \in EndReasons \cup {"None"}
  /\ stopping \in BOOLEAN /\ rtExited \in BOOLEAN
  /\ degraded \in BOOLEAN /\ busLost \in BOOLEAN
  /\ lock \in Threads \cup {Nobody}
  /\ attempt \in 0 .. MaxAttempts
  /\ admin \in {"New", "Serving", "Failed", "Reconfigured", "Stopped"}
  /\ pc \in [Threads -> Pcs]
  /\ good \in BOOLEAN /\ outages \in 0 .. MaxOutages
  /\ owed \in BOOLEAN

Init ==
  /\ RunInit
  /\ master = FALSE /\ runner = FALSE /\ publishing = "None"
  /\ stopping = FALSE /\ rtExited = FALSE /\ degraded = FALSE /\ busLost = FALSE
  /\ lock = Nobody /\ attempt = 0
  /\ admin = "New" /\ pc = [t \in Threads |-> "Idle"]
  /\ good = TRUE /\ outages = 0
  /\ owed = FALSE

Goes(t, label) == pc' = [pc EXCEPT ![t] = label]

\* api_mutex_: a transfer in flight holds it shared.
SharedHolders == {c \in Callers : pc[c] = "Sdo"}
ExclusiveFree == lock = Nobody /\ SharedHolders = {}
Unlocks == lock' = Nobody /\ attempt' = 0

(***************************************************************************)
(* The real-time thread.                                                   *)
(***************************************************************************)

\* The bring-up reaches OP, on a bad bus perhaps.
Operational ==
  /\ RunReachesOp
  /\ UNCHANGED <<objVars, publishing, flagVars, lock, attempt, admin, pc, envVars, owed>>

\* on_stop(r), first store: rt_exited_.  No run ends by itself while all is good.
OnStop(r) ==
  /\ RunFails(r) \/ RunLeaves(r)
  /\ r # "Requested" => ~good
  /\ rtExited' = TRUE
  /\ publishing' = r
  /\ UNCHANGED <<objVars, stopping, degraded, busLost, lock, attempt, admin, pc,
                 envVars, owed>>

\* on_stop, the stores that say what became of the run.
OnStopPublish ==
  /\ publishing # "None"
  /\ degraded' = (degraded \/ publishing \in {"BringupAborted", "RtSetupFailed"})
  /\ busLost' = (busLost \/ publishing = "BusFault")
  /\ owed' = (owed \/ publishing = "BusFault")
  /\ publishing' = "None"
  /\ UNCHANGED <<runVars, objVars, stopping, rtExited, lock, attempt, admin, pc, envVars>>

ThreadEnds ==
  /\ publishing = "None"
  /\ RunStops
  /\ UNCHANGED <<objVars, publishing, flagVars, lock, attempt, admin, pc, envVars, owed>>

(***************************************************************************)
(* Under the exclusive lock: dropping, building and starting a run.        *)
(***************************************************************************)

\* rt_runner_.reset() -> ~Runner -> stop(): the request ...
DropAsk(t) ==
  /\ pc[t] \in DropPcs
  /\ runner /\ life # "Idle"
  /\ RunAsk
  /\ UNCHANGED <<objVars, publishing, flagVars, lock, attempt, admin, pc, envVars, owed>>

\* ... and the end of it: the thread is joined, the port closed.
NoRunLeft == ~runner \/ life = "Idle" \/ (life = "Stopped" /\ wanted)

\* The Runner is gone, and its stop() or the destructor of the Master has closed
\* the port; the Master is as m says; the variables of a run start anew.
DropObjects(m) ==
  /\ NoRunLeft
  /\ runner' = FALSE /\ master' = m
  /\ life' = "Idle" /\ causes' = {} /\ wanted' = FALSE
  /\ busOpen' = (m /\ ~runner /\ busOpen)

\* maybe_recover_bus and reconfigure: everything is taken down and the marker
\* consumed before the rebuild.
DropRebuild(t) ==
  /\ pc[t] = "DropRebuild"
  /\ DropObjects(FALSE)
  /\ busLost' = FALSE
  /\ attempt' = 1
  /\ owed' = FALSE
  /\ Goes(t, "Build")
  /\ UNCHANGED <<publishing, stopping, rtExited, degraded, lock, admin, envVars>>

\* bring_up between two attempts.
DropRetry(t) ==
  /\ pc[t] = "DropRetry"
  /\ DropObjects(FALSE)
  /\ attempt' = attempt + 1
  /\ Goes(t, "Build")
  /\ UNCHANGED <<publishing, flagVars, lock, admin, envVars, owed>>

\* maybe_recover_bus: the rebuild failed, the call throws.
DropGiveUpForgets(t) ==
  /\ pc[t] = "DropGiveUp"
  /\ DropObjects(FALSE)
  /\ owed' = TRUE
  /\ Unlocks
  /\ Goes(t, "Idle")
  /\ UNCHANGED <<publishing, flagVars, admin, envVars>>

DropGiveUp(t) ==
  /\ pc[t] = "DropGiveUp"
  /\ DropObjects(FALSE)
  /\ busLost' = TRUE
  /\ owed' = TRUE
  /\ Unlocks
  /\ Goes(t, "Idle")
  /\ UNCHANGED <<publishing, stopping, rtExited, degraded, admin, envVars>>

\* stop() keeps the Master.
DropStop(t) ==
  /\ pc[t] = "DropStop"
  /\ DropObjects(master)
  /\ Unlocks
  /\ Goes(t, "Idle")
  /\ UNCHANGED <<publishing, flagVars, admin, envVars, owed>>

\* A new Master is opened and configured to SAFE-OP, the motion mode selected
\* and the fields resolved.
Build(t) ==
  /\ pc[t] = "Build"
  /\ master' = TRUE
  /\ busOpen' = TRUE
  /\ Goes(t, "Spawn")
  /\ UNCHANGED <<life, causes, wanted, runner, publishing, flagVars, lock, attempt,
                 admin, envVars, owed>>

\* An Error out of bring_up or what precedes it: maybe_recover_bus catches it,
\* start and reconfigure let it out.  Nobody serves a motor that did not start.
Throws(t) ==
  IF t = Admin
  THEN /\ Unlocks
       /\ admin' = IF admin = "Serving" THEN "Failed" ELSE admin
       /\ Goes(t, "Idle")
  ELSE Goes(t, "DropGiveUp") /\ UNCHANGED <<lock, attempt, admin>>

\* One of these steps throws (or the real-time preflight of start and
\* reconfigure does); the port may be open by then.
BuildFails(t) ==
  /\ pc[t] = "Build"
  /\ ~good
  /\ master' \in {master, TRUE}
  /\ busOpen' \in {busOpen, master'}
  /\ Throws(t)
  /\ UNCHANGED <<life, causes, wanted, runner, publishing, flagVars, envVars, owed>>

\* reset_run_state.  A caller of the run before that has not looked yet stays
\* in its wait, now on the new run.
ResetRunState == stopping' = FALSE /\ rtExited' = FALSE

\* spawn_runner: the thread is started ...
Spawn(t) ==
  /\ pc[t] = "Spawn"
  /\ ResetRunState
  /\ degraded' = FALSE
  /\ runner' = TRUE
  /\ RunBegin
  /\ Goes(t, "Poll")
  /\ UNCHANGED <<master, publishing, busLost, lock, attempt, admin, envVars, owed>>

\* ... or attach() or an on_configured hook refuses, and bring_up throws that.
SpawnRefused(t) ==
  /\ pc[t] = "Spawn"
  /\ ~good
  /\ ResetRunState
  /\ degraded' = TRUE
  /\ Throws(t)
  /\ UNCHANGED <<runVars, objVars, publishing, busLost, envVars, owed>>

\* attempt_bringup sees Running.
PollRunning(t) ==
  /\ pc[t] = "Poll"
  /\ life = "Running"
  /\ Goes(t, "Verdict")
  /\ UNCHANGED <<runVars, objVars, publishing, flagVars, lock, attempt, admin, envVars,
                 owed>>

\* attempt_bringup sees the exit, perhaps inside on_stop(), and bring_up tries
\* again or returns.
PollExitedOnceMore(t) ==
  /\ pc[t] = "Poll"
  /\ life # "Running"
  /\ rtExited \/ degraded
  /\ Goes(t, IF attempt > MaxAttempts THEN "Verdict" ELSE "DropRetry")
  /\ UNCHANGED <<runVars, objVars, publishing, flagVars, lock, attempt, admin, envVars,
                 owed>>

PollExitedAborts(t) ==
  /\ pc[t] = "Poll"
  /\ life # "Running"
  /\ degraded
  /\ Goes(t, IF attempt >= MaxAttempts THEN "Verdict" ELSE "DropRetry")
  /\ UNCHANGED <<runVars, objVars, publishing, flagVars, lock, attempt, admin, envVars,
                 owed>>

PollExited(t) ==
  /\ pc[t] = "Poll"
  /\ life # "Running"
  /\ rtExited \/ degraded
  /\ Goes(t, IF attempt >= MaxAttempts THEN "Verdict" ELSE "DropRetry")
  /\ UNCHANGED <<runVars, objVars, publishing, flagVars, lock, attempt, admin, envVars,
                 owed>>

\* bring_up has returned: start and reconfigure do, too; maybe_recover_bus gives
\* up if the drive is degraded, and lets its caller go on otherwise.
VerdictTrusting(t) ==
  /\ pc[t] = "Verdict"
  /\ Goes(t, IF t = Admin THEN "Idle" ELSE "Enter")
  /\ Unlocks
  /\ UNCHANGED <<runVars, objVars, publishing, flagVars, admin, envVars, owed>>

Verdict(t) ==
  /\ pc[t] = "Verdict"
  /\ IF t # Admin /\ degraded
     THEN Goes(t, "DropGiveUp") /\ UNCHANGED <<lock, attempt>>
     ELSE /\ Goes(t, IF t = Admin THEN "Idle" ELSE "Enter")
          /\ Unlocks
  /\ UNCHANGED <<runVars, objVars, publishing, flagVars, admin, envVars, owed>>

Holding(t) ==
  \/ DropAsk(t)
  \/ DropRebuild(t)
  \/ DropRetry(t)
  \/ DropGiveUp(t)
  \/ DropStop(t)
  \/ Build(t)
  \/ BuildFails(t)
  \/ Spawn(t)
  \/ SpawnRefused(t)
  \/ PollRunning(t)
  \/ PollExited(t)
  \/ Verdict(t)

(***************************************************************************)
(* The admin thread.                                                       *)
(***************************************************************************)

Start ==
  /\ admin = "New" /\ ExclusiveFree
  /\ admin' = "Serving"
  /\ lock' = Admin
  /\ attempt' = 1
  /\ Goes(Admin, "Build")
  /\ UNCHANGED <<runVars, objVars, publishing, flagVars, envVars, owed>>

\* stopping_, the wake bump, then the teardown.
Reconfigure ==
  /\ admin = "Serving" /\ pc[Admin] = "Idle" /\ ExclusiveFree
  /\ admin' = "Reconfigured"
  /\ lock' = Admin
  /\ stopping' = TRUE
  /\ Goes(Admin, "DropRebuild")
  /\ UNCHANGED <<runVars, objVars, publishing, rtExited, degraded, busLost, attempt,
                 envVars, owed>>

Stop ==
  /\ admin \in {"Serving", "Reconfigured"} /\ pc[Admin] = "Idle" /\ ExclusiveFree
  /\ admin' = "Stopped"
  /\ lock' = Admin
  /\ stopping' = TRUE
  /\ Goes(Admin, "DropStop")
  /\ UNCHANGED <<runVars, objVars, publishing, rtExited, degraded, busLost, attempt,
                 envVars, owed>>

(***************************************************************************)
(* The callers.                                                            *)
(***************************************************************************)

\* A client calls go_to, again and again; no call begins before start() has
\* returned or after stop() was called.
Call(c) ==
  /\ pc[c] = "Idle"
  /\ admin \in {"Serving", "Reconfigured"} /\ pc[Admin] = "Idle"
  /\ Goes(c, "Entry")
  /\ UNCHANGED <<runVars, objVars, publishing, flagVars, lock, attempt, admin, envVars,
                 owed>>

\* maybe_recover_bus: the look without the lock ...
Entry(c) ==
  /\ pc[c] = "Entry"
  /\ Goes(c, IF busLost THEN "Lock" ELSE "Enter")
  /\ UNCHANGED <<runVars, objVars, publishing, flagVars, lock, attempt, admin, envVars,
                 owed>>

\* ... and the second one under it, which finds the bus recovered by another
\* caller or begins the teardown.
RecoverUnchecked(c) ==
  /\ pc[c] = "Lock" /\ ExclusiveFree
  /\ lock' = c
  /\ stopping' = TRUE
  /\ Goes(c, "DropRebuild")
  /\ UNCHANGED <<runVars, objVars, publishing, rtExited, degraded, busLost, attempt,
                 admin, envVars, owed>>

RecoverWhileShared(c) ==
  /\ pc[c] = "Lock" /\ lock = Nobody /\ busLost
  /\ lock' = c
  /\ stopping' = TRUE
  /\ Goes(c, "DropRebuild")
  /\ UNCHANGED <<runVars, objVars, publishing, rtExited, degraded, busLost, attempt,
                 admin, envVars, owed>>

Recover(c) ==
  /\ pc[c] = "Lock" /\ ExclusiveFree
  /\ IF busLost
     THEN /\ lock' = c
          /\ stopping' = TRUE
          /\ Goes(c, "DropRebuild")
     ELSE /\ Goes(c, "Enter")
          /\ UNCHANGED <<lock, stopping>>
  /\ UNCHANGED <<runVars, objVars, publishing, rtExited, degraded, busLost, attempt,
                 admin, envVars, owed>>

\* go_to under the shared lock: refused while degraded, or because another move
\* has the slot; or its target is pushed and the call waits.
Enter(c) ==
  /\ pc[c] = "Enter" /\ lock = Nobody
  /\ \/ Goes(c, "Idle")
     \/ ~degraded /\ Goes(c, "Await")
  /\ UNCHANGED <<runVars, objVars, publishing, flagVars, lock, attempt, admin, envVars,
                 owed>>

\* await_move: the run completes the move ...
ReturnsOk(c) ==
  /\ pc[c] = "Await" /\ life \in {"Running", "Stopping"}
  /\ Goes(c, "Idle")
  /\ UNCHANGED <<runVars, objVars, publishing, flagVars, lock, attempt, admin, envVars,
                 owed>>

\* ... or is over.
AwaitThrows(c) ==
  /\ pc[c] = "Await"
  /\ stopping \/ rtExited
  /\ Goes(c, "Idle")
  /\ UNCHANGED <<runVars, objVars, publishing, flagVars, lock, attempt, admin, envVars,
                 owed>>

\* sdo_read, sdo_write: refused unless a Runner is there, and the shared lock is
\* held for the whole transfer.
SdoBegin(c) ==
  /\ pc[c] = "Idle" /\ lock = Nobody
  /\ master /\ runner
  /\ Goes(c, "Sdo")
  /\ UNCHANGED <<runVars, objVars, publishing, flagVars, lock, attempt, admin, envVars,
                 owed>>

SdoEnd(c) ==
  /\ pc[c] = "Sdo"
  /\ Goes(c, "Idle")
  /\ UNCHANGED <<runVars, objVars, publishing, flagVars, lock, attempt, admin, envVars,
                 owed>>

\* The bus, the drive or the real-time privileges (external) go bad, when
\* anything may fail and need not, and come back.
Outage ==
  /\ outages < MaxOutages
  /\ good
  /\ good' = FALSE
  /\ outages' = outages + 1
  /\ UNCHANGED <<runVars, objVars, publishing, flagVars, lock, attempt, admin, pc, owed>>

LinkReturns ==
  /\ ~good
  /\ good' = TRUE
  /\ UNCHANGED <<runVars, objVars, publishing, flagVars, lock, attempt, admin, pc,
                 outages, owed>>

-----------------------------------------------------------------------------
RealTime ==
  \/ Operational
  \/ \E r \in EndReasons : OnStop(r)
  \/ OnStopPublish
  \/ ThreadEnds

Calling(c) == Entry(c) \/ Recover(c) \/ Enter(c) \/ AwaitThrows(c) \/ SdoEnd(c)

Next ==
  \/ RealTime
  \/ \E t \in Threads : Holding(t)
  \/ Start \/ Reconfigure \/ Stop
  \/ \E c \in Callers : Call(c) \/ Calling(c) \/ ReturnsOk(c) \/ SdoBegin(c)
  \/ Outage
  \/ LinkReturns

Spec == Init /\ [][Next]_vars

\* The real-time thread ends its bring-up one way or the other and its stopping
\* window after it; a thread with the lock goes on; a call under way goes on
\* and gets the lock in its turn; a client that was refused calls again.
Fairness ==
  /\ WF_vars(RealTime)
  /\ \A t \in Threads : WF_vars(Holding(t))
  /\ \A c \in Callers : SF_vars(Calling(c)) /\ SF_vars(Call(c))

FairSpec == Spec /\ Fairness

-----------------------------------------------------------------------------
(***************************************************************************)
(* Properties.                                                             *)
(***************************************************************************)

\* Nobody uses a Master that is gone or closed: a real-time thread that has not
\* stopped and an SDO transfer in flight have an open one, whatever teardowns
\* and rebuilds other threads are in.
BusUsedOpen ==
  (life \in {"BringingUp", "Running", "Stopping"} \/ SharedHolders # {})
    => (master /\ busOpen)

\* A lost bus is never forgotten: when no run is left alive and nobody is
\* rebuilding, the next motion call either finds the marker and rebuilds or is
\* refused because the drive is degraded.
LossRemembered ==
  (/\ lock = Nobody /\ publishing = "None"
   /\ admin = "Serving"
   /\ life \notin {"BringingUp", "Running"})
    => (busLost \/ degraded)

\* One loss, one rebuild: a recovery begins only if the bus was lost, or the
\* last rebuild failed, since the recovery before it; a caller that waited for
\* the lock meanwhile does not take the fresh run down.
OneRebuildPerLoss == [][\A c \in Callers : (lock = Nobody /\ lock' = c) => owed]_vars

\* Whoever takes the lock to build, rebuild or stop lets it go: retries are
\* bounded and nobody waits for a caller that waits for the lock.
LockReleased == lock # Nobody ~> lock = Nobody

\* The last attempt of a bring-up is judged inside the on_stop() that ends it:
\* rt_exited_ is stored, degraded_ is not.  bring_up returns as if it were
\* ("already set by on_stop(BringupAborted)"), maybe_recover_bus finds the drive
\* not degraded and reports a recovery; degraded_ follows, with bus_lost_ clear.
JudgedInsideOnStop ==
  /\ publishing \in {"BringupAborted", "RtSetupFailed"}
  /\ \E t \in Threads : pc[t] = "Verdict"

\* Once the bus stays good, clients that keep calling get it back, through failed
\* rebuilds, outages inside them and each other's recoveries.  The one way to
\* lose it for good is a last attempt judged inside on_stop().
BusRecovered ==
  <>[]good => []((busLost /\ admin = "Serving") =>
                    <>(\/ life = "Running"
                       \/ admin # "Serving"
                       \/ JudgedInsideOnStop))

=============================================================================
