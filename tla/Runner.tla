------------------------------- MODULE Runner -------------------------------
(***************************************************************************)
(* Runner and RtCore of src/ethercat/runner.cpp composed with the Master:  *)
(* the owner thread (attach, start, stop), any other thread that calls     *)
(* request_stop(), and the real-time thread (bring-up, steady loop,        *)
(* stopping window).  They share reason_, stop_flag_, phase_ and, through  *)
(* the Master, the bus.                                                    *)
(*                                                                         *)
(* The attached SlaveControls are the environment: their hooks answer      *)
(* anything, step() may ask for a stop and may never return (a wedge).     *)
(* Time is counted in loop periods, and only while stop() waits: an        *)
(* iteration of the real-time loop takes up to MaxOverrun periods.         *)
(***************************************************************************)
EXTENDS Master, Sequences, FiniteSets

CONSTANTS
  Controls,          \* the slave controls, one per slave
  TeardownCfg,       \* RunnerConfig.teardown_cycles
  RequireRealtime,   \* RunnerConfig.require_realtime
  JoinFloor,         \* 250 ms in periods, the floor of the wait in stop()
  MaxOverrun         \* periods one iteration may take (the pacer skips the rest)

ASSUME RunnerAssumption ==
  /\ IsFiniteSet(Controls) /\ Controls # {}
  /\ TeardownCfg \in Nat
  /\ RequireRealtime \in BOOLEAN
  /\ JoinFloor \in Nat
  /\ MaxOverrun \in 1 .. 4

VARIABLES
  attached,     \* controls_
  started,      \* started_
  phase,        \* phase_
  reason,       \* reason_
  stopFlag,     \* stop_flag_
  owner,        \* where the owner thread is
  asker,        \* where another thread is inside request_stop()
  waited,       \* periods the owner has waited in stop()
  rt,           \* where the real-time thread is
  stopping,     \* rt_body: stopping
  windowLeft,   \* rt_body: window_left
  told,         \* the reasons each control was given by on_stop, in order
  windowSteps,  \* step() dispatches with ctx.stopping() so far
  wasOp,        \* the run reached Operational
  asked         \* some thread has called request_stop()

ownerVars == <<attached, started, owner, waited>>
rtVars    == <<rt, stopping, windowLeft, told, windowSteps, wasOp>>
sharedVars == <<phase, reason, stopFlag, asked>>
vars == <<masterVars, ownerVars, asker, rtVars, sharedVars>>

Teardown == AtLeastOne(TeardownCfg)

\* The wait of stop(): (teardown_cycles + 20) periods, four times over, and
\* never less than 250 ms.
JoinBoundNoSlack == Teardown * 4
JoinBound ==
  LET derived == (Teardown + 20) * 4
  IN  IF derived > JoinFloor THEN derived ELSE JoinFloor

Phases  == {"Idle", "BringingUp", "Running", "Stopping", "Stopped"}
Reasons == {"None", "Requested", "BusFault", "BringupAborted", "RtSetupFailed"}
OwnerPcs == {"Build", "StopLatch", "StopFlag", "Wait", "Join", "Close",
             "Gone", "Aborted"}
RtPcs == {"None", "Setup", "BringupPoll", "Bringup", "NotOperational", "Operational",
          "Process",
          "FaultLatch", "FaultFlag", "Poll", "Step", "Wedged", "Finish",
          "Return", "Exited"}

TypeOK ==
  /\ MasterTypeOK
  /\ attached \subseteq Controls
  /\ started \in BOOLEAN
  /\ phase \in Phases
  /\ reason \in Reasons
  /\ stopFlag \in BOOLEAN
  /\ owner \in OwnerPcs
  /\ asker \in {"Idle", "Flag", "Done"}
  /\ waited \in Nat
  /\ rt \in RtPcs
  /\ stopping \in BOOLEAN
  /\ windowLeft \in Nat
  /\ told \in [Controls -> Seq(Reasons)]
  /\ windowSteps \in Nat
  /\ wasOp \in BOOLEAN
  /\ asked \in BOOLEAN

Init ==
  /\ MasterInit
  /\ attached = {} /\ started = FALSE
  /\ phase = "Idle" /\ reason = "None" /\ stopFlag = FALSE
  /\ owner = "Build" /\ asker = "Idle" /\ waited = 0
  /\ rt = "None" /\ stopping = FALSE /\ windowLeft = 0
  /\ told = [c \in Controls |-> <<>>] /\ windowSteps = 0 /\ wasOp = FALSE
  /\ asked = FALSE

(***************************************************************************)
(* The stop cause and the stop flag.                                       *)
(***************************************************************************)

\* latch_reason: a compare-and-swap from None, so the first cause wins.
LatchedWith(r) == IF reason = "None" THEN r ELSE reason
LatchReason(r) == reason' = LatchedWith(r)

\* request_stop() of a thread that is neither owner nor real-time thread: the
\* cause is latched before the flag is raised.
AskerFlagFirst ==
  /\ asker = "Idle" /\ owner # "Gone"
  /\ stopFlag' = TRUE
  /\ asked' = TRUE
  /\ asker' = "Flag"
  /\ UNCHANGED <<masterVars, ownerVars, rtVars, phase, reason>>

AskerLatch ==
  /\ asker = "Idle" /\ owner # "Gone"
  /\ LatchReason("Requested")
  /\ asked' = TRUE
  /\ asker' = "Flag"
  /\ UNCHANGED <<masterVars, ownerVars, rtVars, phase, stopFlag>>

AskerFlag ==
  /\ asker = "Flag"
  /\ stopFlag' = TRUE
  /\ asker' = "Done"
  /\ UNCHANGED <<masterVars, ownerVars, rtVars, phase, reason, asked>>

(***************************************************************************)
(* The owner thread.                                                       *)
(***************************************************************************)

\* The owner has opened and configured the Master before it builds a Runner.
PrepareBus ==
  /\ owner = "Build"
  /\ \/ OpenBus
     \/ bringupPhase = "None" /\ (Configure \/ ConfigureFails)
  /\ UNCHANGED <<ownerVars, asker, rtVars, sharedVars>>

\* Runner::attach, which throws on a slave that has a control already.
Attach(c) ==
  /\ owner = "Build" /\ ~started
  /\ bringupPhase = "Settle"
  /\ c \notin attached
  /\ attached' = attached \cup {c}
  /\ UNCHANGED <<masterVars, started, owner, waited, asker, rtVars, sharedVars>>

\* Runner::start: every on_configured hook returned, so the thread is spawned.
\* A hook that throws leaves nothing changed.
Start ==
  /\ owner = "Build" /\ ~started
  /\ attached # {}
  /\ started' = TRUE
  /\ phase' = "BringingUp"
  /\ rt' = "Setup"
  /\ UNCHANGED <<masterVars, attached, owner, waited, asker, stopping, windowLeft,
                 told, windowSteps, wasOp, reason, stopFlag, asked>>

\* The std::jthread constructor throws: started_ and phase_ are already set.
StartSpawnFails ==
  /\ owner = "Build" /\ ~started
  /\ attached # {}
  /\ started' = TRUE
  /\ phase' = "BringingUp"
  /\ UNCHANGED <<masterVars, attached, owner, waited, asker, rtVars, reason, stopFlag,
                 asked>>

\* ~Runner: nothing to tear down when start() never got to the thread.
DestroyUnstarted ==
  /\ owner = "Build" /\ ~started
  /\ owner' = "Gone"
  /\ UNCHANGED <<masterVars, attached, started, waited, asker, rtVars, sharedVars>>

\* ~Runner -> stop(): request_stop() ...
StopBegin ==
  /\ owner = "Build" /\ started
  /\ owner' = "StopLatch"
  /\ UNCHANGED <<masterVars, attached, started, waited, asker, rtVars, sharedVars>>

StopLatch ==
  /\ owner = "StopLatch"
  /\ LatchReason("Requested")
  /\ asked' = TRUE
  /\ owner' = "StopFlag"
  /\ UNCHANGED <<masterVars, attached, started, waited, asker, rtVars, phase, stopFlag>>

StopRaiseFlag ==
  /\ owner = "StopFlag"
  /\ stopFlag' = TRUE
  /\ owner' = "Wait"
  /\ UNCHANGED <<masterVars, attached, started, waited, asker, rtVars, phase, reason,
                 asked>>

\* ... then the bounded wait for Stopped, ...
StopSeesStoppedEarly ==
  /\ owner = "Wait"
  /\ phase \in {"Stopping", "Stopped"}
  /\ owner' = "Close"
  /\ UNCHANGED <<masterVars, attached, started, waited, asker, rtVars, sharedVars>>

StopSeesStopped ==
  /\ owner = "Wait"
  /\ phase = "Stopped"
  /\ owner' = "Join"
  /\ UNCHANGED <<masterVars, attached, started, waited, asker, rtVars, sharedVars>>

\* (the periods also pass when no iteration of the loop is there to count them:
\* a wedged, ended or absent thread)
StopNeverGivesUp == FALSE
StopGivesUp ==
  /\ owner = "Wait"
  /\ phase # "Stopped"
  /\ waited >= JoinBound \/ rt \in {"None", "Wedged", "Exited"}
  /\ owner' = "Aborted"
  /\ UNCHANGED <<masterVars, attached, started, waited, asker, rtVars, sharedVars>>

\* ... the join, and only then the close to INIT.
StopJoin ==
  /\ owner = "Join"
  /\ rt = "Exited"
  /\ owner' = "Close"
  /\ UNCHANGED <<masterVars, attached, started, waited, asker, rtVars, sharedVars>>

StopClose ==
  /\ owner = "Close"
  /\ CloseBus
  /\ owner' = "Gone"
  /\ UNCHANGED <<attached, started, waited, asker, rtVars, sharedVars>>
(***************************************************************************)
(* The real-time thread.                                                   *)
(***************************************************************************)

\* One iteration of a paced loop is over: k periods have gone by.
Paced(k) == waited' = IF owner = "Wait" THEN waited + k ELSE waited

\* on_stop(r) of every attached control, in attach order.
Tell(r) == told' = [c \in Controls |-> IF c \in attached THEN Append(told[c], r)
                                       ELSE told[c]]

\* realtime::setup, then bring-up or the abort.
RtSetup ==
  /\ rt = "Setup"
  /\ \/ /\ rt' = "BringupPoll"
        /\ UNCHANGED <<told, reason>>
     \/ /\ RequireRealtime
        /\ LatchReason("RtSetupFailed")
        /\ Tell("RtSetupFailed")
        /\ rt' = "Finish"
  /\ UNCHANGED <<masterVars, ownerVars, asker, stopping, windowLeft, windowSteps,
                 wasOp, phase, stopFlag, asked>>

RtBringupPoll ==
  /\ rt = "BringupPoll"
  /\ rt' = IF stopFlag THEN "NotOperational" ELSE "Bringup"
  /\ UNCHANGED <<masterVars, ownerVars, asker, stopping, windowLeft, told,
                 windowSteps, wasOp, sharedVars>>

\* One bring-up iteration: the controls' gates, bringup_step, the pace, and the
\* verdict.  late: the wall-clock bring-up timeout has passed.
RtBringup(wkc, faulted, present, late, k) ==
  /\ rt = "Bringup"
  /\ BringupStep(wkc, faulted # {}, present = attached)
  /\ Paced(k)
  /\ IF bringupPhase' = "Done"
     THEN rt' = "Operational" /\ UNCHANGED reason
     ELSE IF bringupPhase' = "Aborted" \/ late
     THEN rt' = "NotOperational" /\ LatchReason("BringupAborted")
     ELSE rt' = "BringupPoll" /\ UNCHANGED reason
  /\ UNCHANGED <<attached, started, owner, asker, stopping, windowLeft, told,
                 windowSteps, wasOp, phase, stopFlag, asked>>

RtNotOperational ==
  /\ rt = "NotOperational"
  /\ LatchReason("Requested")
  /\ Tell(reason')
  /\ rt' = "Finish"
  /\ UNCHANGED <<masterVars, ownerVars, asker, stopping, windowLeft, windowSteps,
                 wasOp, phase, stopFlag, asked>>

\* Operational: publish Running, run the on_operational hooks.
RtOperational ==
  /\ rt = "Operational"
  /\ phase' = "Running"
  /\ wasOp' = TRUE
  /\ rt' = "Process"
  /\ UNCHANGED <<masterVars, ownerVars, asker, stopping, windowLeft, told,
                 windowSteps, reason, stopFlag, asked>>

\* Once the window is open neither the fault nor the flag is looked at again.
AfterProcessRepolls(faulted) == IF faulted THEN "FaultLatch" ELSE "Poll"
AfterProcess(faulted) ==
  IF stopping THEN "Step" ELSE IF faulted THEN "FaultLatch" ELSE "Poll"

RtProcess(wkc) ==
  /\ rt = "Process"
  /\ Process(wkc)
  /\ rt' = AfterProcess(fault')
  /\ UNCHANGED <<ownerVars, asker, stopping, windowLeft, told, windowSteps, wasOp,
                 sharedVars>>

RtFaultLatch ==
  /\ rt = "FaultLatch"
  /\ LatchReason("BusFault")
  /\ rt' = "FaultFlag"
  /\ UNCHANGED <<masterVars, ownerVars, asker, stopping, windowLeft, told,
                 windowSteps, wasOp, phase, stopFlag, asked>>

RtFaultFlagDropped ==
  /\ rt = "FaultFlag"
  /\ rt' = "Poll"
  /\ UNCHANGED <<masterVars, ownerVars, asker, stopping, windowLeft, told,
                 windowSteps, wasOp, sharedVars>>

RtFaultFlag ==
  /\ rt = "FaultFlag"
  /\ stopFlag' = TRUE
  /\ rt' = "Poll"
  /\ UNCHANGED <<masterVars, ownerVars, asker, stopping, windowLeft, told,
                 windowSteps, wasOp, phase, reason, asked>>

\* The stop flag is seen: the window opens and the controls are told why.
RtPoll ==
  /\ rt = "Poll"
  /\ IF stopFlag
     THEN /\ stopping' = TRUE
          /\ windowLeft' = Teardown
          /\ phase' = "Stopping"
          /\ Tell(reason)
     ELSE UNCHANGED <<stopping, windowLeft, phase, told>>
  /\ rt' = "Step"
  /\ UNCHANGED <<masterVars, ownerVars, asker, windowSteps, wasOp, reason, stopFlag,
                 asked>>

\* Is the stopping window over after this iteration?  torn: the controls whose
\* teardown_complete() holds.
WindowOverIgnoringCap(torn) == torn = attached
WindowOver(torn) == torn = attached \/ windowLeft - 1 = 0

\* step() of every control (asks: one of them calls ctx.request_stop()), the
\* pace, and the window bookkeeping.
RtStep(asks, torn, k) ==
  /\ rt = "Step"
  /\ Paced(k)
  /\ IF asks THEN LatchReason("Requested") /\ stopFlag' = TRUE /\ asked' = TRUE
             ELSE UNCHANGED <<reason, stopFlag, asked>>
  /\ IF stopping
     THEN /\ windowSteps' = windowSteps + 1
          /\ windowLeft' = windowLeft - 1
          /\ rt' = IF WindowOver(torn) THEN "Finish" ELSE "Process"
     ELSE /\ rt' = "Process"
          /\ UNCHANGED <<windowSteps, windowLeft>>
  /\ UNCHANGED <<masterVars, attached, started, owner, asker, stopping, told, wasOp,
                 phase>>

\* A control's step() never returns.
RtWedge ==
  /\ rt = "Step"
  /\ rt' = "Wedged"
  /\ UNCHANGED <<masterVars, ownerVars, asker, stopping, windowLeft, told,
                 windowSteps, wasOp, sharedVars>>

\* The last store of rt_body, and the thread's return.
RtFinish ==
  /\ rt = "Finish"
  /\ phase' = "Stopped"
  /\ rt' = "Return"
  /\ UNCHANGED <<masterVars, ownerVars, asker, stopping, windowLeft, told,
                 windowSteps, wasOp, reason, stopFlag, asked>>

RtReturn ==
  /\ rt = "Return"
  /\ rt' = "Exited"
  /\ UNCHANGED <<masterVars, ownerVars, asker, stopping, windowLeft, told,
                 windowSteps, wasOp, sharedVars>>

DriveStep == DriveAl /\ UNCHANGED <<ownerVars, asker, rtVars, sharedVars>>

-----------------------------------------------------------------------------
RtLoop ==
  \/ RtSetup
  \/ RtBringupPoll
  \/ \E wkc \in Wkcs, faulted, present \in SUBSET attached, late \in BOOLEAN,
        k \in 1 .. MaxOverrun : RtBringup(wkc, faulted, present, late, k)
  \/ RtNotOperational
  \/ RtOperational
  \/ \E wkc \in Wkcs : RtProcess(wkc)
  \/ RtFaultLatch
  \/ RtFaultFlag
  \/ RtPoll
  \/ \E asks \in BOOLEAN, torn \in SUBSET attached, k \in 1 .. MaxOverrun :
        RtStep(asks, torn, k)
  \/ RtFinish
  \/ RtReturn

OwnerTeardown ==
  \/ StopLatch
  \/ StopRaiseFlag
  \/ StopSeesStopped
  \/ StopGivesUp
  \/ StopJoin
  \/ StopClose

OwnerBuild ==
  \/ PrepareBus
  \/ \E c \in Controls : Attach(c)
  \/ Start
  \/ StartSpawnFails
  \/ DestroyUnstarted
  \/ StopBegin

\* Nothing of the process is left once stop() has aborted it.
Next ==
  /\ owner # "Aborted"
  /\ \/ RtLoop
     \/ RtWedge
     \/ OwnerTeardown
     \/ OwnerBuild
     \/ AskerLatch
     \/ AskerFlag
     \/ DriveStep

\* The real-time thread is SCHED_FIFO and always runnable unless wedged; the
\* owner's loop in stop() and a thread inside request_stop() keep running.
Fairness ==
  /\ WF_vars(owner # "Aborted" /\ RtLoop)
  /\ WF_vars(owner # "Aborted" /\ OwnerTeardown)
  /\ WF_vars(owner # "Aborted" /\ AskerFlag)

Spec == Init /\ [][Next]_vars
FairSpec == Spec /\ Fairness

-----------------------------------------------------------------------------
(***************************************************************************)
(* Properties.                                                             *)
(***************************************************************************)

\* The real-time thread never exchanges process data on a bus the owner has
\* closed: stop() joins the thread before master.close().
BusOpenWhileRunning == rt \notin {"None", "Exited"} => isOpen

\* on_stop() reaches every attached control exactly once in a run that ended or
\* is in its stopping window, and not at all before.
ToldExactlyOnce ==
  \A c \in Controls :
    Len(told[c]) = IF /\ c \in attached
                      /\ stopping \/ rt \in {"Finish", "Return", "Exited"}
                   THEN 1 ELSE 0

\* The reason handed to on_stop() is a real cause: never None (the latch comes
\* before the flag), BusFault only with the Master's latch set, BringupAborted
\* only before Operational, Requested only if some thread asked; and a fault
\* nobody raced with a request is reported as one.
ReasonTruthful ==
  \A c \in Controls : \A i \in 1 .. Len(told[c]) :
    LET r == told[c][i]
    IN  /\ r # "None"
        /\ r = "BusFault" => fault
        /\ r = "BringupAborted" => ~wasOp
        /\ r = "Requested" => asked
        /\ wasOp /\ ~asked => r = "BusFault"

\* A run that was Operational ends after at least one and at most
\* teardown_cycles steps that saw ctx.stopping(); one that never was ends
\* without any.
WindowBounded ==
  /\ windowSteps <= Teardown
  /\ phase = "Stopped" => (windowSteps >= 1 <=> wasOp)

\* stop() aborts the process only if a step() is wedged or the real-time thread
\* was never created: the wait it allows covers every teardown that is merely
\* slow, whatever the bus, the controls and the other threads do meanwhile.
AbortOnlyWhenStuck == owner = "Aborted" => rt \in {"Wedged", "None"}

\* Once stop() has begun, the owner gets out of it.
StopEnds == owner = "StopLatch" ~> owner \in {"Gone", "Aborted"}

\* A latched bus fault ends the run, unless a step() wedges.
FaultEndsRun ==
  (fault /\ rt # "None") ~> (rt \in {"Exited", "Wedged"} \/ owner = "Aborted")

\* The Runner keeps the promise of RunLife: its phase moves forward only, every
\* control that is told is told one reason that fits the phase, a run that was
\* not Operational has no stopping window, and the bus is closed after the end.
Life == INSTANCE RunLife WITH
  life    <- phase,
  causes  <- {told[c][1] : c \in {d \in Controls : told[d] # <<>>}},
  wanted  <- asked,
  busOpen <- isOpen
ImplementsRunLife == Life!RunSpec
=============================================================================
