---------------------------- MODULE RunnerProofs ----------------------------
(***************************************************************************)
(* Proofs about the Runner, for every number of controls, every window and *)
(* every configuration of the Master below it.  The properties hold        *)
(* because of where the two threads stand relative to each other, which    *)
(* the inductive invariant spells out: the phase that goes with each place *)
(* of the real-time thread, the cause that is latched before the flag, the *)
(* cycles that are left of a window, and the iterations that are left to   *)
(* the real-time thread while the owner waits for it.                      *)
(***************************************************************************)
EXTENDS Runner, TLAPS

\* The places of the real-time thread before and after Operational.
Rising == {"Setup", "BringupPoll", "Bringup", "NotOperational", "Operational"}
Steady == {"Process", "FaultLatch", "FaultFlag", "Poll", "Step", "Wedged"}
Over   == {"Finish", "Return", "Exited"}

\* The owner's place says what has been built and what is gone.
OwnerInv ==
  /\ started => attached # {}
  /\ attached # {} => bringupPhase # "None"
  /\ bringupPhase # "None" => isOpen \/ owner = "Gone"
  /\ ~started => rt = "None"
  /\ owner \in {"StopLatch", "StopFlag", "Wait", "Join", "Close", "Aborted"} => started
  /\ owner = "Join" => rt \in {"Return", "Exited"}
  /\ owner = "Close" => rt = "Exited"
  /\ owner = "Gone" => ~started \/ rt = "Exited"

PhaseInv ==
  /\ rt = "None" => phase = IF started THEN "BringingUp" ELSE "Idle"
  /\ rt \in Rising => phase = "BringingUp"
  /\ rt \in Steady => phase = IF stopping THEN "Stopping" ELSE "Running"
  /\ rt = "Finish" => phase = IF stopping THEN "Stopping" ELSE "BringingUp"
  /\ rt \in {"Return", "Exited"} => phase = "Stopped"
  /\ wasOp <=> rt \in Steady \/ stopping
  /\ stopping => rt \in {"Process", "Step", "Wedged"} \cup Over

\* The window counts down from teardown_cycles as its steps count up.
WindowInv ==
  /\ ~stopping => windowSteps = 0
  /\ stopping => windowSteps + windowLeft = Teardown
  /\ stopping /\ rt \notin Over => windowLeft >= 1
  /\ stopping /\ rt \in Over => windowSteps >= 1

\* Whoever raises the flag has latched a cause, and each cause has its place.
ReasonInv ==
  /\ stopFlag \/ asker # "Idle" \/ rt \in {"NotOperational", "FaultFlag"} => reason # "None"
  /\ owner \in {"StopFlag", "Wait", "Join", "Close", "Aborted"} => reason # "None" /\ asked
  /\ rt = "FaultLatch" => fault
  /\ reason = "Requested" => asked
  /\ reason = "BusFault" => fault /\ wasOp
  /\ reason = "BringupAborted" => ~wasOp /\ rt \in {"NotOperational"} \cup Over
  /\ reason = "RtSetupFailed" => ~wasOp /\ rt \in Over

\* The paced iterations the real-time thread still makes once the flag is up.
IterationsLeft ==
  IF rt = "Bringup" \/ (rt = "Step" /\ ~stopping) THEN Teardown + 1
  ELSE IF stopping /\ rt \in {"Process", "Step"} THEN windowLeft
  ELSE IF rt \in {"Operational", "Process", "FaultLatch", "FaultFlag", "Poll"} THEN Teardown
  ELSE 0

\* The owner's wait never runs ahead of them.
WaitInv ==
  /\ owner \in {"Build", "StopLatch", "StopFlag"} => waited = 0
  /\ owner = "Wait" => stopFlag
  /\ owner = "Wait" => waited + 4 * IterationsLeft <= 4 * (Teardown + 1)

IInv ==
  /\ TypeOK
  /\ OwnerInv
  /\ PhaseInv
  /\ WindowInv
  /\ ReasonInv
  /\ WaitInv
  /\ ToldExactlyOnce
  /\ ReasonTruthful
  /\ AbortOnlyWhenStuck

-----------------------------------------------------------------------------
\* The derived bounds.
LEMMA Derived ==
  /\ Teardown \in Nat \ {0}
  /\ JoinBound \in Nat
  /\ JoinBound >= (Teardown + 20) * 4
BY RunnerAssumption DEF Teardown, AtLeastOne, JoinBound

\* The grace, the nudge interval and the counters are numbers of the right kind.
LEMMA DerivedMaster ==
  /\ Grace \in Nat /\ Nudge \in Nat \ {0}
  /\ Wkcs \subseteq Int
BY MasterAssumption DEF Grace, Nudge, AtLeastOne, Wkcs

\* The operations of the Master keep its types.
LEMMA MasterTypes ==
  ASSUME MasterTypeOK,
         \/ OpenBus \/ Configure \/ ConfigureFails \/ CloseBus \/ DriveAl
         \/ UNCHANGED masterVars
         \/ \E wkc \in Wkcs : Process(wkc)
         \/ \E wkc, sf, pr : BringupStep(wkc, sf, pr)
  PROVE  MasterTypeOK'
<1> USE MasterAssumption, DerivedMaster
<1>1. CASE OpenBus
  BY <1>1 DEF MasterTypeOK, OpenBus, BackendOpen, AlStates, AlRequests, bringupVars, healthVars
<1>2. CASE Configure
  BY <1>2 DEF MasterTypeOK, Configure, AlStates, AlRequests, BringupPhases
<1>3. CASE ConfigureFails
  BY <1>3 DEF MasterTypeOK, ConfigureFails, AlStates, AlRequests, bringupVars, healthVars
<1>4. CASE CloseBus
  BY <1>4 DEF MasterTypeOK, CloseBus, BackendClose, AlStates, AlRequests, bringupVars, backendVars
<1>5. CASE DriveAl
  BY <1>5 DEF MasterTypeOK, DriveAl, AlStates, AlRequests, bringupVars, healthVars
<1>6. CASE UNCHANGED masterVars
  BY <1>6 DEF MasterTypeOK, masterVars, backendVars, bringupVars, healthVars
<1>7. ASSUME NEW wkc \in Wkcs, Process(wkc) PROVE MasterTypeOK'
  BY <1>7 DEF MasterTypeOK, Process, NextSettleLeft, NextBadStreak, Short, backendVars, bringupVars
<1>8. ASSUME NEW wkc, NEW sf, NEW pr, BringupStep(wkc, sf, pr) PROVE MasterTypeOK'
  <2>1. CASE SettleStep
    BY <2>1 DEF MasterTypeOK, SettleStep, AlRequests, BringupPhases, healthVars
  <2>2. ASSUME NEW clean, AwaitStep(clean) PROVE MasterTypeOK'
    <3>1. isOpen' \in BOOLEAN /\ al' \in AlStates /\ settleCount' \in Nat /\ awaitCount' \in Nat
      BY <2>2 DEF MasterTypeOK, AwaitStep
    <3>2. alReq' \in AlRequests /\ alCached' \in BOOLEAN /\ alCode' \in BOOLEAN
      <4>1. CASE ReackOp
        BY <2>2, <4>1 DEF MasterTypeOK, AwaitStep, ReackOp, NextAlCode, AlRequests
      <4>2. CASE UNCHANGED <<alReq, alCached>>
        BY <2>2, <4>2 DEF MasterTypeOK, AwaitStep, NextAlCode
      <4> QED  BY <2>2, <4>1, <4>2 DEF AwaitStep
    <3>3. holdStreak' \in Nat
      BY <2>2 DEF MasterTypeOK, AwaitStep, NextHoldStreak
    <3>4. /\ bringupPhase' \in BringupPhases
          /\ operational' \in BOOLEAN /\ settleLeft' \in Nat
          /\ badStreak' \in Nat /\ fault' \in BOOLEAN
      <4>1. CASE holdStreak' >= HoldConfirm
        <5>1. /\ operational' = TRUE /\ settleLeft' = Grace
              /\ fault' = FALSE /\ badStreak' = 0 /\ bringupPhase' = "Done"
          BY <2>2, <4>1 DEF AwaitStep
        <5> QED  BY <5>1 DEF BringupPhases
      <4>2. CASE ~(holdStreak' >= HoldConfirm)
        <5>1. bringupPhase' \in {"Aborted", "AwaitOp"} /\ UNCHANGED healthVars
          BY <2>2, <4>2 DEF AwaitStep
        <5> QED  BY <5>1 DEF MasterTypeOK, BringupPhases, healthVars
      <4> QED  BY <4>1, <4>2
    <3> QED  BY <3>1, <3>2, <3>3, <3>4 DEF MasterTypeOK
  <2> QED  BY <1>6, <1>8, <2>1, <2>2 DEF BringupStep
<1> QED  BY <1>1, <1>2, <1>3, <1>4, <1>5, <1>6, <1>7, <1>8

\* What a run needs to know of the Master: the port, the bring-up and the fault.
LEMMA MasterFrame ==
  ASSUME MasterTypeOK
  PROVE /\ OpenBus => isOpen' /\ UNCHANGED <<bringupPhase, fault>>
        /\ Configure => isOpen /\ UNCHANGED isOpen /\ bringupPhase' # "None"
        /\ ConfigureFails \/ DriveAl => UNCHANGED <<isOpen, bringupPhase, fault>>
        /\ CloseBus => ~isOpen' /\ UNCHANGED <<bringupPhase, fault>>
        /\ \A wkc : Process(wkc) => isOpen /\ UNCHANGED <<isOpen, bringupPhase>> /\ (fault => fault')
        /\ \A wkc, sf, pr : BringupStep(wkc, sf, pr) =>
             isOpen /\ UNCHANGED isOpen /\ bringupPhase # "None" /\ bringupPhase' # "None"
        /\ UNCHANGED masterVars => UNCHANGED <<isOpen, bringupPhase, fault>>

<1>1. OpenBus => isOpen' /\ UNCHANGED <<bringupPhase, fault>>
  BY DEF OpenBus, BackendOpen, bringupVars, healthVars
<1>2. Configure => isOpen /\ UNCHANGED isOpen /\ bringupPhase' # "None"
  BY DEF Configure
<1>3. ConfigureFails \/ DriveAl => UNCHANGED <<isOpen, bringupPhase, fault>>
  BY DEF ConfigureFails, DriveAl, bringupVars, healthVars
<1>4. CloseBus => ~isOpen' /\ UNCHANGED <<bringupPhase, fault>>
  BY DEF MasterTypeOK, CloseBus, BackendClose, backendVars, bringupVars
<1>5. \A wkc : Process(wkc) => isOpen /\ UNCHANGED <<isOpen, bringupPhase>> /\ (fault => fault')
  BY DEF MasterTypeOK, Process, backendVars, bringupVars
<1>6. ASSUME NEW wkc, NEW sf, NEW pr, BringupStep(wkc, sf, pr)
      PROVE  isOpen /\ UNCHANGED isOpen /\ bringupPhase # "None" /\ bringupPhase' # "None"
  <2>1. CASE SettleStep
    BY <1>6, <2>1 DEF BringupStep, SettleStep
  <2>2. CASE AwaitStep(Clean(wkc, sf, pr))
    BY <1>6, <2>2 DEF BringupStep, AwaitStep
  <2>3. CASE bringupPhase \in {"Done", "Aborted"} /\ UNCHANGED masterVars
    BY <1>6, <2>3 DEF BringupStep, masterVars, backendVars, bringupVars
  <2> QED  BY <1>6, <2>1, <2>2, <2>3 DEF BringupStep
<1>7. UNCHANGED masterVars => UNCHANGED <<isOpen, bringupPhase, fault>>
  BY DEF masterVars, backendVars, bringupVars, healthVars
<1> QED  BY <1>1, <1>2, <1>3, <1>4, <1>5, <1>6, <1>7

\* on_stop() appends one reason, and only to the attached controls.
LEMMA TellTyped ==
  ASSUME TypeOK, NEW r \in Reasons, Tell(r)
  PROVE  /\ told' \in [Controls -> Seq(Reasons)]
         /\ \A c \in Controls : Len(told[c]) = 0 =>
              /\ Len(told'[c]) = IF c \in attached THEN 1 ELSE 0
              /\ c \in attached => told'[c][1] = r
BY DEF TypeOK, Tell

\* A thread inside request_stop(), or the drive, keeps the invariant.
LEMMA AskerKeeps ==
  ASSUME IInv, owner # "Aborted", AskerLatch \/ AskerFlag \/ DriveStep
  PROVE  IInv'
<1> USE RunnerAssumption, Derived, MasterFrame, MasterTypes
<1> USE DEF IInv, TypeOK, OwnerInv, PhaseInv, WindowInv, ReasonInv, WaitInv, IterationsLeft,
        ToldExactlyOnce, ReasonTruthful, AbortOnlyWhenStuck, Rising, Steady, Over,
        Phases, Reasons, OwnerPcs, RtPcs, ownerVars, rtVars, sharedVars
<1>1. CASE AskerLatch
  BY <1>1 DEF AskerLatch, LatchReason, LatchedWith
<1>2. CASE AskerFlag
  BY <1>2 DEF AskerFlag
<1>3. CASE DriveStep
  BY <1>3 DEF DriveStep
<1> HIDE DEF IInv
<1> QED  BY <1>1, <1>2, <1>3

\* The owner keeps it while it prepares the bus and starts the run.
LEMMA BuildKeeps ==
  ASSUME IInv, owner # "Aborted", OwnerBuild
  PROVE  IInv'
<1> USE RunnerAssumption, Derived, MasterFrame, MasterTypes
<1> USE DEF IInv, TypeOK, OwnerInv, PhaseInv, WindowInv, ReasonInv, WaitInv, IterationsLeft,
        ToldExactlyOnce, ReasonTruthful, AbortOnlyWhenStuck, Rising, Steady, Over,
        Phases, Reasons, OwnerPcs, RtPcs, ownerVars, rtVars, sharedVars
<1>1. CASE PrepareBus
  <2>1. TypeOK'
    BY <1>1 DEF PrepareBus
  <2>2. (OwnerInv /\ PhaseInv /\ WindowInv /\ ReasonInv)'
    BY <1>1 DEF PrepareBus
  <2>3. (WaitInv /\ AbortOnlyWhenStuck)'
    BY <1>1 DEF PrepareBus
  <2>4. (ToldExactlyOnce /\ ReasonTruthful)'
    BY <1>1 DEF PrepareBus
  <2> QED  BY <2>1, <2>2, <2>3, <2>4
<1>2. ASSUME NEW c \in Controls, Attach(c) PROVE IInv'
  BY <1>2 DEF Attach
<1>3. CASE Start
  <2>1. TypeOK'
    BY <1>3 DEF Start
  <2>2. (OwnerInv /\ PhaseInv /\ WindowInv /\ ReasonInv)'
    BY <1>3 DEF Start
  <2>3. (WaitInv /\ AbortOnlyWhenStuck)'
    BY <1>3 DEF Start
  <2>4. (ToldExactlyOnce /\ ReasonTruthful)'
    BY <1>3 DEF Start
  <2> QED  BY <2>1, <2>2, <2>3, <2>4
<1>4. CASE StartSpawnFails
  BY <1>4 DEF StartSpawnFails
<1>5. CASE DestroyUnstarted
  BY <1>5 DEF DestroyUnstarted
<1>6. CASE StopBegin
  BY <1>6 DEF StopBegin
<1> HIDE DEF IInv
<1> QED  BY <1>1, <1>2, <1>3, <1>4, <1>5, <1>6 DEF OwnerBuild

\* The owner keeps it inside stop().
LEMMA TeardownKeeps ==
  ASSUME IInv, owner # "Aborted", OwnerTeardown
  PROVE  IInv'
<1> USE RunnerAssumption, Derived, MasterFrame, MasterTypes
<1> USE DEF IInv, TypeOK, OwnerInv, PhaseInv, WindowInv, ReasonInv, WaitInv, IterationsLeft,
        ToldExactlyOnce, ReasonTruthful, AbortOnlyWhenStuck, Rising, Steady, Over,
        Phases, Reasons, OwnerPcs, RtPcs, ownerVars, rtVars, sharedVars
<1>1. CASE StopLatch
  BY <1>1 DEF StopLatch, LatchReason, LatchedWith
<1>2. CASE StopRaiseFlag
  BY <1>2 DEF StopRaiseFlag
<1>3. CASE StopSeesStopped
  <2>1. rt \in {"Return", "Exited"}
    BY <1>3 DEF StopSeesStopped
  <2> QED  BY <1>3, <2>1 DEF StopSeesStopped
<1>4. CASE StopGivesUp
  BY <1>4 DEF StopGivesUp
<1>5. CASE StopJoin
  BY <1>5 DEF StopJoin
<1>6. CASE StopClose
  BY <1>6 DEF StopClose
<1> HIDE DEF IInv
<1> QED  BY <1>1, <1>2, <1>3, <1>4, <1>5, <1>6 DEF OwnerTeardown

\* The real-time thread keeps it.
LEMMA LoopKeeps ==
  ASSUME IInv, owner # "Aborted", RtLoop \/ RtWedge
  PROVE  IInv'
<1> USE RunnerAssumption, Derived, MasterFrame, MasterTypes
<1> USE DEF IInv, TypeOK, OwnerInv, PhaseInv, WindowInv, ReasonInv, WaitInv, IterationsLeft,
        ToldExactlyOnce, ReasonTruthful, AbortOnlyWhenStuck, Rising, Steady, Over,
        Phases, Reasons, OwnerPcs, RtPcs, ownerVars, rtVars, sharedVars
<1>1. CASE RtSetup
  <2>1. TypeOK'
    BY <1>1 DEF RtSetup, LatchReason, LatchedWith, Tell
  <2>2. (OwnerInv /\ PhaseInv /\ WindowInv /\ ReasonInv)'
    BY <1>1 DEF RtSetup, LatchReason, LatchedWith, Tell
  <2>3. (WaitInv /\ AbortOnlyWhenStuck)'
    BY <1>1 DEF RtSetup, LatchReason, LatchedWith, Tell
  <2>4. (ToldExactlyOnce /\ ReasonTruthful)'
    BY <1>1 DEF RtSetup, LatchReason, LatchedWith, Tell
  <2> QED  BY <2>1, <2>2, <2>3, <2>4
<1>2. CASE RtBringupPoll
  BY <1>2 DEF RtBringupPoll
<1>3. ASSUME NEW wkc \in Wkcs, NEW faulted \in SUBSET attached, NEW present \in SUBSET attached,
           NEW late \in BOOLEAN, NEW k \in 1 .. MaxOverrun,
           RtBringup(wkc, faulted, present, late, k)
    PROVE  IInv'
  <2>1. TypeOK'
    BY <1>3 DEF RtBringup, Paced, LatchReason, LatchedWith
  <2>2. (OwnerInv /\ PhaseInv /\ WindowInv /\ ReasonInv)'
    BY <1>3 DEF RtBringup, Paced, LatchReason, LatchedWith
  <2>3. (WaitInv /\ AbortOnlyWhenStuck)'
    BY <1>3 DEF RtBringup, Paced, LatchReason, LatchedWith
  <2>4. (ToldExactlyOnce /\ ReasonTruthful)'
    BY <1>3 DEF RtBringup, Paced, LatchReason, LatchedWith
  <2> QED  BY <2>1, <2>2, <2>3, <2>4
<1>4. CASE RtNotOperational
  <2>1. TypeOK'
    BY <1>4 DEF RtNotOperational, LatchReason, LatchedWith, Tell
  <2>2. (OwnerInv /\ PhaseInv /\ WindowInv /\ ReasonInv)'
    BY <1>4 DEF RtNotOperational, LatchReason, LatchedWith, Tell
  <2>3. (WaitInv /\ AbortOnlyWhenStuck)'
    BY <1>4 DEF RtNotOperational, LatchReason, LatchedWith, Tell
  <2>4. (ToldExactlyOnce /\ ReasonTruthful)'
    BY <1>4 DEF RtNotOperational, LatchReason, LatchedWith, Tell
  <2> QED  BY <2>1, <2>2, <2>3, <2>4
<1>5. CASE RtOperational
  BY <1>5 DEF RtOperational
<1>6. ASSUME NEW wkc \in Wkcs, RtProcess(wkc) PROVE IInv'
  <2>1. TypeOK'
    BY <1>6 DEF RtProcess, AfterProcess
  <2>2. (OwnerInv /\ PhaseInv /\ WindowInv /\ ReasonInv)'
    BY <1>6 DEF RtProcess, AfterProcess
  <2>3. (WaitInv /\ AbortOnlyWhenStuck)'
    BY <1>6 DEF RtProcess, AfterProcess
  <2>4. (ToldExactlyOnce /\ ReasonTruthful)'
    BY <1>6 DEF RtProcess, AfterProcess
  <2> QED  BY <2>1, <2>2, <2>3, <2>4
<1>7. CASE RtFaultLatch
  BY <1>7 DEF RtFaultLatch, LatchReason, LatchedWith
<1>8. CASE RtFaultFlag
  BY <1>8 DEF RtFaultFlag
<1>9. CASE RtPoll
  <2>1. CASE stopFlag
    <3>1. Tell(reason) /\ \A c \in Controls : Len(told[c]) = 0
      BY <1>9, <2>1 DEF RtPoll
    <3>2. TypeOK'
      BY <1>9, <2>1, <3>1, TellTyped DEF RtPoll
    <3>3. (OwnerInv /\ PhaseInv /\ WindowInv /\ ReasonInv /\ WaitInv /\ AbortOnlyWhenStuck)'
      BY <1>9, <2>1 DEF RtPoll
    <3>4. ToldExactlyOnce'
      BY <1>9, <2>1, <3>1, TellTyped DEF RtPoll
    <3>5. /\ wasOp /\ reason \in {"Requested", "BusFault"}
          /\ reason = "Requested" => asked
          /\ reason = "BusFault" => fault
      BY <1>9, <2>1 DEF RtPoll
    <3>6. ReasonTruthful'
      <4> SUFFICES ASSUME NEW c \in Controls, NEW i \in 1 .. Len(told'[c])
                   PROVE  /\ told'[c][i] # "None"
                          /\ told'[c][i] = "BusFault" => fault'
                          /\ told'[c][i] = "BringupAborted" => ~wasOp'
                          /\ told'[c][i] = "Requested" => asked'
                          /\ wasOp' /\ ~asked' => told'[c][i] = "BusFault"
        BY DEF ReasonTruthful
      <4>1. told'[c][i] = reason
        BY <3>1, TellTyped
      <4> QED  BY <1>9, <3>5, <4>1 DEF RtPoll
    <3> QED  BY <3>2, <3>3, <3>4, <3>6
  <2>2. CASE ~stopFlag
    BY <1>9, <2>2 DEF RtPoll
  <2> QED  BY <2>1, <2>2
<1>10. ASSUME NEW asks \in BOOLEAN, NEW torn \in SUBSET attached, NEW k \in 1 .. MaxOverrun,
           RtStep(asks, torn, k)
    PROVE  IInv'
  <2>1. TypeOK'
    <3>1. MasterTypeOK' /\ waited' \in Nat
      BY <1>10 DEF RtStep, Paced
    <3>3. reason' \in Reasons /\ stopFlag' \in BOOLEAN /\ asked' \in BOOLEAN
      BY <1>10 DEF RtStep, LatchReason, LatchedWith
    <3>2. windowLeft' \in Nat /\ windowSteps' \in Nat /\ rt' \in RtPcs
      BY <1>10 DEF RtStep
    <3> QED  BY <1>10, <3>1, <3>2, <3>3 DEF RtStep
  <2>2. (OwnerInv /\ PhaseInv /\ WindowInv /\ ReasonInv)'
    BY <1>10 DEF RtStep, Paced, LatchReason, LatchedWith, WindowOver
  <2>3. (WaitInv /\ AbortOnlyWhenStuck)'
    BY <1>10 DEF RtStep, Paced, LatchReason, LatchedWith, WindowOver
  <2>4. (ToldExactlyOnce /\ ReasonTruthful)'
    BY <1>10 DEF RtStep, Paced, LatchReason, LatchedWith, WindowOver
  <2> QED  BY <2>1, <2>2, <2>3, <2>4
<1>11. CASE RtFinish
  BY <1>11 DEF RtFinish
<1>12. CASE RtReturn
  BY <1>12 DEF RtReturn
<1>13. CASE RtWedge
  BY <1>13 DEF RtWedge
<1> HIDE DEF IInv
<1> QED
  BY <1>1, <1>2, <1>3, <1>4, <1>5, <1>6, <1>7, <1>8, <1>9, <1>10, <1>11, <1>12, <1>13
  DEF RtLoop

\* The invariant is inductive.
LEMMA InvInit == Init => IInv
<1> SUFFICES ASSUME Init PROVE IInv
  OBVIOUS
<1>1. TypeOK
  <2>1. MasterTypeOK
    BY DEF Init, MasterInit, MasterTypeOK, AlStates, AlRequests, BringupPhases
  <2>2. told \in [Controls -> Seq(Reasons)]
    <3>1. <<>> \in Seq(Reasons)
      OBVIOUS
    <3> QED  BY <3>1 DEF Init
  <2> QED  BY <2>1, <2>2 DEF Init, TypeOK, Phases, Reasons, OwnerPcs, RtPcs
<1>2. OwnerInv /\ PhaseInv /\ WindowInv /\ ReasonInv /\ AbortOnlyWhenStuck
  BY DEF Init, MasterInit, OwnerInv, PhaseInv, WindowInv, ReasonInv, AbortOnlyWhenStuck,
         Rising, Steady, Over
<1>3. WaitInv
  BY DEF Init, WaitInv
<1>4. ToldExactlyOnce /\ ReasonTruthful
  BY DEF Init, ToldExactlyOnce, ReasonTruthful
<1> QED  BY <1>1, <1>2, <1>3, <1>4 DEF IInv

\* Every step of every thread keeps it.
LEMMA InvKept == IInv /\ [Next]_vars => IInv'
<1>1. ASSUME IInv, Next PROVE IInv'
  BY <1>1, AskerKeeps, BuildKeeps, TeardownKeeps, LoopKeeps DEF Next
<1>2. ASSUME IInv, UNCHANGED vars PROVE IInv'
  <2>1. TypeOK'
    <3>1. MasterTypeOK'
      BY <1>2, MasterTypes DEF IInv, TypeOK, vars
    <3> QED  BY <1>2, <3>1 DEF IInv, TypeOK, vars, ownerVars, rtVars, sharedVars
  <2>2. UNCHANGED <<isOpen, bringupPhase, fault>>
    BY <1>2 DEF vars, masterVars, backendVars, bringupVars, healthVars
  <2> QED
    BY <1>2, <2>1, <2>2
    DEF IInv, OwnerInv, PhaseInv, WindowInv, ReasonInv, WaitInv, IterationsLeft,
        ToldExactlyOnce, ReasonTruthful, AbortOnlyWhenStuck,
        vars, ownerVars, rtVars, sharedVars
<1> QED  BY <1>1, <1>2

\* So it holds throughout.
LEMMA Invariant == Spec => []IInv
BY InvInit, InvKept, PTL DEF Spec

-----------------------------------------------------------------------------
\* The variables of the run, the Master's among them, keep their types.
THEOREM TypeCorrect == Spec => []TypeOK
<1>1. IInv => TypeOK
  BY DEF IInv
<1> QED  BY <1>1, Invariant, PTL

\* stop() joins the thread before it closes the bus, so that the real-time
\* thread never exchanges on a closed port.
THEOREM BusStaysOpen == Spec => []BusOpenWhileRunning
<1>1. IInv => BusOpenWhileRunning
  BY DEF IInv, TypeOK, OwnerInv, BusOpenWhileRunning
<1> QED  BY <1>1, Invariant, PTL

\* on_stop() reaches every attached control once.
THEOREM ToldOnce == Spec => []ToldExactlyOnce
<1>1. IInv => ToldExactlyOnce
  BY DEF IInv
<1> QED  BY <1>1, Invariant, PTL

\* The reason it is given is the real one.
THEOREM ToldTheTruth == Spec => []ReasonTruthful
<1>1. IInv => ReasonTruthful
  BY DEF IInv
<1> QED  BY <1>1, Invariant, PTL

\* The stopping window has one to teardown_cycles steps.
THEOREM WindowKept == Spec => []WindowBounded
<1>1. IInv => WindowBounded
  BY Derived DEF IInv, TypeOK, PhaseInv, WindowInv, WindowBounded, Rising, Steady, Over, RtPcs
<1> QED  BY <1>1, Invariant, PTL

\* The wait of stop() is long enough for every window that is not wedged.
THEOREM WaitIsEnough == Spec => []AbortOnlyWhenStuck
<1>1. IInv => AbortOnlyWhenStuck
  BY DEF IInv
<1> QED  BY <1>1, Invariant, PTL

-----------------------------------------------------------------------------
(***************************************************************************)
(* The Runner implements RunLife.                                          *)
(***************************************************************************)

\* The reasons the controls have been given, as RunLife sees them.
Causes == {told[c][1] : c \in {d \in Controls : told[d] # <<>>}}

\* No reason before on_stop(), and one of the attached controls has it after.
LEMMA CausesOf ==
  ASSUME IInv
  PROVE  /\ ~stopping /\ rt \notin Over => Causes = {}
         /\ stopping \/ rt \in Over => Causes # {}
<1> USE DEF IInv, TypeOK
<1>1. ASSUME ~stopping, rt \notin Over PROVE Causes = {}
  <2>1. \A c \in Controls : Len(told[c]) = 0
    BY <1>1 DEF ToldExactlyOnce, Over
  <2>2. \A c \in Controls : told[c] = <<>>
    BY <2>1
  <2> QED  BY <2>2 DEF Causes
<1>2. ASSUME stopping \/ rt \in Over PROVE Causes # {}
  <2>1. started
    BY <1>2 DEF OwnerInv, PhaseInv, Over
  <2>2. PICK c \in attached : TRUE
    BY <2>1 DEF OwnerInv
  <2>3. Len(told[c]) = 1
    BY <1>2, <2>2 DEF ToldExactlyOnce, Over
  <2>4. Len(<<>>) # 1
    OBVIOUS
  <2>5. told[c] # <<>>
    BY <2>3, <2>4, Zenon
  <2> QED  BY <2>2, <2>5 DEF Causes
<1> QED  BY <1>1, <1>2

\* The first call of on_stop() makes its reason the only one.
LEMMA CausesTold ==
  ASSUME IInv, ~stopping, rt \notin Over \cup {"None"}, NEW r \in Reasons, Tell(r)
  PROVE  Causes' = {r}
<1> USE DEF IInv, TypeOK
<1>1. \A c \in Controls : Len(told[c]) = 0
  BY DEF ToldExactlyOnce, Over
<1>2. PICK a \in attached : TRUE
  BY DEF OwnerInv
<1>3. \A c \in Controls : /\ told'[c] # <<>> <=> c \in attached
                          /\ c \in attached => told'[c][1] = r
  BY <1>1, TellTyped
<1> QED  BY <1>2, <1>3 DEF Causes

\* No other step changes a reason.
LEMMA CausesSame == UNCHANGED told => Causes' = Causes
BY DEF Causes

\* Another thread or the drive: a stop may be asked for, for the first time.
LEMMA AskerRefines ==
  ASSUME IInv, AskerLatch \/ AskerFlag \/ DriveStep
  PROVE  [Life!RunNext]_(Life!runVars)
<1> USE CausesSame, MasterFrame
<1> USE DEF IInv, TypeOK, Causes, Life!runVars, ownerVars, rtVars, sharedVars
<1>1. CASE AskerLatch
  BY <1>1 DEF AskerLatch, Life!RunNext, Life!RunAsk
<1>2. CASE AskerFlag
  BY <1>2 DEF AskerFlag
<1>3. CASE DriveStep
  BY <1>3 DEF DriveStep
<1> QED  BY <1>1, <1>2, <1>3

\* The owner opens the bus and begins the run.
LEMMA BuildRefines ==
  ASSUME IInv, OwnerBuild
  PROVE  [Life!RunNext]_(Life!runVars)
<1> USE CausesSame, MasterFrame
<1> USE DEF IInv, TypeOK, Causes, Life!runVars, ownerVars, rtVars, sharedVars
<1>1. CASE PrepareBus
  <2>1. CASE OpenBus
    BY <1>1, <2>1 DEF PrepareBus, OpenBus, BackendOpen, OwnerInv, PhaseInv,
       Life!RunNext, Life!RunOpen
  <2>2. CASE bringupPhase = "None" /\ (Configure \/ ConfigureFails)
    BY <1>1, <2>2 DEF PrepareBus
  <2> QED  BY <1>1, <2>1, <2>2 DEF PrepareBus
<1>2. ASSUME NEW c \in Controls, Attach(c) PROVE [Life!RunNext]_(Life!runVars)
  BY <1>2 DEF Attach
<1>3. CASE Start \/ StartSpawnFails
  BY <1>3 DEF Start, StartSpawnFails, OwnerInv, PhaseInv, Life!RunNext, Life!RunBegin
<1>4. CASE DestroyUnstarted \/ StopBegin
  BY <1>4 DEF DestroyUnstarted, StopBegin
<1> QED  BY <1>1, <1>2, <1>3, <1>4 DEF OwnerBuild

\* stop() asks, waits, and closes.
LEMMA TeardownRefines ==
  ASSUME IInv, OwnerTeardown
  PROVE  [Life!RunNext]_(Life!runVars)
<1> USE CausesSame, MasterFrame
<1> USE DEF IInv, TypeOK, Causes, Life!runVars, ownerVars, rtVars, sharedVars
<1>1. CASE StopLatch
  BY <1>1 DEF StopLatch, Life!RunNext, Life!RunAsk
<1>2. CASE StopRaiseFlag \/ StopSeesStopped \/ StopGivesUp \/ StopJoin
  BY <1>2 DEF StopRaiseFlag, StopSeesStopped, StopGivesUp, StopJoin
<1>3. CASE StopClose
  BY <1>3 DEF StopClose, OwnerInv, PhaseInv, ReasonInv, Life!RunNext, Life!RunCloses
<1> QED  BY <1>1, <1>2, <1>3 DEF OwnerTeardown

\* The real-time thread tells the controls and stops.
LEMMA LoopRefines ==
  ASSUME IInv, RtLoop \/ RtWedge
  PROVE  [Life!RunNext]_(Life!runVars)
<1> USE CausesSame, MasterFrame
<1> USE DEF IInv, TypeOK, Life!runVars, ownerVars, rtVars, sharedVars
<1>1. CASE RtSetup
  <2>1. CASE rt' = "BringupPoll" /\ UNCHANGED <<told, reason>>
    BY <1>1, <2>1 DEF RtSetup, Causes
  <2>2. CASE Tell("RtSetupFailed")
    <3>1. Causes = {} /\ Causes' = {"RtSetupFailed"} /\ phase = "BringingUp"
      BY <1>1, <2>2, CausesOf, CausesTold
      DEF RtSetup, PhaseInv, Rising, Steady, Over, Reasons
    <3> QED  BY <1>1, <3>1 DEF RtSetup, Causes, Life!RunNext, Life!RunFails, Life!EndReasons
  <2> QED  BY <1>1, <2>1, <2>2 DEF RtSetup
<1>2. CASE RtBringupPoll
  BY <1>2 DEF RtBringupPoll, Causes
<1>3. ASSUME NEW wkc \in Wkcs, NEW faulted \in SUBSET attached, NEW present \in SUBSET attached,
             NEW late \in BOOLEAN, NEW k \in 1 .. MaxOverrun,
             RtBringup(wkc, faulted, present, late, k)
      PROVE  [Life!RunNext]_(Life!runVars)
  BY <1>3 DEF RtBringup, Causes
<1>4. CASE RtNotOperational
  <2>1. /\ reason' = reason
        /\ reason \in {"Requested", "BringupAborted"}
        /\ reason = "Requested" => asked
        /\ phase = "BringingUp" /\ ~stopping
    BY <1>4 DEF RtNotOperational, LatchReason, LatchedWith, ReasonInv, PhaseInv,
       Rising, Steady, Over, Reasons
  <2>2. Causes = {} /\ Causes' = {reason}
    BY <1>4, <2>1, CausesOf, CausesTold DEF RtNotOperational, Over, Reasons
  <2> QED
    BY <1>4, <2>1, <2>2 DEF RtNotOperational, Causes, Life!RunNext, Life!RunFails, Life!EndReasons
<1>5. CASE RtOperational
  <2>1. Causes = {} /\ phase = "BringingUp"
    BY <1>5, CausesOf DEF RtOperational, PhaseInv, Rising, Steady, Over
  <2> QED  BY <1>5, <2>1 DEF RtOperational, Causes, Life!RunNext, Life!RunReachesOp
<1>6. ASSUME NEW wkc \in Wkcs, RtProcess(wkc) PROVE [Life!RunNext]_(Life!runVars)
  BY <1>6 DEF RtProcess, Causes
<1>7. CASE RtFaultLatch \/ RtFaultFlag \/ RtReturn \/ RtWedge
  BY <1>7 DEF RtFaultLatch, RtFaultFlag, RtReturn, RtWedge, Causes
<1>8. CASE RtPoll
  <2>1. CASE stopFlag
    <3>1. /\ reason \in {"Requested", "BusFault"}
          /\ reason = "Requested" => asked
          /\ phase = "Running" /\ ~stopping
      BY <1>8, <2>1 DEF RtPoll, ReasonInv, PhaseInv, Rising, Steady, Over, Reasons
    <3>2. Causes' = {reason}
      BY <1>8, <2>1, <3>1, CausesTold DEF RtPoll, Over, Reasons
    <3> QED
      BY <1>8, <2>1, <3>1, <3>2 DEF RtPoll, Causes, Life!RunNext, Life!RunLeaves, Life!EndReasons
  <2>2. CASE ~stopFlag
    BY <1>8, <2>2 DEF RtPoll, Causes
  <2> QED  BY <2>1, <2>2
<1>9. ASSUME NEW asks \in BOOLEAN, NEW torn \in SUBSET attached, NEW k \in 1 .. MaxOverrun,
             RtStep(asks, torn, k)
      PROVE  [Life!RunNext]_(Life!runVars)
  <2>1. asked' = asked \/ asked' = TRUE
    BY <1>9 DEF RtStep
  <2> QED  BY <1>9, <2>1 DEF RtStep, Causes, Life!RunNext, Life!RunAsk
<1>10. CASE RtFinish
  <2>1. Causes # {} /\ phase \in {"BringingUp", "Stopping"}
    BY <1>10, CausesOf DEF RtFinish, PhaseInv, Over
  <2> QED  BY <1>10, <2>1 DEF RtFinish, Causes, Life!RunNext, Life!RunStops
<1> HIDE DEF IInv, Life!runVars
<1> QED  BY <1>1, <1>2, <1>3, <1>4, <1>5, <1>6, <1>7, <1>8, <1>9, <1>10 DEF RtLoop

\* The Runner implements RunLife: whatever the bus, the controls and the other
\* threads do, its owner sees the run begin, run, end for one reason and stop,
\* and the bus closed after that.
THEOREM RunnerImplementsRunLife == Spec => ImplementsRunLife
<1>1. Init => Life!RunInit
  <2>1. Init => Causes = {}
    BY DEF Init, Causes
  <2> QED  BY <2>1 DEF Init, MasterInit, Causes, Life!RunInit
<1>2. IInv /\ [Next]_vars => [Life!RunNext]_(Life!runVars)
  <2>1. ASSUME IInv, Next PROVE [Life!RunNext]_(Life!runVars)
    BY <2>1, AskerRefines, BuildRefines, TeardownRefines, LoopRefines DEF Next
  <2>2. ASSUME UNCHANGED vars PROVE UNCHANGED Life!runVars
    BY <2>2, CausesSame
    DEF vars, masterVars, backendVars, rtVars, sharedVars, Causes, Life!runVars
  <2> QED  BY <2>1, <2>2
<1> QED  BY <1>1, <1>2, Invariant, PTL DEF Spec, ImplementsRunLife, Life!RunSpec

=============================================================================
