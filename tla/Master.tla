------------------------------- MODULE Master -------------------------------
(***************************************************************************)
(* The EtherCAT master of src/ethercat/master.cpp on top of the SOEM       *)
(* backend: opening the bus, configure(), the bring-up state machine that  *)
(* bringup_step() advances by one cyclic exchange per call, and process(), *)
(* which watches the working counter and latches a bus fault.              *)
(*                                                                         *)
(* This module defines the operations only; who calls them, and in which   *)
(* order, is the business of the modules that extend it (MasterHistory     *)
(* and Runner).  The bus has one drive, as every configuration built by    *)
(* ServoController does.  An exchange returns a working counter wkc chosen *)
(* by the environment, relative to the expected one.                       *)
(***************************************************************************)
EXTENDS Integers

CONSTANTS
  UseDc,              \* MasterConfig.use_distributed_clocks
  DcOpGateCycles,     \* MasterConfig.dc_op_gate_cycles
  DcSettleCycles,     \* MasterConfig.dc_settle_cycles
  HoldConfirmCycles,  \* MasterConfig.op_hold_confirm_cycles (0 means 1)
  NudgeInterval,      \* MasterConfig.op_nudge_interval_cycles (0 means 1)
  AwaitBound,         \* op_await_timeout_ms at the loop rate, in cycles (0 means 1)
  MaxWkcErrors,       \* MasterConfig.max_consecutive_wkc_errors
  ExpectedWkc         \* the full working counter of the mapped bus

ASSUME MasterAssumption ==
  /\ UseDc \in BOOLEAN
  /\ DcOpGateCycles \in Nat
  /\ DcSettleCycles \in Nat
  /\ HoldConfirmCycles \in Nat
  /\ NudgeInterval \in Nat
  /\ AwaitBound \in Nat
  /\ MaxWkcErrors \in Nat
  /\ ExpectedWkc \in Nat \ {0}

VARIABLES
  isOpen,        \* SoemBackend: the interface is open
  al,            \* the drive's EtherCAT application-layer state
  alReq,         \* the AL-control write the drive has not answered yet
  alCached,      \* SOEM's cached ALstatuscode of the drive is non-zero
  bringupPhase,  \* bringup_phase_, "None" before the first configure()
  settleCount,   \* bringup_settle_count_
  awaitCount,    \* bringup_await_count_
  holdStreak,    \* bringup_op_hold_streak_
  alCode,        \* bringup_al_code_ is non-zero (latched)
  operational,   \* operational_
  settleLeft,    \* settle_remaining_, the post-OP grace
  badStreak,     \* consecutive_wkc_errors_
  fault          \* fault_, the latch Runner and CycleContext::fault() read

backendVars == <<isOpen, al, alReq, alCached>>
bringupVars == <<bringupPhase, settleCount, awaitCount, holdStreak, alCode>>
healthVars  == <<operational, settleLeft, badStreak, fault>>
masterVars  == <<backendVars, bringupVars, healthVars>>

AlStates      == {"Init", "PreOp", "SafeOp", "SafeOpErr", "Op"}
AlRequests    == {"None", "Ack", "Op"}
BringupPhases == {"None", "Settle", "AwaitOp", "Done", "Aborted"}

\* The working counters an exchange can return, one per case the code tells
\* apart: no frame, a short count, the full count, and more than expected.
Wkcs == {-1, ExpectedWkc - 1, ExpectedWkc, ExpectedWkc + 1}

AtLeastOne(n) == IF n = 0 THEN 1 ELSE n

SettleTarget == IF UseDc /\ DcOpGateCycles # 0 THEN DcOpGateCycles ELSE 1
HoldConfirm  == AtLeastOne(HoldConfirmCycles)
Nudge        == AtLeastOne(NudgeInterval)
GiveUpAt     == AtLeastOne(AwaitBound)
Grace        == IF UseDc THEN DcSettleCycles ELSE 0

MasterTypeOK ==
  /\ isOpen \in BOOLEAN
  /\ al \in AlStates
  /\ alReq \in AlRequests
  /\ alCached \in BOOLEAN
  /\ bringupPhase \in BringupPhases
  /\ settleCount \in Nat
  /\ awaitCount \in Nat
  /\ holdStreak \in Nat
  /\ alCode \in BOOLEAN
  /\ operational \in BOOLEAN
  /\ settleLeft \in Nat
  /\ badStreak \in Nat
  /\ fault \in BOOLEAN

MasterInit ==
  /\ isOpen = FALSE /\ al = "Init" /\ alReq = "None" /\ alCached = FALSE
  /\ bringupPhase = "None" /\ settleCount = 0 /\ awaitCount = 0
  /\ holdStreak = 0 /\ alCode = FALSE
  /\ operational = FALSE /\ settleLeft = 0 /\ badStreak = 0 /\ fault = FALSE

(***************************************************************************)
(* The backend and the drive behind it.                                    *)
(***************************************************************************)

\* SoemBackend::open: the bus ends in PRE-OP, or nothing stays open.
BackendOpen ==
  /\ ~isOpen
  /\ isOpen' = TRUE
  /\ al' = "PreOp"
  /\ alReq' = "None"
  /\ alCached' = FALSE

\* SoemBackend::close: SYNC0 off, the drive walked down to INIT, port closed;
\* nothing at all when the port is not open.
BackendClose ==
  IF isOpen
  THEN /\ isOpen' = FALSE
       /\ al' = "Init"
       /\ alReq' = "None"
       /\ UNCHANGED alCached
  ELSE UNCHANGED backendVars

\* SoemBackend::reack_op: refresh the AL state, then acknowledge an error or
\* ask again for OP from a plain SAFE-OP.
ReackOp ==
  /\ alCached' = (al = "SafeOpErr")
  /\ alReq' = IF al = "SafeOpErr" THEN "Ack"
              ELSE IF al = "SafeOp" THEN "Op" ELSE alReq

\* The drive (external): it answers an AL request, or drops out of OP.
DriveAl ==
  /\ isOpen
  /\ \/ /\ alReq = "Op" /\ al = "SafeOp"
        /\ al' \in {"Op", "SafeOpErr"}
        /\ alReq' = "None"
     \/ /\ alReq = "Ack" /\ al = "SafeOpErr"
        /\ al' = "SafeOp"
        /\ alReq' = "None"
     \/ /\ al = "Op"
        /\ al' = "SafeOpErr"
        /\ UNCHANGED alReq
  /\ UNCHANGED <<isOpen, alCached, bringupVars, healthVars>>

(***************************************************************************)
(* Opening and configuring the bus.                                        *)
(***************************************************************************)

\* Master::init: a wrong slave count throws with the port already open, which
\* leaves the same state, so the outcome is the caller's to tell.
OpenBus ==
  /\ BackendOpen
  /\ UNCHANGED <<bringupVars, healthVars>>

\* Master::configure throws: the drive refuses PRE-OP, the map, or SAFE-OP.
\* None of the run state is reset.
ConfigureFails ==
  /\ isOpen
  /\ al' \in {al, "PreOp"}
  /\ alReq' = "None"
  /\ alCached' \in BOOLEAN
  /\ UNCHANGED <<isOpen, bringupVars, healthVars>>

\* Master::configure: the bus is at SAFE-OP and every run counter is reset.
Configure ==
  /\ isOpen
  /\ al' = "SafeOp"
  /\ alReq' = "None"
  /\ alCached' = FALSE
  /\ bringupPhase' = "Settle"
  /\ settleCount' = 0
  /\ awaitCount' = 0
  /\ holdStreak' = 0
  /\ alCode' = FALSE
  /\ fault' = FALSE
  /\ badStreak' = 0
  /\ settleLeft' = 0
  /\ operational' = FALSE
  /\ UNCHANGED isOpen

(***************************************************************************)
(* bringup_step, one exchange of the bring-up.                             *)
(***************************************************************************)

\* Does this exchange count towards holding OP?
Clean(wkc, syncFaulted, present) ==
  wkc = ExpectedWkc /\ ~syncFaulted /\ present

SettleStep ==
  /\ bringupPhase = "Settle"
  /\ settleCount' = settleCount + 1
  /\ IF settleCount' >= SettleTarget
     THEN /\ alReq' = "Op"
          /\ awaitCount' = 0
          /\ holdStreak' = 0
          /\ bringupPhase' = "AwaitOp"
     ELSE UNCHANGED <<alReq, awaitCount, holdStreak, bringupPhase>>
  /\ UNCHANGED <<isOpen, al, alCached, alCode, healthVars>>

\* A clean exchange lengthens the hold, any other one restarts it.
HoldStreakKept(clean) == IF clean THEN holdStreak + 1 ELSE holdStreak
NextHoldStreak(clean) == IF clean THEN holdStreak + 1 ELSE 0

\* The last non-zero AL status code is kept: a later read of zero (the error
\* has been acknowledged) does not clear it.
AlCodeLive == alCached
NextAlCode == alCode \/ alCached

\* The hold threshold is tested before the give-up bound: OP confirmed on the
\* very last cycle counts.
AwaitStep(clean) ==
  /\ bringupPhase = "AwaitOp"
  /\ awaitCount' = awaitCount + 1
  /\ alCode' = NextAlCode
  /\ IF awaitCount' % Nudge = 0 THEN ReackOp ELSE UNCHANGED <<alReq, alCached>>
  /\ holdStreak' = NextHoldStreak(clean)
  /\ IF holdStreak' >= HoldConfirm
     THEN /\ operational' = TRUE
          /\ settleLeft' = Grace
          /\ fault' = FALSE
          /\ badStreak' = 0
          /\ bringupPhase' = "Done"
     ELSE /\ bringupPhase' = IF awaitCount' >= GiveUpAt THEN "Aborted" ELSE "AwaitOp"
          /\ UNCHANGED healthVars
  /\ UNCHANGED <<isOpen, al, settleCount>>

BringupStep(wkc, syncFaulted, present) ==
  /\ isOpen
  /\ \/ SettleStep
     \/ AwaitStep(Clean(wkc, syncFaulted, present))
     \/ /\ bringupPhase \in {"Done", "Aborted"}
        /\ UNCHANGED masterVars

(***************************************************************************)
(* process, one exchange of the steady loop.                               *)
(***************************************************************************)

Short(wkc) == wkc < 0 \/ wkc < ExpectedWkc

\* The streak of short exchanges.  The grace clears it on every cycle, so that
\* no streak begun inside the grace carries past its end.
BadStreakThroughGrace(short, inGrace) == IF short THEN badStreak + 1 ELSE 0
NextBadStreak(short, inGrace) == IF short /\ ~inGrace THEN badStreak + 1 ELSE 0

\* The grace counts down to zero (an unsigned counter) and stays there.
NextSettleLeftUnguarded == settleLeft - 1
NextSettleLeft == IF settleLeft > 0 THEN settleLeft - 1 ELSE 0

Process(wkc) ==
  LET inGrace == settleLeft > 0
      trip    == Short(wkc) /\ ~inGrace /\ badStreak' >= MaxWkcErrors
  IN  /\ isOpen
      /\ settleLeft' = NextSettleLeft
      /\ badStreak' = NextBadStreak(Short(wkc), inGrace)
      /\ fault' = (fault \/ trip)
      /\ operational' = (operational /\ ~trip)
      /\ UNCHANGED <<backendVars, bringupVars>>

\* Master::close
CloseBusStaysOperational ==
  /\ BackendClose
  /\ UNCHANGED <<bringupVars, operational, settleLeft, badStreak, fault>>

CloseBus ==
  /\ operational' = FALSE
  /\ BackendClose
  /\ UNCHANGED <<bringupVars, settleLeft, badStreak, fault>>
=============================================================================
