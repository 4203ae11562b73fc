--------------------------- MODULE MasterHistory ----------------------------
(***************************************************************************)
(* The Master driven by one caller in the order the code uses (init,       *)
(* configure, bringup_step until it is done, process, close), with the     *)
(* history of what the exchanges returned.  The counters of the Master are *)
(* a compressed form of that history; the properties compare the decisions *)
(* they lead to with what the whole history says.                          *)
(***************************************************************************)
EXTENDS Master, Sequences

CONSTANTS
  MaxCycles   \* bound on the steady exchanges of one run

ASSUME HistoryAssumption == MaxCycles \in Nat

VARIABLES
  holdLog,   \* the outcome of the k-th exchange of AwaitOp
  wkcLog,    \* the outcome of the k-th exchange since Operational
  errSeen    \* did a reack_op find the drive in error ("Nudged"), and has another
             \* cycle run since ("Due")?

histVars == <<holdLog, wkcLog, errSeen>>
vars == <<masterVars, histVars>>

Outcomes == {"ok", "bad"}
Outcome(ok) == IF ok THEN "ok" ELSE "bad"

Init ==
  /\ MasterInit
  /\ holdLog = <<>> /\ wkcLog = <<>> /\ errSeen = "No"

TypeOK ==
  /\ MasterTypeOK
  /\ holdLog \in Seq(Outcomes)
  /\ wkcLog \in Seq(Outcomes)
  /\ errSeen \in {"No", "Nudged", "Due"}

-----------------------------------------------------------------------------
\* A Master object brings the bus up once: the owner builds another to retry.
Open == bringupPhase = "None" /\ OpenBus /\ UNCHANGED histVars

\* The caller configures a fresh Master once; a throw leaves it unconfigured.
ConfigureThrows ==
  /\ bringupPhase = "None"
  /\ ConfigureFails
  /\ UNCHANGED histVars

ConfigureOk ==
  /\ bringupPhase = "None"
  /\ Configure
  /\ holdLog' = <<>> /\ wkcLog' = <<>> /\ errSeen' = "No"

\* Does the reack_op of this step find the drive in SAFE-OP with an error?
FindsError ==
  bringupPhase = "AwaitOp" /\ awaitCount' % Nudge = 0 /\ al = "SafeOpErr"

Bringup(wkc, syncFaulted, present) ==
  /\ bringupPhase \in {"Settle", "AwaitOp"}
  /\ BringupStep(wkc, syncFaulted, present)
  /\ holdLog' = IF bringupPhase = "AwaitOp"
                THEN Append(holdLog, Outcome(Clean(wkc, syncFaulted, present)))
                ELSE holdLog
  /\ errSeen' = IF errSeen # "No" THEN "Due"
                ELSE IF FindsError THEN "Nudged" ELSE "No"
  /\ UNCHANGED wkcLog

Steady(wkc) ==
  /\ bringupPhase = "Done"
  /\ Len(wkcLog) < MaxCycles
  /\ Process(wkc)
  /\ wkcLog' = Append(wkcLog, Outcome(~Short(wkc)))
  /\ UNCHANGED <<holdLog, errSeen>>

Drive == DriveAl /\ UNCHANGED histVars

Close == isOpen /\ CloseBus /\ UNCHANGED histVars

Next ==
  \/ Open
  \/ ConfigureThrows
  \/ ConfigureOk
  \/ \E wkc \in Wkcs, syncFaulted, present \in BOOLEAN :
        Bringup(wkc, syncFaulted, present)
  \/ \E wkc \in Wkcs : Steady(wkc)
  \/ Drive
  \/ Close

Spec == Init /\ [][Next]_vars

-----------------------------------------------------------------------------
(***************************************************************************)
(* Properties.                                                             *)
(***************************************************************************)

FaultThreshold == AtLeastOne(MaxWkcErrors)

\* Exchanges i .. i+FaultThreshold-1 of the steady loop were all short.
BadRunFrom(i) ==
  /\ i + FaultThreshold - 1 <= Len(wkcLog)
  /\ \A j \in i .. (i + FaultThreshold - 1) : wkcLog[j] = "bad"

\* The HoldConfirm exchanges of AwaitOp that end with the k-th were all clean.
HeldAt(k) ==
  /\ k >= HoldConfirm
  /\ \A j \in (k - HoldConfirm + 1) .. k : holdLog[j] = "ok"

\* process() latches the bus fault exactly when max_consecutive_wkc_errors
\* short exchanges in a row have happened, all of them after the post-OP grace:
\* a streak that began in the grace does not count, and a good exchange after
\* the latch does not take it back.
FaultExact ==
  fault <=> \E i \in (Grace + 1) .. Len(wkcLog) : BadRunFrom(i)

\* bringup_step() declares OP on the first exchange that completes a hold of
\* op_hold_confirm_cycles clean ones, and gives up exactly when the await bound
\* is reached with no such hold; it never does both and never goes on after.
BringupExact ==
  LET n == Len(holdLog)
  IN  /\ bringupPhase = "Done" <=> HeldAt(n)
      /\ bringupPhase = "Aborted" <=> (n >= GiveUpAt /\ ~HeldAt(n))
      /\ \A k \in 1 .. (n - 1) : ~HeldAt(k) /\ k < GiveUpAt

\* all_operational() is true exactly while a confirmed bus is open and not
\* faulted: what recovery and the status calls rely on.
OperationalExact ==
  operational <=> (bringupPhase = "Done" /\ isOpen /\ ~fault)

\* Once a reack_op has found the drive refusing OP and one more bring-up cycle
\* has run, the reason is latched until the next configure(), although the
\* acknowledge makes the drive's own code read zero again.
CauseKept == errSeen = "Due" => alCode
=============================================================================
