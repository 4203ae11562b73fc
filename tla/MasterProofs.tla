---------------------------- MODULE MasterProofs ----------------------------
(***************************************************************************)
(* Proofs about the Master under its caller's discipline (MasterHistory),  *)
(* for every configuration.  The properties are not inductive: that the    *)
(* counters are the length of the trailing run of short, or of clean,      *)
(* exchanges has to be carried along.                                      *)
(***************************************************************************)
EXTENDS MasterHistory, TLAPS

\* What is still untouched before bring-up, and before Operational.
FreshInv ==
  /\ bringupPhase \in {"None", "Settle"} => holdLog = <<>>
  /\ bringupPhase \in {"None", "Settle"} => errSeen = "No"
  /\ bringupPhase # "Done" =>
       wkcLog = <<>> /\ badStreak = 0 /\ settleLeft = 0 /\ ~fault

\* settle_remaining_ is what is left of the grace.
GraceInv ==
  bringupPhase = "Done" =>
    settleLeft = IF Len(wkcLog) < Grace THEN Grace - Len(wkcLog) ELSE 0

\* consecutive_wkc_errors_ is the length of the trailing run of short
\* exchanges after the grace.
BadStreakInv ==
  /\ badStreak # 0 => Grace + badStreak <= Len(wkcLog)
  /\ \A j \in (Len(wkcLog) - badStreak + 1) .. Len(wkcLog) : wkcLog[j] = "bad"
  /\ Grace + badStreak < Len(wkcLog) => wkcLog[Len(wkcLog) - badStreak] = "ok"

\* bringup_op_hold_streak_ is the length of the trailing run of clean exchanges.
HoldStreakInv ==
  bringupPhase \notin {"None", "Settle"} =>
    /\ awaitCount = Len(holdLog)
    /\ holdStreak <= Len(holdLog)
    /\ \A j \in (Len(holdLog) - holdStreak + 1) .. Len(holdLog) : holdLog[j] = "ok"
    /\ holdStreak < Len(holdLog) => holdLog[Len(holdLog) - holdStreak] = "bad"
    /\ bringupPhase = "Done" <=> holdStreak >= HoldConfirm
    /\ bringupPhase = "Aborted" <=>
         holdStreak < HoldConfirm /\ Len(holdLog) >= GiveUpAt

\* The bring-up stops at the first hold and at the bound.
FirstInv ==
  \A k \in 1 .. (Len(holdLog) - 1) : ~HeldAt(k) /\ k < GiveUpAt

CauseInv ==
  /\ errSeen = "Nudged" => alCached
  /\ errSeen = "Due" => alCode

\* What the counters say of the history.
CounterInv ==
  /\ FreshInv
  /\ GraceInv
  /\ BadStreakInv
  /\ HoldStreakInv
  /\ FirstInv
  /\ FaultExact

IInv ==
  /\ TypeOK
  /\ CounterInv
  /\ CauseInv
  /\ OperationalExact

-----------------------------------------------------------------------------
\* The derived bounds are naturals, the thresholds at least one.
LEMMA Derived ==
  /\ SettleTarget \in Nat \ {0}
  /\ HoldConfirm \in Nat \ {0}
  /\ Nudge \in Nat \ {0}
  /\ GiveUpAt \in Nat \ {0}
  /\ Grace \in Nat
  /\ FaultThreshold \in Nat \ {0}
  /\ Wkcs \subseteq Int
BY MasterAssumption
   DEF SettleTarget, HoldConfirm, Nudge, GiveUpAt, Grace, FaultThreshold,
       AtLeastOne, Wkcs

LEMMA OutcomeType == \A b : Outcome(b) \in Outcomes
BY DEF Outcome, Outcomes

LEMMA TypeInvariant == TypeOK /\ [Next]_vars => TypeOK'
<1> SUFFICES ASSUME TypeOK, [Next]_vars PROVE TypeOK'
  OBVIOUS
<1> USE DEF TypeOK, MasterTypeOK, AlStates, AlRequests, BringupPhases
<1>1. CASE Open
  BY <1>1 DEF Open, OpenBus, BackendOpen, bringupVars, healthVars, histVars
<1>2. CASE ConfigureThrows
  BY <1>2 DEF ConfigureThrows, ConfigureFails, bringupVars, healthVars, histVars
<1>3. CASE ConfigureOk
  <2>1. /\ isOpen' \in BOOLEAN /\ alCached' \in BOOLEAN /\ alCode' \in BOOLEAN
        /\ operational' \in BOOLEAN /\ fault' \in BOOLEAN
    BY <1>3 DEF ConfigureOk, Configure
  <2>2. QED
    BY <1>3, <2>1 DEF ConfigureOk, Configure
<1>4. ASSUME NEW wkc \in Wkcs, NEW s \in BOOLEAN, NEW p \in BOOLEAN,
             Bringup(wkc, s, p)
      PROVE  TypeOK'
  <2>1. /\ holdLog' \in Seq(Outcomes)
        /\ wkcLog' \in Seq(Outcomes)
    BY <1>4, OutcomeType DEF Bringup
  <2>0. errSeen' \in {"No", "Nudged", "Due"}
    BY <1>4 DEF Bringup
  <2>2. CASE SettleStep
    BY <2>1, <2>0, <2>2 DEF SettleStep, healthVars
  <2>3. CASE AwaitStep(Clean(wkc, s, p))
    <3>1. alReq' \in AlRequests /\ alCached' \in BOOLEAN
      BY <2>3 DEF AwaitStep, ReackOp
    <3>2. alCode' \in BOOLEAN
      BY <2>3 DEF AwaitStep, NextAlCode
    <3>3. awaitCount' \in Nat /\ holdStreak' \in Nat
      BY <2>3 DEF AwaitStep, NextHoldStreak
    <3>4. operational' \in BOOLEAN /\ fault' \in BOOLEAN
      BY <2>3 DEF AwaitStep, healthVars
    <3>5. settleLeft' \in Nat /\ badStreak' \in Nat /\ bringupPhase' \in BringupPhases
      BY <2>3, Derived DEF AwaitStep, healthVars
    <3>6. QED
      BY <2>1, <2>0, <2>3, <3>1, <3>2, <3>3, <3>4, <3>5 DEF AwaitStep
  <2>4. CASE UNCHANGED masterVars
    BY <2>1, <2>0, <2>4 DEF masterVars, backendVars, bringupVars, healthVars
  <2>5. QED
    BY <1>4, <2>2, <2>3, <2>4 DEF Bringup, BringupStep
<1>5. ASSUME NEW wkc \in Wkcs, Steady(wkc) PROVE TypeOK'
  BY <1>5, Derived, OutcomeType
     DEF Steady, Process, NextBadStreak, NextSettleLeft, backendVars, bringupVars
<1>6. CASE Drive
  BY <1>6 DEF Drive, DriveAl, bringupVars, healthVars, histVars
<1>7. CASE Close
  BY <1>7 DEF Close, CloseBus, BackendClose, backendVars, bringupVars, histVars
<1>8. CASE UNCHANGED vars
  BY <1>8 DEF vars, masterVars, backendVars, bringupVars, healthVars, histVars
<1>9. QED
  BY <1>1, <1>2, <1>3, <1>4, <1>5, <1>6, <1>7, <1>8 DEF Next

\* The state of a Master is well typed in every reachable state.
THEOREM TypeCorrect == Spec => []TypeOK
<1>1. Init => TypeOK
  <2> SUFFICES ASSUME Init PROVE TypeOK
    OBVIOUS
  <2>1. /\ isOpen \in BOOLEAN /\ alCached \in BOOLEAN /\ alCode \in BOOLEAN
        /\ operational \in BOOLEAN /\ fault \in BOOLEAN
    BY DEF Init, MasterInit
  <2>2. QED
    BY <2>1 DEF Init, MasterInit, TypeOK, MasterTypeOK, AlStates, AlRequests,
                BringupPhases
<1>2. QED
  BY <1>1, TypeInvariant, PTL DEF Spec

-----------------------------------------------------------------------------
(***************************************************************************)
(* The counters summarise the history.  One lemma per part of IInv.        *)
(***************************************************************************)

\* Nothing of the run state moves outside bring-up and the steady loop: the
\* steps that only concern the backend.
Quiet == UNCHANGED <<bringupVars, settleLeft, badStreak, fault, histVars>>

LEMMA StepKinds ==
  ASSUME TypeOK, [Next]_vars
  PROVE  \/ Quiet
         \/ ConfigureOk
         \/ \E wkc \in Wkcs, s, p \in BOOLEAN :
              Bringup(wkc, s, p) /\ SettleStep
         \/ \E wkc \in Wkcs, s, p \in BOOLEAN :
              Bringup(wkc, s, p) /\ AwaitStep(Clean(wkc, s, p))
         \/ \E wkc \in Wkcs : Steady(wkc)
<1>1. CASE Open
  BY <1>1 DEF Open, OpenBus, Quiet, bringupVars, healthVars
<1>2. CASE ConfigureThrows
  BY <1>2 DEF ConfigureThrows, ConfigureFails, Quiet, bringupVars, healthVars
<1>3. CASE Drive
  BY <1>3 DEF Drive, DriveAl, Quiet, bringupVars, healthVars
<1>4. CASE Close
  BY <1>4 DEF Close, CloseBus, Quiet
<1>5. CASE UNCHANGED vars
  BY <1>5 DEF vars, masterVars, healthVars, Quiet
<1>6. ASSUME NEW wkc \in Wkcs, NEW s \in BOOLEAN, NEW p \in BOOLEAN,
             Bringup(wkc, s, p)
      PROVE  SettleStep \/ AwaitStep(Clean(wkc, s, p))
  BY <1>6 DEF Bringup, BringupStep
<1>7. QED
  BY <1>1, <1>2, <1>3, <1>4, <1>5, <1>6 DEF Next

LEMMA QuietStep ==
  ASSUME CounterInv, Quiet PROVE CounterInv'
BY DEF CounterInv, Quiet, bringupVars, histVars, FreshInv, GraceInv, BadStreakInv,
       HoldStreakInv, FirstInv, FaultExact, HeldAt, BadRunFrom

LEMMA ConfigureStep ==
  ASSUME TypeOK, CounterInv, ConfigureOk PROVE CounterInv'
<1>1. /\ holdLog' = <<>> /\ wkcLog' = <<>> /\ bringupPhase' = "Settle"
      /\ badStreak' = 0 /\ settleLeft' = 0 /\ ~fault' /\ errSeen' = "No"
  BY DEF ConfigureOk, Configure
<1>2. FaultExact'
  BY <1>1, Derived DEF FaultExact, BadRunFrom
<1>3. FreshInv' /\ GraceInv' /\ HoldStreakInv'
  BY <1>1 DEF FreshInv, GraceInv, HoldStreakInv
<1>4. BadStreakInv'
  BY <1>1, Derived DEF BadStreakInv
<1>5. FirstInv'
  BY <1>1 DEF FirstInv
<1>6. QED
  BY <1>2, <1>3, <1>4, <1>5 DEF CounterInv

LEMMA SettleStepInv ==
  ASSUME TypeOK, CounterInv, NEW wkc \in Wkcs, NEW s \in BOOLEAN, NEW p \in BOOLEAN,
         Bringup(wkc, s, p), SettleStep
  PROVE  CounterInv'
<1>1. /\ holdLog = <<>> /\ holdLog' = <<>> /\ wkcLog = <<>> /\ wkcLog' = <<>>
      /\ badStreak' = 0 /\ settleLeft' = 0 /\ ~fault'
      /\ bringupPhase' \in {"Settle", "AwaitOp"}
      /\ bringupPhase' = "AwaitOp" => awaitCount' = 0 /\ holdStreak' = 0
  BY DEF Bringup, SettleStep, CounterInv, FreshInv, healthVars
<1>0. errSeen' = "No"
  BY DEF Bringup, SettleStep, FindsError, CounterInv, FreshInv
<1>2. FaultExact'
  BY <1>1, Derived DEF FaultExact, BadRunFrom
<1>3. FreshInv' /\ GraceInv'
  BY <1>1, <1>0 DEF FreshInv, GraceInv
<1>4. HoldStreakInv'
  BY <1>1, Derived DEF HoldStreakInv
<1>5. BadStreakInv'
  BY <1>1, Derived DEF BadStreakInv
<1>6. FirstInv'
  BY <1>1 DEF FirstInv
<1>7. QED
  BY <1>2, <1>3, <1>4, <1>5, <1>6 DEF CounterInv

LEMMA AwaitStepInv ==
  ASSUME TypeOK, CounterInv, TypeOK',
         NEW wkc \in Wkcs, NEW s \in BOOLEAN, NEW p \in BOOLEAN,
         Bringup(wkc, s, p), AwaitStep(Clean(wkc, s, p))
  PROVE  CounterInv'
<1> DEFINE n == Len(holdLog)
           ok == Clean(wkc, s, p)
<1>1. /\ bringupPhase = "AwaitOp" /\ n \in Nat
      /\ awaitCount = n /\ holdStreak <= n /\ holdStreak \in Nat
      /\ \A j \in (n - holdStreak + 1) .. n : holdLog[j] = "ok"
      /\ holdStreak < n => holdLog[n - holdStreak] = "bad"
      /\ holdStreak < HoldConfirm /\ n < GiveUpAt
  BY Derived DEF AwaitStep, CounterInv, HoldStreakInv, TypeOK, MasterTypeOK
<1>2. /\ holdLog' = Append(holdLog, Outcome(ok)) /\ wkcLog' = wkcLog
      /\ awaitCount' = n + 1
      /\ holdStreak' = IF ok THEN holdStreak + 1 ELSE 0
      /\ bringupPhase' = IF holdStreak' >= HoldConfirm THEN "Done"
                         ELSE IF n + 1 >= GiveUpAt THEN "Aborted" ELSE "AwaitOp"
  BY <1>1 DEF Bringup, AwaitStep, NextHoldStreak
<1>3. /\ Len(holdLog') = n + 1 /\ holdLog'[n + 1] = Outcome(ok)
      /\ \A j \in 1 .. n : holdLog'[j] = holdLog[j]
  BY <1>2 DEF TypeOK
<1>4. wkcLog' = <<>> /\ badStreak' = 0 /\ ~fault'
      /\ settleLeft' = IF bringupPhase' = "Done" THEN Grace ELSE 0
  BY <1>1, <1>2 DEF AwaitStep, CounterInv, FreshInv, healthVars
<1>5. FreshInv' /\ GraceInv'
  BY <1>2, <1>4, Derived DEF FreshInv, GraceInv
<1>6. BadStreakInv' /\ FaultExact'
  BY <1>4, Derived DEF BadStreakInv, FaultExact, BadRunFrom
<1>7. HoldStreakInv'
  <2>1. CASE ok
    BY <1>1, <1>2, <1>3, <2>1, Derived DEF HoldStreakInv, Outcome
  <2>2. CASE ~ok
    BY <1>1, <1>2, <1>3, <2>2, Derived DEF HoldStreakInv, Outcome
  <2>3. QED
    BY <2>1, <2>2
<1>8. FirstInv'
  <2>1. \A k \in 1 .. n : HeldAt(k)' <=> HeldAt(k)
    BY <1>3, Derived DEF HeldAt
  <2>2. ~HeldAt(n)
    BY <1>1, Derived DEF HeldAt
  <2>3. \A k \in 1 .. n : ~HeldAt(k) /\ k < GiveUpAt
    BY <1>1, <2>2 DEF CounterInv, FirstInv
  <2>4. QED
    BY <1>1, <1>3, <2>1, <2>3 DEF FirstInv
<1>9. QED
  BY <1>5, <1>6, <1>7, <1>8 DEF CounterInv

LEMMA SteadyStepInv ==
  ASSUME TypeOK, CounterInv, TypeOK', NEW wkc \in Wkcs, Steady(wkc)
  PROVE  CounterInv'
<1> DEFINE n == Len(wkcLog)
           short == Short(wkc)
           T == FaultThreshold
<1>1. /\ bringupPhase = "Done" /\ bringupPhase' = "Done"
      /\ UNCHANGED <<bringupVars, holdLog, errSeen>>
      /\ n \in Nat /\ badStreak \in Nat /\ settleLeft \in Nat
  BY DEF Steady, Process, bringupVars, TypeOK, MasterTypeOK
<1>2. settleLeft > 0 <=> n < Grace
  BY <1>1, Derived DEF CounterInv, GraceInv
<1>3. /\ Len(wkcLog') = n + 1 /\ wkcLog'[n + 1] = Outcome(~short)
      /\ \A j \in 1 .. n : wkcLog'[j] = wkcLog[j]
  BY DEF Steady, TypeOK
<1>4. badStreak' = IF short /\ ~(n < Grace) THEN badStreak + 1 ELSE 0
  BY <1>2 DEF Steady, Process, NextBadStreak
<1>5. FreshInv'
  BY <1>1 DEF CounterInv, FreshInv, bringupVars
<1>6. GraceInv'
  BY <1>1, <1>2, <1>3, Derived DEF Steady, Process, CounterInv, GraceInv, NextSettleLeft
<1>7. HoldStreakInv' /\ FirstInv'
  BY <1>1 DEF CounterInv, HoldStreakInv, FirstInv, HeldAt, bringupVars
<1>8. BadStreakInv'
  <2>1. CASE short /\ ~(n < Grace)
    <3>1. /\ badStreak' = badStreak + 1 /\ Len(wkcLog') - badStreak' = n - badStreak
          /\ wkcLog'[n + 1] = "bad" /\ Grace <= n
      BY <1>1, <1>3, <1>4, <2>1, Derived DEF Outcome
    <3>2. /\ badStreak # 0 => Grace + badStreak <= n
          /\ \A j \in (n - badStreak + 1) .. n : wkcLog[j] = "bad"
          /\ Grace + badStreak < n => wkcLog[n - badStreak] = "ok"
      BY DEF CounterInv, BadStreakInv
    <3>3. Grace + badStreak' <= Len(wkcLog')
      BY <1>1, <1>3, <3>1, <3>2, Derived
    <3>4. \A j \in (n - badStreak + 1) .. (n + 1) : wkcLog'[j] = "bad"
      BY <1>1, <1>3, <3>1, <3>2, Derived
    <3>5. Grace + badStreak' < Len(wkcLog') => wkcLog'[n - badStreak] = "ok"
      BY <1>1, <1>3, <3>1, <3>2, Derived
    <3>6. QED
      BY <1>3, <3>1, <3>3, <3>4, <3>5 DEF BadStreakInv
  <2>2. CASE ~short
    BY <1>1, <1>3, <1>4, <2>2, Derived DEF CounterInv, BadStreakInv, Outcome
  <2>3. CASE n < Grace
    <3>1. badStreak' = 0 /\ Len(wkcLog') = n + 1 /\ ~(Grace < n + 1)
      BY <1>1, <1>3, <1>4, <2>3, Derived
    <3>2. QED
      BY <1>1, <3>1, Derived DEF BadStreakInv
  <2>4. QED
    BY <2>1, <2>2, <2>3
<1>9. FaultExact'
  <2> DEFINE trip == short /\ ~(n < Grace) /\ badStreak + 1 >= T
  <2>1. fault' <=> (fault \/ trip)
    <3>1. fault' <=> fault \/ (short /\ ~(settleLeft > 0) /\ badStreak' >= MaxWkcErrors)
      BY DEF Steady, Process
    <3>2. short /\ ~(n < Grace) =>
            (badStreak' >= MaxWkcErrors <=> badStreak + 1 >= T)
      BY <1>1, <1>4, MasterAssumption DEF FaultThreshold, AtLeastOne
    <3>3. QED
      BY <1>2, <3>1, <3>2
  <2>2. \A i \in 1 .. n : i + T - 1 <= n => (BadRunFrom(i)' <=> BadRunFrom(i))
    BY <1>1, <1>3, Derived DEF BadRunFrom
  <2>3. \A i \in (Grace + 1) .. (n + 1) : i + T - 1 = n + 1 =>
          (BadRunFrom(i)' <=> trip)
    <3> SUFFICES ASSUME NEW i \in (Grace + 1) .. (n + 1), i + T - 1 = n + 1
                 PROVE  BadRunFrom(i)' <=> trip
      OBVIOUS
    <3>1. BadRunFrom(i)' <=> \A j \in i .. (n + 1) : wkcLog'[j] = "bad"
      BY <1>1, <1>3, Derived DEF BadRunFrom
    <3>2. ASSUME trip PROVE \A j \in i .. (n + 1) : wkcLog'[j] = "bad"
      BY <1>1, <1>3, <3>2, Derived DEF CounterInv, BadStreakInv, Outcome
    <3>3. ASSUME \A j \in i .. (n + 1) : wkcLog'[j] = "bad" PROVE trip
      <4>1. short
        BY <1>1, <1>3, <3>3, Derived DEF Outcome
      <4>2. ~(n < Grace)
        BY <1>1, Derived
      <4>3. badStreak + 1 >= T
        BY <1>1, <1>3, <3>3, Derived DEF CounterInv, BadStreakInv
      <4>4. QED
        BY <4>1, <4>2, <4>3
    <3>4. QED
      BY <3>1, <3>2, <3>3
  <2>4. trip => n + 2 - T \in (Grace + 1) .. (n + 1)
    BY <1>1, Derived DEF CounterInv, BadStreakInv
  <2>5. (\E i \in (Grace + 1) .. (n + 1) : BadRunFrom(i)')
          <=> ((\E i \in (Grace + 1) .. n : BadRunFrom(i)) \/ trip)
    <3>1. ASSUME NEW i \in (Grace + 1) .. (n + 1), BadRunFrom(i)'
          PROVE  (\E k \in (Grace + 1) .. n : BadRunFrom(k)) \/ trip
      <4>1. i + T - 1 <= n + 1
        BY <1>3, <3>1 DEF BadRunFrom
      <4>2. CASE i + T - 1 = n + 1
        BY <2>3, <3>1, <4>2
      <4>3. CASE i + T - 1 <= n
        BY <1>1, <2>2, <3>1, <4>3, Derived
      <4>4. QED
        BY <1>1, <4>1, <4>2, <4>3, Derived
    <3>2. ASSUME NEW i \in (Grace + 1) .. n, BadRunFrom(i)
          PROVE  \E k \in (Grace + 1) .. (n + 1) : BadRunFrom(k)'
      <4>1. i + T - 1 <= n /\ i \in 1 .. n /\ i \in (Grace + 1) .. (n + 1)
        BY <1>1, <3>2, Derived DEF BadRunFrom
      <4>2. QED
        BY <2>2, <3>2, <4>1
    <3>3. ASSUME trip PROVE \E k \in (Grace + 1) .. (n + 1) : BadRunFrom(k)'
      <4>1. n + 2 - T \in (Grace + 1) .. (n + 1) /\ (n + 2 - T) + T - 1 = n + 1
        BY <1>1, <2>4, <3>3, Derived
      <4>2. QED
        BY <2>3, <3>3, <4>1
    <3>4. QED
      BY <3>1, <3>2, <3>3
  <2>6. QED
    BY <1>3, <2>1, <2>5 DEF CounterInv, FaultExact
<1>10. QED
  BY <1>5, <1>6, <1>7, <1>8, <1>9 DEF CounterInv

LEMMA CounterStep ==
  ASSUME TypeOK, CounterInv, TypeOK', [Next]_vars PROVE CounterInv'
BY StepKinds, QuietStep, ConfigureStep, SettleStepInv, AwaitStepInv, SteadyStepInv

LEMMA CauseStep ==
  ASSUME TypeOK, CounterInv, CauseInv, [Next]_vars PROVE CauseInv'
<1> USE DEF CauseInv
<1>0. bringupPhase = "None" => errSeen = "No"
  BY DEF CounterInv, FreshInv
<1>1. CASE Open
  BY <1>0, <1>1 DEF Open, OpenBus, bringupVars, histVars
<1>2. CASE ConfigureThrows
  BY <1>0, <1>2 DEF ConfigureThrows, histVars
<1>3. CASE ConfigureOk
  BY <1>3 DEF ConfigureOk
<1>4. ASSUME NEW wkc \in Wkcs, NEW s \in BOOLEAN, NEW p \in BOOLEAN,
             Bringup(wkc, s, p)
      PROVE  CauseInv'
  <2>1. CASE bringupPhase = "AwaitOp"
    <3>1. alCode' = NextAlCode /\ (awaitCount' % Nudge = 0 => alCached' = (al = "SafeOpErr"))
          /\ (FindsError \/ errSeen # "No" \/ errSeen' = "No")
      BY <1>4, <2>1 DEF Bringup, BringupStep, SettleStep, AwaitStep, ReackOp
    <3>2. /\ errSeen' = "Nudged" => FindsError
          /\ errSeen' = "Due" => errSeen # "No"
      BY <1>4 DEF Bringup
    <3>3. QED
      BY <3>1, <3>2 DEF FindsError, NextAlCode, TypeOK
  <2>2. CASE bringupPhase = "Settle"
    <3>1. SettleStep /\ ~FindsError
      BY <1>4, <2>2 DEF Bringup, BringupStep, AwaitStep, FindsError
    <3>2. errSeen # "No" => errSeen \in {"Nudged", "Due"}
      BY DEF TypeOK
    <3>3. errSeen = "No"
      BY <2>2 DEF CounterInv, FreshInv
    <3>4. QED
      BY <1>4, <3>1, <3>3 DEF Bringup
  <2>3. QED
    BY <1>4, <2>1, <2>2 DEF Bringup
<1>5. ASSUME NEW wkc \in Wkcs, Steady(wkc) PROVE CauseInv'
  BY <1>5 DEF Steady, Process, backendVars, bringupVars
<1>6. CASE Drive
  BY <1>6 DEF Drive, DriveAl, bringupVars, histVars
<1>7. CASE Close
  BY <1>7 DEF Close, CloseBus, BackendClose, backendVars, bringupVars, histVars
<1>8. CASE UNCHANGED vars
  BY <1>8 DEF vars, masterVars, backendVars, bringupVars, histVars
<1>9. QED
  BY <1>1, <1>2, <1>3, <1>4, <1>5, <1>6, <1>7, <1>8 DEF Next

LEMMA OperationalStep ==
  ASSUME TypeOK, CounterInv, OperationalExact, [Next]_vars PROVE OperationalExact'
<1> USE DEF OperationalExact
<1>1. CASE Open
  BY <1>1 DEF Open, OpenBus, BackendOpen, bringupVars, healthVars
<1>2. CASE ConfigureThrows
  BY <1>2 DEF ConfigureThrows, ConfigureFails, bringupVars, healthVars
<1>3. CASE ConfigureOk
  BY <1>3 DEF ConfigureOk, Configure
<1>4. ASSUME NEW wkc \in Wkcs, NEW s \in BOOLEAN, NEW p \in BOOLEAN,
             Bringup(wkc, s, p)
      PROVE  OperationalExact'
  <2>1. CASE SettleStep
    BY <1>4, <2>1 DEF SettleStep, healthVars
  <2>2. CASE AwaitStep(Clean(wkc, s, p))
    BY <1>4, <2>2 DEF Bringup, BringupStep, AwaitStep, healthVars
  <2>3. QED
    BY <1>4, <2>1, <2>2 DEF Bringup, BringupStep
<1>5. ASSUME NEW wkc \in Wkcs, Steady(wkc) PROVE OperationalExact'
  BY <1>5 DEF Steady, Process, backendVars, bringupVars
<1>6. CASE Drive
  BY <1>6 DEF Drive, DriveAl, bringupVars, healthVars
<1>7. CASE Close
  BY <1>7 DEF Close, CloseBus, BackendClose, bringupVars
<1>8. CASE UNCHANGED vars
  BY <1>8 DEF vars, masterVars, backendVars, bringupVars, healthVars
<1>9. QED
  BY <1>1, <1>2, <1>3, <1>4, <1>5, <1>6, <1>7, <1>8 DEF Next

LEMMA InitIInv == Init => CounterInv /\ CauseInv /\ OperationalExact
<1> SUFFICES ASSUME Init PROVE CounterInv /\ CauseInv /\ OperationalExact
  OBVIOUS
<1>1. /\ holdLog = <<>> /\ wkcLog = <<>> /\ bringupPhase = "None"
      /\ badStreak = 0 /\ settleLeft = 0 /\ ~fault /\ errSeen = "No"
      /\ ~operational
  BY DEF Init, MasterInit
<1>2. FaultExact
  BY <1>1, Derived DEF FaultExact, BadRunFrom
<1>3. FreshInv /\ GraceInv /\ HoldStreakInv /\ CauseInv /\ OperationalExact
  BY <1>1 DEF FreshInv, GraceInv, HoldStreakInv, CauseInv, OperationalExact
<1>4. BadStreakInv
  BY <1>1, Derived DEF BadStreakInv
<1>5. FirstInv
  BY <1>1 DEF FirstInv
<1>6. QED
  BY <1>2, <1>3, <1>4, <1>5 DEF CounterInv

\* The inductive invariant holds in every reachable state.
THEOREM Invariance == Spec => []IInv
<1>1. Init => CounterInv /\ CauseInv /\ OperationalExact
  BY InitIInv
<1>2. TypeOK /\ TypeOK' /\ CounterInv /\ CauseInv /\ OperationalExact /\ [Next]_vars
        => (CounterInv /\ CauseInv /\ OperationalExact)'
  BY CounterStep, CauseStep, OperationalStep
<1>3. QED
  BY <1>1, <1>2, TypeCorrect, PTL DEF Spec, IInv

\* For every configuration, process() latches the bus fault exactly after
\* max_consecutive_wkc_errors short exchanges in a row past the grace.
THEOREM FaultLatch == Spec => []FaultExact
<1>1. IInv => FaultExact
  BY DEF IInv, CounterInv
<1>2. QED
  BY <1>1, Invariance, PTL

\* For every configuration, bringup_step() ends at the first full hold, or at
\* the await bound when there was none.
THEOREM BringupDecision == Spec => []BringupExact
<1>1. IInv => BringupExact
  <2> SUFFICES ASSUME IInv PROVE BringupExact
    OBVIOUS
  <2> DEFINE n == Len(holdLog)
  <2>1. n \in Nat /\ holdStreak \in Nat /\ bringupPhase \in BringupPhases
    BY DEF IInv, TypeOK, MasterTypeOK
  <2>2. CASE bringupPhase \in {"None", "Settle"}
    BY <2>1, <2>2, Derived DEF IInv, CounterInv, FreshInv, BringupExact, HeldAt
  <2>3. CASE bringupPhase \notin {"None", "Settle"}
    <3>1. HeldAt(n) <=> holdStreak >= HoldConfirm
      BY <2>1, <2>3, Derived DEF IInv, CounterInv, HoldStreakInv, HeldAt
    <3>2. QED
      BY <2>1, <2>3, <3>1, Derived
         DEF IInv, CounterInv, HoldStreakInv, FirstInv, BringupExact
  <2>4. QED
    BY <2>2, <2>3
<1>2. QED
  BY <1>1, Invariance, PTL

\* For every configuration, all_operational() is true exactly while a
\* confirmed bus is open and not faulted.
THEOREM OperationalFlag == Spec => []OperationalExact
BY Invariance, PTL DEF IInv

\* For every configuration, the reason for a refused OP request survives the
\* acknowledge that clears it in the drive.
THEOREM CauseLatch == Spec => []CauseKept
<1>1. IInv => CauseKept
  BY DEF IInv, CauseInv, CauseKept
<1>2. QED
  BY <1>1, Invariance, PTL
=============================================================================
