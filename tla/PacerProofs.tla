---------------------------- MODULE PacerProofs -----------------------------
(***************************************************************************)
(* What Pacer's run shows for one period, one clamp and a few clock steps, *)
(* for all of them: the type invariant with the bound of the integral, the *)
(* grid, the exact number of periods skipped and the monotonic deadline.   *)
(***************************************************************************)
EXTENDS Pacer, TLAPS

\* What a call of pace() adds to the deadline is a positive integer, and the
\* integral stays within its limit: the two facts about the controller that the
\* steps below rest on.
LEMMA StepPositive ==
  ASSUME TypeOK, NEW dc \in DcTimes
  PROVE  Step(dc) \in Int /\ Step(dc) >= 1
<1> USE PacerAssumption
<1>1. dc \in Int
  OBVIOUS
<1>2. PhaseError(dc) \in Int
  <2>1. (dc - Shift) % Period \in Int
    BY <1>1
  <2>2. Period \div 2 \in Int
    OBVIOUS
  <2> QED  BY <2>1, <2>2 DEF PhaseError
<1>3. Integrated(dc) \in Int
  <2>1. integral \in Int /\ IntegralLimit \in Int
    BY DEF TypeOK, IntegralLimit
  <2> QED  BY <1>2, <2>1 DEF Integrated, Clamp
<1>4. Truncated(PhaseError(dc), PGain) \in Int
  BY <1>2 DEF Truncated
<1>5. Truncated(Integrated(dc), IGain) \in Int
  BY <1>3 DEF Truncated
<1>6. Correction(dc) \in Int
  BY <1>4, <1>5 DEF Correction, Clamp
<1> QED  BY <1>6 DEF Step

LEMMA IntegralBounded ==
  ASSUME TypeOK, NEW dc \in DcTimes
  PROVE  Integrated(dc) \in (-IntegralLimit) .. IntegralLimit
<1> USE PacerAssumption
<1>1. IntegralLimit \in Nat
  BY DEF IntegralLimit
<1>2. integral \in (-IntegralLimit) .. IntegralLimit
  BY DEF TypeOK
<1> DEFINE move == IF PhaseError(dc) > 0 THEN 1 ELSE IF PhaseError(dc) < 0 THEN -1 ELSE 0
<1>3. move \in Int
  OBVIOUS
<1>4. Clamp(integral + move, IntegralLimit) \in (-IntegralLimit) .. IntegralLimit
  <2> HIDE DEF move
  <2> QED  BY <1>1, <1>2, <1>3 DEF Clamp
<1> QED  BY <1>2, <1>4 DEF Integrated

\* The inductive invariant: a sleeping thread has its deadline ahead, so that the
\* clock it wakes up to is ahead of the one it read.
PacerInv ==
  /\ TypeOK
  /\ pc = "Sleep" => next > now
  /\ OnGrid
  /\ NoneSkippedEarly

LEMMA PacerInductive == Spec => []PacerInv
<1> USE PacerAssumption
<1>1. Init => PacerInv
  <2>1. IntegralLimit \in Nat
    BY DEF IntegralLimit
  <2> QED  BY <2>1 DEF Init, PacerInv, TypeOK, OnGrid, NoneSkippedEarly
<1>2. PacerInv /\ [Next]_vars => PacerInv'
  <2> SUFFICES ASSUME PacerInv, [Next]_vars PROVE PacerInv'
    OBVIOUS
  <2>0. TypeOK
    BY DEF PacerInv
  <2>1. ASSUME NEW dc \in DcTimes, NEW d \in Stalls, Advance(dc, d) PROVE PacerInv'
    <3>1. Step(dc) \in Int /\ Integrated(dc) \in (-IntegralLimit) .. IntegralLimit
      BY <2>0, StepPositive, IntegralBounded
    <3>2. d \in Nat
      OBVIOUS
    <3>3. TypeOK'
      BY <2>0, <2>1, <3>1, <3>2 DEF Advance, TypeOK
    <3>4. OnGrid'
      <4>1. (ticks + 1) * Period = ticks * Period + Period
        BY <2>0 DEF TypeOK
      <4>2. ticks * Period \in Int
        BY <2>0 DEF TypeOK
      <4> QED  BY <2>0, <2>1, <3>1, <4>1, <4>2 DEF PacerInv, Advance, TypeOK, OnGrid
    <3> QED  BY <2>1, <3>3, <3>4 DEF PacerInv, Advance, NoneSkippedEarly
  <2>2. ASSUME NEW d \in Lags, Skip(d) PROVE PacerInv'
    <3>1. TypeOK'
      BY <2>0, <2>2 DEF Skip, TypeOK
    <3>2. OnGrid'
      <4>1. (ticks + 1) * Period = ticks * Period + Period
        BY <2>0 DEF TypeOK
      <4>2. ticks * Period \in Int
        BY <2>0 DEF TypeOK
      <4> QED  BY <2>0, <2>2, <4>1, <4>2 DEF PacerInv, Skip, TypeOK, OnGrid
    <3>3. NoneSkippedEarly'
      BY <2>0, <2>2 DEF Skip, TypeOK, NoneSkippedEarly
    <3> QED  BY <2>2, <3>1, <3>2, <3>3 DEF PacerInv, Skip
  <2>3. ASSUME NEW d \in Lags, CaughtUp(d) PROVE PacerInv'
    BY <2>0, <2>3 DEF PacerInv, CaughtUp, TypeOK, OnGrid, NoneSkippedEarly
  <2>4. ASSUME NEW d \in Stalls, Wake(d) PROVE PacerInv'
    BY <2>0, <2>4 DEF PacerInv, Wake, TypeOK, OnGrid, NoneSkippedEarly
  <2>5. ASSUME NEW d \in Stalls, Interrupted(d) PROVE PacerInv'
    BY <2>0, <2>5 DEF PacerInv, Interrupted, TypeOK, OnGrid, NoneSkippedEarly
  <2>6. CASE UNCHANGED vars
    BY <2>6 DEF vars, PacerInv, TypeOK, OnGrid, NoneSkippedEarly
  <2> QED  BY <2>1, <2>2, <2>3, <2>4, <2>5, <2>6 DEF Next
<1> QED  BY <1>1, <1>2, PTL DEF Spec

\* The integral of the phase controller stays within its anti-windup limit, and
\* the clock never runs behind its start, for every period, gain and clamp.
THEOREM TypeCorrect == Spec => []TypeOK
<1>1. PacerInv => TypeOK
  BY DEF PacerInv
<1> QED  BY <1>1, PacerInductive, PTL

\* DcPacer skips whole periods, never rebases and skips a period only if its
\* deadline was missed: for every period and every pattern of stalls.
THEOREM OverrunCost == Spec => []OverrunExact
<1>1. PacerInv => OverrunExact
  BY DEF PacerInv, OverrunExact
<1> QED  BY <1>1, PacerInductive, PTL

\* The deadline is monotonic for every period, one shorter than the clamp of the
\* correction included: the guard in advance() is enough.
THEOREM DeadlineMonotonic == Spec => NeverBackwards
<1> USE PacerAssumption
<1>1. PacerInv /\ [Next]_vars => [next' # next \/ pc' = "CatchUp" => next' > next]_vars
  <2> SUFFICES ASSUME PacerInv, Next PROVE next' # next \/ pc' = "CatchUp" => next' > next
    OBVIOUS
  <2>0. TypeOK
    BY DEF PacerInv
  <2>1. ASSUME NEW dc \in DcTimes, NEW d \in Stalls, Advance(dc, d) PROVE next' > next
    <3>1. Step(dc) \in Int /\ Step(dc) >= 1
      BY <2>0, StepPositive
    <3> QED  BY <2>0, <2>1, <3>1 DEF Advance, TypeOK
  <2>2. ASSUME NEW d \in Lags, Skip(d) PROVE next' > next
    BY <2>0, <2>2 DEF Skip, TypeOK
  <2>3. ASSUME NEW d \in Lags, CaughtUp(d) PROVE next' = next /\ pc' # "CatchUp"
    BY <2>3 DEF CaughtUp
  <2>4. ASSUME NEW d \in Stalls, Wake(d) \/ Interrupted(d)
        PROVE next' = next /\ pc' # "CatchUp"
    BY <2>4 DEF Wake, Interrupted
  <2> QED  BY <2>1, <2>2, <2>3, <2>4 DEF Next
<1> QED  BY <1>1, PacerInductive, PTL DEF Spec, NeverBackwards
=============================================================================
