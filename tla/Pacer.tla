------------------------------- MODULE Pacer --------------------------------
(***************************************************************************)
(* The cyclic pacer of the real-time loop: realtime::DcPacer               *)
(* (src/ethercat/realtime.hpp) and the phase controller it calls,          *)
(* dc_phase_correction (src/ethercat/dc_sync.hpp).  The Runner calls       *)
(* pace() once per cycle: the deadline is advanced by one corrected        *)
(* period, whole periods are skipped while it is behind the clock, which   *)
(* is read again for every one of them, and the thread sleeps until then.  *)
(*                                                                         *)
(* The clock is the environment: it may move between any two steps of the  *)
(* thread.  Time is in units in which the gains and the clamp are small    *)
(* for TLC; 64-bit nanoseconds do not wrap.                                *)
(***************************************************************************)
EXTENDS Integers

CONSTANTS
  Period,         \* period_ns_
  Shift,          \* shift_ns_
  MaxCorrection,  \* max_correction_ns, 50 us
  PGain,          \* the divisor of the proportional part, 100
  IGain,          \* the divisor of the integral part, 20
  DcTimes,        \* the values of dc_time, 0 without a DC clock (external)
  Stalls,         \* how far the clock moves while the thread works or oversleeps
  Lags,           \* how far it moves between two readings of the catch-up loop
  MaxTicks        \* bound: the calls of pace() stop after so many periods

ASSUME PacerAssumption ==
  /\ Period \in Nat \ {0} /\ Shift \in Int
  /\ MaxCorrection \in Nat /\ PGain \in Nat \ {0} /\ IGain \in Nat \ {0}
  /\ DcTimes \subseteq Int
  /\ Stalls \subseteq Nat /\ Lags \subseteq 0 .. (Period - 1)
  /\ MaxTicks \in Nat

VARIABLES
  now,       \* monotonic_ns()
  pc,        \* the thread works, is in the catch-up loop, or sleeps
  next,      \* next_
  integral,  \* integral_
  skipped,   \* the periods skipped by the present call
  first,     \* history: the deadline armed at construction
  drift,     \* history: the sum of the corrections so far
  ticks      \* history: the periods the deadline has moved

vars == <<now, pc, next, integral, skipped, first, drift, ticks>>

IntegralLimit == MaxCorrection * IGain

TypeOK ==
  /\ now \in Nat
  /\ pc \in {"Work", "CatchUp", "Sleep"}
  /\ next \in Int /\ first \in Int
  /\ integral \in (-IntegralLimit) .. IntegralLimit
  /\ skipped \in Nat /\ ticks \in Nat /\ drift \in Int

Init ==
  /\ now = 0 /\ pc = "Work"
  /\ first = now + Period /\ next = first
  /\ integral = 0 /\ skipped = 0 /\ drift = 0 /\ ticks = 0

-----------------------------------------------------------------------------
(***************************************************************************)
(* dc_phase_correction.                                                    *)
(***************************************************************************)

\* Integer division of C++, which truncates towards zero.
Truncated(a, b) == IF a >= 0 THEN a \div b ELSE -((-a) \div b)

Clamp(x, limit) == IF x > limit THEN limit ELSE IF x < -limit THEN -limit ELSE x

\* The signed distance to the phase aimed at, in (-cycle / 2, cycle / 2].
PhaseError(dc) ==
  LET delta == (dc - Shift) % Period
  IN  IF delta > Period \div 2 THEN delta - Period ELSE delta

\* The integral moves by one in the direction of the error, within its limit.
WoundUp(dc) ==
  IF dc = 0 THEN integral
  ELSE integral + (IF PhaseError(dc) > 0 THEN 1 ELSE IF PhaseError(dc) < 0 THEN -1 ELSE 0)

Integrated(dc) ==
  IF dc = 0 THEN integral
  ELSE Clamp(integral + (IF PhaseError(dc) > 0 THEN 1
                         ELSE IF PhaseError(dc) < 0 THEN -1 ELSE 0), IntegralLimit)

Correction(dc) ==
  IF dc = 0 THEN 0
  ELSE Clamp(-Truncated(PhaseError(dc), PGain) - Truncated(Integrated(dc), IGain),
             MaxCorrection)

-----------------------------------------------------------------------------
(***************************************************************************)
(* DcPacer.                                                                *)
(***************************************************************************)

\* advance: at least one unit, whatever the correction.
Step(dc) == IF Period + Correction(dc) < 1 THEN 1 ELSE Period + Correction(dc)

\* A cycle's work is done after d and pace(dc) is called.
Advance(dc, d) ==
  /\ pc = "Work" /\ ticks < MaxTicks
  /\ now' = now + d
  /\ integral' = Integrated(dc)
  /\ next' = next + Step(dc)
  /\ drift' = drift + Step(dc) - Period
  /\ ticks' = ticks + 1
  /\ skipped' = 0
  /\ pc' = "CatchUp"
  /\ UNCHANGED first

\* advance_to_deadline: the deadline is behind the clock just read.
SkipRebases(d) ==
  /\ pc = "CatchUp"
  /\ now' = now + d
  /\ next <= now'
  /\ next' = now' + Period
  /\ ticks' = ticks + 1
  /\ skipped' = skipped + 1
  /\ UNCHANGED <<pc, integral, first, drift>>

Skip(d) ==
  /\ pc = "CatchUp"
  /\ now' = now + d
  /\ next <= now'
  /\ next' = next + Period
  /\ ticks' = ticks + 1
  /\ skipped' = skipped + 1
  /\ UNCHANGED <<pc, integral, first, drift>>

\* The deadline is ahead of it: clock_nanosleep.
CaughtUpNever(d) ==
  /\ pc = "CatchUp"
  /\ skipped = 0
  /\ now' = now + d
  /\ next > now'
  /\ pc' = "Sleep"
  /\ UNCHANGED <<next, integral, skipped, first, drift, ticks>>

CaughtUp(d) ==
  /\ pc = "CatchUp"
  /\ now' = now + d
  /\ next > now'
  /\ pc' = "Sleep"
  /\ UNCHANGED <<next, integral, skipped, first, drift, ticks>>

\* The sleep ends at the deadline or d later, ...
Wake(d) ==
  /\ pc = "Sleep"
  /\ now' = next + d
  /\ pc' = "Work"
  /\ UNCHANGED <<next, integral, skipped, first, drift, ticks>>

\* ... or early, when a signal interrupts it: the result is not looked at.
Interrupted(d) ==
  /\ pc = "Sleep"
  /\ now + d < next
  /\ now' = now + d
  /\ pc' = "Work"
  /\ UNCHANGED <<next, integral, skipped, first, drift, ticks>>

Next ==
  \/ \E dc \in DcTimes, d \in Stalls : Advance(dc, d)
  \/ \E d \in Lags : Skip(d)
  \/ \E d \in Lags : CaughtUp(d)
  \/ \E d \in Stalls : Wake(d)
  \/ \E d \in Stalls : Interrupted(d)

Spec == Init /\ [][Next]_vars

\* The catch-up loop runs on: nothing in it waits.
FairSpec == Spec /\ WF_vars(\E d \in Lags : Skip(d) \/ CaughtUp(d))

-----------------------------------------------------------------------------
(***************************************************************************)
(* Properties.                                                             *)
(***************************************************************************)

\* The deadline never moves backwards and never stands still when it is
\* advanced, even at a period shorter than the largest correction.
NeverBackwards == [][next' # next \/ pc' = "CatchUp" => next' > next]_vars

\* Up to the sum of the phase corrections, the deadline stays on the grid it was
\* armed on, and the deadline before the last one skipped was not ahead of the
\* clock.
OnGrid           == next = first + ticks * Period + drift
NoneSkippedEarly == skipped > 0 /\ pc = "CatchUp" => next - Period <= now

\* A transient overrun costs whole periods only, and no more of them than were
\* missed, however often the thread stalls or is woken early.
OverrunExact == OnGrid /\ NoneSkippedEarly

\* However late the thread is, the catch-up loop ends.
CatchUpEnds == pc = "CatchUp" ~> pc = "Sleep"
=============================================================================
