----------------------- MODULE ServoControllerProofs ------------------------
(***************************************************************************)
(* Proofs about the controller, for any number of callers, moves and queue *)
(* places.  What carries them is who has seen a move id: it is drawn once, *)
(* the real-time thread learns it from the queue only, and it leaves the   *)
(* slot only with the end of its move, so whoever claimed the slot either  *)
(* still has it or has been ended.  The wake-ups are kept because the bump *)
(* always follows what a waiter looks at.                                  *)
(***************************************************************************)
EXTENDS ServoController, SequenceTheorems, TLAPS

\* A caller whose target is not in the queue yet, or that pushes none: the
\* real-time thread has never seen its move id.
Unseen(c) == pc[c] # "Idle" /\ (verb[c] = "home" \/ pc[c] \in {"Claim", "Cas", "Push"})

\* Move ids are drawn once: no two calls share one, and every id anywhere in the
\* system has been drawn.
IdInv ==
  /\ \A c \in Callers : pc[c] # "Idle" => gen[c] \in 1 .. nextGen
  /\ \A c, d \in Callers : pc[c] # "Idle" /\ pc[d] # "Idle" /\ gen[c] = gen[d] => c = d
  /\ slot <= nextGen /\ active <= nextGen
  /\ \A g \in ended : g \in 1 .. nextGen
  /\ \A i \in 1 .. Len(queue) : queue[i].gen <= nextGen
  /\ \A c \in Callers : verb[c] = "home" => pc[c] # "Push"
  /\ \A c \in Callers : pc[c] \in {"Sdo", "HomePush", "Restore"} => verb[c] = "home"

\* What the real-time thread has seen.
SeenInv ==
  \A c \in Callers : Unseen(c) =>
    /\ gen[c] # active /\ gen[c] \notin ended /\ ~QueuedTarget(gen[c])
    /\ pc[c] \in {"Claim", "Cas"} => slot # gen[c]

\* The published ends are on record.
EndInv ==
  /\ completed # 0 => completed \in ended
  /\ failed # 0 => failed \in ended
  /\ FirstTerminalWins

\* The queue has a last target if it has one at all.
LastTarget(i) ==
  /\ i \in 1 .. Len(queue) /\ queue[i].kind = "SetTarget"
  /\ \A j \in (i + 1) .. Len(queue) : queue[j].kind # "SetTarget"

QueueInv == Has("SetTarget") => \E i \in 1 .. Len(queue) : LastTarget(i)

\* Who is past its claim has the slot, or its move has ended.
SlotInv ==
  /\ \A c \in Callers : Claimed(c) => slot = gen[c] \/ gen[c] \in ended
  /\ \A c \in Callers : pc[c] = "Cas" => cur[c] = 0 \/ cur[c] \in ended

\* While the run lasts, a homing request, in the queue or running, is the only
\* one and has its caller waiting for it, and the result of a request that is
\* about to be pushed is still open.
HomingInv ==
  ~rtExited /\ ~stopping =>
    /\ \A c \in Callers : pc[c] = "HomePush" => homing = "Running"
    /\ Has("StartHoming") \/ lifecycle = "Homing" =>
         /\ homing = "Running"
         /\ ~(Has("StartHoming") /\ lifecycle = "Homing")
         /\ \E c \in Callers : verb[c] = "home" /\ pc[c] \in {"Load", "Check", "Parked"}

\* The reset word stands for one cycle, the first of a window.
ResetInv == resetBit => lifecycle = "Resetting" /\ resetCycles = 0

\* The inductive invariant.
IInv ==
  /\ TypeOK /\ IdInv /\ SeenInv /\ EndInv /\ QueueInv /\ SlotInv /\ HomingInv
  /\ NoLostWakeup /\ ResetInv

\* The queue's bound has not been reached: the next push gets through.
RoomInQueue == Len(queue) < QueueCap

\* The slot's move is not forgotten.
OwnerInv ==
  slot # 0 =>
    \/ \E c \in Callers : Claimed(c) /\ gen[c] = slot /\ Unseen(c)
    \/ \E i \in 1 .. Len(queue) : LastTarget(i) /\ queue[i].gen = slot
    \/ slot = active /\ ~Has("SetTarget")

-----------------------------------------------------------------------------
(***************************************************************************)
(* The command queue.                                                      *)
(***************************************************************************)

\* A push appends the command or, when the queue is full, does nothing.
LEMMA PushFacts ==
  ASSUME queue \in Seq(Commands), Len(queue) <= QueueCap, NEW command \in Commands,
         Push(command)
  PROVE  /\ queue' \in Seq(Commands) /\ Len(queue') <= QueueCap
         /\ Len(queue) <= Len(queue') /\ Len(queue') <= Len(queue) + 1
         /\ RoomInQueue => Len(queue') = Len(queue) + 1
         /\ \A i \in 1 .. Len(queue) : queue'[i] = queue[i]
         /\ \A i \in 1 .. Len(queue') : i > Len(queue) => queue'[i] = command
<1>1. Len(queue) \in Nat
  BY LenProperties
<1>2. CASE Len(queue) < QueueCap
  <2>1. queue' = Append(queue, command)
    BY <1>2 DEF Push
  <2>2. /\ Append(queue, command) \in Seq(Commands)
        /\ Len(Append(queue, command)) = Len(queue) + 1
        /\ \A i \in 1 .. Len(queue) : Append(queue, command)[i] = queue[i]
        /\ Append(queue, command)[Len(queue) + 1] = command
    BY AppendProperties
  <2> QED  BY <1>1, <1>2, <2>1, <2>2, QueueAssumption
<1>3. CASE ~(Len(queue) < QueueCap)
  <2>1. queue' = queue
    BY <1>3 DEF Push
  <2> QED  BY <1>1, <1>3, <2>1 DEF RoomInQueue
<1> QED  BY <1>2, <1>3

\* A push adds no kind but its own, and the queue still has its last target.
LEMMA PushKeeps ==
  ASSUME queue \in Seq(Commands), Len(queue) <= QueueCap, QueueInv,
         NEW command \in Commands, Push(command)
  PROVE  /\ QueueInv'
         /\ \A kind \in Kinds : Has(kind)' => Has(kind) \/ command.kind = kind
         /\ \A g \in Gens : QueuedTarget(g)' =>
              QueuedTarget(g) \/ (command.kind = "SetTarget" /\ command.gen = g)
         /\ \A n \in Nat :
              command.gen <= n /\ (\A i \in 1 .. Len(queue) : queue[i].gen <= n)
              => \A i \in 1 .. Len(queue') : queue'[i].gen <= n
<1>1. Len(queue) \in Nat /\ Len(queue') \in Nat
  BY PushFacts, LenProperties
<1>2. QueueInv'
  <2>1. CASE Len(queue') = Len(queue)
    BY <1>1, <2>1, PushFacts DEF QueueInv, Has, LastTarget
  <2>2. CASE Len(queue') = Len(queue) + 1 /\ command.kind = "SetTarget"
    <3>1. PICK n \in Nat : n = Len(queue) + 1
      BY <1>1
    <3>2. LastTarget(n)'
      BY <1>1, <2>2, <3>1, PushFacts DEF LastTarget
    <3> QED  BY <1>1, <2>2, <3>1, <3>2 DEF QueueInv
  <2>3. CASE Len(queue') = Len(queue) + 1 /\ command.kind # "SetTarget"
    <3>1. ASSUME Has("SetTarget")'
          PROVE  \E i \in 1 .. Len(queue') : LastTarget(i)'
      <4>1. Has("SetTarget")
        BY <1>1, <2>3, <3>1, PushFacts DEF Has
      <4>2. PICK i \in 1 .. Len(queue) : LastTarget(i)
        BY <4>1 DEF QueueInv
      <4>3. LastTarget(i)'
        BY <1>1, <2>3, <4>2, PushFacts DEF LastTarget
      <4> QED  BY <1>1, <2>3, <4>3
    <3> QED  BY <3>1 DEF QueueInv
  <2> QED  BY <1>1, <2>1, <2>2, <2>3, PushFacts
<1>3. ASSUME NEW kind \in Kinds, Has(kind)'
      PROVE  Has(kind) \/ command.kind = kind
  BY <1>1, <1>3, PushFacts DEF Has
<1>4. ASSUME NEW g \in Gens, QueuedTarget(g)'
      PROVE  QueuedTarget(g) \/ (command.kind = "SetTarget" /\ command.gen = g)
  BY <1>1, <1>4, PushFacts DEF QueuedTarget
<1>5. ASSUME NEW n \in Nat, command.gen <= n, \A i \in 1 .. Len(queue) : queue[i].gen <= n,
             NEW i \in 1 .. Len(queue')
      PROVE  queue'[i].gen <= n
  <2>1. CASE i <= Len(queue)
    <3>1. i \in 1 .. Len(queue)
      BY <1>1, <2>1
    <3> QED  BY <1>5, <3>1, PushFacts
  <2>2. CASE i > Len(queue)
    BY <1>5, <2>2, PushFacts
  <2> QED  BY <1>1, <2>1, <2>2
<1> QED  BY <1>2, <1>3, <1>4, <1>5

\* The target of a batch is the last one pushed.
LEMMA LatestTarget ==
  ASSUME queue \in Seq(Commands), NEW i \in 1 .. Len(queue), LastTarget(i)
  PROVE  Has("SetTarget") /\ LatestGen("SetTarget") = queue[i].gen
<1> DEFINE P(k) == /\ queue[k].kind = "SetTarget"
                   /\ \A j \in (k + 1) .. Len(queue) : queue[j].kind # "SetTarget"
           k0 == CHOOSE k \in 1 .. Len(queue) : P(k)
<1>1. P(i)
  BY DEF LastTarget
<1>2. k0 \in 1 .. Len(queue) /\ P(k0)
  <2> HIDE DEF P
  <2> QED  BY <1>1
<1>3. Len(queue) \in Nat
  BY LenProperties
<1>4. k0 = i
  <2> HIDE DEF k0
  <2> QED  BY <1>1, <1>2, <1>3
<1>5. LatestGen("SetTarget") = queue[k0].gen
  BY DEF LatestGen
<1> QED  BY <1>1, <1>4, <1>5 DEF Has

\* What waits in the queue is typed.
LEMMA QueuedGens ==
  ASSUME TypeOK
  PROVE  \A i \in 1 .. Len(queue) : queue[i] \in Commands /\ queue[i].gen \in Gens
<1>1. ASSUME NEW i \in 1 .. Len(queue) PROVE queue[i] \in Commands
  BY LenProperties DEF TypeOK
<1> QED  BY <1>1 DEF Commands

\* What a drain makes the active move: the one there was, or the last target.
LEMMA Routed ==
  ASSUME TypeOK, QueueInv
  PROVE  /\ ActiveRouted \in Gens
         /\ ActiveRouted = active \/ QueuedTarget(ActiveRouted)
         /\ \A i \in 1 .. Len(queue) : LastTarget(i) => ActiveRouted = queue[i].gen
<1>1. ASSUME NEW i \in 1 .. Len(queue), LastTarget(i)
      PROVE  /\ ActiveRouted = queue[i].gen
             /\ queue[i].gen \in Gens /\ QueuedTarget(queue[i].gen)
  <2>1. Has("SetTarget") /\ LatestGen("SetTarget") = queue[i].gen
    BY <1>1, LatestTarget DEF TypeOK
  <2> QED  BY <1>1, <2>1, QueuedGens DEF ActiveRouted, Adopts, QueuedTarget, LastTarget
<1>2. CASE ~Has("SetTarget")
  BY <1>1, <1>2 DEF ActiveRouted, Adopts, TypeOK
<1>3. CASE Has("SetTarget")
  BY <1>1, <1>3 DEF QueueInv
<1> QED  BY <1>1, <1>2, <1>3
-----------------------------------------------------------------------------
(***************************************************************************)
(* The motion slot.                                                        *)
(***************************************************************************)

\* At most one caller past its claim has a move that has not ended; a homing run
\* never counts as ended.
LEMMA OneOwner ==
  ASSUME IInv, NEW c \in Callers, NEW d \in Callers, Claimed(c), Claimed(d),
         gen[c] \notin ended, gen[d] \notin ended
  PROVE  c = d
BY DEF IInv, SlotInv, IdInv, Claimed

\* Whoever homes has the slot for itself until its call is over: before its
\* request is pushed there is no other in the queue or under way.
LEMMA NoRequest ==
  ASSUME IInv, ~rtExited, ~stopping, NEW c \in Callers, pc[c] \in {"Sdo", "HomePush"}
  PROVE  ~(Has("StartHoming") \/ lifecycle = "Homing")
<1> SUFFICES ASSUME Has("StartHoming") \/ lifecycle = "Homing" PROVE FALSE
  OBVIOUS
<1>1. PICK d \in Callers : verb[d] = "home" /\ pc[d] \in {"Load", "Check", "Parked"}
  BY DEF IInv, HomingInv
<1>2. gen[c] \notin ended /\ gen[d] \notin ended
  BY <1>1 DEF IInv, SeenInv, Unseen, IdInv
<1>3. Claimed(c) /\ Claimed(d)
  BY <1>1 DEF Claimed
<1> QED  BY <1>1, <1>2, <1>3, OneOwner

-----------------------------------------------------------------------------
(***************************************************************************)
(* A cycle of the real-time thread.                                        *)
(***************************************************************************)

\* What the end of a cycle publishes: the ends it adds are of the move that was
\* active or of the one it adopts, no end is overwritten by the opposite one,
\* and whatever changes is followed by a bump.
LEMMA Outcome ==
  ASSUME TypeOK, QueueInv, EndInv,
         NEW seen, NEW lc, NEW m, NEW w, NEW late \in BOOLEAN, NEW outcome,
         EndCycle(seen, lc, m, w, late, outcome)
  PROVE  /\ active' = ActiveRouted
         /\ completed' \in Gens /\ failed' \in Gens /\ ended' \subseteq Gens
         /\ ended \subseteq ended'
         /\ \A g \in ended' : g \in ended \/ (g # 0 /\ g \in {active, ActiveRouted})
         /\ EndInv'
         /\ \/ completed' = completed /\ failed' = failed
            \/ \A c \in Callers : pc[c] \in {"Check", "Parked"} => woken'[c]
<1> DEFINE g == ActiveRouted
           cancelled == IF CancelsActive THEN {active} ELSE {}
           aborted   == IF late /\ Aborts(g) THEN {g} ELSE {}
           failedNow == IF aborted # {} THEN g ELSE IF cancelled # {} THEN active ELSE failed
           done      == IF Completes(g, failedNow, m, seen.atTarget) THEN {g} ELSE {}
<1>1. /\ active' = g
      /\ failed' = failedNow
      /\ completed' = IF done # {} THEN g ELSE completed
      /\ ended' = ended \cup cancelled \cup aborted \cup done
      /\ WakeIf(\/ cancelled \cup aborted \cup done # {}
                \/ HomingRefused \/ outcome # "None"
                \/ FaultBit(seen.dev) /\ ~faulted)
  BY DEF EndCycle
<1>2. g \in Gens
  BY Routed
<1>3. /\ cancelled # {} => cancelled = {active} /\ active # 0 /\ completed # active
      /\ aborted # {} => aborted = {g} /\ g # 0 /\ completed # g
      /\ done # {} => done = {g} /\ g # 0 /\ failedNow # g
  BY DEF CancelsActive, Aborts, Completes
<1>4. cancelled \cup aborted \cup done # {} =>
        \A c \in Callers : pc[c] \in {"Check", "Parked"} => woken'[c]
  BY <1>1 DEF WakeIf
<1>5. /\ cancelled = {} /\ aborted = {} => failedNow = failed
      /\ aborted # {} => failedNow = g
      /\ aborted = {} /\ cancelled # {} => failedNow = active
  OBVIOUS
<1> HIDE DEF g, cancelled, aborted, failedNow, done
<1>6. completed' \in Gens /\ failed' \in Gens /\ ended' \subseteq Gens
  BY <1>1, <1>2, <1>3, <1>5 DEF TypeOK
<1>7. ended \subseteq ended' /\ \A x \in ended' : x \in ended \/ (x # 0 /\ x \in {active, g})
  BY <1>1, <1>3
<1>8. EndInv'
  BY <1>1, <1>3, <1>5 DEF EndInv, FirstTerminalWins
<1>9. \/ completed' = completed /\ failed' = failed
      \/ \A c \in Callers : pc[c] \in {"Check", "Parked"} => woken'[c]
  BY <1>1, <1>4, <1>5
<1> QED  BY <1>1, <1>6, <1>7, <1>8, <1>9 DEF g

\* The counters of the lifecycle, and the word of the cycle.
CountersOK ==
  /\ homingCycles' \in 0 .. (HomingTimeout - 1) /\ homingEcho' \in 0 .. (ModeEchoCycles - 1)
  /\ resetCycles' \in 0 .. (FaultResetWindow - 1) /\ clearStreak' \in 0 .. (ClearConfirm - 1)

\* A cycle that ends like this keeps the invariant: homing begins on a request
\* and goes on without a result, and a reset edge goes out in Resetting only, at
\* the start of its window.
LEMMA CycleKeeps ==
  ASSUME IInv, CountersOK,
         NEW seen, NEW lc \in Lifecycles, NEW m \in Motions, NEW w,
         NEW late \in BOOLEAN, NEW outcome \in {"None", "Done", "Failed"},
         EndCycle(seen, lc, m, w, late, outcome),
         lc = "Homing" =>
           /\ outcome = "None"
           /\ lifecycle = "Homing" \/ (lifecycle = "Operational" /\ Has("StartHoming")),
         outcome # "None" => lifecycle = "Homing",
         w = "FaultReset" => lc = "Resetting" /\ resetCycles' = 0
  PROVE  IInv'
<1> USE DEF IInv
<1>1. /\ queue' = <<>> /\ lifecycle' = lc /\ motion' = m /\ resetBit' = (w = "FaultReset")
      /\ homing' = IF outcome # "None" THEN outcome
                   ELSE IF HomingRefused THEN "Failed" ELSE homing
      /\ faulted' = FaultBit(seen.dev)
      /\ rt' = rt /\ nextGen' = nextGen /\ slot' = slot
      /\ pc' = pc /\ verb' = verb /\ gen' = gen /\ cur' = cur
      /\ stopping' = stopping /\ rtExited' = rtExited /\ busLost' = busLost /\ stopper' = stopper
  BY DEF EndCycle, Drained, callerVars, endVars
<1>2. /\ woken' \in [Callers -> BOOLEAN]
      /\ \A c \in Callers : woken[c] => woken'[c]
      /\ \/ HomingRefused \/ outcome # "None"
         \/ FaultBit(seen.dev) /\ ~faulted
         => \A c \in Callers : pc[c] \in {"Check", "Parked"} => woken'[c]
  BY DEF EndCycle, WakeIf, TypeOK
<1>3. /\ active' = ActiveRouted
      /\ completed' \in Gens /\ failed' \in Gens /\ ended' \subseteq Gens
      /\ ended \subseteq ended'
      /\ \A g \in ended' : g \in ended \/ (g # 0 /\ g \in {active, ActiveRouted})
      /\ EndInv'
      /\ \/ completed' = completed /\ failed' = failed
         \/ \A c \in Callers : pc[c] \in {"Check", "Parked"} => woken'[c]
  BY Outcome
<1>4. /\ ActiveRouted \in Gens
      /\ ActiveRouted = active \/ QueuedTarget(ActiveRouted)
  BY Routed
<1>5. Len(queue') = 0 /\ queue' \in Seq(Commands)
  BY <1>1
<1>6. TypeOK'
  BY <1>1, <1>2, <1>3, <1>4, <1>5, QueueAssumption DEF TypeOK, CountersOK, FaultBit
<1>7. IdInv'
  <2>1. ActiveRouted <= nextGen
    BY <1>4 DEF IdInv, QueuedTarget
  <2>2. \A g \in ended' : g \in 1 .. nextGen
    BY <1>3, <1>4, <2>1 DEF IdInv, TypeOK, Gens
  <2> QED  BY <1>1, <1>3, <1>5, <2>1, <2>2 DEF IdInv
<1>8. SeenInv'
  BY <1>1, <1>3, <1>4, <1>5 DEF SeenInv, Unseen, QueuedTarget, TypeOK
<1>9. QueueInv'
  BY <1>5 DEF QueueInv, Has
<1>10. SlotInv'
  BY <1>1, <1>3 DEF SlotInv, Claimed
<1>11. HomingInv'
  <2> SUFFICES ASSUME ~rtExited, ~stopping
               PROVE  /\ \A c \in Callers : pc[c] = "HomePush" => homing' = "Running"
                      /\ lc = "Homing" =>
                           /\ homing' = "Running"
                           /\ \E c \in Callers : /\ verb[c] = "home"
                                                 /\ pc[c] \in {"Load", "Check", "Parked"}
    BY <1>1, <1>5 DEF HomingInv, Has
  <2>1. ASSUME NEW c \in Callers, pc[c] = "HomePush"
        PROVE  homing' = "Running"
    <3>1. ~(Has("StartHoming") \/ lifecycle = "Homing")
      BY <2>1, NoRequest
    <3>2. ~HomingRefused /\ outcome = "None"
      BY <3>1 DEF HomingRefused
    <3> QED  BY <1>1, <2>1, <3>2 DEF HomingInv
  <2>2. ASSUME lc = "Homing"
        PROVE  /\ homing' = "Running"
               /\ \E c \in Callers : verb[c] = "home" /\ pc[c] \in {"Load", "Check", "Parked"}
    <3>1. ~HomingRefused
      BY <2>2 DEF HomingInv, HomingRefused
    <3> QED  BY <1>1, <2>2, <3>1 DEF HomingInv
  <2> QED  BY <2>1, <2>2
<1>12. NoLostWakeup'
  <2> SUFFICES ASSUME NEW c \in Callers, pc[c] = "Parked", ~woken'[c]
               PROVE  /\ ~stopping /\ ~rtExited
                      /\ verb[c] = "go_to" => completed' < gen[c] /\ failed' < gen[c] /\ ~faulted'
                      /\ verb[c] = "home" => homing' = "Running"
    BY <1>1 DEF NoLostWakeup
  <2>1. ~woken[c] /\ completed' = completed /\ failed' = failed
    BY <1>2, <1>3
  <2>2. ~HomingRefused /\ outcome = "None" /\ (~FaultBit(seen.dev) \/ faulted)
    BY <1>2
  <2> QED  BY <1>1, <2>1, <2>2 DEF NoLostWakeup
<1>13. ResetInv'
  BY <1>1 DEF ResetInv
<1> QED  BY <1>3, <1>6, <1>7, <1>8, <1>9, <1>10, <1>11, <1>12, <1>13

\* The motion a cycle routes is a motion.
LEMMA RoutedMotion ==
  ASSUME TypeOK
  PROVE  MotionRouted \in Motions /\ "Hold" \in Motions
BY DEF MotionRouted, Motions, TypeOK

\* The sequencer's step asks for the reset word of a faulted drive only.
LEMMA NoEdge ==
  ASSUME NEW dev, NEW goal, dev # "Fault"
  PROVE  FsmStep(dev, goal) # "FaultReset"
BY DEF FsmStep

\* The way into Resetting, from wherever it is taken, keeps the invariant.
LEMMA ResettingKeeps ==
  ASSUME IInv, NEW seen, NEW late \in BOOLEAN, NEW outcome \in {"None", "Done", "Failed"},
         EnterResetting(seen, late, outcome), outcome # "None" => lifecycle = "Homing",
         homingCycles' \in 0 .. (HomingTimeout - 1), homingEcho' \in 0 .. (ModeEchoCycles - 1)
  PROVE  IInv'
<1>1. CountersOK
  BY ControllerAssumption DEF EnterResetting, CountersOK
<1>2. PICK w : /\ EndCycle(seen, "Resetting", "Hold", w, late, outcome)
               /\ resetCycles' = 0
  BY DEF EnterResetting
<1> QED  BY <1>1, <1>2, CycleKeeps, RoutedMotion DEF IInv, Lifecycles

\* A cycle in Init keeps the invariant.
LEMMA InitKeeps ==
  ASSUME IInv, NEW seen, StepInit(seen)
  PROVE  IInv'
<1>1. homingCycles' \in 0 .. (HomingTimeout - 1) /\ homingEcho' \in 0 .. (ModeEchoCycles - 1)
  BY DEF StepInit, IInv, TypeOK
<1>2. CASE EnterResetting(seen, FALSE, "None")
  BY <1>1, <1>2, ResettingKeeps
<1>3. CASE /\ EndCycle(seen, "Enabling", MotionRouted, "DisableVoltage", FALSE, "None")
           /\ UNCHANGED <<resetCycles, clearStreak>>
  <2>1. CountersOK
    BY <1>1, <1>3 DEF CountersOK, IInv, TypeOK
  <2> QED  BY <1>3, <2>1, CycleKeeps, RoutedMotion DEF IInv, Lifecycles
<1> QED  BY <1>2, <1>3 DEF StepInit

\* A cycle in Enabling keeps the invariant.
LEMMA EnablingKeeps ==
  ASSUME IInv, NEW seen, NEW echoed, StepEnabling(seen, echoed)
  PROVE  IInv'
<1>1. homingCycles' \in 0 .. (HomingTimeout - 1) /\ homingEcho' \in 0 .. (ModeEchoCycles - 1)
  BY DEF StepEnabling, IInv, TypeOK
<1>2. CASE EnterResetting(seen, FALSE, "None")
  BY <1>1, <1>2, ResettingKeeps
<1>3. CASE /\ seen.dev # "Fault"
           /\ \E lc \in {"Enabling", "Operational"}, goal \in {"SwitchedOn", "OperationEnabled"} :
                EndCycle(seen, lc, MotionRouted, FsmStep(seen.dev, goal), FALSE, "None")
           /\ UNCHANGED <<resetCycles, clearStreak>>
  <2>1. CountersOK
    BY <1>1, <1>3 DEF CountersOK, IInv, TypeOK
  <2>2. PICK lc \in {"Enabling", "Operational"}, goal \in {"SwitchedOn", "OperationEnabled"} :
          EndCycle(seen, lc, MotionRouted, FsmStep(seen.dev, goal), FALSE, "None")
    BY <1>3
  <2>3. FsmStep(seen.dev, goal) # "FaultReset"
    BY <1>3, NoEdge
  <2> QED  BY <2>1, <2>2, <2>3, CycleKeeps, RoutedMotion DEF IInv, Lifecycles
<1> QED  BY <1>2, <1>3 DEF StepEnabling

\* A cycle in Operational keeps the invariant, a homing request in its batch included.
LEMMA OperationalKeeps ==
  ASSUME IInv, NEW seen, NEW modeFault \in BOOLEAN, StepOperational(seen, modeFault)
  PROVE  IInv'
<1>1. /\ homingCycles' \in 0 .. (HomingTimeout - 1) /\ homingEcho' \in 0 .. (ModeEchoCycles - 1)
      /\ lifecycle = "Operational"
  <2>1. \/ homingCycles' = 0 /\ homingEcho' = 0
        \/ UNCHANGED <<homingCycles, homingEcho>>
    BY DEF StepOperational
  <2>2. lifecycle = "Operational"
    BY DEF StepOperational
  <2> QED  BY <2>1, <2>2, ControllerAssumption DEF IInv, TypeOK
<1>2. CASE EnterResetting(seen, TRUE, "None")
  BY <1>1, <1>2, ResettingKeeps
<1>3. CASE /\ UNCHANGED <<resetCycles, clearStreak>>
           /\ \E lc \in {"Disabled", "Homing", "Operational"}, m \in {"Hold", MotionRouted},
                 w \in {"DisableVoltage", "EnableOperation"}, late \in BOOLEAN :
                /\ lc = "Homing" => Has("StartHoming")
                /\ EndCycle(seen, lc, m, w, late, "None")
  <2>1. CountersOK
    BY <1>1, <1>3 DEF CountersOK, IInv, TypeOK
  <2>2. PICK lc \in {"Disabled", "Homing", "Operational"}, m \in {"Hold", MotionRouted},
             w \in {"DisableVoltage", "EnableOperation"}, late \in BOOLEAN :
          /\ lc = "Homing" => Has("StartHoming")
          /\ EndCycle(seen, lc, m, w, late, "None")
    BY <1>3
  <2>3. lc \in Lifecycles /\ m \in Motions
    BY RoutedMotion DEF IInv, Lifecycles
  <2> QED  BY <1>1, <2>1, <2>2, <2>3, CycleKeeps
<1> QED  BY <1>2, <1>3 DEF StepOperational

\* A cycle in Homing keeps the invariant, however the run ends.
LEMMA HomingKeeps ==
  ASSUME IInv, NEW seen, NEW echoed, NEW err, NEW attained,
         StepHoming(seen, echoed, err, attained)
  PROVE  IInv'
<1>1. lifecycle = "Homing"
  BY DEF StepHoming
<1>2. CASE EnterResetting(seen, FALSE, "Failed") /\ homingCycles' = 0 /\ homingEcho' = 0
  <2>1. homingCycles' \in 0 .. (HomingTimeout - 1) /\ homingEcho' \in 0 .. (ModeEchoCycles - 1)
    BY <1>2, ControllerAssumption
  <2> QED  BY <1>1, <1>2, <2>1, ResettingKeeps
<1>3. CASE \E lc \in {"Disabled", "Enabling"}, w \in {"DisableVoltage", "EnableOperation"},
              outcome \in {"Failed", "Done"} : FinishHoming(seen, lc, w, outcome)
  <2>1. PICK lc \in {"Disabled", "Enabling"}, w \in {"DisableVoltage", "EnableOperation"},
             outcome \in {"Failed", "Done"} : FinishHoming(seen, lc, w, outcome)
    BY <1>3
  <2>2. CountersOK
    BY <2>1, ControllerAssumption DEF FinishHoming, CountersOK, IInv, TypeOK
  <2>3. EndCycle(seen, lc, "Hold", w, FALSE, outcome)
    BY <2>1 DEF FinishHoming
  <2> QED  BY <1>1, <2>1, <2>2, <2>3, CycleKeeps, RoutedMotion DEF IInv, Lifecycles
<1>4. CASE \E cycles \in 0 .. (HomingTimeout - 1), echo \in 0 .. (ModeEchoCycles - 1) :
             HomingGoesOn(seen, cycles, echo)
  <2>1. CountersOK
    BY <1>4 DEF HomingGoesOn, CountersOK, IInv, TypeOK
  <2>2. EndCycle(seen, "Homing", MotionRouted, "EnableOperation", FALSE, "None")
    BY <1>4 DEF HomingGoesOn
  <2> QED  BY <1>1, <2>1, <2>2, CycleKeeps, RoutedMotion DEF IInv, Lifecycles
<1>5. CASE seen.dev = "Fault"
  BY <1>2, <1>5 DEF StepHoming
<1>6. CASE seen.dev # "Fault" /\ (Has("Disable") \/ Has("Halt"))
  <2>1. FinishHoming(seen, IF Has("Disable") THEN "Disabled" ELSE "Enabling",
                     "DisableVoltage", "Failed")
    BY <1>6 DEF StepHoming
  <2> QED  BY <1>3, <2>1
<1>7. CASE seen.dev # "Fault" /\ ~(Has("Disable") \/ Has("Halt")) /\ ~echoed
  <2>1. CASE homingEcho + 1 >= ModeEchoCycles
    <3>1. FinishHoming(seen, "Enabling", "EnableOperation", "Failed")
      BY <1>7, <2>1 DEF StepHoming
    <3> QED  BY <1>3, <3>1
  <2>2. CASE ~(homingEcho + 1 >= ModeEchoCycles)
    <3>1. HomingGoesOn(seen, homingCycles, homingEcho + 1)
      BY <1>7, <2>2 DEF StepHoming
    <3>2. /\ homingCycles \in 0 .. (HomingTimeout - 1)
          /\ homingEcho + 1 \in 0 .. (ModeEchoCycles - 1)
      BY <2>2, ControllerAssumption DEF IInv, TypeOK
    <3> QED  BY <1>4, <3>1, <3>2
  <2> QED  BY <2>1, <2>2
<1>8. CASE seen.dev # "Fault" /\ ~(Has("Disable") \/ Has("Halt")) /\ echoed
  <2>1. CASE err \/ attained \/ HomingTimedOut(homingCycles + 1)
    <3>1. \/ FinishHoming(seen, "Enabling", "EnableOperation", IF err THEN "Failed" ELSE "Done")
          \/ FinishHoming(seen, "Enabling", "EnableOperation", "Failed")
      BY <1>8, <2>1 DEF StepHoming
    <3> QED  BY <1>3, <3>1
  <2>2. CASE ~(err \/ attained \/ HomingTimedOut(homingCycles + 1))
    <3>1. HomingGoesOn(seen, homingCycles + 1, homingEcho)
      BY <1>8, <2>2 DEF StepHoming
    <3>2. /\ homingCycles + 1 \in 0 .. (HomingTimeout - 1)
          /\ homingEcho \in 0 .. (ModeEchoCycles - 1)
      BY <2>2, ControllerAssumption DEF IInv, TypeOK, HomingTimedOut
    <3> QED  BY <1>4, <3>1, <3>2
  <2> QED  BY <2>1, <2>2
<1> QED  BY <1>5, <1>6, <1>7, <1>8

\* A cycle of the fault-reset window keeps the invariant.
LEMMA ResetStepKeeps ==
  ASSUME IInv, NEW seen, StepResetting(seen)
  PROVE  IInv'
<1> DEFINE streak == IF seen.dev = "Fault" THEN 0 ELSE clearStreak + 1
           cycles == (resetCycles + 1) % FaultResetWindow
<1>1. homingCycles' \in 0 .. (HomingTimeout - 1) /\ homingEcho' \in 0 .. (ModeEchoCycles - 1)
  BY DEF StepResetting, IInv, TypeOK
<1>2. streak \in Nat /\ cycles \in 0 .. (FaultResetWindow - 1)
  BY ControllerAssumption DEF IInv, TypeOK
<1>3. CASE LeaveResetting
           /\ EndCycle(seen, "Disabled", MotionRouted, "DisableVoltage", FALSE, "None")
  <2>1. CountersOK
    BY <1>1, <1>3, ControllerAssumption DEF LeaveResetting, CountersOK
  <2> QED  BY <1>3, <2>1, CycleKeeps, RoutedMotion DEF IInv, Lifecycles
<1>4. CASE streak >= ClearConfirm /\ LeaveResetting
           /\ EndCycle(seen, "Enabling", MotionRouted, FsmStep(seen.dev, "OperationEnabled"),
                       FALSE, "None")
  <2>1. CountersOK
    BY <1>1, <1>4, ControllerAssumption DEF LeaveResetting, CountersOK
  <2>2. seen.dev # "Fault"
    BY <1>4, ControllerAssumption
  <2>3. FsmStep(seen.dev, "OperationEnabled") # "FaultReset"
    BY <2>2, NoEdge
  <2> QED  BY <1>4, <2>1, <2>3, CycleKeeps, RoutedMotion DEF IInv, Lifecycles
<1>5. CASE /\ streak < ClearConfirm
           /\ clearStreak' = streak
           /\ resetCycles' = IF Has("FaultReset") THEN 0 ELSE cycles
           /\ EndCycle(seen, "Resetting", MotionRouted,
                       IF Has("FaultReset") \/ EdgeDue(seen, cycles)
                       THEN "FaultReset" ELSE "DisableVoltage", FALSE, "None")
  <2> HIDE DEF streak, cycles
  <2>1. CountersOK
    BY <1>1, <1>2, <1>5, ControllerAssumption DEF CountersOK
  <2>2. PICK w : /\ w = IF Has("FaultReset") \/ EdgeDue(seen, cycles)
                        THEN "FaultReset" ELSE "DisableVoltage"
                 /\ EndCycle(seen, "Resetting", MotionRouted, w, FALSE, "None")
    BY <1>5
  <2>3. w = "FaultReset" => resetCycles' = 0
    BY <1>5, <2>2 DEF EdgeDue
  <2> QED  BY <2>1, <2>2, <2>3, CycleKeeps, RoutedMotion DEF IInv, Lifecycles
<1> QED  BY <1>3, <1>4, <1>5 DEF StepResetting

\* A cycle in Disabled keeps the invariant.
LEMMA DisabledKeeps ==
  ASSUME IInv, NEW seen, StepDisabled(seen)
  PROVE  IInv'
<1>1. CountersOK
  BY DEF StepDisabled, CountersOK, IInv, TypeOK
<1>2. \E lc \in {"Enabling", "Disabled"} :
        EndCycle(seen, lc, MotionRouted, "DisableVoltage", FALSE, "None")
  BY DEF StepDisabled
<1> QED  BY <1>1, <1>2, CycleKeeps, RoutedMotion DEF IInv, Lifecycles

\* Every cycle of the steady loop keeps the invariant.
LEMMA CyclesKeep ==
  ASSUME IInv, Cycle
  PROVE  IInv'
BY InitKeeps, EnablingKeeps, OperationalKeeps, HomingKeeps, ResetStepKeeps, DisabledKeeps
   DEF Cycle

-----------------------------------------------------------------------------
(***************************************************************************)
(* The end of the run.                                                     *)
(***************************************************************************)

\* The end of the run, on the real-time thread and on the stopper's, keeps the invariant.
LEMMA StopKeeps ==
  ASSUME IInv,
         \/ \E lost \in BOOLEAN : OnStop(lost)
         \/ RtExit \/ Stop \/ DropRunner
  PROVE  IInv'
<1> USE DEF IInv
<1>1. CASE \E lost \in BOOLEAN : OnStop(lost)
  <2>1. PICK lost \in BOOLEAN : OnStop(lost)
    BY <1>1
  <2> USE <2>1 DEF OnStop, Leaves, WakeIf, moveVars, callerVars
  <2>2. TypeOK'
    <3>1. woken' \in [Callers -> BOOLEAN]
      BY DEF TypeOK
    <3>2. /\ 0 \in 0 .. (HomingTimeout - 1) /\ 0 \in 0 .. (ModeEchoCycles - 1)
          /\ 0 \in 0 .. (FaultResetWindow - 1) /\ 0 \in 0 .. (ClearConfirm - 1)
      BY ControllerAssumption
    <3> QED  BY <3>1, <3>2 DEF TypeOK, Lifecycles
  <2>3. IdInv' /\ SeenInv' /\ EndInv' /\ QueueInv' /\ SlotInv'
    BY DEF IdInv, SeenInv, Unseen, EndInv, QueueInv, SlotInv, Claimed, Has, LastTarget,
           QueuedTarget, FirstTerminalWins
  <2>4. HomingInv' /\ ResetInv'
    BY DEF HomingInv, ResetInv
  <2>5. NoLostWakeup'
    BY DEF NoLostWakeup
  <2> QED  BY <2>2, <2>3, <2>4, <2>5
<1>2. CASE RtExit
  <2> USE <1>2 DEF RtExit, moveVars, callerVars, stepVars, endVars
  <2>1. TypeOK'
    BY DEF TypeOK
  <2>2. IdInv' /\ SeenInv' /\ EndInv' /\ QueueInv' /\ SlotInv'
    BY DEF IdInv, SeenInv, Unseen, EndInv, QueueInv, SlotInv, Claimed, Has, LastTarget,
           QueuedTarget, FirstTerminalWins
  <2>3. HomingInv' /\ ResetInv' /\ NoLostWakeup'
    BY DEF HomingInv, ResetInv, NoLostWakeup, Has
  <2> QED  BY <2>1, <2>2, <2>3
<1>3. CASE Stop
  <2> USE <1>3 DEF Stop, WakeIf, moveVars, callerVars, rtVars, stepVars
  <2>1. TypeOK'
    BY DEF TypeOK
  <2>2. IdInv' /\ SeenInv' /\ EndInv' /\ QueueInv' /\ SlotInv'
    BY DEF IdInv, SeenInv, Unseen, EndInv, QueueInv, SlotInv, Claimed, Has, LastTarget,
           QueuedTarget, FirstTerminalWins
  <2>3. HomingInv' /\ ResetInv'
    BY DEF HomingInv, ResetInv
  <2>4. NoLostWakeup'
    BY DEF NoLostWakeup
  <2> QED  BY <2>1, <2>2, <2>3, <2>4
<1>4. CASE DropRunner
  <2> USE <1>4 DEF DropRunner, moveVars, callerVars, rtVars, stepVars
  <2>1. TypeOK'
    BY DEF TypeOK
  <2>2. IdInv' /\ SeenInv' /\ EndInv' /\ QueueInv' /\ SlotInv'
    BY DEF IdInv, SeenInv, Unseen, EndInv, QueueInv, SlotInv, Claimed, Has, LastTarget,
           QueuedTarget, FirstTerminalWins
  <2>3. HomingInv' /\ ResetInv' /\ NoLostWakeup'
    BY DEF HomingInv, ResetInv, NoLostWakeup, Has
  <2> QED  BY <2>1, <2>2, <2>3
<1> QED  BY <1>1, <1>2, <1>3, <1>4

\* A cycle of the stopping window may still complete the active move.
LEMMA WindowKeeps ==
  ASSUME IInv, NEW seen, StepStopping(seen)
  PROVE  IInv'
<1> USE DEF IInv
<1> DEFINE done == Completes(active, failed, motion, seen.atTarget)
<1>1. /\ completed' = IF done THEN active ELSE completed
      /\ ended' = IF done THEN ended \cup {active} ELSE ended
      /\ faulted' = (FaultBit(seen.dev) \/ busLost)
      /\ WakeIf(done \/ ((FaultBit(seen.dev) \/ busLost) /\ ~faulted))
      /\ UNCHANGED <<queue, nextGen, slot, active, failed, homing, rtVars, callerVars, endVars>>
  BY DEF StepStopping
<1>2. done => active # 0 /\ completed # active /\ failed # active
  BY DEF Completes
<1> HIDE DEF done
<1> USE DEF rtVars, stepVars, callerVars, endVars
<1>3. TypeOK'
  BY <1>1 DEF TypeOK, WakeIf, FaultBit
<1>4. IdInv'
  BY <1>1, <1>2 DEF IdInv, TypeOK, Gens
<1>5. SeenInv'
  BY <1>1 DEF SeenInv, Unseen, QueuedTarget
<1>6. EndInv' /\ QueueInv' /\ SlotInv'
  BY <1>1, <1>2 DEF EndInv, QueueInv, SlotInv, Claimed, Has, LastTarget, FirstTerminalWins
<1>7. HomingInv' /\ ResetInv'
  BY <1>1 DEF HomingInv, ResetInv, Has
<1>8. NoLostWakeup'
  BY <1>1 DEF NoLostWakeup, WakeIf, TypeOK
<1> QED  BY <1>3, <1>4, <1>5, <1>6, <1>7, <1>8

-----------------------------------------------------------------------------
(***************************************************************************)
(* The callers.                                                            *)
(***************************************************************************)

\* A call that leaves.
LEMMA Left ==
  ASSUME TypeOK, NEW c \in Callers, Leave(c)
  PROVE  /\ pc' \in [Callers -> Pcs] /\ verb' \in [Callers -> Verbs]
         /\ gen' \in [Callers -> Gens] /\ cur' \in [Callers -> Gens]
         /\ woken' \in [Callers -> BOOLEAN]
         /\ pc'[c] = "Idle" /\ verb'[c] = "go_to"
         /\ \A d \in Callers : d # c =>
              /\ pc'[d] = pc[d] /\ verb'[d] = verb[d] /\ gen'[d] = gen[d] /\ cur'[d] = cur[d]
              /\ woken'[d] = woken[d]
<1>1. 0 \in Gens /\ "Idle" \in Pcs /\ "go_to" \in Verbs
  BY QueueAssumption DEF Gens, Pcs, Verbs
<1>2. woken' \in [Callers -> BOOLEAN]
  BY DEF Leave, TypeOK
<1> QED  BY <1>1, <1>2 DEF Leave, Goto, TypeOK

\* A new id is larger than every other.
LEMMA BeginKeeps ==
  ASSUME IInv, NEW c \in Callers, NEW v \in Verbs, Begin(c, v)
  PROVE  IInv'
<1> USE DEF IInv, Begin, Goto, moveVars, rtVars, stepVars, endVars
<1>1. TypeOK'
  BY QueueAssumption DEF TypeOK, Gens, Pcs
<1>2. IdInv'
  <2>1. \A d \in Callers : d # c => pc'[d] = pc[d] /\ gen'[d] = gen[d] /\ verb'[d] = verb[d]
    BY DEF TypeOK
  <2>2. pc'[c] = "Claim" /\ gen'[c] = nextGen + 1
    BY DEF TypeOK
  <2>3. \A i \in 1 .. Len(queue) : queue[i].gen \in Gens
    BY QueuedGens
  <2>4. nextGen \in Nat /\ nextGen' = nextGen + 1 /\ slot \in Nat /\ active \in Nat
    BY DEF TypeOK, Gens
  <2>5. \A d \in Callers : pc'[d] # "Idle" => gen'[d] \in 1 .. nextGen'
    BY <2>1, <2>2, <2>4 DEF IdInv
  <2>6. ASSUME NEW a \in Callers, NEW b \in Callers,
               pc'[a] # "Idle", pc'[b] # "Idle", gen'[a] = gen'[b]
        PROVE  a = b
    BY <2>1, <2>2, <2>4, <2>6 DEF IdInv
  <2>7. \A g \in ended : g \in 1 .. nextGen'
    BY <2>4 DEF IdInv
  <2>8. \A i \in 1 .. Len(queue) : queue[i].gen <= nextGen'
    BY <2>3, <2>4 DEF IdInv, Gens
  <2>9. \A d \in Callers :
          /\ verb'[d] = "home" => pc'[d] # "Push"
          /\ pc'[d] \in {"Sdo", "HomePush"} => verb'[d] = "home"
    BY <2>1, <2>2 DEF IdInv
  <2>10. slot <= nextGen' /\ active <= nextGen'
    BY <2>4 DEF IdInv
  <2> QED  BY <2>5, <2>6, <2>7, <2>8, <2>9, <2>10 DEF IdInv
<1>3. SeenInv'
  <2>1. \A i \in 1 .. Len(queue) : queue[i].gen # nextGen + 1
    <3>1. nextGen \in Nat
      BY DEF TypeOK, Gens
    <3>2. \A i \in 1 .. Len(queue) : queue[i].gen \in Nat /\ queue[i].gen <= nextGen
      BY QueuedGens DEF IdInv, Gens
    <3> QED  BY <3>1, <3>2
  <2> QED  BY <2>1 DEF SeenInv, Unseen, QueuedTarget, IdInv, TypeOK, Gens
<1>4. EndInv' /\ QueueInv'
  BY DEF EndInv, QueueInv, Has, LastTarget, FirstTerminalWins
<1>5. SlotInv'
  BY DEF SlotInv, Claimed, TypeOK
<1>6. HomingInv'
  BY DEF HomingInv, Has, TypeOK
<1>7. ResetInv' /\ NoLostWakeup'
  BY DEF ResetInv, NoLostWakeup, TypeOK
<1> QED  BY <1>1, <1>2, <1>3, <1>4, <1>5, <1>6, <1>7

\* The load before the claim keeps the invariant: what it read has ended or is empty.
LEMMA ClaimLoadKeeps ==
  ASSUME IInv, NEW c \in Callers, ClaimLoad(c)
  PROVE  IInv'
<1> USE DEF IInv, ClaimLoad, Goto, Leave, sharedButSlot, moveVars, rtVars, stepVars, endVars
<1>1. TypeOK'
  <2>1. 0 \in Gens
    BY QueueAssumption DEF Gens
  <2>2. CASE SlotBusy
    BY <2>2, Left DEF TypeOK
  <2>3. CASE ~SlotBusy
    BY <2>3 DEF TypeOK, Pcs
  <2> QED  BY <2>2, <2>3
<1>2. IdInv'
  <2>1. /\ UNCHANGED <<nextGen, slot, active, ended, queue>>
        /\ \A d \in Callers : d # c => pc'[d] = pc[d] /\ gen'[d] = gen[d] /\ verb'[d] = verb[d]
    BY Left DEF TypeOK
  <2>2. \/ pc'[c] = "Idle" /\ verb'[c] = "go_to"
        \/ pc'[c] = "Cas" /\ gen'[c] = gen[c] /\ verb'[c] = verb[c] /\ pc[c] # "Idle"
    BY Left DEF TypeOK
  <2> HIDE DEF ClaimLoad, Leave, Goto
  <2> QED  BY <2>1, <2>2 DEF IdInv
<1>3. SeenInv'
  BY DEF SeenInv, Unseen, QueuedTarget, TypeOK
<1>4. EndInv' /\ QueueInv'
  BY DEF EndInv, QueueInv, Has, LastTarget, FirstTerminalWins
<1>5. SlotInv'
  <2>1. ~SlotBusy => slot = 0 \/ slot \in ended
    BY DEF SlotBusy, GenTerminal, EndInv
  <2> QED  BY <2>1 DEF SlotInv, Claimed, TypeOK
<1>6. HomingInv'
  BY DEF HomingInv, Has, TypeOK
<1>7. ResetInv' /\ NoLostWakeup'
  BY DEF ResetInv, NoLostWakeup, TypeOK
<1> QED  BY <1>1, <1>2, <1>3, <1>4, <1>5, <1>6, <1>7

\* The swap succeeds only if the slot is free or its move has ended, so that no
\* other caller past its claim is left with a live move.
LEMMA ClaimSwapKeeps ==
  ASSUME IInv, NEW c \in Callers, ClaimSwap(c)
  PROVE  IInv'
<1> USE DEF IInv, ClaimSwap, MaySwap, Goto, sharedButSlot, moveVars, rtVars, stepVars, endVars
<1>1. TypeOK'
  <2>1. 0 \in Gens
    BY QueueAssumption DEF Gens
  <2>2. CASE slot = cur[c]
    BY <2>1, <2>2 DEF TypeOK, Pcs
  <2>3. CASE slot # cur[c]
    BY <2>1, <2>3 DEF TypeOK, Pcs
  <2> QED  BY <2>2, <2>3
<1>2. IdInv'
  BY DEF IdInv, TypeOK
<1>3. SeenInv'
  BY DEF SeenInv, Unseen, QueuedTarget, TypeOK, IdInv
<1>4. EndInv' /\ QueueInv'
  BY DEF EndInv, QueueInv, Has, LastTarget, FirstTerminalWins
<1>5. SlotInv'
  <2>1. CASE slot = cur[c]
    <3>1. \A d \in Callers : Claimed(d) => gen[d] \in ended
      BY <2>1 DEF SlotInv, IdInv, Claimed
    <3> QED  BY <2>1, <3>1 DEF SlotInv, Claimed, TypeOK
  <2>2. CASE slot # cur[c]
    BY <2>2 DEF SlotInv, Claimed, TypeOK
  <2> QED  BY <2>1, <2>2
<1>6. HomingInv'
  BY DEF HomingInv, Has, TypeOK
<1>7. ResetInv' /\ NoLostWakeup'
  BY DEF ResetInv, NoLostWakeup, TypeOK
<1> QED  BY <1>1, <1>2, <1>3, <1>4, <1>5, <1>6, <1>7

\* The push of a claimed target shows its id to the real-time thread, and keeps the invariant.
LEMMA PushTargetKeeps ==
  ASSUME IInv, NEW c \in Callers, PushTarget(c)
  PROVE  IInv'
<1> USE DEF IInv
<1> DEFINE command == [kind |-> "SetTarget", gen |-> gen[c]]
<1>1. /\ pc[c] = "Push" /\ Push(command)
      /\ pc' = [pc EXCEPT ![c] = "Load"]
      /\ UNCHANGED <<slot, homing, locals, sharedButSlot>>
  BY DEF PushTarget, Goto
<1>2. command \in Commands /\ command.kind = "SetTarget" /\ command.gen = gen[c]
  BY DEF TypeOK, Commands, Kinds
<1>3. /\ queue' \in Seq(Commands) /\ Len(queue') <= QueueCap
      /\ \A i \in 1 .. Len(queue') : i <= Len(queue) \/ queue'[i] = command
      /\ \A i \in 1 .. Len(queue) : queue'[i] = queue[i]
      /\ Len(queue) \in Nat /\ Len(queue') \in Nat
  BY <1>1, <1>2, PushFacts, LenProperties DEF TypeOK
<1>4. /\ QueueInv'
      /\ \A kind \in Kinds : Has(kind)' => Has(kind) \/ command.kind = kind
      /\ \A g \in Gens : QueuedTarget(g)' => QueuedTarget(g) \/ (command.kind = "SetTarget" /\ command.gen = g)
  BY <1>1, <1>2, PushKeeps DEF TypeOK
<1>5. verb[c] # "home"
  BY <1>1 DEF IdInv
<1> HIDE DEF command
<1> USE DEF locals, sharedButSlot, moveVars, rtVars, stepVars, endVars
<1>6. TypeOK'
  BY <1>1, <1>3 DEF TypeOK, Pcs
<1>7. IdInv'
  <2>1. nextGen \in Nat /\ command.gen <= nextGen
    BY <1>1, <1>2 DEF IdInv, TypeOK, Gens
  <2>2. \A i \in 1 .. Len(queue') : queue'[i].gen <= nextGen
    BY <1>1, <1>2, <2>1, PushKeeps DEF IdInv, TypeOK
  <2> QED  BY <1>1, <1>5, <2>2 DEF IdInv, TypeOK
<1>8. SeenInv'
  <2> SUFFICES ASSUME NEW d \in Callers, Unseen(d)'
               PROVE  /\ gen[d] # active /\ gen[d] \notin ended /\ ~QueuedTarget(gen[d])'
                      /\ pc'[d] \in {"Claim", "Cas"} => slot # gen[d]
    BY <1>1 DEF SeenInv, QueuedTarget
  <2>1. d # c /\ Unseen(d) /\ pc'[d] = pc[d]
    BY <1>1, <1>5 DEF Unseen, TypeOK
  <2>2. gen[d] # gen[c] /\ gen[d] \in Gens
    BY <1>1, <2>1 DEF IdInv, TypeOK, Unseen
  <2>3. gen'[d] = gen[d]
    BY <1>1
  <2>4. ~QueuedTarget(gen[d])'
    BY <1>2, <1>4, <2>1, <2>2, <2>3 DEF SeenInv
  <2> QED  BY <2>1, <2>4 DEF SeenInv
<1>9. EndInv'
  BY <1>1 DEF EndInv, FirstTerminalWins
<1>10. SlotInv'
  BY <1>1 DEF SlotInv, Claimed, TypeOK
<1>11. HomingInv'
  <2>1. Has("StartHoming")' => Has("StartHoming")
    BY <1>2, <1>4 DEF Kinds
  <2> QED  BY <1>1, <1>5, <2>1 DEF HomingInv, TypeOK
<1>12. ResetInv' /\ NoLostWakeup'
  BY <1>1 DEF ResetInv, NoLostWakeup, TypeOK
<1> QED  BY <1>4, <1>6, <1>7, <1>8, <1>9, <1>10, <1>11, <1>12

\* The request finds neither another one in the queue nor a homing run, whose
\* caller would own the slot.
LEMMA HomePushKeeps ==
  ASSUME IInv, NEW c \in Callers, HomePush(c)
  PROVE  IInv'
<1> USE DEF IInv
<1> DEFINE command == [kind |-> "StartHoming", gen |-> gen[c]]
<1>1. /\ pc[c] = "HomePush" /\ Push(command)
      /\ pc' = [pc EXCEPT ![c] = "Load"]
      /\ UNCHANGED <<slot, homing, locals, sharedButSlot>>
  BY DEF HomePush, Goto
<1>2. command \in Commands /\ command.kind = "StartHoming" /\ command.gen = gen[c]
  BY DEF TypeOK, Commands, Kinds
<1>3. /\ queue' \in Seq(Commands) /\ Len(queue') <= QueueCap
      /\ \A i \in 1 .. Len(queue') : i <= Len(queue) \/ queue'[i] = command
      /\ \A i \in 1 .. Len(queue) : queue'[i] = queue[i]
      /\ Len(queue) \in Nat /\ Len(queue') \in Nat
  BY <1>1, <1>2, PushFacts, LenProperties DEF TypeOK
<1>4. /\ QueueInv'
      /\ \A g \in Gens : QueuedTarget(g)' => QueuedTarget(g)
  BY <1>1, <1>2, PushKeeps DEF TypeOK
<1>5. verb[c] = "home" /\ gen[c] \notin ended
  BY <1>1 DEF IdInv, SeenInv, Unseen
<1> HIDE DEF command
<1> USE DEF locals, sharedButSlot, moveVars, rtVars, stepVars, endVars
<1>6. TypeOK'
  BY <1>1, <1>3 DEF TypeOK, Pcs
<1>7. IdInv'
  <2>1. nextGen \in Nat /\ command.gen <= nextGen
    BY <1>1, <1>2 DEF IdInv, TypeOK, Gens
  <2>2. \A i \in 1 .. Len(queue') : queue'[i].gen <= nextGen
    BY <1>1, <1>2, <2>1, PushKeeps DEF IdInv, TypeOK
  <2> QED  BY <1>1, <1>5, <2>2 DEF IdInv, TypeOK
<1>8. SeenInv'
  <2> SUFFICES ASSUME NEW d \in Callers, Unseen(d)'
               PROVE  /\ gen[d] # active /\ gen[d] \notin ended /\ ~QueuedTarget(gen[d])'
                      /\ pc'[d] \in {"Claim", "Cas"} => slot # gen[d]
    BY <1>1 DEF SeenInv, QueuedTarget
  <2>1. Unseen(d) /\ (d # c => pc'[d] = pc[d]) /\ pc'[c] = "Load"
    BY <1>1, <1>5 DEF Unseen, TypeOK
  <2>2. gen[d] \in Gens /\ gen'[d] = gen[d]
    BY <1>1 DEF TypeOK
  <2>3. ~QueuedTarget(gen[d])'
    BY <1>4, <2>1, <2>2 DEF SeenInv
  <2> QED  BY <2>1, <2>3 DEF SeenInv
<1>9. EndInv'
  BY <1>1 DEF EndInv, FirstTerminalWins
<1>10. SlotInv'
  BY <1>1 DEF SlotInv, Claimed, TypeOK
<1>11. HomingInv'
  <2>1. ~rtExited /\ ~stopping => homing = "Running" /\ lifecycle # "Homing"
    BY <1>1, NoRequest DEF HomingInv
  <2>2. verb'[c] = "home" /\ pc'[c] = "Load"
    BY <1>1, <1>5 DEF TypeOK
  <2>3. /\ rtExited' = rtExited /\ stopping' = stopping /\ homing' = homing
        /\ lifecycle' = lifecycle
    BY <1>1
  <2> QED  BY <2>1, <2>2, <2>3 DEF HomingInv
<1>12. ResetInv' /\ NoLostWakeup'
  BY <1>1 DEF ResetInv, NoLostWakeup, TypeOK
<1> QED  BY <1>4, <1>6, <1>7, <1>8, <1>9, <1>10, <1>11, <1>12

\* A command without a move keeps the invariant.
LEMMA OperateKeeps ==
  ASSUME IInv, NEW kind \in {"Halt", "Disable", "Enable", "FaultReset", "SetVelocity"},
         Operate(kind)
  PROVE  IInv'
<1> USE DEF IInv
<1>1. Push(Command(kind)) /\ UNCHANGED <<slot, homing, callerVars, woken, sharedButSlot>>
  BY DEF Operate
<1>2. /\ Command(kind) \in Commands /\ Command(kind).gen = 0
      /\ Command(kind).kind \notin {"SetTarget", "StartHoming"}
  BY QueueAssumption DEF Command, Commands, Kinds, Gens
<1>3. /\ queue' \in Seq(Commands) /\ Len(queue') <= QueueCap
      /\ \A i \in 1 .. Len(queue') : i <= Len(queue) \/ queue'[i] = Command(kind)
      /\ \A i \in 1 .. Len(queue) : queue'[i] = queue[i]
      /\ Len(queue) \in Nat /\ Len(queue') \in Nat
  BY <1>1, <1>2, PushFacts, LenProperties DEF TypeOK
<1>4. /\ QueueInv'
      /\ \A g \in Gens : QueuedTarget(g)' => QueuedTarget(g)
      /\ Has("StartHoming")' => Has("StartHoming")
  BY <1>1, <1>2, PushKeeps DEF TypeOK, Kinds
<1> USE DEF callerVars, sharedButSlot, moveVars, rtVars, stepVars, endVars
<1>5. TypeOK'
  BY <1>1, <1>3 DEF TypeOK
<1>6. IdInv'
  <2>1. nextGen \in Nat /\ Command(kind).gen <= nextGen
    BY <1>2 DEF TypeOK, Gens
  <2>2. \A i \in 1 .. Len(queue') : queue'[i].gen <= nextGen
    BY <1>1, <1>2, <2>1, PushKeeps DEF IdInv, TypeOK
  <2> QED  BY <1>1, <2>2 DEF IdInv
<1>7. SeenInv'
  <2> SUFFICES ASSUME NEW d \in Callers, Unseen(d)'
               PROVE  /\ gen[d] # active /\ gen[d] \notin ended /\ ~QueuedTarget(gen[d])'
                      /\ pc[d] \in {"Claim", "Cas"} => slot # gen[d]
    BY <1>1 DEF SeenInv, QueuedTarget
  <2>1. Unseen(d) /\ gen'[d] = gen[d] /\ gen[d] \in Gens
    BY <1>1 DEF Unseen, TypeOK
  <2> QED  BY <1>4, <2>1 DEF SeenInv
<1>8. EndInv' /\ SlotInv'
  BY <1>1 DEF EndInv, FirstTerminalWins, SlotInv, Claimed
<1>9. HomingInv' /\ ResetInv' /\ NoLostWakeup'
  BY <1>1, <1>4 DEF HomingInv, ResetInv, NoLostWakeup
<1> QED  BY <1>4, <1>5, <1>6, <1>7, <1>8, <1>9

\* The steps of a call past its claim that push nothing: a caller either moves on
\* to another place, or leaves.  The queue and what the real-time thread keeps
\* stay as they are.
LEMMA MovesOn ==
  ASSUME IInv, NEW c \in Callers,
         NEW where \in {"HomePush", "Load", "Check", "Parked", "Restore"},
         Claimed(c), verb[c] = "home" \/ pc[c] \notin {"Sdo", "Push"},
         where \in {"HomePush", "Restore"} => verb[c] = "home",
         Goto(c, where), UNCHANGED <<queue, slot, verb, gen, cur, sharedButSlot>>
  PROVE  IdInv' /\ SeenInv' /\ EndInv' /\ QueueInv' /\ SlotInv' /\ ResetInv'
<1> USE DEF IInv, Goto, sharedButSlot, moveVars, rtVars, stepVars, endVars, Claimed
<1>1. IdInv'
  BY DEF IdInv, TypeOK
<1>2. SeenInv'
  BY DEF SeenInv, Unseen, QueuedTarget, TypeOK
<1>3. EndInv' /\ QueueInv'
  BY DEF EndInv, QueueInv, Has, LastTarget, FirstTerminalWins
<1>4. SlotInv'
  BY DEF SlotInv, TypeOK
<1>5. ResetInv'
  BY DEF ResetInv
<1> QED  BY <1>1, <1>2, <1>3, <1>4, <1>5

\* A caller that returns leaves everything but the wake-ups and the homing as it was.
LEMMA LeavesOff ==
  ASSUME IInv, NEW c \in Callers, Claimed(c), Leave(c),
         slot' = slot \/ slot' = SlotReleased(gen[c]),
         UNCHANGED <<queue, sharedButSlot>>
  PROVE  IdInv' /\ SeenInv' /\ EndInv' /\ QueueInv' /\ SlotInv' /\ ResetInv'
<1> USE DEF IInv, sharedButSlot, moveVars, rtVars, stepVars, endVars
<1>1. /\ pc'[c] = "Idle" /\ verb'[c] = "go_to"
      /\ \A d \in Callers : d # c =>
           /\ pc'[d] = pc[d] /\ verb'[d] = verb[d] /\ gen'[d] = gen[d] /\ cur'[d] = cur[d]
  BY Left
<1>2. slot' = slot \/ (slot = gen[c] /\ slot' = 0)
  BY DEF SlotReleased
<1>3. IdInv'
  <2>1. slot' <= nextGen
    BY <1>2 DEF IdInv, TypeOK, Gens
  <2> QED  BY <1>1, <2>1 DEF IdInv
<1>4. SeenInv'
  <2>1. \A d \in Callers : Unseen(d)' => /\ d # c /\ Unseen(d)
                                        /\ gen[d] \in 1 .. nextGen
    BY <1>1 DEF Unseen, IdInv
  <2> QED  BY <1>1, <1>2, <2>1 DEF SeenInv, QueuedTarget, TypeOK, Gens
<1>5. EndInv' /\ QueueInv'
  BY DEF EndInv, QueueInv, Has, LastTarget, FirstTerminalWins
<1>6. SlotInv'
  BY <1>1, <1>2 DEF SlotInv, Claimed, IdInv
<1>7. ResetInv'
  BY DEF ResetInv
<1> QED  BY <1>3, <1>4, <1>5, <1>6, <1>7

\* Whoever writes the homing objects owns the slot: nobody waits for a result
\* that it could overwrite.
LEMMA HomeWritesKeeps ==
  ASSUME IInv, NEW c \in Callers, HomeWrites(c)
  PROVE  IInv'
<1> USE DEF IInv
<1>1. pc[c] = "Sdo" /\ Claimed(c) /\ verb[c] = "home" /\ gen[c] \notin ended
  BY DEF HomeWrites, Claimed, IdInv, SeenInv, Unseen
<1>2. \A d \in Callers : d # c /\ verb[d] = "home" => ~Claimed(d)
  BY <1>1, OneOwner DEF SeenInv, Unseen, Claimed
<1>3. ~rtExited /\ ~stopping => ~(Has("StartHoming") \/ lifecycle = "Homing")
  BY <1>1, NoRequest
<1>4. UNCHANGED <<queue, sharedButSlot>>
  BY DEF HomeWrites
<1>5. CASE homing' = "Running" /\ slot' = slot /\ Goto(c, "HomePush") /\ UNCHANGED locals
  <2>1. IdInv' /\ SeenInv' /\ EndInv' /\ QueueInv' /\ SlotInv' /\ ResetInv'
    BY <1>1, <1>4, <1>5, MovesOn DEF locals
  <2> USE <1>4, <1>5 DEF Goto, locals, sharedButSlot, moveVars, rtVars, stepVars, endVars
  <2>2. TypeOK'
    BY DEF TypeOK, Pcs
  <2>3. HomingInv'
    BY <1>3 DEF HomingInv, Has, TypeOK
  <2>4. NoLostWakeup'
    BY <1>1, <1>2 DEF NoLostWakeup, TypeOK, Claimed
  <2> QED  BY <2>1, <2>2, <2>3, <2>4
<1>6. CASE homing' = "Failed" /\ slot' = slot /\ Goto(c, "Restore") /\ UNCHANGED locals
  <2>1. IdInv' /\ SeenInv' /\ EndInv' /\ QueueInv' /\ SlotInv' /\ ResetInv'
    BY <1>1, <1>4, <1>6, MovesOn DEF locals
  <2> USE <1>4, <1>6 DEF Goto, locals, sharedButSlot, moveVars, rtVars, stepVars, endVars
  <2>2. TypeOK'
    BY DEF TypeOK, Pcs
  <2>3. HomingInv'
    BY <1>1, <1>2, <1>3 DEF HomingInv, Has, Claimed, IdInv, TypeOK
  <2>4. NoLostWakeup'
    BY <1>1, <1>2 DEF NoLostWakeup, TypeOK, Claimed
  <2> QED  BY <2>1, <2>2, <2>3, <2>4
<1> QED  BY <1>5, <1>6 DEF HomeWrites, SlotDuringHome

\* Reading wake_seq_ before the check keeps the invariant, first time and after a wake-up.
LEMMA AwaitLoadKeeps ==
  ASSUME IInv, NEW c \in Callers, AwaitLoad(c) \/ Wake(c)
  PROVE  IInv'
<1> USE DEF IInv
<1>1. PICK where \in {"Load", "Check"} :
        /\ pc[c] \in {"Load", "Parked"} /\ Goto(c, where)
        /\ woken' = woken \/ woken' = [woken EXCEPT ![c] = FALSE]
        /\ UNCHANGED <<queue, slot, homing, verb, gen, cur, sharedButSlot>>
  BY DEF AwaitLoad, Wake, locals
<1>2. IdInv' /\ SeenInv' /\ EndInv' /\ QueueInv' /\ SlotInv' /\ ResetInv'
  BY <1>1, MovesOn DEF Claimed
<1> USE <1>1 DEF Goto, sharedButSlot, moveVars, rtVars, stepVars, endVars
<1>3. TypeOK'
  <2>1. woken' \in [Callers -> BOOLEAN]
    BY DEF TypeOK
  <2>2. pc' \in [Callers -> Pcs]
    BY DEF TypeOK, Pcs
  <2> QED  BY <2>1, <2>2 DEF TypeOK
<1>4. HomingInv'
  BY DEF HomingInv, Has, TypeOK
<1>5. NoLostWakeup'
  BY DEF NoLostWakeup, TypeOK
<1> QED  BY <1>2, <1>3, <1>4, <1>5

\* A go_to that checks its move, and returns or parks, keeps the invariant.
LEMMA AwaitMoveKeeps ==
  ASSUME IInv, NEW c \in Callers, AwaitMove(c)
  PROVE  IInv'
<1> USE DEF IInv
<1>1. /\ pc[c] = "Check" /\ Claimed(c) /\ verb[c] = "go_to"
      /\ UNCHANGED <<queue, homing, sharedButSlot>>
  BY DEF AwaitMove, Claimed
<1> USE DEF sharedButSlot, moveVars, rtVars, stepVars, endVars
<1>2. CASE Leave(c) /\ (slot' = slot \/ slot' = SlotReleased(gen[c]))
  <2>1. IdInv' /\ SeenInv' /\ EndInv' /\ QueueInv' /\ SlotInv' /\ ResetInv'
    BY <1>1, <1>2, LeavesOff
  <2> USE <1>1, <1>2, Left
  <2>2. TypeOK'
    <3>1. slot' \in Gens
      BY QueueAssumption DEF SlotReleased, TypeOK, Gens
    <3> QED  BY <3>1 DEF TypeOK
  <2>3. HomingInv'
    BY DEF HomingInv, Has
  <2>4. NoLostWakeup'
    BY DEF NoLostWakeup
  <2> QED  BY <2>1, <2>2, <2>3, <2>4
<1>3. CASE /\ ~MoveOk(gen[c]) /\ ~(stopping \/ rtExited \/ failed >= gen[c] \/ faulted)
           /\ Goto(c, "Parked") /\ UNCHANGED <<locals, slot>>
  <2>1. IdInv' /\ SeenInv' /\ EndInv' /\ QueueInv' /\ SlotInv' /\ ResetInv'
    BY <1>1, <1>3, MovesOn DEF locals
  <2> USE <1>1, <1>3 DEF Goto, locals
  <2>2. TypeOK'
    BY DEF TypeOK, Pcs
  <2>3. HomingInv'
    BY DEF HomingInv, Has, TypeOK
  <2>4. NoLostWakeup'
    <3>1. completed < gen[c] /\ failed < gen[c] /\ ~stopping /\ ~rtExited /\ ~faulted
      BY DEF MoveOk, TypeOK, Gens
    <3> QED  BY <3>1 DEF NoLostWakeup, TypeOK
  <2> QED  BY <2>1, <2>2, <2>3, <2>4
<1> QED  BY <1>2, <1>3 DEF AwaitMove

\* A home that checks its result, and returns or parks, keeps the invariant.
LEMMA AwaitHomingKeeps ==
  ASSUME IInv, NEW c \in Callers, AwaitHoming(c)
  PROVE  IInv'
<1> USE DEF IInv
<1>1. /\ pc[c] = "Check" /\ Claimed(c) /\ verb[c] = "home"
      /\ UNCHANGED <<queue, sharedButSlot>>
  BY DEF AwaitHoming, Claimed
<1> USE DEF sharedButSlot, moveVars, rtVars, stepVars, endVars
<1>2. CASE homing # "Running" /\ homing' = homing /\ Leave(c) /\ slot' = SlotReleased(gen[c])
  <2>1. IdInv' /\ SeenInv' /\ EndInv' /\ QueueInv' /\ SlotInv' /\ ResetInv'
    BY <1>1, <1>2, LeavesOff
  <2> USE <1>1, <1>2, Left
  <2>2. TypeOK'
    <3>1. slot' \in Gens
      BY QueueAssumption DEF SlotReleased, TypeOK, Gens
    <3> QED  BY <3>1 DEF TypeOK
  <2>3. HomingInv'
    BY DEF HomingInv, Has
  <2>4. NoLostWakeup'
    BY DEF NoLostWakeup
  <2> QED  BY <2>1, <2>2, <2>3, <2>4
<1>3. CASE /\ homing = "Running" /\ ~(stopping \/ rtExited)
           /\ Goto(c, "Parked") /\ UNCHANGED <<locals, slot, homing>>
  <2>1. IdInv' /\ SeenInv' /\ EndInv' /\ QueueInv' /\ SlotInv' /\ ResetInv'
    BY <1>1, <1>3, MovesOn DEF locals
  <2> USE <1>1, <1>3 DEF Goto, locals
  <2>2. TypeOK'
    BY DEF TypeOK, Pcs
  <2>3. HomingInv'
    BY DEF HomingInv, Has, TypeOK
  <2>4. NoLostWakeup'
    BY DEF NoLostWakeup, TypeOK
  <2> QED  BY <2>1, <2>2, <2>3, <2>4
<1>4. CASE /\ stopping \/ rtExited
           /\ homing' = "Failed" /\ Goto(c, "Restore") /\ UNCHANGED <<locals, slot>>
  <2>1. IdInv' /\ SeenInv' /\ EndInv' /\ QueueInv' /\ SlotInv' /\ ResetInv'
    BY <1>1, <1>4, MovesOn DEF locals
  <2> USE <1>1, <1>4 DEF Goto, locals
  <2>2. TypeOK'
    BY DEF TypeOK, Pcs
  <2>3. HomingInv'
    BY DEF HomingInv
  <2>4. NoLostWakeup'
    BY DEF NoLostWakeup, TypeOK
  <2> QED  BY <2>1, <2>2, <2>3, <2>4
<1> QED  BY <1>2, <1>3, <1>4 DEF AwaitHoming

\* A home that throws frees the slot last, and keeps the invariant.
LEMMA HomeThrowsKeeps ==
  ASSUME IInv, NEW c \in Callers, HomeThrows(c)
  PROVE  IInv'
<1> USE DEF IInv
<1>1. /\ pc[c] = "Restore" /\ Claimed(c)
      /\ Leave(c) /\ slot' = SlotReleased(gen[c])
      /\ UNCHANGED <<queue, homing, sharedButSlot>>
  BY DEF HomeThrows, Claimed
<1>2. IdInv' /\ SeenInv' /\ EndInv' /\ QueueInv' /\ SlotInv' /\ ResetInv'
  BY <1>1, LeavesOff
<1> USE <1>1, Left DEF sharedButSlot, moveVars, rtVars, stepVars, endVars
<1>3. TypeOK'
  <2>1. slot' \in Gens
    BY QueueAssumption DEF SlotReleased, TypeOK, Gens
  <2> QED  BY <2>1 DEF TypeOK
<1>4. HomingInv'
  BY DEF HomingInv, Has
<1>5. NoLostWakeup'
  BY DEF NoLostWakeup
<1> QED  BY <1>2, <1>3, <1>4, <1>5

-----------------------------------------------------------------------------
(***************************************************************************)
(* The invariant.                                                          *)
(***************************************************************************)

\* The invariant holds at the start.
LEMMA InitIInv == Init => IInv
<1> SUFFICES ASSUME Init PROVE IInv
  OBVIOUS
<1> USE DEF Init
<1>1. TypeOK
  <2>1. /\ 0 \in Gens /\ 0 \in 0 .. (HomingTimeout - 1) /\ 0 \in 0 .. (ModeEchoCycles - 1)
        /\ 0 \in 0 .. (FaultResetWindow - 1) /\ 0 \in 0 .. (ClearConfirm - 1)
    BY QueueAssumption, ControllerAssumption DEF Gens
  <2>2. queue \in Seq(Commands) /\ Len(queue) <= QueueCap
    BY QueueAssumption
  <2> QED  BY <2>1, <2>2 DEF TypeOK, Lifecycles, Motions, Pcs, Verbs
<1>2. Len(queue) = 0
  OBVIOUS
<1>3. IdInv /\ SeenInv /\ EndInv /\ QueueInv /\ SlotInv
  BY <1>2 DEF IdInv, SeenInv, Unseen, EndInv, QueueInv, SlotInv, Claimed, Has, FirstTerminalWins
<1>4. HomingInv /\ NoLostWakeup /\ ResetInv
  BY <1>2 DEF HomingInv, NoLostWakeup, ResetInv, Has
<1> QED  BY <1>1, <1>3, <1>4 DEF IInv

\* Every step keeps the invariant.
LEMMA NextIInv == IInv /\ [Next]_vars => IInv'
<1> SUFFICES ASSUME IInv, [Next]_vars PROVE IInv'
  OBVIOUS
<1>1. CASE Cycle
  BY <1>1, CyclesKeep
<1>2. CASE (\E lost \in BOOLEAN : OnStop(lost)) \/ RtExit \/ Stop \/ DropRunner
  BY <1>2, StopKeeps
<1>3. CASE \E seen \in Inputs : StepStopping(seen)
  BY <1>3, WindowKeeps
<1>4. CASE \E c \in Callers, v \in {"go_to", "home"} : Begin(c, v)
  BY <1>4, BeginKeeps DEF Verbs
<1>5. CASE \E c \in Callers : CallGoesOn(c)
  BY <1>5, ClaimLoadKeeps, ClaimSwapKeeps, PushTargetKeeps, HomeWritesKeeps, HomePushKeeps,
     AwaitLoadKeeps, AwaitMoveKeeps, AwaitHomingKeeps, HomeThrowsKeeps DEF CallGoesOn
<1>6. CASE \E kind \in {"Halt", "Disable", "Enable", "FaultReset", "SetVelocity"} : Operate(kind)
  BY <1>6, OperateKeeps
<1>7. CASE UNCHANGED vars
  BY <1>7 DEF IInv, TypeOK, IdInv, SeenInv, Unseen, EndInv, QueueInv, SlotInv, HomingInv,
     NoLostWakeup, ResetInv, Claimed, Has, LastTarget, QueuedTarget, FirstTerminalWins,
     vars, moveVars, rtVars, stepVars, callerVars, endVars
<1> QED  BY <1>1, <1>2, <1>3, <1>4, <1>5, <1>6, <1>7 DEF Next

\* The inductive invariant holds throughout: ids, ends, slot, queue, homing
\* requests, wake-ups and reset words agree with each other.
THEOREM Invariance == Spec => []IInv
BY InitIInv, NextIInv, PTL DEF Spec

\* Type correctness of the controller.
THEOREM TypeCorrect == Spec => []TypeOK
<1>1. IInv => TypeOK
  BY DEF IInv
<1> QED  BY <1>1, Invariance, PTL

\* However the callers' claims race, at most one of them has a move that has not
\* ended.
THEOREM OneMove == Spec => []OneLiveMove
<1>1. IInv => OneLiveMove
  BY OneOwner DEF OneLiveMove
<1> QED  BY <1>1, Invariance, PTL

\* No move is published both as completed and as failed.
THEOREM FirstEndStands == Spec => []FirstTerminalWins
<1>1. IInv => FirstTerminalWins
  BY DEF IInv, EndInv
<1> QED  BY <1>1, Invariance, PTL

\* While the drive homes, the call that asked for it waits and no other move is
\* under way.
THEOREM HomingAlone == Spec => []HomingExclusive
<1>1. IInv => HomingExclusive
  <2> SUFFICES ASSUME IInv, lifecycle = "Homing", ~rtExited, ~stopping
               PROVE  /\ homing = "Running"
                      /\ \E c \in Callers : Claimed(c) /\ verb[c] = "home"
                      /\ \A c \in Callers : Claimed(c) /\ verb[c] = "go_to" => gen[c] \in ended
    BY DEF HomingExclusive
  <2>1. PICK d \in Callers : verb[d] = "home" /\ pc[d] \in {"Load", "Check", "Parked"}
    BY DEF IInv, HomingInv
  <2>2. Claimed(d) /\ gen[d] \notin ended
    BY <2>1 DEF Claimed, IInv, SeenInv, Unseen
  <2>3. homing = "Running"
    BY DEF IInv, HomingInv
  <2> QED  BY <2>1, <2>2, <2>3, OneOwner
<1> QED  BY <1>1, Invariance, PTL

\* A parked caller that no bump has reached has nothing to return for.
THEOREM WakeupsKept == Spec => []NoLostWakeup
<1>1. IInv => NoLostWakeup
  BY DEF IInv
<1> QED  BY <1>1, Invariance, PTL

-----------------------------------------------------------------------------
(***************************************************************************)
(* The edges of the fault reset.                                           *)
(***************************************************************************)

\* The word before had bit 7 high only in the cycle that began the window.
LEMMA NoSecondEdge ==
  ASSUME IInv, Cycle, resetBit, ~Has("FaultReset")
  PROVE  ~resetBit'
<1>1. lifecycle = "Resetting" /\ resetCycles = 0
  BY DEF IInv, ResetInv
<1>2. PICK seen \in Inputs : StepResetting(seen)
  BY <1>1 DEF Cycle, StepInit, StepEnabling, StepOperational, StepHoming, StepDisabled
<1>3. (resetCycles + 1) % FaultResetWindow # 0
  BY <1>1, ControllerAssumption
<1>4. ~EdgeDue(seen, (resetCycles + 1) % FaultResetWindow)
  BY <1>3 DEF EdgeDue
<1>5. \A lc, m, w, outcome :
        EndCycle(seen, lc, m, w, FALSE, outcome) /\ w # "FaultReset" => ~resetBit'
  BY DEF EndCycle
<1>6. CASE EndCycle(seen, "Disabled", MotionRouted, "DisableVoltage", FALSE, "None")
  BY <1>5, <1>6
<1>7. CASE /\ (IF seen.dev = "Fault" THEN 0 ELSE clearStreak + 1) >= ClearConfirm
           /\ EndCycle(seen, "Enabling", MotionRouted, FsmStep(seen.dev, "OperationEnabled"),
                       FALSE, "None")
  <2>1. seen.dev # "Fault"
    BY <1>7, ControllerAssumption
  <2> QED  BY <1>5, <1>7, <2>1, NoEdge
<1>8. CASE EndCycle(seen, "Resetting", MotionRouted, "DisableVoltage", FALSE, "None")
  BY <1>5, <1>8
<1> QED  BY <1>2, <1>4, <1>6, <1>7, <1>8 DEF StepResetting

\* Nothing but a cycle drains the queue and leaves every thread where it is.
LEMMA OnlyCycles ==
  ASSUME IInv, Next, CycleStep
  PROVE  Cycle
<1>1. queue' = <<>> /\ rt' = rt /\ rt = "Running" /\ pc' = pc /\ stopper' = stopper
  BY DEF CycleStep
<1>2. \A lost \in BOOLEAN : ~OnStop(lost)
  BY <1>1 DEF OnStop, Leaves
<1>3. ~RtExit /\ \A seen \in Inputs : ~StepStopping(seen)
  BY <1>1 DEF RtExit, StepStopping
<1>4. ~Stop /\ ~DropRunner
  BY <1>1 DEF Stop, DropRunner
<1>5. \A c \in Callers : \A where : Goto(c, where) => pc[c] = where
  BY <1>1 DEF Goto, IInv, TypeOK
<1>6. \A c \in Callers : \A v : ~Begin(c, v)
  BY <1>5 DEF Begin
<1>7. \A c \in Callers : Leave(c) => pc[c] = "Idle"
  BY <1>5 DEF Leave
<1>8. \A c \in Callers : ~CallGoesOn(c)
  BY <1>5, <1>7 DEF CallGoesOn, ClaimLoad, ClaimSwap, PushTarget, HomeWrites, HomePush, AwaitLoad,
     AwaitMove, AwaitHoming, HomeThrows, Wake
<1>9. ASSUME NEW kind \in {"Halt", "Disable", "Enable", "FaultReset", "SetVelocity"}, Operate(kind)
      PROVE  FALSE
  <2>1. Command(kind) \in Commands
    BY QueueAssumption DEF Command, Commands, Kinds, Gens
  <2>2. Len(queue') = 0
    BY <1>1
  <2>3. RoomInQueue => Len(queue') = Len(queue) + 1
    BY <1>9, <2>1, PushFacts DEF Operate, IInv, TypeOK
  <2>4. ~RoomInQueue => queue' = queue
    BY <1>9 DEF Operate, Push, RoomInQueue
  <2>5. Len(queue) \in Nat
    BY LenProperties DEF IInv, TypeOK
  <2> QED  BY <2>2, <2>3, <2>4, <2>5, QueueAssumption DEF RoomInQueue
<1> QED  BY <1>2, <1>3, <1>4, <1>6, <1>8, <1>9 DEF Next

\* Every reset word that recovery presents by itself is a rising edge of bit 7.
THEOREM EdgesReal == Spec => ResetEdgesReal
<1>1. IInv /\ [Next]_vars =>
        [CycleStep /\ resetBit' /\ ~Has("FaultReset") => ~resetBit]_vars
  BY OnlyCycles, NoSecondEdge
<1> QED  BY <1>1, Invariance, PTL DEF Spec, ResetEdgesReal

-----------------------------------------------------------------------------
(***************************************************************************)
(* The slot's move, as long as the queue has room.                         *)
(***************************************************************************)

\* What a cycle does to the slot's move.
LEMMA CycleOwner ==
  ASSUME IInv, OwnerInv, Cycle
  PROVE  OwnerInv'
<1> DEFINE Effect == /\ active' = ActiveRouted /\ queue' = <<>>
                     /\ slot' = slot /\ pc' = pc /\ verb' = verb /\ gen' = gen
<1>1. \A seen, lc, m, w, outcome : \A late \in BOOLEAN :
        EndCycle(seen, lc, m, w, late, outcome) => Effect
  BY DEF EndCycle, Drained, callerVars
<1> HIDE DEF Effect
<1>2. \A seen, outcome : \A late \in BOOLEAN : EnterResetting(seen, late, outcome) => Effect
  BY <1>1 DEF EnterResetting
<1>3. \A seen, lc, w, outcome : FinishHoming(seen, lc, w, outcome) => Effect
  BY <1>1 DEF FinishHoming
<1>4. \A seen, cycles, echo : HomingGoesOn(seen, cycles, echo) => Effect
  BY <1>1 DEF HomingGoesOn
<1>5. ASSUME NEW seen, StepInit(seen) PROVE Effect
  BY <1>1, <1>2, <1>5 DEF StepInit
<1>6. ASSUME NEW seen, NEW echoed, StepEnabling(seen, echoed) PROVE Effect
  BY <1>1, <1>2, <1>6 DEF StepEnabling
<1>7. ASSUME NEW seen, NEW modeFault \in BOOLEAN, StepOperational(seen, modeFault) PROVE Effect
  BY <1>1, <1>2, <1>7 DEF StepOperational
<1>8. ASSUME NEW seen, NEW echoed, NEW err, NEW attained, StepHoming(seen, echoed, err, attained)
      PROVE  Effect
  BY <1>2, <1>3, <1>4, <1>8 DEF StepHoming
<1>9. ASSUME NEW seen, StepResetting(seen) PROVE Effect
  BY <1>1, <1>9 DEF StepResetting
<1>10. ASSUME NEW seen, StepDisabled(seen) PROVE Effect
  BY <1>1, <1>10 DEF StepDisabled
<1>11. Effect
  BY <1>5, <1>6, <1>7, <1>8, <1>9, <1>10 DEF Cycle
<1>12. Len(queue') = 0
  BY <1>11 DEF Effect
<1>13. /\ ~Has("SetTarget") => ActiveRouted = active
       /\ \A i \in 1 .. Len(queue) : LastTarget(i) => ActiveRouted = queue[i].gen
  BY Routed DEF IInv, ActiveRouted, Adopts
<1>14. ~Has("SetTarget")'
  BY <1>12 DEF Has
<1> QED  BY <1>11, <1>13, <1>14 DEF Effect, OwnerInv, Claimed, Unseen

\* A command that is not a target leaves the last target where it is.
LEMMA PushOwner ==
  ASSUME IInv, OwnerInv, NEW command \in Commands, Push(command),
         command.kind # "SetTarget", UNCHANGED <<slot, active, verb, gen>>,
         \A c \in Callers : Claimed(c) /\ Unseen(c) => Claimed(c)' /\ Unseen(c)'
  PROVE  OwnerInv'
<1>1. Len(queue) \in Nat /\ Len(queue') \in Nat
  BY PushFacts, LenProperties DEF IInv, TypeOK
<1>2. Has("SetTarget")' => Has("SetTarget")
  BY PushKeeps DEF IInv, TypeOK, Kinds
<1>3. ASSUME NEW i \in 1 .. Len(queue), LastTarget(i)
      PROVE  i \in 1 .. Len(queue') /\ LastTarget(i)' /\ queue'[i] = queue[i]
  <2>1. i \in 1 .. Len(queue') /\ queue'[i] = queue[i]
    BY <1>1, PushFacts DEF IInv, TypeOK
  <2>2. ASSUME NEW j \in (i + 1) .. Len(queue')
        PROVE  queue'[j].kind # "SetTarget"
    <3>1. CASE j <= Len(queue)
      <4>1. j \in (i + 1) .. Len(queue) /\ j \in 1 .. Len(queue)
        BY <1>1, <3>1
      <4> QED  BY <1>3, <4>1, PushFacts DEF LastTarget, IInv, TypeOK
    <3>2. CASE j > Len(queue)
      <4>1. j \in 1 .. Len(queue')
        BY <1>1
      <4> QED  BY <3>2, <4>1, PushFacts DEF IInv, TypeOK
    <3> QED  BY <1>1, <3>1, <3>2
  <2> QED  BY <1>3, <2>1, <2>2 DEF LastTarget
<1> QED  BY <1>2, <1>3 DEF OwnerInv

\* With room in the queue, the target of a claimed move gets to its end.
LEMMA TargetOwner ==
  ASSUME IInv, RoomInQueue, NEW c \in Callers, PushTarget(c)
  PROVE  OwnerInv'
<1> DEFINE command == [kind |-> "SetTarget", gen |-> gen[c]]
<1>1. pc[c] = "Push" /\ Push(command) /\ slot' = slot
  BY DEF PushTarget
<1>2. command \in Commands /\ command.kind = "SetTarget" /\ command.gen = gen[c]
  BY DEF IInv, TypeOK, Commands, Kinds
<1>3. slot = gen[c]
  BY <1>1 DEF IInv, SlotInv, SeenInv, Unseen, Claimed, IdInv
<1> HIDE DEF command
<1>4. Len(queue) \in Nat /\ Len(queue') = Len(queue) + 1
  BY <1>1, <1>2, PushFacts, LenProperties DEF IInv, TypeOK
<1>5. PICK n \in 1 .. Len(queue') : n = Len(queue')
  BY <1>4
<1>6. queue'[n] = command
  BY <1>1, <1>2, <1>4, <1>5, PushFacts DEF IInv, TypeOK
<1>7. LastTarget(n)'
  BY <1>2, <1>4, <1>5, <1>6 DEF LastTarget
<1> QED  BY <1>1, <1>2, <1>3, <1>6, <1>7 DEF OwnerInv

\* The other steps of a caller.
LEMMA CallerOwner ==
  ASSUME IInv, OwnerInv, NEW c \in Callers,
         \/ \E v \in Verbs : Begin(c, v)
         \/ ClaimLoad(c) \/ ClaimSwap(c) \/ HomeWrites(c) \/ AwaitLoad(c)
         \/ AwaitMove(c) \/ AwaitHoming(c) \/ HomeThrows(c) \/ Wake(c)
  PROVE  OwnerInv'
<1> DEFINE Owns(d) == Claimed(d) /\ gen[d] = slot /\ Unseen(d)
<1>1. queue' = queue /\ active' = active
  BY DEF Begin, ClaimLoad, ClaimSwap, HomeWrites, AwaitLoad, AwaitMove, AwaitHoming,
         HomeThrows, Wake, sharedButSlot, moveVars
<1>2. \A d \in Callers : d # c => pc'[d] = pc[d] /\ gen'[d] = gen[d] /\ verb'[d] = verb[d]
  BY Left DEF Begin, ClaimLoad, ClaimSwap, HomeWrites, AwaitLoad, AwaitMove, AwaitHoming,
              HomeThrows, Wake, Goto, locals, IInv, TypeOK
<1>3. CASE slot' = slot /\ (Owns(c) => Owns(c)')
  <2>1. \A d \in Callers : Owns(d) => Owns(d)'
    BY <1>2, <1>3 DEF Claimed, Unseen
  <2> QED  BY <1>1, <1>3, <2>1 DEF OwnerInv, Has, LastTarget
<1>4. CASE slot' = SlotReleased(gen[c]) /\ Claimed(c)
  <2>1. CASE slot = gen[c]
    BY <1>4, <2>1 DEF OwnerInv, SlotReleased
  <2>2. CASE slot # gen[c]
    BY <1>3, <1>4, <2>2 DEF SlotReleased
  <2> QED  BY <2>1, <2>2
<1>5. CASE \E v \in Verbs : Begin(c, v)
  BY <1>3, <1>5 DEF Begin, Claimed
<1>6. CASE ClaimLoad(c)
  BY <1>3, <1>6 DEF ClaimLoad, Claimed
<1>7. CASE ClaimSwap(c)
  <2>1. CASE slot = cur[c]
    <3>1. slot' = gen[c] /\ gen' = gen /\ verb' = verb /\ pc'[c] \in {"Sdo", "Push"}
          /\ (pc'[c] = "Sdo" => verb[c] = "home")
      BY <1>7, <2>1 DEF ClaimSwap, MaySwap, Goto, IInv, TypeOK
    <3>2. Owns(c)'
      BY <3>1 DEF Claimed, Unseen
    <3> QED  BY <3>2 DEF OwnerInv
  <2>2. CASE slot # cur[c]
    BY <1>3, <1>7, <2>2 DEF ClaimSwap, MaySwap, Claimed
  <2> QED  BY <2>1, <2>2
<1>8. CASE HomeWrites(c)
  <2>1. pc[c] = "Sdo" /\ Claimed(c) /\ verb[c] = "home"
    BY <1>8 DEF HomeWrites, Claimed, IInv, IdInv
  <2>2. slot' = slot /\ pc'[c] \in {"HomePush", "Restore"} /\ gen' = gen /\ verb' = verb
    BY <1>8 DEF HomeWrites, SlotDuringHome, Goto, locals, IInv, TypeOK
  <2> QED  BY <1>3, <2>1, <2>2 DEF Claimed, Unseen
<1>9. CASE AwaitLoad(c) \/ Wake(c)
  <2>1. pc[c] \in {"Load", "Parked"} /\ pc'[c] \in {"Load", "Check"} /\ slot' = slot
        /\ verb' = verb /\ gen' = gen
    BY <1>9 DEF AwaitLoad, Wake, Goto, locals, IInv, TypeOK
  <2> QED  BY <1>3, <2>1 DEF Claimed, Unseen
<1>10. CASE AwaitMove(c)
  <2>1. ~Unseen(c) /\ Claimed(c)
    BY <1>10 DEF AwaitMove, Unseen, Claimed
  <2>2. slot' = slot \/ slot' = SlotReleased(gen[c])
    BY <1>10 DEF AwaitMove
  <2> QED  BY <1>3, <1>4, <2>1, <2>2
<1>11. CASE AwaitHoming(c)
  <2>1. pc[c] = "Check" /\ Claimed(c)
    BY <1>11 DEF AwaitHoming, Claimed
  <2>2. CASE (Goto(c, "Parked") \/ Goto(c, "Restore")) /\ UNCHANGED <<locals, slot>>
    <3>1. pc'[c] \in {"Parked", "Restore"}
      BY <2>2 DEF Goto, IInv, TypeOK
    <3> QED  BY <1>3, <2>1, <2>2, <3>1 DEF Claimed, Unseen, locals
  <2>3. CASE slot' = SlotReleased(gen[c])
    BY <1>4, <2>1, <2>3
  <2> QED  BY <1>11, <2>2, <2>3 DEF AwaitHoming
<1>12. CASE HomeThrows(c)
  BY <1>4, <1>12 DEF HomeThrows, Claimed
<1> QED  BY <1>5, <1>6, <1>7, <1>8, <1>9, <1>10, <1>11, <1>12

\* With room in the queue, every step leaves the slot's move with someone.
LEMMA NextOwner == IInv /\ OwnerInv /\ RoomInQueue /\ [Next]_vars => OwnerInv'
<1> SUFFICES ASSUME IInv, OwnerInv, RoomInQueue, [Next]_vars PROVE OwnerInv'
  OBVIOUS
<1>1. CASE Cycle
  BY <1>1, CycleOwner
<1>2. CASE \/ \E lost \in BOOLEAN : OnStop(lost)
           \/ RtExit \/ Stop \/ DropRunner \/ UNCHANGED vars
           \/ \E seen \in Inputs : StepStopping(seen)
  <2>1. UNCHANGED <<queue, slot, active, pc, verb, gen>>
    BY <1>2 DEF OnStop, Leaves, RtExit, Stop, DropRunner, StepStopping, vars, moveVars,
       callerVars
  <2> QED  BY <2>1 DEF OwnerInv, Claimed, Unseen, Has, LastTarget
<1>3. CASE \E c \in Callers, v \in {"go_to", "home"} : Begin(c, v)
  BY <1>3, CallerOwner DEF Verbs
<1>4. ASSUME NEW c \in Callers, HomePush(c) PROVE OwnerInv'
  <2> DEFINE command == [kind |-> "StartHoming", gen |-> gen[c]]
  <2>1. command \in Commands /\ command.kind # "SetTarget"
    BY DEF IInv, TypeOK, Commands, Kinds
  <2>2. Push(command) /\ UNCHANGED <<slot, active, verb, gen>>
    BY <1>4 DEF HomePush, sharedButSlot, moveVars, locals
  <2> HIDE DEF command
  <2>3. verb[c] = "home" /\ pc'[c] = "Load" /\ \A d \in Callers : d # c => pc'[d] = pc[d]
    BY <1>4 DEF HomePush, Goto, IInv, TypeOK, IdInv
  <2>4. \A d \in Callers : Claimed(d) /\ Unseen(d) => Claimed(d)' /\ Unseen(d)'
    BY <2>2, <2>3 DEF Claimed, Unseen
  <2> QED  BY <2>1, <2>2, <2>4, PushOwner
<1>5. CASE \E c \in Callers : CallGoesOn(c)
  BY <1>4, <1>5, TargetOwner, CallerOwner DEF CallGoesOn
<1>6. ASSUME NEW kind \in {"Halt", "Disable", "Enable", "FaultReset", "SetVelocity"}, Operate(kind)
      PROVE  OwnerInv'
  <2>1. Command(kind) \in Commands /\ Command(kind).kind # "SetTarget"
    BY QueueAssumption DEF Command, Commands, Kinds, Gens
  <2>2. Push(Command(kind)) /\ UNCHANGED <<slot, active, pc, verb, gen>>
    BY <1>6 DEF Operate, sharedButSlot, moveVars, callerVars
  <2>3. \A d \in Callers : Claimed(d) /\ Unseen(d) => Claimed(d)' /\ Unseen(d)'
    BY <2>2 DEF Claimed, Unseen
  <2> QED  BY <2>1, <2>2, <2>3, PushOwner
<1> QED  BY <1>1, <1>2, <1>3, <1>5, <1>6 DEF Next

\* As long as no push meets a full queue, the slot is never busy for a move that
\* is gone: a caller is still inside its call, or the real-time thread has the
\* move or will find it in the queue.
THEOREM SlotOwned == Spec /\ []RoomInQueue => []NoOrphanedSlot
<1>1. Init => OwnerInv
  BY DEF Init, OwnerInv
<1>2. OwnerInv => NoOrphanedSlot
  BY DEF OwnerInv, NoOrphanedSlot, SlotBusy, LastTarget, QueuedTarget
<1> QED  BY <1>1, <1>2, NextOwner, Invariance, PTL DEF Spec
=============================================================================
