-------------------------- MODULE GantryAxisProofs --------------------------
(***************************************************************************)
(* Proofs about the gantry axis, for any number of clients, any axis and   *)
(* any way the drive counts.  What the axis reports and where its moves    *)
(* end depend on three numbers kept in three places: the controller's zero *)
(* and home position, and the axis's own copy of the latter.  The          *)
(* invariant says when they agree.                                         *)
(***************************************************************************)
EXTENDS GantryAxis, TLAPS

\* The motion slot belongs to the one client whose move or homing run is under
\* way, which none is while the bus is lost.
SlotInv ==
  /\ \A c \in Clients : pc[c] \in {"Await", "Homing"} => slot = c /\ connected
  /\ homingRun => slot # Nobody /\ pc[slot] = "Homing"
  /\ \A c \in Clients : pc[c] = "Homing" => homingRun

\* While the motor is homed its home position is where the run ended, in the
\* drive's count of now; an answer that is about the last run carries it; and
\* the run has taken the software zero away.
FrameInv ==
  /\ homed /\ connected => homeCounts = homePhys + shift
  /\ homed /\ ~rezeroed => zero = 0
  /\ homed /\ stored => homeRevs = homeCounts
  /\ \A c \in current : pc[c] = "Store"
  /\ homed => \A c \in current : arg[c] = homeCounts

\* The revolutions of so many millimetres.
Travel(mm) == Sign * (mm \div MmPerRev)

\* A move that nothing has disturbed carries its own target.
MoveInv ==
  \A c \in Clients :
    /\ asked[c] % MmPerRev = 0
    /\ c \notin disturbed =>
         /\ pc[c] = "GoTo" => arg[c] = homeRevs + Travel(asked[c])
         /\ pc[c] = "Await" => target = homeRevs + Travel(asked[c]) + zero
         /\ pc[c] = "Done" => PositionRevs = homeRevs + Travel(asked[c])

IInv == TypeOK /\ SlotInv /\ FrameInv /\ MoveInv

LEMMA TravelInt == \A mm \in Int : Travel(mm) \in Int
<1> SUFFICES ASSUME NEW mm \in Int PROVE Travel(mm) \in Int
  OBVIOUS
<1>1. mm \div MmPerRev \in Int
  BY AxisAssumption
<1> QED  BY <1>1, AxisAssumption DEF Travel

\* The two conversions are inverse to each other on whole revolutions.
LEMMA TravelBack ==
  ASSUME NEW mm \in Int, mm % MmPerRev = 0
  PROVE  Sign * Travel(mm) * MmPerRev = mm
<1> DEFINE q == mm \div MmPerRev
<1>1. q \in Int /\ MmPerRev * q = mm
  BY AxisAssumption
<1>2. Sign * (Sign * q) = q
  <2> HIDE DEF q
  <2> QED  BY <1>1, AxisAssumption
<1>3. Sign * Travel(mm) = q
  BY <1>2 DEF Travel
<1>4. q * MmPerRev = mm
  <2> HIDE DEF q
  <2> QED  BY <1>1, AxisAssumption
<1> QED  BY <1>3, <1>4

-----------------------------------------------------------------------------
\* The steps of a move keep the invariant.
LEMMA MoveKeeps ==
  ASSUME IInv, NEW c \in Clients,
         \/ \E mm \in Moves : Move(c, mm)
         \/ MoveConverts(c) \/ Rebuild(c) \/ Refused(c) \/ GoTo(c)
         \/ TargetReached(c) \/ MoveReturns(c)
  PROVE  IInv'
<1> USE AxisAssumption, TravelInt
<1> USE DEF IInv, TypeOK, SlotInv, FrameInv, MoveInv, Goes, Answered, PositionRevs, raw, Pcs,
        driveVars, frameVars, motionVars, clientVars, historyVars
<1>1. ASSUME NEW mm \in Moves, Move(c, mm) PROVE IInv'
  BY <1>1 DEF Move
<1>2. CASE MoveConverts(c)
  <2>1. MmToRevs(asked[c]) = homeRevs + Travel(asked[c])
    BY DEF MmToRevs, Travel
  <2> QED  BY <1>2, <2>1 DEF MoveConverts
<1>3. CASE Rebuild(c)
  BY <1>3 DEF Rebuild
<1>4. CASE Refused(c)
  BY <1>4 DEF Refused
<1>5. CASE GoTo(c)
  BY <1>5 DEF GoTo, RawTarget
<1>6. CASE TargetReached(c)
  <2>1. TypeOK'
    BY <1>6 DEF TargetReached, MovingBut
  <2>2. SlotInv'
    BY <1>6 DEF TargetReached, MovingBut
  <2>3. FrameInv'
    BY <1>6 DEF TargetReached, MovingBut
  <2>4. MoveInv'
    <3>1. /\ pc'[c] = "Done" /\ asked' = asked
          /\ \A d \in Clients : d # c => pc'[d] = pc[d]
          /\ disturbed' = disturbed \cup MovingBut({c})
      BY <1>6 DEF TargetReached
    <3>2. ASSUME c \notin disturbed PROVE PositionRevs' = homeRevs' + Travel(asked'[c])
      <4>1. /\ target = homeRevs + Travel(asked[c]) + zero
            /\ phys' = target - shift /\ shift' = shift /\ zero' = zero /\ homeRevs' = homeRevs
        BY <1>6, <3>2 DEF TargetReached
      <4>2. Travel(asked[c]) \in Int
        OBVIOUS
      <4> QED  BY <3>1, <4>1, <4>2
    <3>3. \A d \in Clients : d # c /\ d \notin disturbed' => pc[d] \notin {"GoTo", "Await", "Done"}
      BY <3>1 DEF MovingBut
    <3> QED  BY <3>1, <3>2, <3>3
  <2> QED  BY <2>1, <2>2, <2>3, <2>4 DEF IInv
<1>7. CASE MoveReturns(c)
  BY <1>7 DEF MoveReturns
<1> QED  BY <1>1, <1>2, <1>3, <1>4, <1>5, <1>6, <1>7

\* So do the steps of a homing run, its answer, and what the axis makes of it.
LEMMA HomeKeeps ==
  ASSUME IInv, NEW c \in Clients,
         \/ Home(c) \/ HomeClaims(c) \/ HomeFreesSlot(c) \/ HomeRestores(c)
         \/ HomeRestoreThrows(c) \/ HomeReplies(c) \/ HomeStores(c) \/ HomeForwarded(c)
  PROVE  IInv'
<1> USE AxisAssumption, TravelInt
<1> USE DEF IInv, TypeOK, SlotInv, FrameInv, MoveInv, Goes, Answered, PositionRevs, raw, Pcs,
        driveVars, frameVars, motionVars, clientVars, historyVars
<1>1. CASE Home(c)
  BY <1>1 DEF Home
<1>2. CASE HomeClaims(c)
  BY <1>2 DEF HomeClaims
<1>3. CASE HomeFreesSlot(c)
  BY <1>3 DEF HomeFreesSlot
<1>4. CASE HomeRestores(c)
  BY <1>4 DEF HomeRestores
<1>5. CASE HomeRestoreThrows(c)
  BY <1>5 DEF HomeRestoreThrows
<1>6. CASE HomeReplies(c)
  BY <1>6 DEF HomeReplies
<1>7. CASE HomeStores(c)
  <2>1. TypeOK'
    BY <1>7 DEF HomeStores, MovingBut
  <2>2. SlotInv'
    BY <1>7 DEF HomeStores, MovingBut
  <2>3. FrameInv'
    BY <1>7 DEF HomeStores, MovingBut
  <2>4. MoveInv'
    BY <1>7 DEF HomeStores, MovingBut
  <2> QED  BY <2>1, <2>2, <2>3, <2>4 DEF IInv
<1>8. CASE HomeForwarded(c)
  BY <1>8 DEF HomeForwarded
<1> QED  BY <1>1, <1>2, <1>3, <1>4, <1>5, <1>6, <1>7, <1>8

\* And so do the drive, the other clients of the motor and the bus.
LEMMA OthersKeep ==
  ASSUME IInv,
         \/ \E end \in HomeEnds, origin \in Shifts : HomingAttained(end, origin)
         \/ \E p \in Track : HomingFails(p) \/ Stop(p)
         \/ \E v \in Offsets : ResetZero(v)
         \/ BusLost
         \/ \E p \in Track, origin \in Shifts : Dark(p, origin)
  PROVE  IInv'
<1> USE AxisAssumption, TravelInt
<1> USE DEF IInv, TypeOK, SlotInv, FrameInv, MoveInv, Goes, PositionRevs, raw, Pcs, MovingBut,
        driveVars, frameVars, motionVars, clientVars, historyVars
<1>1. ASSUME NEW end \in HomeEnds, NEW origin \in Shifts, HomingAttained(end, origin)
      PROVE  IInv'
  <2>1. TypeOK'
    <3>1. slot \in Clients /\ pc' = [pc EXCEPT ![slot] = "Attained"]
      BY <1>1 DEF HomingAttained, AttainedAt
    <3>2. pc' \in [Clients -> Pcs] /\ disturbed' \subseteq Clients
      BY <1>1, <3>1 DEF HomingAttained, AttainedAt
    <3>3. homeCounts' \in Int
      BY <1>1 DEF HomingAttained, AttainedAt
    <3> QED  BY <1>1, <3>2, <3>3 DEF HomingAttained, AttainedAt
  <2>2. SlotInv'
    BY <1>1 DEF HomingAttained, AttainedAt
  <2>3. FrameInv'
    BY <1>1 DEF HomingAttained, AttainedAt
  <2>4. MoveInv'
    BY <1>1 DEF HomingAttained, AttainedAt
  <2> QED  BY <2>1, <2>2, <2>3, <2>4 DEF IInv
<1>2. ASSUME NEW p \in Track, HomingFails(p) PROVE IInv'
  BY <1>2 DEF HomingFails
<1>3. ASSUME NEW p \in Track, Stop(p) PROVE IInv'
  <2>1. TypeOK'
    <3>1. pc' \in [Clients -> Pcs]
      BY <1>3 DEF Stop, EndsWithError
    <3>2. arg' \in [Clients -> Int]
      BY <1>3 DEF Stop, EndsWithError
    <3>3. 0 \in 0 .. Length /\ asked' \in [Clients -> 0 .. Length]
      BY <1>3 DEF Stop, EndsWithError
    <3>4. disturbed' \subseteq Clients /\ slot' \in Clients \cup {Nobody}
      BY <1>3 DEF Stop, EndsWithError
    <3> QED  BY <1>3, <3>1, <3>2, <3>3, <3>4 DEF Stop, EndsWithError
  <2>2. SlotInv'
    BY <1>3 DEF Stop, EndsWithError
  <2>3. FrameInv'
    BY <1>3 DEF Stop, EndsWithError
  <2>4. MoveInv'
    BY <1>3 DEF Stop, EndsWithError
  <2> QED  BY <2>1, <2>2, <2>3, <2>4 DEF IInv
<1>4. ASSUME NEW v \in Offsets, ResetZero(v) PROVE IInv'
  BY <1>4 DEF ResetZero
<1>5. CASE BusLost
  <2>1. TypeOK'
    <3>1. pc' \in [Clients -> Pcs]
      BY <1>5 DEF BusLost, EndsWithError
    <3>2. arg' \in [Clients -> Int]
      BY <1>5 DEF BusLost, EndsWithError
    <3>3. 0 \in 0 .. Length /\ asked' \in [Clients -> 0 .. Length]
      BY <1>5 DEF BusLost, EndsWithError
    <3>4. disturbed' \subseteq Clients /\ slot' \in Clients \cup {Nobody}
      BY <1>5 DEF BusLost, EndsWithError
    <3> QED  BY <1>5, <3>1, <3>2, <3>3, <3>4 DEF BusLost, EndsWithError
  <2>2. SlotInv'
    BY <1>5 DEF BusLost, EndsWithError
  <2>3. FrameInv'
    BY <1>5 DEF BusLost, EndsWithError
  <2>4. MoveInv'
    BY <1>5 DEF BusLost, EndsWithError
  <2> QED  BY <2>1, <2>2, <2>3, <2>4 DEF IInv
<1>6. ASSUME NEW p \in Track, NEW origin \in Shifts, Dark(p, origin) PROVE IInv'
  BY <1>6 DEF Dark
<1> QED  BY <1>1, <1>2, <1>3, <1>4, <1>5, <1>6

LEMMA InvInit == Init => IInv
<1> SUFFICES ASSUME Init PROVE IInv
  OBVIOUS
<1>1. 0 % MmPerRev = 0
  BY AxisAssumption
<1>2. TypeOK
  <2>1. pc \in [Clients -> Pcs]
    BY DEF Init, Pcs
  <2>2. 0 \in 0 .. Length
    BY AxisAssumption
  <2>3. arg \in [Clients -> Int] /\ asked \in [Clients -> 0 .. Length]
    BY <2>2 DEF Init
  <2> QED  BY <2>1, <2>3, AxisAssumption DEF Init, TypeOK
<1>3. SlotInv /\ FrameInv
  BY DEF Init, SlotInv, FrameInv
<1>4. MoveInv
  BY <1>1 DEF Init, MoveInv
<1> QED  BY <1>2, <1>3, <1>4 DEF IInv

LEMMA InvKept == IInv /\ [Next]_vars => IInv'
<1> SUFFICES ASSUME IInv, [Next]_vars PROVE IInv'
  OBVIOUS
<1>1. ASSUME NEW c \in Clients, ClientStep(c) PROVE IInv'
  BY <1>1, MoveKeeps, HomeKeeps DEF ClientStep
<1>2. CASE UNCHANGED vars
  BY <1>2 DEF vars, IInv, TypeOK, SlotInv, FrameInv, MoveInv, PositionRevs, raw,
     driveVars, frameVars, motionVars, clientVars, historyVars
<1> QED  BY <1>1, <1>2, OthersKeep DEF Next

LEMMA Invariant == Spec => []IInv
BY InvInit, InvKept, PTL DEF Spec

-----------------------------------------------------------------------------
\* Every variable keeps its type, and a move that is let through lies within
\* length_mm, for every axis.
THEOREM TypeCorrect == Spec => []TypeOK
<1>1. IInv => TypeOK
  BY DEF IInv
<1> QED  BY <1>1, Invariant, PTL

\* get_position is the distance from where the last homing run ended, once the
\* axis has kept its answer: whatever zero was set before, however the drive
\* counts after it, and never with a reference from before a rebuild.
THEOREM PositionExact == Spec => []PositionTrue
<1>1. IInv => PositionTrue
  <2> SUFFICES ASSUME IInv, homed /\ connected /\ stored /\ ~rezeroed
               PROVE  GetPosition = Sign * (phys - homePhys) * MmPerRev
    BY DEF PositionTrue
  <2>1. PositionRevs - homeRevs = phys - homePhys
    BY AxisAssumption DEF IInv, TypeOK, FrameInv, PositionRevs, raw
  <2> QED  BY <2>1 DEF GetPosition, RevsToMm
<1> QED  BY <1>1, Invariant, PTL

\* A move that returns undisturbed has brought the axis to the millimetre asked
\* for, for every scale and travel direction.
THEOREM MovesLand == Spec => []MoveLands
<1>1. IInv => MoveLands
  <2> SUFFICES ASSUME IInv, NEW c \in Clients, pc[c] = "Done", c \notin disturbed
               PROVE  GetPosition = asked[c]
    BY DEF MoveLands
  <2>1. asked[c] \in Int /\ asked[c] % MmPerRev = 0
    BY AxisAssumption DEF IInv, TypeOK, MoveInv
  <2>2. PositionRevs - homeRevs = Travel(asked[c])
    BY <2>1, TravelInt DEF IInv, TypeOK, MoveInv
  <2>3. Sign * Travel(asked[c]) * MmPerRev = asked[c]
    BY <2>1, TravelBack
  <2> QED  BY <2>2, <2>3 DEF GetPosition, RevsToMm
<1> QED  BY <1>1, Invariant, PTL
=============================================================================
