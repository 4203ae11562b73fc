------------------------- MODULE ProfileModeProofs --------------------------
(***************************************************************************)
(* Proofs about the profile position mode, for any settle and time-out     *)
(* bounds and any drive.  They rest on two records kept apart in the code: *)
(* the sequencer's own last controlword, against the word on the wire, and *)
(* the pending flag with the handshake's phase, against the move they      *)
(* belong to.                                                              *)
(***************************************************************************)
EXTENDS ProfileMode, TLAPS

\* Where the mode is stepped, the sequencer knows of a halt on the wire: the words
\* that homing and the ladder write behind its back never reach Operational.
HaltInv == where = "Operational" /\ word.halt => lastHalt

\* Whatever the mode still has to do comes from a target since the last reset.
FreshInv ==
  /\ pending \/ handshake # "Idle" => fresh
  /\ where = "Operational" /\ word.bit4 => fresh

\* A live move whose set-point no reset has dropped is pending, in the handshake,
\* or acknowledged; and a handshake in its second half has been acknowledged,
\* unless a newer target waits behind it.
SetpointInv ==
  move = "Live" /\ setpoint # "Dropped" =>
    /\ pending \/ handshake # "Idle" \/ setpoint = "Acknowledged"
    /\ handshake \in {"ClearBit4", "AwaitAckClear"} => pending \/ setpoint = "Acknowledged"

\* The inductive invariant.
IInv == TypeOK /\ HaltInv /\ FreshInv /\ SetpointInv

-----------------------------------------------------------------------------
(***************************************************************************)
(* What the operators return.                                              *)
(***************************************************************************)

\* A phase leads to a phase; the handshake ends only where it was idle, where the
\* wait ran out before the acknowledge, or once the acknowledge is clearing; and
\* its second half is entered by an acknowledge.
LEMMA PhaseFacts ==
  ASSUME NEW from \in Handshakes, NEW ack
  PROVE  /\ NextPhase(from, ack) \in Handshakes
         /\ from = "Idle" => NextPhase(from, ack) = "Idle"
         /\ from = "WriteTarget" => NextPhase(from, ack) \in {"WriteTarget", "AwaitAck"}
         /\ from = "WriteTarget" /\ HaltSettled => NextPhase(from, ack) = "AwaitAck"
         /\ NextPhase(from, ack) = "Idle" =>
              from \in {"Idle", "AwaitAckClear"} \/ (from = "AwaitAck" /\ TimedOut(from, ack))
         /\ NextPhase(from, ack) \in {"ClearBit4", "AwaitAckClear"} =>
              from \in {"ClearBit4", "AwaitAckClear"} \/ (from = "AwaitAck" /\ ack)
         /\ NextPhase(from, ack) = "AwaitAck" /\ from # "AwaitAck" =>
              from = "WriteTarget" /\ HaltSettled
         /\ NextPhase(from, ack) = from /\ from \in {"AwaitAck", "AwaitAckClear"} =>
              cyclesLeft # 0
BY DEF NextPhase, Handshakes, TimedOut

\* Bit 4 is up between the raise and the acknowledge only.
LEMMA Bit4Facts ==
  ASSUME NEW from \in Handshakes, NEW ack, Bit4(from, ack)
  PROVE  from # "Idle"
BY PhaseFacts DEF Bit4

\* Halt has been clear for the settle cycles only if the last word had it clear.
LEMMA SettledFacts ==
  ASSUME TypeOK
  PROVE  /\ HaltClearNow \in 0 .. HaltSettle
         /\ HaltSettled => ~lastHalt
BY ProfileAssumption DEF TypeOK, HaltClearNow, HaltSettled

\* The commands of a batch keep the types.
LEMMA BatchTypes ==
  ASSUME TypeOK, NEW b \in Batches
  PROVE  /\ IntentOf(b) \in Modes
         /\ HaltedOf(b) \in BOOLEAN
         /\ PendingOf(b) \in BOOLEAN
         /\ MoveOf(b) \in {"None", "Live", "Failed", "Completed"}
         /\ SetpointOf(b) \in {"None", "Waiting", "Raised", "Acknowledged", "Dropped"}
         /\ SetpointDropped(b) \in {"None", "Waiting", "Raised", "Acknowledged", "Dropped"}
<1>1. /\ b.target \in BOOLEAN /\ b.halt \in BOOLEAN /\ b.disable \in BOOLEAN
      /\ b.velocity \in BOOLEAN
  BY DEF Batches
<1>2. IntentOf(b) \in Modes
  BY DEF IntentOf, Modes, TypeOK
<1>3. HaltedOf(b) \in BOOLEAN /\ PendingOf(b) \in BOOLEAN
  BY DEF HaltedOf, PendingOf
<1>4. /\ MoveOf(b) \in {"None", "Live", "Failed", "Completed"}
      /\ SetpointOf(b) \in {"None", "Waiting", "Raised", "Acknowledged", "Dropped"}
  BY DEF MoveOf, AbortedIf, SetpointOf, TypeOK
<1> QED  BY <1>2, <1>3, <1>4 DEF SetpointDropped

\* What is published of a move is its completion, or what it was.
LEMMA PublishedFacts ==
  ASSUME NEW m \in {"None", "Live", "Failed", "Completed"}, NEW seen
  PROVE  /\ Published(m, seen) \in {"None", "Live", "Completed", "Failed"}
         /\ Published(m, seen) = "Live" => m = "Live"
BY DEF Published

\* An abort leaves no live move.
LEMMA AbortedFacts ==
  ASSUME NEW m \in {"None", "Live", "Failed", "Completed"}, NEW aborts
  PROVE  /\ AbortedIf(aborts, m) \in {"None", "Live", "Failed", "Completed"}
         /\ AbortedIf(aborts, m) = "Live" => m = "Live" /\ ~aborts
BY DEF AbortedIf

\* The fields of a word.
LEMMA WordFacts ==
  ASSUME NEW kind \in {"Enabled", "Ladder", "QuickStop", "Off"},
         NEW halt \in BOOLEAN, NEW bit4 \in BOOLEAN
  PROVE  /\ Word(kind, halt, bit4) \in Words
         /\ Word(kind, halt, bit4).halt = halt
         /\ Word(kind, halt, bit4).bit4 = bit4
BY DEF Word, Words

-----------------------------------------------------------------------------
(***************************************************************************)
(* The steps.                                                              *)
(***************************************************************************)

\* A reset leaves the mode nothing to do, and the move it had is dropped.
LEMMA ResetKeeps ==
  ASSUME IInv, NEW b \in Batches, Reset, setpoint' = SetpointDropped(b),
         move' \in {"None", "Live", "Completed", "Failed"},
         move' = "Live" => MoveOf(b) = "Live",
         where' \in {"Ladder", "Homing"}, word' \in Words
  PROVE  IInv'
<1> USE DEF IInv
<1>1. TypeOK'
  <2>1. setpoint' \in {"None", "Waiting", "Raised", "Acknowledged", "Dropped"}
    BY BatchTypes
  <2>2. /\ echoWait' \in 0 .. (ModeEchoCycles + 1) /\ cyclesLeft' \in 0 .. HandshakeTimeout
        /\ haltClear' \in 0 .. HaltSettle
    BY ProfileAssumption DEF Reset
  <2> QED  BY <2>1, <2>2 DEF TypeOK, Reset, PendingReset, Modes, Handshakes
<1>2. HaltInv' /\ FreshInv'
  BY DEF HaltInv, FreshInv, Reset, PendingReset
<1>3. SetpointInv'
  BY DEF SetpointInv, SetpointDropped
<1> QED  BY <1>1, <1>2, <1>3

\* Commands that wait for the mode to be stepped are kept, and the target there is
\* is the newest.
LEMMA AdoptedKeeps ==
  ASSUME IInv, NEW b \in Batches, NEW seen, Adopted(b, seen),
         where' \in {"Ladder", "Homing", "Operational"}, word' \in Words,
         where' = "Operational" => ~word'.halt /\ ~word'.bit4
  PROVE  IInv'
<1> USE DEF IInv
<1>1. TypeOK'
  BY BatchTypes, PublishedFacts DEF TypeOK, Adopted, sequencerVars
<1>2. HaltInv'
  BY DEF HaltInv
<1>3. FreshInv'
  BY DEF FreshInv, Adopted, PendingOf, sequencerVars
<1>4. SetpointInv'
  <2> SUFFICES ASSUME move' = "Live", setpoint' # "Dropped"
               PROVE  /\ pending' \/ handshake # "Idle" \/ setpoint' = "Acknowledged"
                      /\ handshake \in {"ClearBit4", "AwaitAckClear"} =>
                           pending' \/ setpoint' = "Acknowledged"
    BY DEF SetpointInv, Adopted, sequencerVars
  <2>1. MoveOf(b) = "Live" /\ setpoint' = SetpointOf(b) /\ pending' = PendingOf(b)
    BY BatchTypes, PublishedFacts DEF Adopted
  <2>2. CASE b.target
    BY <2>1, <2>2 DEF PendingOf
  <2>3. CASE ~b.target
    <3>1. move = "Live" /\ setpoint' = setpoint
      BY <2>1, <2>3 DEF MoveOf, AbortedIf, SetpointOf
    <3> QED  BY <2>1, <3>1 DEF SetpointInv, PendingOf
  <2> QED  BY <2>2, <2>3
<1> QED  BY <1>1, <1>2, <1>3, <1>4

\* What a stepped cycle does to the handshake and to the word.
LEMMA StepFacts ==
  ASSUME TypeOK, NEW b \in Batches, NEW seen \in Inputs, StepOperational(b, seen),
         NEW newSp, newSp = (seen.echo = IntentOf(b) /\ PendingOf(b)),
         NEW from, from = IF newSp THEN "WriteTarget" ELSE handshake,
         NEW inStep, inStep = (OperationEnabledBit(seen.dev) /\ IntentOf(b) # "PV")
  PROVE  /\ from \in Handshakes
         /\ inStep => handshake' = NextPhase(from, seen.ack)
         /\ ~inStep => handshake' = from
         /\ cyclesLeft' \in 0 .. HandshakeTimeout
         /\ handshake' = "AwaitAck" /\ cyclesLeft' = HandshakeTimeout /\ word'.bit4 =>
              HaltSettled
         /\ word' \in Words /\ word'.halt = lastHalt' /\ lastHalt' \in BOOLEAN
         /\ word'.bit4 => from # "Idle"
         /\ idle' \in BOOLEAN
<1> DEFINE driving == OperationEnabledBit(seen.dev)
           bit4    == inStep /\ Bit4(from, seen.ack)
           halts   == driving /\ HaltedOf(b)
           kind    == IF driving THEN "Enabled" ELSE "Ladder"
<1>1. /\ IF inStep THEN Handshake(from, seen.ack)
                   ELSE /\ handshake' = from
                        /\ idle' = (idle /\ ~newSp)
                        /\ UNCHANGED cyclesLeft
      /\ word' = Word(kind, halts, bit4)
      /\ lastHalt' = halts
  BY DEF StepOperational, SequencerStep
<1>2. from \in Handshakes
  BY DEF TypeOK, Handshakes
<1>3. /\ inStep => handshake' = NextPhase(from, seen.ack)
      /\ ~inStep => handshake' = from
  BY <1>1 DEF Handshake
<1>4. idle' \in BOOLEAN
  BY <1>1 DEF Handshake
<1>5. CASE ~inStep
  <2>1. cyclesLeft' \in 0 .. HandshakeTimeout /\ bit4 = FALSE
    BY <1>1, <1>5 DEF TypeOK
  <2>2. halts \in BOOLEAN
    BY BatchTypes DEF OperationEnabledBit
  <2>3. word' \in Words /\ word'.halt = halts /\ ~word'.bit4
    BY <1>1, <2>1, <2>2, WordFacts
  <2> HIDE DEF halts, bit4
  <2> QED  BY <1>1, <1>2, <1>3, <1>4, <1>5, <2>1, <2>2, <2>3
<1>6. CASE inStep
  <2> DEFINE to == NextPhase(from, seen.ack)
  <2>1. cyclesLeft' = IF to \in {"AwaitAck", "AwaitAckClear"}
                      THEN IF from = to THEN cyclesLeft - 1 ELSE HandshakeTimeout
                      ELSE cyclesLeft
    BY <1>1, <1>6 DEF Handshake
  <2>2. to = from /\ to \in {"AwaitAck", "AwaitAckClear"} => cyclesLeft # 0
    BY <1>2, PhaseFacts
  <2>3. cyclesLeft \in 0 .. HandshakeTimeout
    BY DEF TypeOK
  <2>4. to = "AwaitAck" /\ from # "AwaitAck" => HaltSettled
    BY <1>2, PhaseFacts
  <2>5. from = "Idle" => ~Bit4(from, seen.ack)
    BY <1>2, Bit4Facts
  <2>6. halts \in BOOLEAN /\ bit4 \in BOOLEAN
    BY BatchTypes DEF Bit4
  <2>7. word' \in Words /\ word'.halt = halts /\ word'.bit4 = bit4
    BY <1>1, <2>6, WordFacts
  <2>8. bit4 => from # "Idle"
    BY <2>5
  <2> HIDE DEF to, halts, bit4
  <2>9. cyclesLeft' \in 0 .. HandshakeTimeout
    BY <2>1, <2>2, <2>3, ProfileAssumption
  <2>10. to = "AwaitAck" /\ cyclesLeft' = HandshakeTimeout => HaltSettled
    BY <2>1, <2>3, <2>4, ProfileAssumption
  <2>11. handshake' = to
    BY <1>3, <1>6 DEF to
  <2> QED  BY <1>1, <1>2, <1>3, <1>4, <1>6, <2>6, <2>7, <2>8, <2>9, <2>10, <2>11
<1> QED  BY <1>5, <1>6

\* A stepped cycle keeps the invariant.
LEMMA OperationalKeeps ==
  ASSUME IInv, NEW b \in Batches, NEW seen \in Inputs, StepOperational(b, seen)
  PROVE  IInv'
<1> DEFINE mode       == IntentOf(b)
           echoed     == seen.echo = mode
           notAdopted == ~echoed /\ WaitNow = ModeEchoCycles
           newSp      == echoed /\ PendingOf(b)
           from       == IF newSp THEN "WriteTarget" ELSE handshake
           inStep     == OperationEnabledBit(seen.dev) /\ mode # "PV"
           fails      == notAdopted \/ (inStep /\ TimedOut(from, seen.ack))
<1> USE DEF IInv
<1>1. /\ from \in Handshakes
      /\ inStep => handshake' = NextPhase(from, seen.ack)
      /\ ~inStep => handshake' = from
      /\ cyclesLeft' \in 0 .. HandshakeTimeout
      /\ word' \in Words /\ word'.halt = lastHalt' /\ lastHalt' \in BOOLEAN
      /\ word'.bit4 => from # "Idle"
      /\ idle' \in BOOLEAN
  BY StepFacts
<1>2. handshake' \in Handshakes /\ (from = "Idle" => handshake' = "Idle")
  BY <1>1, PhaseFacts
<1>3. /\ intent' = IF notAdopted THEN seen.echo ELSE mode
      /\ halted' = HaltedOf(b)
      /\ pending' = (PendingOf(b) /\ ~echoed /\ ~notAdopted)
      /\ echoWait' = IF echoed THEN 0 ELSE WaitNow
      /\ move' = Published(AbortedIf(fails, MoveOf(b)), seen)
      /\ setpoint' = IF inStep /\ from = "AwaitAck" /\ seen.ack THEN "Acknowledged"
                     ELSE IF inStep /\ from = "WriteTarget" /\ HaltSettled THEN "Raised"
                     ELSE SetpointOf(b)
      /\ fresh' = (fresh \/ b.target)
      /\ where' \in {"Stopping", "Operational"}
      /\ haltClear' = HaltClearNow
      /\ announced' \in BOOLEAN /\ modeChecked' \in BOOLEAN
  BY DEF StepOperational, SequencerStep
<1>4. move' \in {"None", "Live", "Completed", "Failed"}
      /\ (move' = "Live" => MoveOf(b) = "Live" /\ ~fails)
  <2>1. MoveOf(b) \in {"None", "Live", "Failed", "Completed"}
    BY BatchTypes
  <2> HIDE DEF fails
  <2>2. /\ AbortedIf(fails, MoveOf(b)) \in {"None", "Live", "Failed", "Completed"}
        /\ AbortedIf(fails, MoveOf(b)) = "Live" => MoveOf(b) = "Live" /\ ~fails
    BY <2>1, AbortedFacts
  <2> QED  BY <1>3, <2>2, PublishedFacts
<1>5. TypeOK'
  <2>1. echoWait' \in 0 .. (ModeEchoCycles + 1)
    BY <1>3, ProfileAssumption DEF WaitNow, TypeOK
  <2>2. intent' \in Modes
    <3>1. seen.echo \in Modes
      BY DEF Inputs
    <3> QED  BY <1>3, <3>1, BatchTypes
  <2>3. setpoint' \in {"None", "Waiting", "Raised", "Acknowledged", "Dropped"}
    BY <1>3, BatchTypes
  <2>4. halted' \in BOOLEAN /\ pending' \in BOOLEAN /\ fresh' \in BOOLEAN
    BY <1>3, BatchTypes DEF Batches
  <2>5. haltClear' \in 0 .. HaltSettle
    BY <1>3, SettledFacts
  <2> QED  BY <1>1, <1>2, <1>3, <1>4, <2>1, <2>2, <2>3, <2>4, <2>5 DEF TypeOK
<1>6. HaltInv'
  BY <1>1 DEF HaltInv
<1>7. FreshInv'
  <2>1. from # "Idle" \/ PendingOf(b) => fresh'
    BY <1>3 DEF FreshInv, PendingOf
  <2> QED  BY <1>1, <1>2, <1>3, <2>1 DEF FreshInv
<1>8. SetpointInv'
  <2> SUFFICES ASSUME move' = "Live", setpoint' # "Dropped"
               PROVE  /\ pending' \/ handshake' # "Idle" \/ setpoint' = "Acknowledged"
                      /\ handshake' \in {"ClearBit4", "AwaitAckClear"} =>
                           pending' \/ setpoint' = "Acknowledged"
    BY DEF SetpointInv
  <2>1. MoveOf(b) = "Live" /\ ~notAdopted /\ ~(inStep /\ TimedOut(from, seen.ack))
    BY <1>4
  <2>2. CASE newSp
    <3>1. from = "WriteTarget"
      BY <2>2
    <3>2. handshake' \in {"WriteTarget", "AwaitAck"}
      BY <1>1, <3>1, PhaseFacts
    <3> QED  BY <3>2
  <2>3. CASE PendingOf(b) /\ ~echoed
    BY <1>3, <2>1, <2>3
  <2>4. CASE ~PendingOf(b)
    <3>1. ~b.target /\ ~pending /\ from = handshake
      BY <2>4 DEF PendingOf
    <3>2. move = "Live" /\ SetpointOf(b) = setpoint
      BY <2>1, <3>1 DEF MoveOf, AbortedIf, SetpointOf
    <3>3. CASE ~inStep
      BY <1>1, <1>3, <3>1, <3>2, <3>3 DEF SetpointInv
    <3>4. CASE inStep /\ from = "AwaitAck" /\ seen.ack
      BY <1>3, <3>4
    <3>5. CASE inStep /\ from = "WriteTarget"
      <4>1. handshake' \in {"WriteTarget", "AwaitAck"}
        BY <1>1, <3>5, PhaseFacts
      <4> QED  BY <4>1
    <3>6. CASE inStep /\ from # "WriteTarget" /\ ~(from = "AwaitAck" /\ seen.ack)
      <4>1. setpoint' = setpoint /\ handshake' = NextPhase(from, seen.ack)
        BY <1>1, <1>3, <3>2, <3>6
      <4>2. /\ handshake' = "Idle" => from \in {"Idle", "AwaitAckClear"}
            /\ handshake' \in {"ClearBit4", "AwaitAckClear"} =>
                 from \in {"ClearBit4", "AwaitAckClear"}
        BY <1>1, <2>1, <3>6, <4>1, PhaseFacts
      <4> QED  BY <3>1, <3>2, <4>1, <4>2 DEF SetpointInv
    <3> QED  BY <3>3, <3>4, <3>5, <3>6
  <2> QED  BY <2>2, <2>3, <2>4
<1> QED  BY <1>5, <1>6, <1>7, <1>8

\* The ways out of Operational and of Homing keep the invariant.
LEMMA LeavesKeep ==
  ASSUME IInv, NEW b \in Batches, NEW seen \in Inputs,
         LeaveOperational(b, seen) \/ StartHoming(b, seen) \/ EndHoming(b, seen)
  PROVE  IInv'
<1>1. Reset /\ setpoint' = SetpointDropped(b) /\ where' \in {"Ladder", "Homing"}
  BY DEF LeaveOperational, StartHoming, EndHoming
<1>2. word' \in Words
  <2>1. \A kind \in {"Off", "Enabled"}, halt \in BOOLEAN : Word(kind, halt, FALSE) \in Words
    BY WordFacts
  <2>2. [kind : {"Enabled"}, halt : BOOLEAN, bit4 : {FALSE}] \subseteq Words
    BY DEF Words
  <2> QED  BY <2>1, <2>2 DEF LeaveOperational, StartHoming, EndHoming
<1>3. MoveOf(b) \in {"None", "Live", "Failed", "Completed"}
  BY BatchTypes DEF IInv
<1>4. move' \in {"None", "Live", "Completed", "Failed"} /\ (move' = "Live" => MoveOf(b) = "Live")
  <2>1. PICK m : /\ m \in {"None", "Live", "Failed", "Completed"}
                 /\ m = "Live" => MoveOf(b) = "Live"
                 /\ move' = Published(m, seen)
    <3>1. \A aborts : LET m == AbortedIf(aborts, MoveOf(b)) IN
            m \in {"None", "Live", "Failed", "Completed"} /\ (m = "Live" => MoveOf(b) = "Live")
      BY <1>3, AbortedFacts
    <3> QED  BY <1>3, <3>1 DEF LeaveOperational, StartHoming, EndHoming
  <2> QED  BY <2>1, PublishedFacts
<1> QED  BY <1>1, <1>2, <1>4, ResetKeeps

\* A cycle of the homing run and one of the ladder keep the invariant.
LEMMA OtherCyclesKeep ==
  ASSUME IInv, NEW b \in Batches, NEW seen \in Inputs,
         StepHoming(b, seen) \/ StepLadder(b, seen)
  PROVE  IInv'
<1>1. CASE StepHoming(b, seen)
  <2>1. word' \in Words /\ where' = "Homing" /\ Adopted(b, seen)
    BY <1>1 DEF StepHoming, Word, Words
  <2> QED  BY <2>1, AdoptedKeeps
<1>2. CASE StepLadder(b, seen)
  <2>1. word' \in Words /\ ~word'.halt /\ ~word'.bit4
    BY <1>2 DEF StepLadder, Word, Words
  <2>2. CASE Adopted(b, seen) /\ where' \in {"Ladder", "Operational"}
    BY <2>1, <2>2, AdoptedKeeps
  <2>3. CASE Reset /\ move' = MoveOf(b) /\ setpoint' = SetpointDropped(b) /\ UNCHANGED where
    <3>1. move' \in {"None", "Live", "Completed", "Failed"}
      BY <2>3, BatchTypes DEF IInv
    <3>2. where' = "Ladder"
      BY <1>2, <2>3 DEF StepLadder
    <3> QED  BY <2>1, <2>3, <3>1, <3>2, ResetKeeps
  <2> QED  BY <1>2, <2>2, <2>3 DEF StepLadder
<1> QED  BY <1>1, <1>2

\* The stop and the cycles after it keep the invariant.
LEMMA StopKeeps ==
  ASSUME IInv, Stop \/ \E seen \in Inputs : StepShutdown(seen)
  PROVE  IInv'
<1> USE DEF IInv
<1>1. CASE Stop
  BY <1>1 DEF Stop, TypeOK, HaltInv, FreshInv, SetpointInv, modeVars, sequencerVars
<1>2. ASSUME NEW seen \in Inputs, StepShutdown(seen)
      PROVE  IInv'
  <2>1. /\ UNCHANGED <<where, intent, halted, pending, echoWait, handshake, cyclesLeft, idle,
                       lastHalt, announced, modeChecked, setpoint, fresh>>
        /\ where = "Stopping" /\ move' = Published(move, seen)
        /\ haltClear' = IF QuickStopSet THEN HaltClearNow ELSE haltClear
    BY <1>2 DEF StepShutdown, modeVars
  <2>2. word' \in Words
    BY <1>2 DEF StepShutdown, Word, Words
  <2>3. /\ move' \in {"None", "Live", "Completed", "Failed"}
        /\ move' = "Live" => move = "Live"
    BY <2>1, PublishedFacts DEF TypeOK
  <2>4. haltClear' \in 0 .. HaltSettle
    BY <2>1, SettledFacts DEF TypeOK
  <2> QED  BY <2>1, <2>2, <2>3, <2>4 DEF TypeOK, HaltInv, FreshInv, SetpointInv
<1> QED  BY <1>1, <1>2

-----------------------------------------------------------------------------
(***************************************************************************)
(* The theorems.                                                           *)
(***************************************************************************)

\* The invariant holds at the start.
LEMMA InitIInv == Init => IInv
<1> SUFFICES ASSUME Init PROVE IInv
  OBVIOUS
<1>1. TypeOK
  <2>1. word \in Words
    BY WordFacts DEF Init
  <2>2. /\ echoWait \in 0 .. (ModeEchoCycles + 1) /\ cyclesLeft \in 0 .. HandshakeTimeout
        /\ haltClear \in 0 .. HaltSettle
    BY ProfileAssumption DEF Init
  <2> QED  BY <2>1, <2>2 DEF Init, TypeOK, Modes, Handshakes
<1>2. HaltInv /\ FreshInv /\ SetpointInv
  BY DEF Init, HaltInv, FreshInv, SetpointInv
<1> QED  BY <1>1, <1>2 DEF IInv

\* Every step keeps the invariant.
LEMMA NextIInv == IInv /\ [Next]_vars => IInv'
<1> SUFFICES ASSUME IInv, [Next]_vars PROVE IInv'
  OBVIOUS
<1>1. CASE UNCHANGED vars
  BY <1>1 DEF vars, modeVars, sequencerVars, IInv, TypeOK, HaltInv, FreshInv, SetpointInv
<1> QED  BY <1>1, OperationalKeeps, LeavesKeep, OtherCyclesKeep, StopKeeps DEF Next

\* The inductive invariant holds throughout: the sequencer's own record of the word
\* agrees with the wire, and the pending flag and the handshake with the move.
THEOREM Invariance == Spec => []IInv
BY InitIInv, NextIInv, PTL DEF Spec

\* Type correctness of the profile position mode: no counter leaves its range.
THEOREM TypeCorrect == Spec => []TypeOK
<1>1. IInv => TypeOK
  BY DEF IInv
<1> QED  BY <1>1, Invariance, PTL

\* No live positioning move is forgotten by the mode, whatever halts, velocities,
\* refused modes and time-outs it meets.
THEOREM SetpointsKept == Spec => []NoLostSetpoint
<1>1. IInv => NoLostSetpoint
  BY DEF IInv, SetpointInv, NoLostSetpoint
<1> QED  BY <1>1, Invariance, PTL

\* A step that stays in Operational is a stepped cycle.
LEMMA OnlySteps ==
  ASSUME Next, where = "Operational", where' = "Operational"
  PROVE  \E b \in Batches, seen \in Inputs : StepOperational(b, seen)
BY DEF Next, LeaveOperational, StartHoming, StepHoming, EndHoming, StepLadder, Stop,
   StepShutdown

\* Bit 4 never rises in the cycle that releases a halt, for any settle bound: the
\* word before the raise had bit 8 clear.
THEOREM EdgeAfterHalt == Spec => RaisedAfterHalt
<1>1. ASSUME IInv, Next, Raises
      PROVE  ~word.halt
  <2>1. PICK b \in Batches, seen \in Inputs : StepOperational(b, seen)
    BY <1>1, OnlySteps DEF Raises
  <2>2. HaltSettled
    BY <1>1, <2>1, StepFacts DEF Raises, IInv
  <2> QED  BY <1>1, <2>2, SettledFacts DEF IInv, HaltInv, Raises
<1>2. IInv /\ [Next]_vars => [Raises => ~word.halt]_vars
  BY <1>1
<1> QED  BY <1>2, Invariance, PTL DEF Spec, RaisedAfterHalt

\* No command survives a reset of the mode: in Operational bit 4 stands for a target
\* that came after it.
THEOREM CommandsReset == Spec => NoCommandSurvives
<1>1. ASSUME IInv, Next, where = "Operational", word'.bit4
      PROVE  fresh'
  <2>1. CASE where' = "Operational"
    <3>1. IInv'
      BY <1>1, NextIInv
    <3> QED  BY <1>1, <2>1, <3>1 DEF IInv, FreshInv
  <2>2. CASE where' # "Operational"
    <3>1. ASSUME NEW b \in Batches, NEW seen \in Inputs, StepOperational(b, seen)
          PROVE  fresh'
      <4> DEFINE newSp == seen.echo = IntentOf(b) /\ PendingOf(b)
                 from  == IF newSp THEN "WriteTarget" ELSE handshake
      <4>1. from # "Idle"
        BY <1>1, <3>1, StepFacts DEF IInv
      <4>2. fresh' = (fresh \/ b.target)
        BY <3>1 DEF StepOperational
      <4> QED  BY <1>1, <4>1, <4>2 DEF IInv, FreshInv, PendingOf
    <3>2. ASSUME NEW b \in Batches, NEW seen \in Inputs,
                 LeaveOperational(b, seen) \/ StartHoming(b, seen)
          PROVE  ~word'.bit4
      BY <3>2, WordFacts DEF LeaveOperational, StartHoming
    <3>3. CASE Stop
      BY <1>1, <3>3 DEF Stop, IInv, FreshInv
    <3> QED
      BY <1>1, <3>1, <3>2, <3>3
         DEF Next, StepHoming, EndHoming, StepLadder, StepShutdown
  <2> QED  BY <2>1, <2>2
<1>2. IInv /\ [Next]_vars => [where = "Operational" /\ word'.bit4 => fresh']_vars
  BY <1>1
<1> QED  BY <1>2, Invariance, PTL DEF Spec, NoCommandSurvives
=============================================================================
