-------------------------- MODULE RxSnapshotProofs --------------------------
(***************************************************************************)
(* Theorems about the seqlock of RxSnapshot, for any set of cells and any  *)
(* number of retries and publishes.                                        *)
(*                                                                         *)
(* NoTornRead rests on three facts: while no publish is in progress every  *)
(* cell holds version seq/2 (WriterInv); a cell the reader has loaded is   *)
(* no older than the even value s0 it began with (the acquire load) and    *)
(* its odd value waits in pending (fence F1); and the fence G2 makes the   *)
(* second load of seq_ at least that odd value.  If that load still finds  *)
(* s0, no loaded cell can be newer than s0/2 either.                       *)
(***************************************************************************)
EXTENDS RxSnapshot, TLAPS

\* What the writer has stored: between publishes all cells agree with seq_,
\* during one those already stored are one version ahead.
WriterInv ==
  /\ seq <= 2 * MaxPublishes
  /\ ~Odd(seq) => toWrite = {}
  /\ \A c \in Cells :
       2 * cell[c] = IF ~Odd(seq) THEN seq
                     ELSE IF c \in toWrite THEN seq - 1 ELSE seq + 1

\* What the reader knows is something the writer has stored.
ViewInv ==
  /\ seqView <= seq
  /\ \A c \in Cells : cellView[c] <= cell[c]
  /\ s0 <= seq

\* A cell loaded in this attempt is at least as new as s0, and the odd value it
\* came with is pending, or known once the fence has run.
AttemptInv ==
  reader \in {"LoadCells", "Recheck"} =>
    /\ attempt < MaxReadRetries
    /\ ~Odd(s0) /\ s0 <= seqView /\ pending <= seq
    /\ \A c \in Cells : s0 <= 2 * cellView[c]
    /\ \A c \in Cells \ toLoad :
         /\ s0 <= 2 * seen[c]
         /\ 2 * seen[c] - 1 <= pending \/ seen[c] = 0
    /\ reader = "Recheck" => toLoad = {} /\ pending <= seqView

\* The last valid snapshot is one frame, of a finished publish.
FrameInv ==
  valid => \E v \in Nat : (\A c \in Cells : frame[c] = v) /\ 2 * v <= seq

IInv == TypeOK /\ WriterInv /\ ViewInv /\ AttemptInv /\ FrameInv

LEMMA Halving ==
  ASSUME NEW n \in Nat
  PROVE  /\ Odd(n) => (n + 1) \div 2 \in Nat /\ 2 * ((n + 1) \div 2) = n + 1
                      /\ 2 * (n \div 2) = n - 1
         /\ ~Odd(n) => 2 * (n \div 2) = n
         /\ n \div 2 \in Nat
         /\ Odd(n + 1) <=> ~Odd(n)
BY DEF Odd

\* The initial state satisfies the invariant.
LEMMA InitIInv == Init => IInv
<1> SUFFICES ASSUME Init PROVE IInv
  OBVIOUS
<1>1. TypeOK
  <2>1. valid \in BOOLEAN
    BY DEF Init
  <2>2. Zero \in Versions /\ 0 \in 0 .. MaxReadRetries
    BY SnapshotAssumption DEF Zero, Versions
  <2> QED BY <2>1, <2>2 DEF Init, TypeOK
<1>2. WriterInv
  BY SnapshotAssumption DEF Init, WriterInv, Zero, Odd
<1>3. ViewInv /\ AttemptInv /\ FrameInv
  BY DEF Init, ViewInv, AttemptInv, FrameInv, Zero
<1> QED BY <1>1, <1>2, <1>3 DEF IInv

\* Every step of publish() keeps it.
LEMMA PublishStep ==
  ASSUME IInv, PublishBegin \/ PublishEnd \/ \E c \in Cells : PublishCell(c)
  PROVE  IInv'
<1> USE SnapshotAssumption
<1>1. CASE PublishBegin
  <2>1. seq' = seq + 1 /\ toWrite' = Cells /\ ~Odd(seq) /\ Odd(seq')
    BY <1>1, Halving DEF PublishBegin, IInv, TypeOK
  <2>2. TypeOK'
    BY <1>1, <2>1 DEF PublishBegin, IInv, TypeOK, readerVars
  <2>3. WriterInv'
    BY <1>1, <2>1 DEF PublishBegin, IInv, TypeOK, WriterInv, Odd
  <2>4. ViewInv' /\ AttemptInv' /\ FrameInv'
    BY <1>1, <2>1 DEF PublishBegin, IInv, TypeOK, ViewInv, AttemptInv, FrameInv, readerVars
  <2> QED BY <2>2, <2>3, <2>4 DEF IInv
<1>2. CASE PublishEnd
  <2>1. seq' = seq + 1 /\ Odd(seq) /\ ~Odd(seq') /\ toWrite = {} /\ toWrite' = {}
        /\ cell' = cell /\ seq \in Nat
    BY <1>2, Halving DEF PublishEnd, IInv, TypeOK
  <2>2. TypeOK'
    BY <1>2, <2>1 DEF PublishEnd, IInv, TypeOK, readerVars
  <2>3. WriterInv'
    BY <2>1 DEF IInv, TypeOK, WriterInv, Odd
  <2>4. ViewInv' /\ AttemptInv' /\ FrameInv'
    BY <1>2, <2>1 DEF PublishEnd, IInv, TypeOK, ViewInv, AttemptInv, FrameInv, readerVars
  <2> QED BY <2>2, <2>3, <2>4 DEF IInv
<1>3. CASE \E c \in Cells : PublishCell(c)
  <2>1. PICK c \in Cells : PublishCell(c)
    BY <1>3
  <2> DEFINE v == (seq + 1) \div 2
  <2>2. Odd(seq) /\ c \in toWrite /\ v \in Nat /\ 2 * v = seq + 1 /\ 2 * cell[c] = seq - 1
        /\ cell[c] \in Nat /\ seq \in Nat
    BY <2>1, Halving DEF PublishCell, IInv, TypeOK, WriterInv, Versions
  <2>3. TypeOK'
    BY <2>1, <2>2 DEF PublishCell, IInv, TypeOK, Versions, readerVars
  <2>4. WriterInv'
    BY <2>1, <2>2 DEF PublishCell, IInv, TypeOK, WriterInv, Versions
  <2>5. \A d \in Cells : cell[d] <= cell'[d] /\ cell[d] \in Nat /\ cell'[d] \in Nat
    BY <2>1, <2>2 DEF PublishCell, IInv, TypeOK, Versions
  <2>6. ViewInv'
    BY <2>1, <2>5 DEF PublishCell, IInv, TypeOK, ViewInv, Versions, readerVars
  <2>7. AttemptInv' /\ FrameInv'
    BY <2>1 DEF PublishCell, IInv, AttemptInv, FrameInv, readerVars
  <2> QED BY <2>3, <2>4, <2>6, <2>7 DEF IInv
<1> QED BY <1>1, <1>2, <1>3

\* Every step of read() keeps it.
LEMMA ReadStep ==
  ASSUME IInv, ReadBegin \/ InRead
  PROVE  IInv'
<1> USE SnapshotAssumption
<1>1. CASE ReadBegin
  BY <1>1 DEF ReadBegin, IInv, TypeOK, WriterInv, ViewInv, AttemptInv, FrameInv, writerVars
<1>2. CASE \E s \in seqView .. seq : LoadSeq(s)
  <2>1. PICK s \in seqView .. seq : LoadSeq(s)
    BY <1>2
  <2>2. s \in Nat /\ seqView <= s /\ s <= seq /\ seqView' = s
    BY <2>1 DEF LoadSeq, IInv, TypeOK
  <2>3. \A c \in Cells : /\ cellView'[c] \in Nat
                         /\ cellView'[c] >= s \div 2
                         /\ cellView'[c] = cellView[c] \/ cellView'[c] = s \div 2
    BY <2>1, <2>2, Halving DEF LoadSeq, CellViewAcquired, Later, IInv, TypeOK, Versions
  <2>4. \A c \in Cells : s \div 2 <= cell[c]
    BY <2>2, Halving DEF IInv, TypeOK, WriterInv, Versions
  <2>5. TypeOK'
    <3>1. cellView' \in Versions
      BY <2>1, <2>3 DEF LoadSeq, CellViewAcquired, Versions
    <3>2. /\ attempt' \in 0 .. MaxReadRetries
          /\ s0' \in Nat /\ pending' \in Nat
      BY <2>1, <2>2 DEF LoadSeq, MayTry, AttemptsAfterOdd, IInv, TypeOK
    <3> QED BY <2>1, <2>2, <3>1, <3>2 DEF LoadSeq, IInv, TypeOK, writerVars
  <2>6. WriterInv' /\ FrameInv'
    BY <2>1 DEF LoadSeq, IInv, WriterInv, FrameInv, writerVars
  <2>7. ViewInv'
    BY <2>1, <2>2, <2>3, <2>4 DEF LoadSeq, IInv, TypeOK, ViewInv, writerVars
  <2>8. AttemptInv'
    <3>1. CASE Odd(s)
      BY <2>1, <3>1 DEF LoadSeq, AttemptInv
    <3>2. CASE ~Odd(s)
      <4>1. s0' = s /\ toLoad' = Cells /\ reader' = "LoadCells" /\ 2 * (s \div 2) = s
            /\ pending' = 0 /\ attempt' = attempt /\ attempt < MaxReadRetries
            /\ seq' = seq /\ seq \in Nat
        BY <2>1, <2>2, <3>2, Halving DEF LoadSeq, MayTry, writerVars, IInv, TypeOK
      <4> QED BY <2>2, <2>3, <3>2, <4>1, Halving DEF AttemptInv
    <3> QED BY <3>1, <3>2
  <2> QED BY <2>5, <2>6, <2>7, <2>8 DEF IInv
<1>3. CASE \E c \in Cells : \E v \in cellView[c] .. cell[c] : LoadCell(c, v)
  <2>1. PICK c \in Cells : \E w \in cellView[c] .. cell[c] : LoadCell(c, w)
    BY <1>3
  <2>2. PICK v \in cellView[c] .. cell[c] : LoadCell(c, v)
    BY <2>1
  <2>3. v \in Nat /\ cellView[c] <= v /\ v <= cell[c]
    BY <2>2 DEF IInv, TypeOK, Versions
  <2>4. pending' \in Nat /\ pending' >= pending /\ (v = 0 \/ pending' >= 2 * v - 1)
    BY <2>2, <2>3 DEF LoadCell, PublishedWith, Later, IInv, TypeOK
  <2>5. TypeOK'
    BY <2>2, <2>3, <2>4 DEF LoadCell, IInv, TypeOK, Versions, writerVars
  <2>6. WriterInv' /\ FrameInv'
    BY <2>2 DEF LoadCell, IInv, WriterInv, FrameInv, writerVars
  <2>7. ViewInv'
    BY <2>2, <2>3 DEF LoadCell, IInv, TypeOK, ViewInv, Versions, writerVars
  <2>8. AttemptInv'
    <3>1. /\ ~Odd(s0) /\ s0 <= seqView /\ reader' = "LoadCells"
          /\ s0' = s0 /\ seqView' = seqView
          /\ attempt' = attempt /\ attempt < MaxReadRetries
      BY <2>2 DEF LoadCell, IInv, AttemptInv
    <3>4. pending' <= seq'
      <4>1. 2 * cell[c] <= seq + 1 /\ cell[c] \in Nat
        BY DEF IInv, TypeOK, WriterInv, Versions
      <4>2. pending <= seq /\ seq' = seq
        BY <2>2 DEF LoadCell, IInv, AttemptInv, writerVars
      <4> QED BY <2>2, <2>3, <4>1, <4>2 DEF LoadCell, PublishedWith, Later, IInv, TypeOK
    <3>2. ASSUME NEW d \in Cells
          PROVE  s0 <= 2 * cellView'[d]
      BY <2>2, <2>3, <3>2 DEF LoadCell, IInv, TypeOK, AttemptInv, Versions
    <3>3. ASSUME NEW d \in Cells \ toLoad'
          PROVE  s0 <= 2 * seen'[d] /\ (2 * seen'[d] - 1 <= pending' \/ seen'[d] = 0)
      <4>1. CASE d = c
        BY <2>2, <2>3, <2>4, <4>1 DEF LoadCell, IInv, TypeOK, AttemptInv, Versions
      <4>2. CASE d # c
        <5>1. d \in Cells \ toLoad /\ seen'[d] = seen[d] /\ seen[d] \in Nat
          BY <2>2, <3>3, <4>2 DEF LoadCell, IInv, TypeOK, Versions
        <5>2. s0 <= 2 * seen[d] /\ (2 * seen[d] - 1 <= pending \/ seen[d] = 0)
          BY <2>2, <5>1 DEF LoadCell, IInv, AttemptInv
        <5> QED BY <2>4, <5>1, <5>2 DEF IInv, TypeOK
      <4> QED BY <4>1, <4>2
    <3> QED BY <3>1, <3>2, <3>3, <3>4 DEF AttemptInv
  <2> QED BY <2>5, <2>6, <2>7, <2>8 DEF IInv
<1>4. CASE Fence
  <2>1. seqView' \in Nat /\ seqView' >= seqView /\ seqView' >= pending
        /\ (seqView' = seqView \/ seqView' = pending)
    BY <1>4 DEF Fence, SeqViewFenced, Later, IInv, TypeOK
  <2>2. TypeOK'
    BY <1>4, <2>1 DEF Fence, IInv, TypeOK, writerVars
  <2>3. WriterInv' /\ FrameInv'
    BY <1>4 DEF Fence, IInv, WriterInv, FrameInv, writerVars
  <2>4. AttemptInv'
    BY <1>4, <2>1 DEF Fence, IInv, TypeOK, AttemptInv, writerVars
  <2>5. pending <= seq
    BY <1>4 DEF Fence, IInv, AttemptInv
  <2> QED BY <1>4, <2>1, <2>2, <2>3, <2>4, <2>5 DEF Fence, IInv, TypeOK, ViewInv, writerVars
<1>5. CASE \E s1 \in seqView .. seq : Recheck(s1)
  <2>1. PICK s1 \in seqView .. seq : Recheck(s1)
    BY <1>5
  <2>2. s1 \in Nat /\ seqView <= s1 /\ s1 <= seq /\ seqView' = s1
    BY <2>1 DEF Recheck, IInv, TypeOK
  <2>3. WriterInv' /\ ViewInv' /\ AttemptInv'
    BY <2>1, <2>2 DEF Recheck, IInv, WriterInv, ViewInv, AttemptInv, writerVars
  <2>4. FrameInv'
    <3>1. CASE s1 = s0
      <4>1. frame' = seen /\ seq' = seq /\ s0 <= seq /\ s0 \in Nat /\ ~Odd(s0)
        BY <2>1, <3>1 DEF Recheck, IInv, TypeOK, ViewInv, AttemptInv, writerVars
      <4>2. PICK h \in Nat : 2 * h = s0
        BY <4>1, Halving
      <4>3. ASSUME NEW c \in Cells PROVE seen[c] = h
        <5>1. seen[c] \in Nat /\ pending <= s0 /\ pending \in Nat
          BY <2>1, <2>2, <3>1 DEF Recheck, IInv, TypeOK, AttemptInv, Versions
        <5>2. s0 <= 2 * seen[c] /\ (2 * seen[c] - 1 <= pending \/ seen[c] = 0)
          BY <2>1 DEF Recheck, IInv, AttemptInv
        <5> QED BY <4>2, <5>1, <5>2
      <4> QED BY <4>1, <4>2, <4>3 DEF FrameInv
    <3>2. CASE s1 # s0
      BY <2>1, <3>2 DEF Recheck, IInv, FrameInv, writerVars
    <3> QED BY <3>1, <3>2
  <2>5. attempt < MaxReadRetries
    BY <2>1 DEF Recheck, IInv, AttemptInv
  <2>6. TypeOK'
    <3>1. attempt' \in 0 .. MaxReadRetries
      BY <2>1, <2>5 DEF Recheck, IInv, TypeOK
    <3>2. valid' \in BOOLEAN
      BY <2>1 DEF Recheck, IInv, TypeOK
    <3>3. frame' \in Versions /\ reader' \in {"Idle", "LoadSeq"}
      BY <2>1 DEF Recheck, IInv, TypeOK
    <3> QED BY <2>1, <2>2, <3>1, <3>2, <3>3 DEF Recheck, IInv, TypeOK, writerVars
  <2> QED BY <2>3, <2>4, <2>6 DEF IInv
<1>6. CASE ReadExhausted
  BY <1>6 DEF ReadExhausted, IInv, TypeOK, WriterInv, ViewInv, AttemptInv, FrameInv, writerVars
<1> QED BY <1>1, <1>2, <1>3, <1>4, <1>5, <1>6 DEF InRead

LEMMA NextIInv == IInv /\ [Next]_vars => IInv'
<1> SUFFICES ASSUME IInv, [Next]_vars PROVE IInv'
  OBVIOUS
<1>1. CASE UNCHANGED vars
  BY <1>1 DEF vars, writerVars, readerVars, IInv, TypeOK, WriterInv, ViewInv, AttemptInv,
     FrameInv
<1>2. CASE Next
  BY <1>2, PublishStep, ReadStep DEF Next
<1> QED BY <1>1, <1>2

\* The seqlock's invariant: what the fences of publish() and read() establish.
THEOREM Invariance == Spec => []IInv
BY InitIInv, NextIInv, PTL DEF Spec

\* The types, the bound on the attempts of a read() included.
THEOREM TypeCorrect == Spec => []TypeOK
<1>1. IInv => TypeOK
  BY DEF IInv
<1> QED BY <1>1, Invariance, PTL

\* A snapshot read() calls valid is the untorn frame of one finished publish,
\* whatever the size of the image.
THEOREM UntornRead == Spec => []NoTornRead
<1>1. IInv => NoTornRead
  <2> SUFFICES ASSUME IInv, valid PROVE \E v \in 0 .. MaxPublishes :
                 (\A c \in Cells : frame[c] = v) /\ 2 * v <= seq
    BY DEF NoTornRead
  <2>1. PICK v \in Nat : (\A c \in Cells : frame[c] = v) /\ 2 * v <= seq
    BY DEF IInv, FrameInv
  <2>2. v \in 0 .. MaxPublishes
    BY <2>1, SnapshotAssumption DEF IInv, TypeOK, WriterInv
  <2> QED BY <2>1, <2>2
<1> QED BY <1>1, Invariance, PTL
=============================================================================
