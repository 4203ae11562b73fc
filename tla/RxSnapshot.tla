----------------------------- MODULE RxSnapshot -----------------------------
(***************************************************************************)
(* The seqlock of src/ethercat/pdo_cache.cpp through which the real-time   *)
(* thread publishes the input image of a cycle and any other thread reads  *)
(* it: one writer, and one reader (readers write nothing, so they do not   *)
(* interact).                                                              *)
(*                                                                         *)
(* The cells are the payload bytes, the working counter and the cycle      *)
(* number; the n-th publish writes version n of each.  All accesses are    *)
(* C++ atomics, and the memory is as weak as C++ lets it be.  A location   *)
(* keeps every value ever stored in it, and a load returns any one that is *)
(* not older than what the reading thread already knows of that location   *)
(* (seqView, cellView).  What a thread knows grows with what it reads: an  *)
(* acquire load adds what the store was published with; a relaxed load     *)
(* keeps that aside (pending) until an acquire fence adds it.  Relaxed     *)
(* stores between two fences, and relaxed loads likewise, happen in any    *)
(* order.                                                                  *)
(***************************************************************************)
EXTENDS Integers

CONSTANTS
  Cells,           \* payload bytes, wkc_ and cycle_
  MaxReadRetries,  \* kMaxReadRetries
  MaxPublishes     \* bound on the publishes of a behaviour

ASSUME SnapshotAssumption ==
  /\ Cells # {}
  /\ MaxReadRetries \in Nat \ {0}
  /\ MaxPublishes \in Nat

VARIABLES
  seq,       \* seq_: the last value stored (the values are 0, 1, 2, ...)
  cell,      \* the version last stored in each cell
  toWrite,   \* cells the publish in progress has not stored yet
  reader,    \* where the reader is in read()
  attempt,   \* attempt
  s0,        \* s0
  toLoad,    \* cells this attempt has not loaded yet
  seen,      \* the versions this attempt has loaded
  seqView,   \* the oldest value of seq_ the reader can still load
  cellView,  \* the oldest version of each cell the reader can still load
  pending,   \* seq_ knowledge that waits for the acquire fence
  valid,     \* the last read() returned valid = true
  frame      \* the versions of the last valid snapshot

writerVars == <<seq, cell, toWrite>>
readerVars == <<reader, attempt, s0, toLoad, seen, seqView, cellView, pending,
                valid, frame>>
vars == <<writerVars, readerVars>>

Versions == [Cells -> Nat]
Odd(n) == n % 2 = 1
Later(a, b) == IF a >= b THEN a ELSE b

TypeOK ==
  /\ seq \in Nat
  /\ cell \in Versions
  /\ toWrite \subseteq Cells
  /\ reader \in {"Idle", "LoadSeq", "LoadCells", "Recheck"}
  /\ attempt \in 0 .. MaxReadRetries
  /\ s0 \in Nat
  /\ toLoad \subseteq Cells
  /\ seen \in Versions
  /\ seqView \in Nat
  /\ cellView \in Versions
  /\ pending \in Nat
  /\ valid \in BOOLEAN
  /\ frame \in Versions

Zero == [c \in Cells |-> 0]

Init ==
  /\ seq = 0 /\ cell = Zero /\ toWrite = {}
  /\ reader = "Idle" /\ attempt = 0 /\ s0 = 0 /\ toLoad = {} /\ seen = Zero
  /\ seqView = 0 /\ cellView = Zero /\ pending = 0
  /\ valid = FALSE /\ frame = Zero

-----------------------------------------------------------------------------
(***************************************************************************)
(* publish(), on the real-time thread.                                     *)
(***************************************************************************)

\* The odd value (seq + 1) | 1, which is seq + 1 between publishes, goes up before
\* any cell is stored (fence F1).
PublishBegin ==
  /\ ~Odd(seq) /\ toWrite = {}
  /\ seq < 2 * MaxPublishes
  /\ seq' = seq + 1
  /\ toWrite' = Cells
  /\ UNCHANGED <<cell, readerVars>>

PublishCell(c) ==
  /\ c \in toWrite
  /\ cell' = [cell EXCEPT ![c] = (seq + 1) \div 2]
  /\ toWrite' = toWrite \ {c}
  /\ UNCHANGED <<seq, readerVars>>

\* The even value, a release store, comes after all of them.
PublishEnd ==
  /\ Odd(seq) /\ toWrite = {}
  /\ seq' = seq + 1
  /\ UNCHANGED <<cell, toWrite, readerVars>>

(***************************************************************************)
(* read(), on any other thread.                                            *)
(***************************************************************************)

\* Storing version v of a cell after fence F1 publishes the odd value 2v - 1.
PublishedWith(v) == 2 * v - 1

ReadBegin ==
  /\ reader = "Idle"
  /\ attempt' = 0
  /\ reader' = "LoadSeq"
  /\ UNCHANGED <<writerVars, s0, toLoad, seen, seqView, cellView, pending, valid, frame>>

\* What the reader knows of the cells after it has loaded s from seq_.
CellViewAcquired(s) == [c \in Cells |-> Later(cellView[c], s \div 2)]

\* seq_.load(acquire); an odd value costs an attempt.
MayTryOnceMore == attempt <= MaxReadRetries
MayTry == attempt < MaxReadRetries

AttemptsUncounted == attempt
AttemptsAfterOdd == attempt + 1

LoadSeq(s) ==
  /\ reader = "LoadSeq" /\ MayTry
  /\ seqView' = s
  /\ cellView' = CellViewAcquired(s)
  /\ IF Odd(s)
     THEN /\ attempt' = AttemptsAfterOdd
          /\ UNCHANGED <<reader, s0, toLoad, pending>>
     ELSE /\ s0' = s
          /\ toLoad' = Cells
          /\ pending' = 0
          /\ reader' = "LoadCells"
          /\ UNCHANGED attempt
  /\ UNCHANGED <<writerVars, seen, valid, frame>>

LoadCell(c, v) ==
  /\ reader = "LoadCells" /\ c \in toLoad
  /\ seen' = [seen EXCEPT ![c] = v]
  /\ cellView' = [cellView EXCEPT ![c] = v]
  /\ pending' = IF v = 0 THEN pending ELSE Later(pending, PublishedWith(v))
  /\ toLoad' = toLoad \ {c}
  /\ UNCHANGED <<writerVars, reader, attempt, s0, seqView, valid, frame>>

\* The acquire fence G2: what came with the cells is known from here on.
SeqViewUnfenced == seqView
SeqViewFenced == Later(seqView, pending)

Fence ==
  /\ reader = "LoadCells" /\ toLoad = {}
  /\ seqView' = SeqViewFenced
  /\ reader' = "Recheck"
  /\ UNCHANGED <<writerVars, attempt, s0, toLoad, seen, cellView, pending, valid, frame>>

\* seq_.load(relaxed), compared with s0.
Recheck(s1) ==
  /\ reader = "Recheck"
  /\ seqView' = s1
  /\ IF s1 = s0
     THEN /\ valid' = TRUE
          /\ frame' = seen
          /\ reader' = "Idle"
          /\ UNCHANGED attempt
     ELSE /\ attempt' = attempt + 1
          /\ reader' = "LoadSeq"
          /\ UNCHANGED <<valid, frame>>
  /\ UNCHANGED <<writerVars, s0, toLoad, seen, cellView, pending>>

\* The retries are used up: no payload, valid = false.
ReadExhausted ==
  /\ reader = "LoadSeq" /\ ~MayTry
  /\ valid' = FALSE
  /\ reader' = "Idle"
  /\ UNCHANGED <<writerVars, attempt, s0, toLoad, seen, seqView, cellView, pending,
                 frame>>

-----------------------------------------------------------------------------
InRead ==
  \/ \E s \in seqView .. seq : LoadSeq(s)
  \/ \E c \in Cells : \E v \in cellView[c] .. cell[c] : LoadCell(c, v)
  \/ Fence
  \/ \E s1 \in seqView .. seq : Recheck(s1)
  \/ ReadExhausted

Next ==
  \/ PublishBegin
  \/ \E c \in Cells : PublishCell(c)
  \/ PublishEnd
  \/ ReadBegin
  \/ InRead

\* A thread inside read() keeps running.  Nothing is assumed of the writer: it
\* may stop for good in the middle of a publish.
Spec == Init /\ [][Next]_vars
FairSpec == Spec /\ WF_vars(InRead)

-----------------------------------------------------------------------------
(***************************************************************************)
(* Properties.                                                             *)
(***************************************************************************)

\* A snapshot that read() calls valid is the frame of one publish, and of one
\* that had finished: bytes, working counter and cycle number of the same
\* cycle, however the cells' stores and loads interleave and reorder.
NoTornRead ==
  valid => \E v \in 0 .. MaxPublishes :
              /\ \A c \in Cells : frame[c] = v
              /\ 2 * v <= seq

\* read() returns, even if the writer died in the middle of a publish and the
\* sequence number stays odd for ever.
ReadReturns == reader # "Idle" ~> reader = "Idle"
=============================================================================
