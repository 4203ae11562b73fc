---------------------------- MODULE CommandQueue ----------------------------
(***************************************************************************)
(* The command queue of src/ethercat/pdo_cache.cpp: the threads of the API *)
(* push, one at a time (the producer mutex), and the real-time thread      *)
(* drains everything queued into one coalesced batch per cycle.            *)
(*                                                                         *)
(* A producer that pushes while the queue is being drained is ordered      *)
(* either before the batch or after it, so a drain is one step.  The batch *)
(* is not kept: its fields are read off the queue in the step that empties *)
(* it.                                                                     *)
(***************************************************************************)
EXTENDS Integers, Sequences

CONSTANTS
  QueueCap,   \* command_queue_capacity
  MaxGen      \* bound on the move ids handed out

ASSUME QueueAssumption == QueueCap \in Nat \ {0} /\ MaxGen \in Nat \ {0}

VARIABLE queue

Gens == 0 .. MaxGen

\* A command.  Only SetTarget and StartHoming carry a move id; QuickStop and
\* SetZero are never pushed.
Kinds == {"SetTarget", "SetVelocity", "StartHoming", "Enable", "Disable", "Halt",
          "FaultReset"}
Commands == [kind : Kinds, gen : Gens]
Command(kind) == [kind |-> kind, gen |-> 0]

\* push: a full queue drops the command, and no caller looks at the result.
Push(command) ==
  queue' = IF Len(queue) < QueueCap THEN Append(queue, command) ELSE queue

Drained == queue' = <<>>

(***************************************************************************)
(* The fields of the batch.                                                *)
(***************************************************************************)

\* The sticky flags, and has_value() of the set-points.
Has(kind) == \E i \in 1 .. Len(queue) : queue[i].kind = kind

\* Latest wins among commands of a kind.
LatestGen(kind) ==
  queue[CHOOSE i \in 1 .. Len(queue) :
          /\ queue[i].kind = kind
          /\ \A j \in (i + 1) .. Len(queue) : queue[j].kind # kind].gen

\* halt_supersedes: a halt with no motion command after it.
HaltSupersedes ==
  \E i \in 1 .. Len(queue) :
    /\ queue[i].kind = "Halt"
    /\ \A j \in (i + 1) .. Len(queue) : queue[j].kind \notin {"SetTarget", "SetVelocity"}
=============================================================================
