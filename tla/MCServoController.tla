------------------------- MODULE MCServoController --------------------------
(* Model-checking instance of ServoController: two callers that race for the *)
(* motion slot, and a queue in which two commands coalesce into one drain.   *)
EXTENDS ServoController, TLC

\* Both callers run the same code.
CallerSymmetry == Permutations(Callers)
=============================================================================
