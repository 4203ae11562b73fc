------------------------------ MODULE MCRunner ------------------------------
(* Model-checking instance of Runner: one control, a window of two cycles,   *)
(* a bus that needs two clean exchanges to come up and two short ones to     *)
(* fault.                                                                    *)
EXTENDS Runner
=============================================================================
