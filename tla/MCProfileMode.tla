--------------------------- MODULE MCProfileMode ----------------------------
(* Model-checking instance of ProfileMode: two cycles of halt settle, as in  *)
(* the code, and shortened time-outs that still outlast one cycle.           *)
EXTENDS ProfileMode
=============================================================================
