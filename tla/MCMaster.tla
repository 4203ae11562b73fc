------------------------------ MODULE MCMaster ------------------------------
(* Model-checking instance of MasterHistory.  The hold has to survive longer *)
(* than a nudge, the grace is longer than one exchange, and a steady run is  *)
(* long enough for a fault run after the grace and for recovery around it.   *)
EXTENDS MasterHistory
=============================================================================
