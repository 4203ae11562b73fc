---------------------------- MODULE MCRxSnapshot ----------------------------
(* Model-checking instance of RxSnapshot: two cells are enough for a torn    *)
(* frame, three publishes for a writer that laps the reader twice.           *)
EXTENDS RxSnapshot
=============================================================================
