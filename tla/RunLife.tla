------------------------------ MODULE RunLife -------------------------------
(***************************************************************************)
(* What a Runner (src/ethercat/runner.cpp) promises the one who builds it: *)
(* the life of one run, as its owner reads it from status().phase, and as  *)
(* its controls learn of its end from on_stop().  Runner implements this   *)
(* module; Supervisor is built on it.                                      *)
(*                                                                         *)
(* A run is brought up, runs, is told once and for one reason why it ends, *)
(* and stops; the bus is closed only after that.  A control whose step()   *)
(* never returns, or a process that aborts, takes no further step.         *)
(***************************************************************************)
VARIABLES
  life,    \* status().phase
  causes,  \* the reasons on_stop() has been called with
  wanted,  \* somebody has asked for a stop
  busOpen  \* the Master's port is open

runVars == <<life, causes, wanted, busOpen>>

Lives      == {"Idle", "BringingUp", "Running", "Stopping", "Stopped"}
EndReasons == {"Requested", "BusFault", "BringupAborted", "RtSetupFailed"}

RunTypeOK ==
  /\ life \in Lives
  /\ causes \subseteq EndReasons
  /\ wanted \in BOOLEAN
  /\ busOpen \in BOOLEAN

RunInit == life = "Idle" /\ causes = {} /\ wanted = FALSE /\ busOpen = FALSE

RunOpen ==
  /\ life = "Idle" /\ ~busOpen
  /\ busOpen' = TRUE
  /\ UNCHANGED <<life, causes, wanted>>

RunBegin ==
  /\ life = "Idle" /\ busOpen
  /\ life' = "BringingUp"
  /\ UNCHANGED <<causes, wanted, busOpen>>

RunAsk ==
  /\ ~wanted
  /\ wanted' = TRUE
  /\ UNCHANGED <<life, causes, busOpen>>

RunReachesOp ==
  /\ life = "BringingUp" /\ causes = {}
  /\ life' = "Running"
  /\ UNCHANGED <<causes, wanted, busOpen>>

\* on_stop(r) of a run that never was Operational: no stopping window.
RunFails(r) ==
  /\ life = "BringingUp" /\ causes = {}
  /\ r \in {"Requested", "BringupAborted", "RtSetupFailed"}
  /\ r = "Requested" => wanted
  /\ causes' = {r}
  /\ UNCHANGED <<life, wanted, busOpen>>

\* on_stop(r) of a run that was: the stopping window opens.
RunLeaves(r) ==
  /\ life = "Running"
  /\ r \in {"Requested", "BusFault"}
  /\ r = "Requested" => wanted
  /\ life' = "Stopping"
  /\ causes' = {r}
  /\ UNCHANGED <<wanted, busOpen>>

RunStops ==
  /\ life \in {"BringingUp", "Stopping"} /\ causes # {}
  /\ life' = "Stopped"
  /\ UNCHANGED <<causes, wanted, busOpen>>

\* The owner has joined the thread.
RunCloses ==
  /\ life = "Stopped" /\ wanted /\ busOpen
  /\ busOpen' = FALSE
  /\ UNCHANGED <<life, causes, wanted>>

RunNext ==
  \/ RunOpen
  \/ RunBegin
  \/ RunAsk
  \/ RunReachesOp
  \/ \E r \in EndReasons : RunFails(r) \/ RunLeaves(r)
  \/ RunStops
  \/ RunCloses

RunSpec == RunInit /\ [][RunNext]_runVars
=============================================================================
