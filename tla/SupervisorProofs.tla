-------------------------- MODULE SupervisorProofs --------------------------
(***************************************************************************)
(* Proofs about the supervision, for any number of callers, attempts and   *)
(* outages.  The safety properties rest on who is where: a thread between  *)
(* its lock and its unlock is the only one that touches the Runner and the *)
(* Master, a request for the end of a run comes from such a thread only,   *)
(* and a run that ends for another reason leaves a flag behind.            *)
(***************************************************************************)
EXTENDS Supervisor, TLAPS

\* The places between the lock and the unlock.
HoldPcs == {"Build", "Spawn", "Poll", "Verdict"} \cup DropPcs

\* api_mutex_ excludes, and the attempts are counted under it.
LockInv ==
  /\ \A t \in Threads : pc[t] \in HoldPcs <=> lock = t
  /\ lock # Nobody => SharedHolders = {}
  /\ \A t \in Threads : pc[t] = "DropRetry" => attempt < MaxAttempts
  /\ \A t \in Threads : pc[t] = "DropStop" => admin = "Stopped"

\* The objects that are there at each place.
ObjectInv ==
  /\ runner => master /\ busOpen
  /\ life # "Idle" \/ SharedHolders # {} => runner
  /\ admin = "New" => ~runner /\ \A t \in Threads : pc[t] = "Idle"
  /\ \A t \in Threads : pc[t] \in {"Build", "Spawn"} => ~runner
  /\ \A t \in Threads : pc[t] = "Spawn" => master /\ busOpen
  /\ \A t \in Threads : pc[t] \in {"Poll", "Verdict"} => life # "Idle"

\* Why the run ends, and what has been published of it.
CauseInv ==
  /\ life \in {"Idle", "Running"} => causes = {}
  /\ life \in {"Stopping", "Stopped"} => causes # {}
  /\ publishing # "None" => life \in {"BringingUp", "Stopping"} /\ causes = {publishing}
  /\ "Requested" \in causes => wanted
  /\ wanted => \E t \in Threads : pc[t] \in DropPcs
  /\ publishing = "None" /\ "BusFault" \in causes => busLost
  /\ publishing = "None" /\ causes \cap {"BringupAborted", "RtSetupFailed"} # {} => degraded

\* The marker: there is none without a loss, and no run without one is left.
MarkerInv ==
  /\ busLost => owed
  /\ lock = Nobody /\ admin = "Serving" /\ life = "Idle" => busLost

IInv ==
  /\ TypeOK
  /\ LockInv
  /\ ObjectInv
  /\ CauseInv
  /\ MarkerInv

-----------------------------------------------------------------------------
\* The real-time thread keeps the invariant.
LEMMA RealTimeKeeps ==
  ASSUME IInv, RealTime
  PROVE  IInv'
<1> USE SupervisorAssumption
<1> USE DEF IInv, TypeOK, RunTypeOK, LockInv, ObjectInv, CauseInv, MarkerInv, Goes, SharedHolders,
        HoldPcs, DropPcs, Pcs, Threads, Lives, EndReasons, runVars, objVars, flagVars, envVars
<1>1. CASE Operational
  BY <1>1 DEF Operational, RunReachesOp
<1>2. ASSUME NEW r \in EndReasons, OnStop(r) PROVE IInv'
  BY <1>2 DEF OnStop, RunFails, RunLeaves
<1>3. CASE OnStopPublish
  BY <1>3 DEF OnStopPublish
<1>4. CASE ThreadEnds
  BY <1>4 DEF ThreadEnds, RunStops
<1> HIDE DEF IInv
<1> QED  BY <1>1, <1>2, <1>3, <1>4 DEF RealTime

\* So does the thread that has the lock.
LEMMA HoldingKeeps ==
  ASSUME IInv, \E t \in Threads : Holding(t)
  PROVE  IInv'
<1> USE SupervisorAssumption
<1> USE DEF IInv, TypeOK, RunTypeOK, LockInv, ObjectInv, CauseInv, MarkerInv, Goes, SharedHolders,
        HoldPcs, DropPcs, Pcs, Threads, Lives, EndReasons, runVars, objVars, flagVars, envVars
<1>1. ASSUME NEW t \in Threads, DropAsk(t) PROVE IInv'
  BY <1>1 DEF DropAsk, RunAsk
<1>2. ASSUME NEW t \in Threads, DropRebuild(t) PROVE IInv'
  <2>1. TypeOK'
    <3>1. (pc \in [Threads -> Pcs])'
      BY <1>2 DEF DropRebuild, DropObjects, NoRunLeft
    <3>2. RunTypeOK'
      BY <1>2 DEF DropRebuild, DropObjects, NoRunLeft
    <3>3. (attempt \in 0 .. MaxAttempts /\ outages \in 0 .. MaxOutages)'
      BY <1>2 DEF DropRebuild, DropObjects, NoRunLeft
    <3> QED  BY <1>2, <3>1, <3>2, <3>3 DEF DropRebuild, DropObjects, NoRunLeft
  <2>2. (LockInv /\ ObjectInv)'
    BY <1>2 DEF DropRebuild, DropObjects, NoRunLeft
  <2>3. (CauseInv /\ MarkerInv)'
    BY <1>2 DEF DropRebuild, DropObjects, NoRunLeft
  <2> QED  BY <2>1, <2>2, <2>3
<1>3. ASSUME NEW t \in Threads, DropRetry(t) PROVE IInv'
  <2>1. TypeOK'
    <3>1. (pc \in [Threads -> Pcs])'
      BY <1>3 DEF DropRetry, DropObjects, NoRunLeft
    <3>2. RunTypeOK'
      BY <1>3 DEF DropRetry, DropObjects, NoRunLeft
    <3>3. (attempt \in 0 .. MaxAttempts /\ outages \in 0 .. MaxOutages)'
      BY <1>3 DEF DropRetry, DropObjects, NoRunLeft
    <3> QED  BY ZenonT(60), <1>3, <3>1, <3>2, <3>3 DEF DropRetry, DropObjects, NoRunLeft
  <2>2. (LockInv /\ ObjectInv)'
    BY <1>3 DEF DropRetry, DropObjects, NoRunLeft
  <2>3. (CauseInv /\ MarkerInv)'
    BY <1>3 DEF DropRetry, DropObjects, NoRunLeft
  <2> QED  BY <2>1, <2>2, <2>3
<1>4. ASSUME NEW t \in Threads, DropGiveUp(t) PROVE IInv'
  <2>1. TypeOK'
    <3>1. (pc \in [Threads -> Pcs])'
      BY <1>4 DEF DropGiveUp, DropObjects, NoRunLeft, Unlocks
    <3>2. RunTypeOK'
      BY <1>4 DEF DropGiveUp, DropObjects, NoRunLeft, Unlocks
    <3>3. (attempt \in 0 .. MaxAttempts /\ outages \in 0 .. MaxOutages)'
      BY <1>4 DEF DropGiveUp, DropObjects, NoRunLeft, Unlocks
    <3> QED  BY <1>4, <3>1, <3>2, <3>3 DEF DropGiveUp, DropObjects, NoRunLeft, Unlocks
  <2>2. (LockInv /\ ObjectInv)'
    BY <1>4 DEF DropGiveUp, DropObjects, NoRunLeft, Unlocks
  <2>3. (CauseInv /\ MarkerInv)'
    BY <1>4 DEF DropGiveUp, DropObjects, NoRunLeft, Unlocks
  <2> QED  BY <2>1, <2>2, <2>3
<1>5. ASSUME NEW t \in Threads, DropStop(t) PROVE IInv'
  <2>1. TypeOK'
    <3>1. (pc \in [Threads -> Pcs])'
      BY <1>5 DEF DropStop, DropObjects, NoRunLeft, Unlocks
    <3>2. RunTypeOK'
      BY <1>5 DEF DropStop, DropObjects, NoRunLeft, Unlocks
    <3>3. (attempt \in 0 .. MaxAttempts /\ outages \in 0 .. MaxOutages)'
      BY <1>5 DEF DropStop, DropObjects, NoRunLeft, Unlocks
    <3> QED  BY ZenonT(60), <1>5, <3>1, <3>2, <3>3 DEF DropStop, DropObjects, NoRunLeft, Unlocks
  <2>2. (LockInv /\ ObjectInv)'
    BY <1>5 DEF DropStop, DropObjects, NoRunLeft, Unlocks
  <2>3. (CauseInv /\ MarkerInv)'
    BY <1>5 DEF DropStop, DropObjects, NoRunLeft, Unlocks
  <2> QED  BY <2>1, <2>2, <2>3
<1>6. ASSUME NEW t \in Threads, Build(t) PROVE IInv'
  BY <1>6 DEF Build
<1>7. ASSUME NEW t \in Threads, BuildFails(t) PROVE IInv'
  <2>1. TypeOK'
    <3>1. (pc \in [Threads -> Pcs])'
      BY <1>7 DEF BuildFails, Throws, Unlocks
    <3>2. RunTypeOK'
      BY <1>7 DEF BuildFails, Throws, Unlocks
    <3>3. (attempt \in 0 .. MaxAttempts /\ outages \in 0 .. MaxOutages)'
      BY <1>7 DEF BuildFails, Throws, Unlocks
    <3> QED  BY ZenonT(60), <1>7, <3>1, <3>2, <3>3 DEF BuildFails, Throws, Unlocks
  <2>2. (LockInv /\ ObjectInv)'
    BY <1>7 DEF BuildFails, Throws, Unlocks
  <2>3. (CauseInv /\ MarkerInv)'
    BY <1>7 DEF BuildFails, Throws, Unlocks
  <2> QED  BY <2>1, <2>2, <2>3
<1>8. ASSUME NEW t \in Threads, Spawn(t) PROVE IInv'
  <2>1. TypeOK'
    <3>1. (pc \in [Threads -> Pcs])'
      BY <1>8 DEF Spawn, ResetRunState, RunBegin
    <3>2. RunTypeOK'
      BY <1>8 DEF Spawn, ResetRunState, RunBegin
    <3> QED  BY ZenonT(60), <1>8, <3>1, <3>2 DEF Spawn, ResetRunState, RunBegin
  <2>2. (LockInv /\ ObjectInv)'
    BY <1>8 DEF Spawn, ResetRunState, RunBegin
  <2>3. (CauseInv /\ MarkerInv)'
    BY <1>8 DEF Spawn, ResetRunState, RunBegin
  <2> QED  BY <2>1, <2>2, <2>3
<1>9. ASSUME NEW t \in Threads, SpawnRefused(t) PROVE IInv'
  <2>1. TypeOK'
    <3>1. (pc \in [Threads -> Pcs])'
      BY <1>9 DEF SpawnRefused, ResetRunState, Throws, Unlocks
    <3>2. RunTypeOK'
      BY <1>9 DEF SpawnRefused, ResetRunState, Throws, Unlocks
    <3>3. (attempt \in 0 .. MaxAttempts /\ outages \in 0 .. MaxOutages)'
      BY <1>9 DEF SpawnRefused, ResetRunState, Throws, Unlocks
    <3> QED  BY <1>9, <3>1, <3>2, <3>3 DEF SpawnRefused, ResetRunState, Throws, Unlocks
  <2>2. (LockInv /\ ObjectInv)'
    BY <1>9 DEF SpawnRefused, ResetRunState, Throws, Unlocks
  <2>3. (CauseInv /\ MarkerInv)'
    BY <1>9 DEF SpawnRefused, ResetRunState, Throws, Unlocks
  <2> QED  BY <2>1, <2>2, <2>3
<1>10. ASSUME NEW t \in Threads, PollRunning(t) PROVE IInv'
  BY <1>10 DEF PollRunning
<1>11. ASSUME NEW t \in Threads, PollExited(t) PROVE IInv'
  BY <1>11 DEF PollExited
<1>12. ASSUME NEW t \in Threads, Verdict(t) PROVE IInv'
  BY <1>12 DEF Verdict, Unlocks
<1> HIDE DEF IInv
<1> QED  BY <1>1, <1>2, <1>3, <1>4, <1>5, <1>6, <1>7, <1>8, <1>9, <1>10, <1>11, <1>12 DEF Holding

\* So do the admin thread and the bus.
LEMMA AdminKeeps ==
  ASSUME IInv, Start \/ Reconfigure \/ Stop \/ Outage \/ LinkReturns
  PROVE  IInv'
<1> USE SupervisorAssumption
<1> USE DEF IInv, TypeOK, RunTypeOK, LockInv, ObjectInv, CauseInv, MarkerInv, Goes, SharedHolders,
        HoldPcs, DropPcs, Pcs, Threads, Lives, EndReasons, runVars, objVars, flagVars, envVars
<1>1. CASE Start
  BY <1>1 DEF Start, ExclusiveFree
<1>2. CASE Reconfigure
  BY <1>2 DEF Reconfigure, ExclusiveFree
<1>3. CASE Stop
  BY <1>3 DEF Stop, ExclusiveFree
<1>4. CASE Outage
  <2>1. TypeOK'
    <3>1. (pc \in [Threads -> Pcs])'
      BY <1>4 DEF Outage
    <3>2. RunTypeOK'
      BY <1>4 DEF Outage
    <3>3. (attempt \in 0 .. MaxAttempts /\ outages \in 0 .. MaxOutages)'
      BY <1>4 DEF Outage
    <3> QED  BY ZenonT(60), <1>4, <3>1, <3>2, <3>3 DEF Outage
  <2>2. (LockInv /\ ObjectInv)'
    BY <1>4 DEF Outage
  <2>3. (CauseInv /\ MarkerInv)'
    BY <1>4 DEF Outage
  <2> QED  BY <2>1, <2>2, <2>3
<1>5. CASE LinkReturns
  BY <1>5 DEF LinkReturns
<1> HIDE DEF IInv
<1> QED  BY <1>1, <1>2, <1>3, <1>4, <1>5

\* So do the callers.
LEMMA CallerKeeps ==
  ASSUME IInv, \E c \in Callers : Call(c) \/ Calling(c) \/ ReturnsOk(c) \/ SdoBegin(c)
  PROVE  IInv'
<1> USE SupervisorAssumption
<1> USE DEF IInv, TypeOK, RunTypeOK, LockInv, ObjectInv, CauseInv, MarkerInv, Goes, SharedHolders,
        HoldPcs, DropPcs, Pcs, Threads, Lives, EndReasons, runVars, objVars, flagVars, envVars
<1>1. ASSUME NEW c \in Callers, Call(c) PROVE IInv'
  BY <1>1 DEF Call
<1>2. ASSUME NEW c \in Callers, Entry(c) PROVE IInv'
  BY <1>2 DEF Entry
<1>3. ASSUME NEW c \in Callers, Recover(c) PROVE IInv'
  <2>1. TypeOK'
    <3>1. (pc \in [Threads -> Pcs])'
      BY <1>3 DEF Recover, ExclusiveFree
    <3>2. RunTypeOK'
      BY <1>3 DEF Recover, ExclusiveFree
    <3>3. (attempt \in 0 .. MaxAttempts /\ outages \in 0 .. MaxOutages)'
      BY <1>3 DEF Recover, ExclusiveFree
    <3> QED  BY ZenonT(60), <1>3, <3>1, <3>2, <3>3 DEF Recover, ExclusiveFree
  <2>2. (LockInv /\ ObjectInv)'
    BY <1>3 DEF Recover, ExclusiveFree
  <2>3. (CauseInv /\ MarkerInv)'
    BY <1>3 DEF Recover, ExclusiveFree
  <2> QED  BY <2>1, <2>2, <2>3
<1>4. ASSUME NEW c \in Callers, Enter(c) PROVE IInv'
  BY <1>4 DEF Enter
<1>5. ASSUME NEW c \in Callers, AwaitThrows(c) PROVE IInv'
  BY <1>5 DEF AwaitThrows
<1>6. ASSUME NEW c \in Callers, SdoEnd(c) PROVE IInv'
  BY <1>6 DEF SdoEnd
<1>7. ASSUME NEW c \in Callers, ReturnsOk(c) PROVE IInv'
  BY <1>7 DEF ReturnsOk
<1>8. ASSUME NEW c \in Callers, SdoBegin(c) PROVE IInv'
  BY <1>8 DEF SdoBegin
<1> HIDE DEF IInv
<1> QED  BY <1>1, <1>2, <1>3, <1>4, <1>5, <1>6, <1>7, <1>8 DEF Calling

\* Nothing is built at first.
LEMMA InvInit == Init => IInv
<1> SUFFICES ASSUME Init PROVE IInv
  OBVIOUS
<1> USE SupervisorAssumption DEF Init, RunInit
<1>1. TypeOK
  <2>1. pc \in [Threads -> Pcs]
    BY DEF Pcs
  <2>2. RunTypeOK
    BY DEF RunTypeOK, Lives
  <2>3. attempt \in 0 .. MaxAttempts /\ outages \in 0 .. MaxOutages
    OBVIOUS
  <2> QED  BY <2>1, <2>2, <2>3 DEF TypeOK
<1>2. LockInv
  BY DEF LockInv, SharedHolders, HoldPcs, DropPcs, Threads
<1>3. ObjectInv /\ CauseInv /\ MarkerInv
  BY DEF ObjectInv, CauseInv, MarkerInv, SharedHolders, Threads
<1> QED  BY <1>1, <1>2, <1>3 DEF IInv

\* Every step of every thread keeps the invariant.
LEMMA InvKept == IInv /\ [Next]_vars => IInv'
<1>1. ASSUME IInv, Next PROVE IInv'
  BY <1>1, RealTimeKeeps, HoldingKeeps, AdminKeeps, CallerKeeps DEF Next
<1>2. ASSUME IInv, UNCHANGED vars PROVE IInv'
  BY <1>2
  DEF vars, runVars, objVars, flagVars, envVars, IInv, TypeOK, RunTypeOK, LockInv,
      ObjectInv, CauseInv, MarkerInv, SharedHolders
<1> QED  BY <1>1, <1>2

\* So it holds throughout.
LEMMA Invariant == Spec => []IInv
BY InvInit, InvKept, PTL DEF Spec

-----------------------------------------------------------------------------
\* The flags, the objects and the attempts keep their types; in particular no
\* bring-up counts past kMaxBringupAttempts.
THEOREM TypeCorrect == Spec => []TypeOK
<1>1. IInv => TypeOK
  BY DEF IInv
<1> QED  BY <1>1, Invariant, PTL

\* No real-time thread and no SDO transfer is left with a Master that is gone or
\* closed, whatever rebuilds the callers and the admin thread make.
THEOREM UsersHaveABus == Spec => []BusUsedOpen
<1>1. ASSUME IInv PROVE BusUsedOpen
  <2>1. life \in {"BringingUp", "Running", "Stopping"} => master /\ busOpen
    BY <1>1 DEF IInv, ObjectInv
  <2>2. SharedHolders # {} => master /\ busOpen
    BY <1>1 DEF IInv, ObjectInv
  <2> QED  BY <2>1, <2>2 DEF BusUsedOpen
<1> QED  BY <1>1, Invariant, PTL

\* With nobody rebuilding, a run that is over has left a marker.
THEOREM LossKept == Spec => []LossRemembered
<1>1. ASSUME IInv, lock = Nobody, publishing = "None", admin = "Serving",
             life \notin {"BringingUp", "Running"}
      PROVE  busLost \/ degraded
  <2>1. CASE life = "Idle"
    BY <1>1, <2>1 DEF IInv, MarkerInv
  <2>2. CASE life \in {"Stopping", "Stopped"}
    <3>1. \A t \in Threads : pc[t] \notin DropPcs
      BY <1>1, SupervisorAssumption DEF IInv, LockInv, HoldPcs, Threads
    <3>2. ~wanted /\ causes # {} /\ causes \subseteq EndReasons
      BY <1>1, <2>2, <3>1 DEF IInv, TypeOK, RunTypeOK, CauseInv
    <3>3. PICK r \in causes : r \in {"BusFault", "BringupAborted", "RtSetupFailed"}
      BY <1>1, <3>2 DEF IInv, CauseInv, EndReasons
    <3> QED  BY <1>1, <3>3 DEF IInv, CauseInv
  <2> QED  BY <1>1, <2>1, <2>2 DEF IInv, TypeOK, RunTypeOK, Lives
<1>2. IInv => LossRemembered
  BY <1>1 DEF LossRemembered
<1> QED  BY <1>2, Invariant, PTL

\* A caller takes the lock to rebuild only after a loss nobody has recovered.
THEOREM OneRebuild == Spec => OneRebuildPerLoss
<1>1. ASSUME IInv, Next, NEW c \in Callers, lock = Nobody, lock' = c PROVE owed
  <2>1. c # Admin /\ c # Nobody
    BY SupervisorAssumption
  <2>2. CASE RealTime
    BY <1>1, <2>1, <2>2 DEF RealTime, Operational, OnStop, OnStopPublish, ThreadEnds
  <2>3. ASSUME NEW t \in Threads, Holding(t) PROVE FALSE
    BY <1>1, <2>1, <2>3, SupervisorAssumption
    DEF Holding, DropAsk, DropRebuild, DropRetry, DropGiveUp, DropStop, Build, BuildFails,
        Spawn, SpawnRefused, PollRunning, PollExited, Verdict, IInv, LockInv, HoldPcs,
        DropPcs, Threads
  <2>4. CASE Start \/ Reconfigure \/ Stop \/ Outage \/ LinkReturns
    BY <1>1, <2>1, <2>4 DEF Start, Reconfigure, Stop, Outage, LinkReturns
  <2>5. ASSUME NEW d \in Callers, Recover(d) PROVE owed
    BY <1>1, <2>1, <2>5 DEF Recover, IInv, TypeOK, MarkerInv
  <2>6. ASSUME NEW d \in Callers,
               Call(d) \/ Entry(d) \/ Enter(d) \/ AwaitThrows(d) \/ SdoEnd(d)
                 \/ ReturnsOk(d) \/ SdoBegin(d)
        PROVE FALSE
    BY <1>1, <2>1, <2>6
    DEF Call, Entry, Enter, AwaitThrows, SdoEnd, ReturnsOk, SdoBegin
  <2> QED  BY <1>1, <2>2, <2>3, <2>4, <2>5, <2>6 DEF Next, Calling
<1>2. IInv /\ [Next]_vars => [\A c \in Callers : (lock = Nobody /\ lock' = c) => owed]_vars
  BY <1>1
<1> QED  BY <1>2, Invariant, PTL DEF Spec, OneRebuildPerLoss

=============================================================================
