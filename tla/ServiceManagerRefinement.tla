----------------------- MODULE ServiceManagerRefinement -----------------------
(* The session manager implements CoreLease, for every set of sessions and   *)
(* PIDs and every number of failures: its first state is a first state of    *)
(* the lease, and each of its steps is a step of the lease or leaves alone   *)
(* what the lease is about.                                                  *)
EXTENDS ServiceManagerProofs

Running == LiveCores \ leaked
Told    == up /\ pc = "idle" /\ reply = "stopped"

\* A step that touches neither the cores nor the claim.
Aside == UNCHANGED <<proc, leaked, record>>

LEMMA AsideStep == Aside => Running' = Running /\ record' = record
  BY DEF Aside, Running, LiveCores

-----------------------------------------------------------------------------
(* What each kind of step does to the cores and to the claim. *)

LEMMA LaunchStep ==
    ASSUME Inv, StartCreate
    PROVE  /\ \E p \in Pids : Running' = {p}
           /\ ~Told /\ Running = {} /\ record' = record
  <1>1. Running = {} /\ owned = None /\ pc = "create"
    BY DEF StartCreate, Inv, AccountedCores, Running, At
  <1>2. PICK holders \in SUBSET Pids, new \in Pids :
            /\ Reclaim(holders)
            /\ proc[new] = "none"
            /\ proc' = [p \in Pids |-> IF p = new THEN "core"
                                       ELSE IF p \in holders THEN "exited" ELSE proc[p]]
    BY DEF StartCreate
  <1>3. new \notin leaked
    BY <1>2 DEF Inv, JobHoldsCores, LiveCores
  <1>4. leaked' = leaked \ holders
    BY <1>2 DEF Reclaim
  <1>5. new \in Running'
    BY <1>2, <1>3, <1>4 DEF Running, LiveCores
  <1>6. ASSUME NEW p \in Running', p # new PROVE FALSE
    <2>1. p \in Pids /\ proc'[p] = "core" /\ p \notin leaked'
      BY <1>6 DEF Running, LiveCores
    <2>2. p \notin holders /\ proc[p] = "core"
      BY <1>2, <1>6, <2>1
    <2> QED
      BY <1>1, <1>4, <2>1, <2>2 DEF Running, LiveCores
  <1>7. Running' = {new}
    BY <1>5, <1>6
  <1> QED
    BY <1>1, <1>7 DEF StartCreate, Told

LEMMA AdoptStep ==
    ASSUME Inv, ReconcileLive
    PROVE  /\ record # None /\ record' = record /\ ~Told
           /\ Running' = {record.pid}
           /\ Running = {} \/ Running = Running'
  <1>1. record # None /\ record.pid \in Pids /\ pc = "inspect"
    BY DEF ReconcileLive, At, Inv, StepFacts, TypeOK, Owners
  <1>2. \A p \in Running : owned # None /\ owned.pid = p /\ record = owned
    BY <1>1 DEF Inv, AccountedCores, DurableOwner, Running
  <1>3. proc' = proc /\ leaked' = leaked \ {record.pid} /\ record' = record
        /\ proc[record.pid] = "core"
    BY DEF ReconcileLive
  <1>4. Running' = Running \cup {record.pid}
    BY <1>1, <1>3 DEF Running, LiveCores
  <1> QED
    BY <1>1, <1>2, <1>3, <1>4 DEF Told

LEMMA RevokeStep ==
    ASSUME Inv, ReconcileForget \/ ReconcileForgetFails \/ StopClear \/ StopClearFails
    PROVE  /\ Running' = Running
           /\ record' # record => record # None /\ record.pid \notin Running /\ record' = None
  <1>1. proc' = proc /\ leaked' = leaked
    BY DEF ReconcileForget, ReconcileForgetFails, StopClear, StopClearFails, host
  <1>2. record' = record \/ record' = None
    BY DEF ReconcileForget, ReconcileForgetFails, StopClear, StopClearFails
  <1>3. CASE ReconcileForget \/ ReconcileForgetFails
    BY <1>1, <1>2, <1>3
       DEF ReconcileForget, ReconcileForgetFails, At, Inv, StepFacts, Running, LiveCores
  <1>4. CASE StopClear \/ StopClearFails
    <2>1. pc = "clear" /\ owned # None /\ owned.pid \notin LiveCores
      BY <1>4 DEF StopClear, StopClearFails, At, Inv, StepFacts
    <2>2. Running = {}
      BY <2>1 DEF Inv, AccountedCores, Running
    <2> QED
      BY <1>1, <1>2, <2>2 DEF Running, LiveCores
  <1> QED
    BY <1>3, <1>4

LEMMA GrantStep ==
    ASSUME Inv, StartWrite
    PROVE  /\ Running' = Running
           /\ \E s \in Sessions, p \in Pids :
                 Running \subseteq {p} /\ record' = [sid |-> s, pid |-> p]
  <1>1. pc = "write" /\ proc' = proc /\ leaked' = leaked
        /\ record' = [sid |-> sid, pid |-> child]
    BY DEF StartWrite, At, host
  <1>2. owned = None /\ child \in Pids /\ sid \in Sessions
    BY <1>1 DEF Inv, StepFacts
  <1>3. Running \subseteq {child}
    BY <1>2 DEF Inv, AccountedCores, Running
  <1> QED
    BY <1>1, <1>2, <1>3 DEF Running, LiveCores

\* The core of the lease is the only one a step can end.
LEMMA AtMostOne == Inv => \A p, q \in Running : p = q
  BY DEF Inv, AccountedCores, StepFacts, Running

Ending ==
    \/ StartFails \/ StartAssignFails \/ EmergencyStop \/ EmergencyStopFails
    \/ StopKill \/ Exit \/ Crash
    \/ \E p \in Pids : CoreExits(p) \/ Reaped(p) \/ ForeignStarts(p) \/ ForeignEnds(p)

LEMMA EndStep ==
    ASSUME Inv, Ending
    PROVE  Running' \subseteq Running /\ record' = record
  <1> USE DEF Running, LiveCores
  <1>1. proc \in [Pids -> ProcKind] /\ leaked \subseteq LiveCores /\ job \subseteq Pids
    BY DEF Inv, TypeOK, JobHoldsCores
  <1>2. CASE StartFails
    BY <1>1, <1>2 DEF StartFails, Reclaim
  <1>3. CASE StartAssignFails
    BY <1>1, <1>3 DEF StartAssignFails
  <1>4. CASE EmergencyStop \/ StopKill
    BY <1>1, <1>4 DEF EmergencyStop, StopKill, RuntimeStops, Exits, host
  <1>5. CASE EmergencyStopFails
    BY <1>5 DEF EmergencyStopFails
  <1>6. CASE Exit \/ Crash
    BY <1>1, <1>6 DEF Exit, Crash, Ends
  <1>7. ASSUME NEW p \in Pids, CoreExits(p) PROVE Running' \subseteq Running /\ record' = record
    BY <1>1, <1>7 DEF CoreExits, Exits
  <1>8. ASSUME NEW p \in Pids, Reaped(p) \/ ForeignStarts(p) \/ ForeignEnds(p)
        PROVE  Running' \subseteq Running /\ record' = record
    BY <1>1, <1>8 DEF Reaped, ForeignStarts, ForeignEnds
  <1> QED
    BY <1>2, <1>3, <1>4, <1>5, <1>6, <1>7, <1>8 DEF Ending

LEMMA OtherSteps ==
    ASSUME Inv, Next,
           ~Ending, ~StartCreate, ~ReconcileLive, ~StartWrite,
           ~(ReconcileForget \/ ReconcileForgetFails \/ StopClear \/ StopClearFails)
    PROVE  Aside
  BY DEF Aside, Ending, Next, Requested, Progress, ServiceLife, Environment, Start, Stop,
         Reconcile, Status, ReconcileReadFails, ReconcileNoRecord, ReconcileRecord,
         ReconcileConflict, ReconcileNotLive, StartRefused, StartAssign, StartWriteFails,
         StopKillFails, RuntimeStopFails, Boot, Shutdown, ShutdownStop, ShutdownClear, host

-----------------------------------------------------------------------------
(* The refinement. *)

LEMMA LeaseInit == Init => Lease!Init
  BY DEF Init, Lease!Init, LiveCores, up

LEMMA LeaseStep == Inv /\ Inv' /\ [Next]_vars => [Lease!Next]_(Lease!vars)
  <1> SUFFICES ASSUME Inv, Inv', [Next]_vars
               PROVE  Lease!Next \/ UNCHANGED <<Running, record, Told>>
    BY DEF Lease!vars, Running, Told
  <1> USE DEF Lease!Next, Lease!Truthful
  <1>1. Told' => Running' = {}
    BY DEF Inv, Told, Running, StoppedHasNoOwner, AccountedCores
  <1>2. ASSUME Running' = Running, record' = record PROVE Lease!Next
    BY <1>1, <1>2 DEF Lease!Answers, Running, Told
  <1>3. CASE UNCHANGED vars
    BY <1>3 DEF vars, service, memory, host, call, Running, LiveCores, Told, up
  <1>4. CASE StartCreate
    BY <1>1, <1>4, LaunchStep DEF Lease!Launch, Running, Told
  <1>5. CASE ReconcileLive
    <2>1. CASE Running = Running'
      BY <1>2, <1>5, <2>1, AdoptStep
    <2>2. CASE Running = {}
      BY <1>1, <1>5, <2>2, AdoptStep DEF Lease!Adopt, Running, Told
    <2> QED
      BY <1>5, <2>1, <2>2, AdoptStep
  <1>6. CASE StartWrite
    BY <1>1, <1>6, GrantStep DEF Lease!Grant, Running, Told
  <1>7. CASE ReconcileForget \/ ReconcileForgetFails \/ StopClear \/ StopClearFails
    BY <1>1, <1>2, <1>7, RevokeStep DEF Lease!Revoke, Running, Told
  <1>8. CASE Ending
    <2>1. Running' = Running \/ (Running # {} /\ Running' = {})
      BY <1>8, EndStep, AtMostOne
    <2> QED
      BY <1>1, <1>2, <1>8, <2>1, EndStep DEF Lease!Ended, Running, Told
  <1>9. CASE Aside
    BY <1>2, <1>9, AsideStep
  <1> QED
    BY <1>3, <1>4, <1>5, <1>6, <1>7, <1>8, <1>9, OtherSteps

\* The manager keeps the service's contract with its clients.
THEOREM Refinement == SafeSpec => ImplementsLease
  <1>1. SafeSpec => []Inv
    BY Invariance
  <1> QED
    BY <1>1, LeaseInit, LeaseStep, PTL DEF SafeSpec, ImplementsLease, Lease!Spec
=============================================================================
