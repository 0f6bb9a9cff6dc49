------------------------ MODULE ServiceManagerProofs ------------------------
(* The safety of the session manager, for every set of sessions and PIDs   *)
(* and every number of failures.                                           *)
EXTENDS ServiceManager, TLAPS

LEMMA InitInv == Init => Inv
  <1> SUFFICES ASSUME Init PROVE Inv
    OBVIOUS
  <1>1. TypeOK
    <2> USE DEF Init
    <2>1. proc \in [Pids -> ProcKind]
      BY DEF ProcKind
    <2>2. faults \in 0 .. MaxFaults
      BY FaultsAssumption
    <2>3. svc \in Stages /\ pc \in Steps /\ req \in Requests /\ reply \in Outcomes
      BY DEF Stages, Steps, Requests, Outcomes
    <2> QED
      BY <2>1, <2>2, <2>3 DEF TypeOK
  <1>2. LiveCores = {}
    BY DEF Init, LiveCores
  <1> QED
    BY <1>1, <1>2
       DEF Init, Inv, DownIsEmpty, JobHoldsCores, ConflictHasOwner, DurableOwner,
           StepFacts, AccountedCores, StoppedHasNoOwner

-----------------------------------------------------------------------------
(* Type correctness. *)

LEMMA StopGuardType == \A s : StopGuard(s) \in Outcomes \cup {""}
  BY DEF StopGuard, Outcomes

LEMMA EndsType ==
    ASSUME TypeOK, Ends, faults' \in 0 .. MaxFaults
    PROVE  TypeOK'
  <1>1. proc' \in [Pids -> ProcKind]
    BY DEF TypeOK, Ends, ProcKind
  <1>2. svc' \in Stages /\ pc' \in Steps /\ req' \in Requests /\ reply' \in Outcomes
    BY DEF Ends, Stages, Steps, Requests, Outcomes
  <1> QED
    BY <1>1, <1>2 DEF TypeOK, Ends

LEMMA TypeStep == ASSUME TypeOK, StepFacts, [Next]_vars PROVE TypeOK'
  <1> USE NoneAssumption, FaultsAssumption
      DEF TypeOK, Steps, Requests, Outcomes, ProcKind, Stages, Owners
  <1>1. CASE UNCHANGED vars
    BY <1>1 DEF vars, service, memory, host, call
  <1>2. ASSUME NEW s \in Sessions, Start(s) PROVE TypeOK'
    <2>1. pc' \in {"read", "create"} /\ req' = "start" /\ sid' = s /\ reply' = "none" /\ child' = child
      BY <1>2 DEF Start, Begin
    <2>2. UNCHANGED <<svc, farewell, owned, blocked, conflict, lastExit, record, proc, job, leaked, faults>>
      BY <1>2 DEF Start, service, memory, host
    <2> QED
      BY <2>1, <2>2
  <1>3. ASSUME NEW s \in Sessions, Stop(s) PROVE TypeOK'
    <2>1. /\ pc' \in Steps /\ req' \in Requests /\ sid' \in Sessions \cup {None}
          /\ reply' \in Outcomes /\ child' \in Pids \cup {None}
      <3>1. CASE Begin("stop", s, "kill")
        BY <3>1 DEF Begin
      <3>2. CASE StopGuard(s) # "" /\ Answer(StopGuard(s))
        BY <3>2, StopGuardType DEF Answer
      <3> QED
        BY <1>3, <3>1, <3>2 DEF Stop
    <2>2. UNCHANGED <<svc, farewell, owned, blocked, conflict, lastExit, record, proc, job, leaked, faults>>
      BY <1>3 DEF Stop, service, memory, host
    <2> QED
      BY <2>1, <2>2
  <1>4. CASE Reconcile
    BY <1>4 DEF Reconcile, Begin, At, service, memory, host
  <1>5. CASE Status
    BY <1>5 DEF Status, Answer, At, service, memory, host
  <1>6. CASE ReconcileReadFails
    BY <1>6 DEF ReconcileReadFails, Fault, EndReconcile, Reply, Goto, At, service, memory, host
  <1>7. CASE ReconcileNoRecord
    BY <1>7 DEF ReconcileNoRecord, EndReconcile, Reply, Goto, At, service, memory, host
  <1>8. CASE ReconcileRecord
    BY <1>8 DEF ReconcileRecord, Goto, At, service, memory, host
  <1>9. CASE ReconcileLive
    BY <1>9 DEF ReconcileLive, EndReconcile, StepFacts, Reply, Goto, At, service, memory, host
  <1>10. CASE ReconcileConflict
    BY <1>10 DEF ReconcileConflict, EndReconcile, StepFacts, Fault, Reply, Goto, At, service, memory, host
  <1>11. CASE ReconcileNotLive
    BY <1>11 DEF ReconcileNotLive, Goto, At, service, memory, host
  <1>12. CASE ReconcileForget
    BY <1>12 DEF ReconcileForget, EndReconcile, Reply, Goto, At, service, memory, host
  <1>13. CASE ReconcileForgetFails
    BY <1>13 DEF ReconcileForgetFails, EndReconcile, Fault, Reply, Goto, At, service, memory, host
  <1>14. CASE StartRefused
    BY <1>14 DEF StartRefused, Reply, At, service, memory, host
  <1>15. CASE StartFails
    BY <1>15 DEF StartFails, Reclaim, Reply, At, service, memory, host
  <1>16. CASE StartCreate
    BY <1>16 DEF StartCreate, Reclaim, Goto, At, service, memory, host
  <1>17. CASE StartAssign
    BY <1>17 DEF StartAssign, StepFacts, Goto, At, service, memory, host
  <1>18. CASE StartAssignFails
    BY <1>18 DEF StartAssignFails, StepFacts, Reply, At, service, memory, host
  <1>19. CASE StartWrite
    BY <1>19 DEF StartWrite, StepFacts, Reply, At, service, memory, host
  <1>20. CASE StartWriteFails
    BY <1>20 DEF StartWriteFails, Fault, Goto, At, service, memory, host
  <1>21. CASE EmergencyStop
    BY <1>21 DEF EmergencyStop, StepFacts, RuntimeStops, Exits, Reply, At, service, memory, host
  <1>22. CASE EmergencyStopFails
    BY <1>22 DEF EmergencyStopFails, StepFacts, Fault, Reply, At, service, memory, host
  <1>23. CASE StopKill
    BY <1>23 DEF StopKill, StepFacts, RuntimeStops, Exits, Goto, At, service, memory, host
  <1>24. CASE StopKillFails
    BY <1>24 DEF StopKillFails, RuntimeStopFails, StopReply, Fault, Reply, At, service, memory, host
  <1>25. CASE StopClear
    BY <1>25 DEF StopClear, StopReply, Reply, At, service, memory, host
  <1>26. CASE StopClearFails
    BY <1>26 DEF StopClearFails, StopReply, Fault, Reply, At, service, memory, host
  <1>27. CASE Boot
    BY <1>27 DEF Boot, service, memory, host
  <1>28. CASE Shutdown
    BY <1>28 DEF Shutdown, service, memory, host, call
  <1>29. CASE ShutdownStop
    BY <1>29, StopGuardType DEF ShutdownStop, Begin, Answer, At, service, memory, host
  <1>30. CASE ShutdownClear
    BY <1>30 DEF ShutdownClear, service, memory, host, call
  <1>31. CASE Exit
    BY <1>31, EndsType DEF Exit
  <1>32. CASE Crash
    BY <1>32, EndsType DEF Crash, Fault
  <1>33. ASSUME NEW p \in Pids, CoreExits(p) PROVE TypeOK'
    BY <1>33 DEF CoreExits, Exits, service, memory, call
  <1>34. ASSUME NEW p \in Pids, Reaped(p) PROVE TypeOK'
    BY <1>34 DEF Reaped, service, memory, call
  <1>35. ASSUME NEW p \in Pids, ForeignStarts(p) PROVE TypeOK'
    BY <1>35 DEF ForeignStarts, service, memory, call
  <1>36. ASSUME NEW p \in Pids, ForeignEnds(p) PROVE TypeOK'
    BY <1>36 DEF ForeignEnds, service, memory, call
  <1> QED
    BY <1>1, <1>2, <1>3, <1>4, <1>5, <1>6, <1>7, <1>8, <1>9, <1>10, <1>11, <1>12,
       <1>13, <1>14, <1>15, <1>16, <1>17, <1>18, <1>19, <1>20, <1>21, <1>22, <1>23,
       <1>24, <1>25, <1>26, <1>27, <1>28, <1>29, <1>30, <1>31, <1>32, <1>33, <1>34,
       <1>35, <1>36
       DEF Next, Requested, Progress, ServiceLife, Environment

-----------------------------------------------------------------------------
(* The other conjuncts. *)

LEMMA SafeStep ==
    ASSUME Inv, [Next]_vars
    PROVE  /\ DownIsEmpty' /\ JobHoldsCores' /\ ConflictHasOwner' /\ DurableOwner'
           /\ StepFacts' /\ AccountedCores' /\ StoppedHasNoOwner'
  <1> DEFINE Safe == /\ DownIsEmpty /\ JobHoldsCores /\ ConflictHasOwner /\ DurableOwner
                     /\ StepFacts /\ AccountedCores /\ StoppedHasNoOwner
  <1> SUFFICES Safe'
    OBVIOUS
  <1> USE NoneAssumption
      DEF Inv, TypeOK, Owners, Safe, DownIsEmpty, JobHoldsCores, ConflictHasOwner,
          DurableOwner, StepFacts, AccountedCores, StoppedHasNoOwner, LiveCores, Refusing, up
  <1>1. CASE UNCHANGED vars
    BY <1>1 DEF vars, service, memory, host, call
  <1>2. ASSUME NEW s \in Sessions, Start(s) PROVE Safe'
    BY <1>2 DEF Start, Begin, At, service, memory, host
  <1>3. ASSUME NEW s \in Sessions, Stop(s) PROVE Safe'
    BY <1>3 DEF Stop, StopGuard, Begin, Answer, At, service, memory, host
  <1>4. CASE Reconcile
    BY <1>4 DEF Reconcile, Begin, At, service, memory, host
  <1>5. CASE Status
    BY <1>5 DEF Status, Answer, At, service, memory, host
  <1>6. CASE ReconcileReadFails
    BY <1>6 DEF ReconcileReadFails, Fault, EndReconcile, Reply, Goto, At, service, memory, host
  <1>7. CASE ReconcileNoRecord
    BY <1>7 DEF ReconcileNoRecord, EndReconcile, Reply, Goto, At, service, memory, host
  <1>8. CASE ReconcileRecord
    BY <1>8 DEF ReconcileRecord, Goto, At, service, memory, host
  <1>9. CASE ReconcileLive
    BY <1>9 DEF ReconcileLive, EndReconcile, Reply, Goto, At, service, memory, host
  <1>10. CASE ReconcileConflict
    BY <1>10 DEF ReconcileConflict, EndReconcile, Fault, Reply, Goto, At, service, memory, host
  <1>11. CASE ReconcileNotLive
    BY <1>11 DEF ReconcileNotLive, Goto, At, service, memory, host
  <1>12. CASE ReconcileForget
    BY <1>12 DEF ReconcileForget, EndReconcile, Reply, Goto, At, service, memory, host
  <1>13. CASE ReconcileForgetFails
    BY <1>13 DEF ReconcileForgetFails, EndReconcile, Fault, Reply, Goto, At, service, memory, host
  <1>14. CASE StartRefused
    BY <1>14 DEF StartRefused, Reply, At, service, memory, host
  <1>15. CASE StartFails
    BY <1>15 DEF StartFails, Reclaim, Reply, At, service, memory, host
  <1>16. CASE StartCreate
    BY <1>16 DEF StartCreate, Reclaim, Goto, At, service, memory, host
  <1>17. CASE StartAssign
    BY <1>17 DEF StartAssign, Goto, At, service, memory, host
  <1>18. CASE StartAssignFails
    BY <1>18 DEF StartAssignFails, Reply, At, service, memory, host
  <1>19. CASE StartWrite
    BY <1>19 DEF StartWrite, Reply, At, service, memory, host
  <1>20. CASE StartWriteFails
    BY <1>20 DEF StartWriteFails, Fault, Goto, At, service, memory, host
  <1>21. CASE EmergencyStop
    BY <1>21 DEF EmergencyStop, RuntimeStops, Exits, Reply, At, service, memory, host
  <1>22. CASE EmergencyStopFails
    BY <1>22 DEF EmergencyStopFails, Fault, Reply, At, service, memory, host
  <1>23. CASE StopKill
    BY <1>23 DEF StopKill, RuntimeStops, Exits, Goto, At, service, memory, host
  <1>24. CASE StopKillFails
    BY <1>24 DEF StopKillFails, RuntimeStopFails, StopReply, Fault, Reply, At, service, memory, host
  <1>25. CASE StopClear
    BY <1>25 DEF StopClear, StopReply, Reply, At, service, memory, host
  <1>26. CASE StopClearFails
    BY <1>26 DEF StopClearFails, StopReply, Fault, Reply, At, service, memory, host
  <1>27. CASE Boot
    BY <1>27 DEF Boot, service, memory, host
  <1>28. CASE Shutdown
    BY <1>28 DEF Shutdown, service, memory, host, call
  <1>29. CASE ShutdownStop
    BY <1>29 DEF ShutdownStop, StopGuard, Begin, Answer, At, service, memory, host
  <1>30. CASE ShutdownClear
    BY <1>30 DEF ShutdownClear, service, memory, host, call
  <1>31. CASE Exit
    BY <1>31 DEF Exit, Ends
  <1>32. CASE Crash
    BY <1>32 DEF Crash, Ends
  <1>33. ASSUME NEW p \in Pids, CoreExits(p) PROVE Safe'
    BY <1>33 DEF CoreExits, Exits, service, memory, call
  <1>34. ASSUME NEW p \in Pids, Reaped(p) PROVE Safe'
    BY <1>34 DEF Reaped, service, memory, call
  <1>35. ASSUME NEW p \in Pids, ForeignStarts(p) PROVE Safe'
    BY <1>35 DEF ForeignStarts, service, memory, call
  <1>36. ASSUME NEW p \in Pids, ForeignEnds(p) PROVE Safe'
    BY <1>36 DEF ForeignEnds, service, memory, call
  <1> QED
    BY <1>1, <1>2, <1>3, <1>4, <1>5, <1>6, <1>7, <1>8, <1>9, <1>10, <1>11, <1>12,
       <1>13, <1>14, <1>15, <1>16, <1>17, <1>18, <1>19, <1>20, <1>21, <1>22, <1>23,
       <1>24, <1>25, <1>26, <1>27, <1>28, <1>29, <1>30, <1>31, <1>32, <1>33, <1>34,
       <1>35, <1>36
       DEF Next, Requested, Progress, ServiceLife, Environment

LEMMA InvStep == Inv /\ [Next]_vars => Inv'
  BY TypeStep, SafeStep DEF Inv

THEOREM Invariance == SafeSpec => []Inv
  BY InitInv, InvStep, PTL DEF SafeSpec

-----------------------------------------------------------------------------
(* The properties of the specification. *)

\* Every variable keeps its type.
THEOREM TypeCorrect == SafeSpec => []TypeOK
  <1>1. Inv => TypeOK
    BY DEF Inv
  <1> QED
    BY <1>1, Invariance, PTL

\* No live core escapes the manager, but in the two ways the code leaves open.
THEOREM CoresAccounted == SafeSpec => []AccountedCores
  <1>1. Inv => AccountedCores
    BY DEF Inv
  <1> QED
    BY <1>1, Invariance, PTL

\* The service never has two cores alive: the core in the hands of a start and
\* an owned core exclude each other.
THEOREM AtMostOneCore == SafeSpec => []OneCore
  <1>1. Inv => OneCore
    BY DEF Inv, AccountedCores, StepFacts, OneCore
  <1> QED
    BY <1>1, Invariance, PTL

\* An answer "stopped" is true.
THEOREM StoppedIsTrue == SafeSpec => []StoppedMeansNoCore
  <1>1. Inv => StoppedMeansNoCore
    BY DEF Inv, StoppedHasNoOwner, AccountedCores, StoppedMeansNoCore
  <1> QED
    BY <1>1, Invariance, PTL

\* start never creates a child while an ownership is unverified, although it
\* does not look at `conflict`: a conflict always has an owner.
THEOREM VerifiedCreation == SafeSpec => CreatesOnlyVerified
  <1>1. Inv /\ [Next]_vars => [pc = "create" /\ pc' = "assign" => ~Refusing]_vars
    <2> SUFFICES ASSUME Inv, Next, pc = "create", pc' = "assign" PROVE ~Refusing
      OBVIOUS
    <2>1. StartCreate
      BY DEF Next, Requested, Progress, ServiceLife, Environment, Start, Stop, Reconcile,
             Status, ReconcileReadFails, ReconcileNoRecord, ReconcileRecord, ReconcileLive,
             ReconcileConflict, ReconcileNotLive, ReconcileForget, ReconcileForgetFails,
             StartRefused, StartFails, StartAssign, StartAssignFails, StartWrite,
             StartWriteFails, EmergencyStop, EmergencyStopFails, StopKill, StopKillFails,
             StopClear, StopClearFails, Boot, Shutdown, ShutdownStop, ShutdownClear, Exit,
             Crash, Ends, CoreExits, Reaped, ForeignStarts, ForeignEnds, call, Begin, Answer,
             Reply, At
    <2> QED
      BY <2>1 DEF StartCreate, Inv, StepFacts, ConflictHasOwner, Refusing
  <1> QED
    BY <1>1, Invariance, PTL DEF SafeSpec, CreatesOnlyVerified

\* stop and the emergency stop spare a program that got the PID of a dead core.
THEOREM ForeignSpared == SafeSpec => StopSparesForeign
  <1> DEFINE Spares == pc' # pc /\ pc \in {"kill", "emergency"}
                        => \A p \in Pids : proc[p] = "foreign" => proc'[p] = "foreign"
  <1>1. Inv /\ [Next]_vars => [Spares]_vars
    <2> SUFFICES ASSUME Inv, Next, pc' # pc, pc \in {"kill", "emergency"},
                        NEW p \in Pids, proc[p] = "foreign"
                 PROVE  proc'[p] = "foreign"
      OBVIOUS
    <2>1. EmergencyStop \/ EmergencyStopFails \/ StopKill \/ StopKillFails \/ Exit \/ Crash
      BY DEF Next, Requested, Progress, ServiceLife, Environment, Start, Stop, Reconcile,
             Status, ReconcileReadFails, ReconcileNoRecord, ReconcileRecord, ReconcileLive,
             ReconcileConflict, ReconcileNotLive, ReconcileForget, ReconcileForgetFails,
             StartRefused, StartFails, StartCreate, StartAssign, StartAssignFails,
             StartWrite, StartWriteFails, StopClear, StopClearFails, Boot, Shutdown,
             ShutdownStop, ShutdownClear, CoreExits, Reaped, ForeignStarts, ForeignEnds,
             call, Begin, Answer, Reply, At, Inv, DownIsEmpty
    <2>2. job \subseteq LiveCores /\ proc \in [Pids -> ProcKind]
      BY DEF Inv, JobHoldsCores, TypeOK
    <2>3. CASE EmergencyStop \/ StopKill
      BY <2>2, <2>3 DEF EmergencyStop, StopKill, RuntimeStops, Exits, host
    <2>4. CASE EmergencyStopFails \/ StopKillFails
      BY <2>4 DEF EmergencyStopFails, StopKillFails, RuntimeStopFails, host
    <2>5. CASE Exit \/ Crash
      BY <2>2, <2>5 DEF Exit, Crash, Ends, LiveCores
    <2> QED
      BY <2>1, <2>3, <2>4, <2>5
  <1> QED
    BY <1>1, Invariance, PTL DEF SafeSpec, StopSparesForeign
=============================================================================
