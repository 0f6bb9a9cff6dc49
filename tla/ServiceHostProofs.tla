-------------------------- MODULE ServiceHostProofs --------------------------
(* The service on its host: beside the forwarding keeper the session       *)
(* manager makes no step that it would not make alone, so what is proved   *)
(* of it holds of the composition.                                         *)
EXTENDS ServiceHost, ServiceManagerProofs

LEMMA ManagerStepIsStep == ManagerStep => Next
  BY DEF ManagerStep, Next, Requested, Progress, ServiceLife

LEMMA HostStepIsStep == [HostNext]_hostVars => [Next]_vars
  <1> SUFFICES ASSUME [HostNext]_hostVars PROVE [Next]_vars
    OBVIOUS
  <1>1. CASE UNCHANGED hostVars
    BY <1>1 DEF hostVars
  <1>2. CASE StartDone
    BY <1>2 DEF StartDone, Next, Progress
  <1>3. CASE StopDone
    BY <1>3 DEF StopDone, Next, Progress
  <1>4. CASE ManagerStep
    BY <1>4, ManagerStepIsStep
  <1>5. CASE ForwardingRequest \/ KeeperTick
    BY <1>5 DEF ForwardingRequest, KeeperTick
  <1>6. CASE HostBoot
    BY <1>6 DEF HostBoot, Next, ServiceLife
  <1>7. CASE HostClear
    BY <1>7 DEF HostClear, Next, ServiceLife
  <1>8. CASE HostExit \/ HostCrash
    BY <1>8 DEF HostExit, HostCrash, Next, ServiceLife
  <1>9. CASE HostEnvironment
    BY <1>9 DEF HostEnvironment, TunAppears, TunVanishes, UserForwards, Next, Environment
  <1> QED
    BY <1>1, <1>2, <1>3, <1>4, <1>5, <1>6, <1>7, <1>8, <1>9 DEF HostNext

\* The composition is a session manager: the keeper, which shares no mutex with
\* it, adds nothing to what it does.
THEOREM HostIsManager == HostSpec => SafeSpec
  <1>1. HostInit => Init
    BY DEF HostInit
  <1> QED
    BY <1>1, HostStepIsStep, PTL DEF HostSpec, SafeSpec

\* On its host too every live core is accounted for, there is one of them, and
\* an answer "stopped" is true.
THEOREM HostKeepsCores ==
    HostSpec => [](AccountedCores /\ OneCore /\ StoppedMeansNoCore)
  BY HostIsManager, CoresAccounted, AtMostOneCore, StoppedIsTrue, PTL

-----------------------------------------------------------------------------
(* Type correctness of the keeper. *)

LEMMA SlipType ==
    ASSUME slips \in 0 .. MaxSlips, NEW failed \in BOOLEAN, K!Slip(failed)
    PROVE  slips' \in 0 .. MaxSlips
  BY SlipsAssumption DEF K!Slip

LEMMA SyncType ==
    ASSUME K!KeeperTypeOK, NEW want \in Programs \cup {NoProgram}, NEW fails \in BOOLEAN,
           K!SyncFirewall(want, fails)
    PROVE  firewall' \in Programs \cup {NoProgram} /\ rules' \subseteq Programs
  <1>1. firewall' \in Programs \cup {NoProgram}
    BY DEF K!KeeperTypeOK, K!SyncFirewall
  <1>2. rules' \in {rules, {}, {want}} /\ (rules' = {want} => want # NoProgram \/ rules' = rules \/ rules' = {})
    BY DEF K!SyncFirewall
  <1> QED
    BY <1>1, <1>2 DEF K!KeeperTypeOK

\* Re-applying the desired state keeps the types, whatever fails.
LEMMA EnsureType ==
    ASSUME K!KeeperTypeOK, K!Ensure, desired' \in BOOLEAN, lanProxy' \in BOOLEAN,
           program' \in Programs \cup {NoProgram}
    PROVE  K!KeeperTypeOK'
  <1>1. PICK ruleFails \in BOOLEAN, listFails \in BOOLEAN, bad \in SUBSET (managed \cup K!Wanted) :
           /\ K!Slip(ruleFails \/ listFails \/ bad # {})
           /\ K!SyncFirewall(K!WantedProgram, ruleFails)
           /\ IF listFails
              THEN UNCHANGED <<managed, fwd>>
              ELSE /\ fwd' = K!Restore(K!Wanted, bad) \cup (K!Wanted \ bad)
                   /\ managed' = K!SwitchedOn(bad)
           /\ K!Owes
           /\ UNCHANGED usable
    BY DEF K!Ensure
  <1>2. slips' \in 0 .. MaxSlips
    <2>1. (ruleFails \/ listFails \/ bad # {}) \in BOOLEAN
      OBVIOUS
    <2> QED
      BY <1>1, <2>1, SlipType DEF K!KeeperTypeOK
  <1>3. firewall' \in Programs \cup {NoProgram} /\ rules' \subseteq Programs
    <2>1. K!WantedProgram \in Programs \cup {NoProgram}
      BY DEF K!WantedProgram
    <2> QED
      BY <1>1, <2>1, SyncType
  <1>4. K!Wanted \subseteq usable
    BY DEF K!Wanted
  <1>5. usable' = usable /\ managed' \subseteq K!Adapters /\ fwd' \subseteq Lans \cup usable
    BY <1>1, <1>4 DEF K!KeeperTypeOK, K!Restore, K!SwitchedOn
  <1>6. owed' \subseteq fwd'
    BY <1>1 DEF K!Owes
  <1> QED
    BY <1>2, <1>3, <1>5, <1>6 DEF K!KeeperTypeOK, K!Adapters

LEMMA ClearType == ASSUME K!KeeperTypeOK, K!ClearDevice PROVE K!KeeperTypeOK'
  <1>1. PICK ruleFails \in BOOLEAN, bad \in SUBSET managed :
           /\ K!Slip(ruleFails \/ bad # {})
           /\ fwd' = K!Restore({}, bad) /\ K!Owes
           /\ managed' = {}
           /\ K!SyncFirewall(NoProgram, ruleFails)
    BY DEF K!ClearDevice
  <1>2. slips' \in 0 .. MaxSlips
    <2>1. (ruleFails \/ bad # {}) \in BOOLEAN
      OBVIOUS
    <2> QED
      BY <1>1, <2>1, SlipType DEF K!KeeperTypeOK
  <1>3. firewall' \in Programs \cup {NoProgram} /\ rules' \subseteq Programs
    BY <1>1, SyncType
  <1> QED
    BY <1>1, <1>2, <1>3 DEF K!ClearDevice, K!Restore, K!Owes, K!KeeperTypeOK

LEMMA KeeperTypeStep ==
    ASSUME K!KeeperTypeOK, [HostNext]_hostVars
    PROVE  K!KeeperTypeOK'
  <1>1. CASE UNCHANGED forwarding
    BY <1>1 DEF forwarding, K!KeeperTypeOK, K!Adapters
  <1>2. CASE StartDone
    <2>1. PICK prog \in Programs : K!SetDevice(prog)
      BY <1>2 DEF StartDone
    <2> QED
      BY <2>1, EnsureType DEF K!SetDevice, K!KeeperTypeOK
  <1>3. CASE StopDone \/ HostClear
    BY <1>3, ClearType DEF StopDone, HostClear
  <1>4. CASE ForwardingRequest
    <2>1. ASSUME NEW on \in BOOLEAN, K!SetDesired(on) PROVE K!KeeperTypeOK'
      BY <2>1, EnsureType DEF K!SetDesired, K!KeeperTypeOK
    <2>2. ASSUME NEW on \in BOOLEAN, K!SetLANProxy(on) PROVE K!KeeperTypeOK'
      BY <2>2, EnsureType DEF K!SetLANProxy, K!KeeperTypeOK
    <2>3. CASE K!KeeperStatus
      BY <2>3, EnsureType DEF K!KeeperStatus, K!KeeperTypeOK
    <2> QED
      BY <1>4, <2>1, <2>2, <2>3 DEF ForwardingRequest
  <1>5. CASE KeeperTick
    BY <1>5, EnsureType DEF KeeperTick, K!Tick, K!KeeperTypeOK
  <1>6. CASE HostBoot
    <2>1. PICK fails \in BOOLEAN : K!Slip(fails) /\ rules' = IF fails THEN rules ELSE {}
      BY <1>6 DEF HostBoot, K!KeeperBoots
    <2>2. slips' \in 0 .. MaxSlips
      BY <2>1, SlipType DEF K!KeeperTypeOK
    <2> QED
      BY <1>6, <2>1, <2>2 DEF HostBoot, K!KeeperBoots, K!keeper, K!adapters, K!KeeperTypeOK, K!Adapters
  <1>7. CASE HostExit \/ HostCrash
    BY <1>7 DEF HostExit, HostCrash, K!KeeperEnds, K!adapters, K!KeeperTypeOK, K!Adapters
  <1>8. CASE HostEnvironment
    <2>1. ASSUME NEW a \in K!Adapters, K!AdapterUp(a) PROVE K!KeeperTypeOK'
      BY <2>1 DEF K!AdapterUp, K!keeper, K!KeeperTypeOK, K!Adapters
    <2>2. CASE K!AdapterDown(Tun)
      BY <2>2, TunAssumption DEF K!AdapterDown, K!keeper, K!KeeperTypeOK, K!Adapters
    <2>3. ASSUME NEW a \in K!Adapters, K!UserSwitches(a) PROVE K!KeeperTypeOK'
      BY <2>3 DEF K!UserSwitches, K!keeper, K!KeeperTypeOK, K!Adapters
    <2>4. Tun \in K!Adapters
      BY DEF K!Adapters
    <2>5. CASE TunAppears
      BY <2>1, <2>4, <2>5 DEF TunAppears
    <2>6. CASE TunVanishes
      BY <2>2, <2>6 DEF TunVanishes
    <2>7. CASE UserForwards
      BY <2>3, <2>7 DEF UserForwards
    <2> QED
      BY <1>1, <1>8, <2>5, <2>6, <2>7 DEF HostEnvironment
  <1> QED
    BY <1>1, <1>2, <1>3, <1>4, <1>5, <1>6, <1>7, <1>8
       DEF HostNext, ManagerStep, hostVars

LEMMA KeeperInitType == K!KeeperInit => K!KeeperTypeOK
  <1> SUFFICES ASSUME K!KeeperInit PROVE K!KeeperTypeOK
    OBVIOUS
  <1> USE DEF K!KeeperInit
  <1>1. desired \in BOOLEAN /\ lanProxy \in BOOLEAN
    BY Zenon
  <1>2. slips \in 0 .. MaxSlips
    BY SlipsAssumption
  <1>3. managed \subseteq K!Adapters /\ usable \subseteq K!Adapters
        /\ fwd \subseteq Lans \cup usable /\ owed \subseteq fwd /\ rules \subseteq Programs
    BY DEF K!Adapters
  <1> QED
    BY <1>1, <1>2, <1>3 DEF K!KeeperTypeOK

\* The history of the core told is a core and its executable.
ToldType == told \in [pid : Pids, program : Programs] \cup {None}

LEMMA ToldTypeStep ==
    ASSUME StepFacts, ToldType, [HostNext]_hostVars
    PROVE  ToldType'
  <1>1. ASSUME NEW latest \in [pid : Pids, program : Programs] \cup {None}, Recalls(latest)
        PROVE  ToldType'
    BY <1>1 DEF Recalls, ToldType
  <1>2. CASE StartDone
    <2>1. child \in Pids
      BY <1>2 DEF StartDone, StartWrite, At, StepFacts
    <2>2. PICK prog \in Programs : Recalls([pid |-> child, program |-> prog])
      BY <1>2 DEF StartDone
    <2> QED
      BY <1>1, <2>1, <2>2
  <1>3. CASE Recalls(told)
    BY <1>1, <1>3 DEF ToldType
  <1>4. CASE UNCHANGED told
    BY <1>4 DEF ToldType
  <1> QED
    BY <1>2, <1>3, <1>4
       DEF HostNext, hostVars, StopDone, ManagerStep, ForwardingRequest, KeeperTick, HostBoot,
           HostClear, HostExit, HostCrash, HostEnvironment, TunAppears, TunVanishes, UserForwards

\* The service and the keeper stay well-typed together.
THEOREM HostTypeCorrect == HostSpec => []HostTypeOK
  <1>1. HostInit => K!KeeperTypeOK /\ ToldType
    BY KeeperInitType DEF HostInit, ToldType
  <1>2. HostSpec => []K!KeeperTypeOK
    BY <1>1, KeeperTypeStep, PTL DEF HostSpec
  <1>3. SafeSpec => []StepFacts
    <2>1. Inv => StepFacts
      BY DEF Inv
    <2> QED
      BY <2>1, Invariance, PTL
  <1>4. HostSpec => []ToldType
    BY <1>1, <1>3, ToldTypeStep, HostIsManager, PTL DEF HostSpec
  <1>5. TypeOK /\ K!KeeperTypeOK /\ ToldType => HostTypeOK
    BY DEF HostTypeOK, ToldType
  <1> QED
    BY <1>2, <1>4, <1>5, HostIsManager, TypeCorrect, PTL

-----------------------------------------------------------------------------
(* The core the keeper was told of. *)

\* No operation of the manager gives up a core before it is dead.
LEMMA ManagerKeepsTold ==
    ASSUME Inv, ToldIsOwned, told # None, told.pid \in Pids, ManagerStep,
           proc'[told.pid] = "core"
    PROVE  /\ told.pid \notin leaked'
           /\ pc' \notin {"assign", "write", "emergency"}
           /\ svc' = "serving" => svc = "serving"
  <1>1. /\ told.pid \in LiveCores \ leaked
        /\ pc \notin {"assign", "write", "emergency"}
        /\ owned # None
    BY DEF ToldIsOwned, Inv, AccountedCores
  <1> USE DEF At, up, service, host, Goto, Reply
  <1>2. CASE Requested
    BY <1>1, <1>2 DEF Requested, Start, Stop, Reconcile, Status, Begin, Answer
  <1>3. CASE \/ ReconcileReadFails \/ ReconcileNoRecord \/ ReconcileRecord
             \/ ReconcileLive \/ ReconcileConflict \/ ReconcileNotLive
             \/ ReconcileForget \/ ReconcileForgetFails
    BY <1>1, <1>3
       DEF ReconcileReadFails, ReconcileNoRecord, ReconcileRecord, ReconcileLive,
           ReconcileConflict, ReconcileNotLive, ReconcileForget, ReconcileForgetFails, EndReconcile
  <1>4. CASE StartRefused \/ StartFails \/ StartCreate
    BY <1>1, <1>4 DEF StartRefused, StartFails, StartCreate
  <1>5. CASE \/ StartAssign \/ StartAssignFails \/ StartWriteFails
             \/ EmergencyStop \/ EmergencyStopFails
    BY <1>1, <1>5 DEF StartAssign, StartAssignFails, StartWriteFails, EmergencyStop, EmergencyStopFails
  <1>6. CASE StopKill \/ StopKillFails \/ StopClearFails
    BY <1>1, <1>6 DEF StopKill, StopKillFails, StopClearFails, RuntimeStops, RuntimeStopFails,
                      Exits, StopReply
  <1>7. CASE Shutdown
    BY <1>1, <1>7 DEF Shutdown, call
  <1>8. CASE ShutdownStop
    BY <1>1, <1>8 DEF ShutdownStop, Begin, Answer
  <1> QED
    BY <1>2, <1>3, <1>4, <1>5, <1>6, <1>7, <1>8 DEF ManagerStep

LEMMA ToldStep ==
    ASSUME Inv, ToldType, ToldIsOwned, [HostNext]_hostVars
    PROVE  ToldIsOwned'
  <1> SUFFICES ASSUME told' # None
               PROVE  /\ told'.pid \in LiveCores' \ leaked'
                      /\ pc' \notin {"assign", "write", "emergency"}
                      /\ svc' = "serving" => program' = told'.program
    BY DEF ToldIsOwned
  <1> USE DEF Recalls, LiveCores
  <1>1. CASE StartDone
    <2>1. PICK prog \in Programs : K!SetDevice(prog) /\ Recalls([pid |-> child, program |-> prog])
      BY <1>1 DEF StartDone
    <2>2. told' = [pid |-> child, program |-> prog] /\ proc'[child] = "core" /\ program' = prog
      BY <2>1 DEF K!SetDevice
    <2>3. child \in Pids \ leaked /\ pc' = "idle" /\ leaked' = leaked
      BY <1>1 DEF StartDone, StartWrite, At, Reply, host, Inv, StepFacts
    <2> QED
      BY <2>2, <2>3
  <1>2. ASSUME Recalls(told)
        PROVE  told' = told /\ told # None /\ told.pid \in Pids /\ proc'[told.pid] = "core"
               /\ svc' # "down"
    BY <1>2 DEF ToldType
  <1>3. CASE StopDone
    <2>1. owned.pid \notin LiveCores /\ pc = "clear"
      BY <1>3 DEF StopDone, StopClear, At, Inv, StepFacts
    <2>2. told # None
      BY <1>2, <1>3 DEF StopDone
    <2> QED
      BY <2>1, <2>2 DEF ToldIsOwned, Inv, AccountedCores
  <1>4. CASE ManagerStep
    <2>1. UNCHANGED program /\ Recalls(told)
      BY <1>4 DEF ManagerStep, forwarding
    <2> QED
      BY <1>2, <1>4, <2>1, ManagerKeepsTold DEF ToldIsOwned
  <1>5. CASE ForwardingRequest \/ KeeperTick
    <2>1. UNCHANGED <<vars, told, program>>
      BY <1>5 DEF ForwardingRequest, KeeperTick, K!SetDesired, K!SetLANProxy, K!KeeperStatus, K!Tick
    <2> QED
      BY <2>1 DEF ToldIsOwned, vars, service, host, call
  <1>6. CASE HostBoot
    <2>1. told # None /\ svc = "down"
      BY <1>2, <1>6 DEF HostBoot, Boot
    <2> QED
      BY <2>1 DEF ToldIsOwned, Inv, DownIsEmpty, JobHoldsCores
  <1>7. CASE HostClear
    <2>1. UNCHANGED <<host, call>> /\ svc' = "cleared" /\ Recalls(told)
      BY <1>7 DEF HostClear, ShutdownClear
    <2> QED
      BY <1>2, <2>1 DEF ToldIsOwned, host, call
  <1>8. CASE HostExit \/ HostCrash
    BY <1>2, <1>8 DEF HostExit, HostCrash, Exit, Crash, Ends
  <1>9. CASE HostEnvironment
    <2>1. CASE UNCHANGED <<vars, told, program>>
      BY <2>1 DEF ToldIsOwned, vars, service, host, call
    <2>2. ASSUME NEW p \in Pids, CoreExits(p) \/ Reaped(p), UNCHANGED forwarding, Recalls(told)
          PROVE  /\ told'.pid \in LiveCores' \ leaked'
                 /\ pc' \notin {"assign", "write", "emergency"}
                 /\ svc' = "serving" => program' = told'.program
      <3>1. leaked' \subseteq leaked /\ UNCHANGED <<svc, pc, program>>
        BY <2>2 DEF CoreExits, Exits, Reaped, service, call, forwarding
      <3> QED
        BY <1>2, <2>2, <3>1 DEF ToldIsOwned
    <2> QED
      BY <1>9, <2>1, <2>2
         DEF HostEnvironment, TunAppears, TunVanishes, UserForwards, K!AdapterUp, K!AdapterDown,
             K!UserSwitches, K!keeper
  <1>10. CASE UNCHANGED hostVars
    BY <1>10 DEF ToldIsOwned, hostVars, vars, service, host, call, forwarding
  <1> QED
    BY <1>1, <1>3, <1>4, <1>5, <1>6, <1>7, <1>8, <1>9, <1>10 DEF HostNext

-----------------------------------------------------------------------------
(* What the keeper believes, and what the host really has. *)

\* What every operation of the keeper that re-applies the desired state, or
\* clears the device, does to the rule when no call fails.
Applied(want) ==
    slips' = 0 => /\ slips = 0
                  /\ firewall' = want
                  /\ rules' = IF want = firewall THEN rules
                              ELSE IF want # NoProgram THEN {want} ELSE {}

LEMMA SlipIsNoted ==
    ASSUME slips \in 0 .. MaxSlips, NEW failed \in BOOLEAN, K!Slip(failed), slips' = 0
    PROVE  slips = 0 /\ ~failed
  BY SlipsAssumption DEF K!Slip

LEMMA EnsureApplies ==
    ASSUME slips \in 0 .. MaxSlips, K!Ensure
    PROVE  Applied(K!WantedProgram)
  <1> SUFFICES ASSUME slips' = 0 PROVE Applied(K!WantedProgram)
    BY DEF Applied
  <1>1. PICK ruleFails \in BOOLEAN, listFails \in BOOLEAN, bad \in SUBSET (managed \cup K!Wanted) :
           K!Slip(ruleFails \/ listFails \/ bad # {}) /\ K!SyncFirewall(K!WantedProgram, ruleFails)
    BY DEF K!Ensure
  <1>2. slips = 0 /\ ~ruleFails
    <2>1. (ruleFails \/ listFails \/ bad # {}) \in BOOLEAN
      OBVIOUS
    <2> QED
      BY <1>1, <2>1, SlipIsNoted
  <1> QED
    BY <1>1, <1>2 DEF Applied, K!SyncFirewall

LEMMA ClearApplies ==
    ASSUME slips \in 0 .. MaxSlips, K!ClearDevice
    PROVE  Applied(NoProgram)
  <1> SUFFICES ASSUME slips' = 0 PROVE Applied(NoProgram)
    BY DEF Applied
  <1>1. PICK ruleFails \in BOOLEAN, bad \in SUBSET managed :
           K!Slip(ruleFails \/ bad # {}) /\ K!SyncFirewall(NoProgram, ruleFails)
    BY DEF K!ClearDevice
  <1>2. slips = 0 /\ ~ruleFails
    <2>1. (ruleFails \/ bad # {}) \in BOOLEAN
      OBVIOUS
    <2> QED
      BY <1>1, <2>1, SlipIsNoted
  <1> QED
    BY <1>1, <1>2 DEF Applied, K!SyncFirewall

\* Without a program nothing is wanted: all that was switched on goes off, and
\* no adapter has to be listed for it.
LEMMA EnsureHoldsNothing ==
    ASSUME K!Ensure, program' = NoProgram
    PROVE  managed' = {} /\ firewall' = NoProgram
  <1>1. K!Wanted = {} /\ K!WantedProgram = NoProgram
    BY DEF K!Wanted, K!WantedProgram
  <1>2. PICK ruleFails \in BOOLEAN, listFails \in BOOLEAN, bad \in SUBSET (managed \cup K!Wanted) :
           /\ listFails => program' # NoProgram
           /\ K!SyncFirewall(K!WantedProgram, ruleFails)
           /\ ~listFails => managed' = K!SwitchedOn(bad)
    BY DEF K!Ensure
  <1>3. managed' = {}
    BY <1>1, <1>2 DEF K!SwitchedOn
  <1>4. firewall' = NoProgram
    BY <1>1, <1>2 DEF K!SyncFirewall
  <1> QED
    BY <1>3, <1>4

LEMMA ClearHoldsNothing ==
    ASSUME K!ClearDevice
    PROVE  program' = NoProgram /\ managed' = {} /\ firewall' = NoProgram
  BY DEF K!ClearDevice, K!SyncFirewall

\* An operation that does not fail remembers what it switches on and switches off
\* what it forgets.
LEMMA EnsureKnows ==
    ASSUME slips \in 0 .. MaxSlips, OwedIsKnown, K!Ensure
    PROVE  OwedIsKnown'
  <1> SUFFICES ASSUME slips' = 0 PROVE owed' \subseteq managed'
    BY DEF OwedIsKnown
  <1>1. PICK ruleFails \in BOOLEAN, listFails \in BOOLEAN, bad \in SUBSET (managed \cup K!Wanted) :
           /\ K!Slip(ruleFails \/ listFails \/ bad # {})
           /\ ~listFails => /\ fwd' = K!Restore(K!Wanted, bad) \cup (K!Wanted \ bad)
                            /\ managed' = K!SwitchedOn(bad)
           /\ K!Owes
    BY DEF K!Ensure
  <1>2. slips = 0 /\ ~listFails /\ bad = {}
    <2>1. (ruleFails \/ listFails \/ bad # {}) \in BOOLEAN
      OBVIOUS
    <2> QED
      BY <1>1, <2>1, SlipIsNoted
  <1>3. /\ fwd' = (fwd \ (managed \ K!Wanted)) \cup K!Wanted
        /\ managed' = (managed \cap K!Wanted) \cup (K!Wanted \ fwd)
    BY <1>1, <1>2 DEF K!Restore, K!SwitchedOn
  <1> QED
    BY <1>1, <1>2, <1>3 DEF K!Owes, OwedIsKnown

LEMMA ClearKnows ==
    ASSUME slips \in 0 .. MaxSlips, OwedIsKnown, K!ClearDevice
    PROVE  OwedIsKnown'
  <1> SUFFICES ASSUME slips' = 0 PROVE owed' = {}
    BY DEF OwedIsKnown
  <1>1. PICK ruleFails \in BOOLEAN, bad \in SUBSET managed :
           K!Slip(ruleFails \/ bad # {}) /\ fwd' = K!Restore({}, bad) /\ K!Owes
    BY DEF K!ClearDevice
  <1>2. slips = 0 /\ bad = {}
    <2>1. (ruleFails \/ bad # {}) \in BOOLEAN
      OBVIOUS
    <2> QED
      BY <1>1, <2>1, SlipIsNoted
  <1> QED
    BY <1>1, <1>2 DEF K!Restore, K!Owes, OwedIsKnown

\* An operation that re-applies the desired state of a service that runs.
LEMMA EnsureKeeps ==
    ASSUME HostInv, K!KeeperTypeOK', up, UNCHANGED svc,
           K!Ensure, program' \in Programs \cup {NoProgram}
    PROVE  Belief' /\ TrueBelief' /\ NothingHeld' /\ Quiescent' /\ OwedIsKnown'
  <1>1. Applied(K!WantedProgram)
    BY EnsureApplies DEF HostInv, HostTypeOK, K!KeeperTypeOK
  <1>2. Belief'
    BY <1>1 DEF Applied, Belief, K!WantedProgram
  <1>3. TrueBelief'
    <2> SUFFICES ASSUME slips' = 0 PROVE rules' = {firewall'} \ {NoProgram}
      BY DEF TrueBelief
    <2>1. rules = {firewall} \ {NoProgram}
      BY <1>1 DEF Applied, HostInv, TrueBelief
    <2> QED
      BY <1>1, <2>1 DEF Applied
  <1>4. NothingHeld'
    BY EnsureHoldsNothing DEF NothingHeld
  <1>5. OwedIsKnown'
    BY EnsureKnows DEF HostInv, HostTypeOK, K!KeeperTypeOK
  <1> QED
    BY <1>2, <1>3, <1>4, <1>5 DEF Quiescent, up

LEMMA ClearKeeps ==
    ASSUME HostInv, up, up', K!ClearDevice
    PROVE  Belief' /\ TrueBelief' /\ NothingHeld' /\ Quiescent' /\ OwedIsKnown'
  <1>1. Applied(NoProgram)
    BY ClearApplies DEF HostInv, HostTypeOK, K!KeeperTypeOK
  <1>2. program' = NoProgram /\ managed' = {} /\ firewall' = NoProgram
    BY ClearHoldsNothing
  <1>3. TrueBelief'
    <2> SUFFICES ASSUME slips' = 0 PROVE rules' = {}
      BY <1>2 DEF TrueBelief
    <2>1. rules = {firewall} \ {NoProgram}
      BY <1>1 DEF Applied, HostInv, TrueBelief
    <2> QED
      BY <1>1, <2>1 DEF Applied
  <1>4. OwedIsKnown'
    BY ClearKnows DEF HostInv, HostTypeOK, K!KeeperTypeOK
  <1> QED
    BY <1>2, <1>3, <1>4 DEF Belief, NothingHeld, Quiescent

\* What a step that leaves the keeper alone must not do is bring the service up.
LEMMA ForwardingUntouched ==
    ASSUME HostInv, UNCHANGED forwarding, up' <=> up
    PROVE  Belief' /\ TrueBelief' /\ NothingHeld' /\ Quiescent' /\ OwedIsKnown'
  BY DEF HostInv, Belief, TrueBelief, NothingHeld, Quiescent, OwedIsKnown, forwarding

\* Only a boot brings the service up, only its end takes it down.
LEMMA ManagerStaysUp ==
    ASSUME DownIsEmpty, ManagerStep
    PROVE  up' <=> up
  <1> USE DEF up, service
  <1>1. CASE Requested
    <2>1. UNCHANGED svc
      BY <1>1 DEF Requested, Start, Stop, Reconcile, Status
    <2> QED
      BY <2>1
  <1>2. CASE \/ ReconcileReadFails \/ ReconcileNoRecord \/ ReconcileRecord
             \/ ReconcileLive \/ ReconcileConflict \/ ReconcileNotLive
             \/ ReconcileForget \/ ReconcileForgetFails
    <2>1. UNCHANGED svc
      BY <1>2 DEF ReconcileReadFails, ReconcileNoRecord, ReconcileRecord, ReconcileLive,
                  ReconcileConflict, ReconcileNotLive, ReconcileForget, ReconcileForgetFails
    <2> QED
      BY <2>1
  <1>3. CASE \/ StartRefused \/ StartFails \/ StartCreate \/ StartAssign
             \/ StartAssignFails \/ StartWriteFails \/ EmergencyStop \/ EmergencyStopFails
    <2>1. UNCHANGED svc
      BY <1>3 DEF StartRefused, StartFails, StartCreate, StartAssign, StartAssignFails,
                  StartWriteFails, EmergencyStop, EmergencyStopFails
    <2> QED
      BY <2>1
  <1>4. CASE StopKill \/ Shutdown \/ ShutdownStop
    BY <1>4 DEF StopKill, Shutdown, ShutdownStop
  <1>5. CASE StopKillFails \/ StopClearFails
    <2>1. svc' = "closed" \/ svc' = svc
      BY <1>5 DEF StopKillFails, StopClearFails, StopReply
    <2>2. svc # "down"
      BY <1>5 DEF StopKillFails, StopClearFails, At, DownIsEmpty
    <2> QED
      BY <2>1, <2>2
  <1> QED
    BY <1>1, <1>2, <1>3, <1>4, <1>5 DEF ManagerStep

LEMMA HostStep ==
    ASSUME Inv, HostInv, [HostNext]_hostVars
    PROVE  HostInv'
  <1>1. Inv'
    BY HostStepIsStep, InvStep
  <1>2. HostTypeOK' /\ ToldIsOwned'
    BY <1>1, KeeperTypeStep, ToldTypeStep, ToldStep DEF Inv, HostTypeOK, HostInv, ToldType
  <1>3. K!KeeperTypeOK /\ K!KeeperTypeOK' /\ DownIsEmpty
    BY <1>2 DEF HostInv, HostTypeOK, Inv
  <1> SUFFICES Belief' /\ TrueBelief' /\ NothingHeld' /\ Quiescent' /\ OwedIsKnown'
    BY <1>2 DEF HostInv
  <1>4. CASE UNCHANGED hostVars
    BY <1>4, ForwardingUntouched DEF hostVars, vars, service, up
  <1>5. CASE StartDone
    <2>1. PICK prog \in Programs : K!SetDevice(prog)
      BY <1>5 DEF StartDone
    <2>2. up /\ UNCHANGED svc
      BY <1>3, <1>5 DEF StartDone, StartWrite, At, DownIsEmpty, up, service
    <2> QED
      BY <1>3, <2>1, <2>2, EnsureKeeps DEF K!SetDevice
  <1>6. CASE StopDone
    <2>1. up /\ up'
      BY <1>3, <1>6 DEF StopDone, StopClear, StopReply, At, DownIsEmpty, up
    <2> QED
      BY <1>6, <2>1, ClearKeeps DEF StopDone
  <1>7. CASE ManagerStep
    BY <1>3, <1>7, ManagerStaysUp, ForwardingUntouched DEF ManagerStep
  <1>8. CASE ForwardingRequest
    <2>1. up /\ UNCHANGED svc /\ program \in Programs \cup {NoProgram}
      BY <1>3, <1>8 DEF ForwardingRequest, vars, service, K!KeeperTypeOK
    <2>2. K!Ensure /\ UNCHANGED program
      BY <1>8 DEF ForwardingRequest, K!SetDesired, K!SetLANProxy, K!KeeperStatus
    <2> QED
      BY <1>3, <2>1, <2>2, EnsureKeeps
  <1>9. CASE KeeperTick
    <2>1. up /\ UNCHANGED svc /\ program \in Programs \cup {NoProgram}
      BY <1>3, <1>9 DEF KeeperTick, vars, service, up, K!KeeperTypeOK
    <2> QED
      BY <1>3, <1>9, <2>1, EnsureKeeps DEF KeeperTick, K!Tick
  <1>10. CASE HostBoot
    <2>1. ~up /\ UNCHANGED <<desired, lanProxy, program, managed, firewall, owed>>
      BY <1>10 DEF HostBoot, Boot, up, K!KeeperBoots, K!keeper, K!adapters
    <2>2. program = NoProgram /\ firewall = NoProgram
      BY <2>1 DEF HostInv, Quiescent, NothingHeld
    <2>3. PICK fails \in BOOLEAN : K!Slip(fails) /\ rules' = IF fails THEN rules ELSE {}
      BY <1>10 DEF HostBoot, K!KeeperBoots
    <2>4. slips' = 0 => slips = 0 /\ rules' = {}
      BY <1>3, <2>3, SlipIsNoted DEF K!KeeperTypeOK
    <2> QED
      BY <2>1, <2>2, <2>4 DEF HostInv, Belief, TrueBelief, NothingHeld, Quiescent, OwedIsKnown
  <1>11. CASE HostClear
    <2>1. up /\ up'
      BY <1>11 DEF HostClear, ShutdownClear, up
    <2> QED
      BY <1>11, <2>1, ClearKeeps DEF HostClear
  <1>12. CASE HostExit \/ HostCrash
    <2>1. ~up' /\ K!KeeperEnds
      BY <1>12 DEF HostExit, HostCrash, Exit, Crash, Ends, up
    <2> QED
      BY <2>1 DEF K!KeeperEnds, Belief, TrueBelief, NothingHeld, Quiescent, OwedIsKnown
  <1>13. CASE HostEnvironment
    <2>0. owed' \subseteq owed
      BY <1>13 DEF HostEnvironment, TunAppears, TunVanishes, UserForwards,
                   forwarding, K!AdapterUp, K!AdapterDown, K!UserSwitches
    <2>1. UNCHANGED <<svc, desired, lanProxy, program, managed, firewall, rules, slips>>
      BY <1>13 DEF HostEnvironment, CoreExits, Reaped, TunAppears, TunVanishes, UserForwards,
                   vars, service, forwarding, K!AdapterUp, K!AdapterDown, K!UserSwitches, K!keeper
    <2> QED
      BY <2>0, <2>1 DEF HostInv, Belief, TrueBelief, NothingHeld, Quiescent, OwedIsKnown, up
  <1> QED
    BY <1>4, <1>5, <1>6, <1>7, <1>8, <1>9, <1>10, <1>11, <1>12, <1>13 DEF HostNext

LEMMA HostInitInv == HostInit => HostInv
  <1> SUFFICES ASSUME HostInit PROVE HostInv
    OBVIOUS
  <1>1. HostTypeOK
    BY InitInv, KeeperInitType DEF HostInit, HostTypeOK, Inv
  <1>2. /\ program = NoProgram /\ firewall = NoProgram /\ managed = {} /\ rules = {} /\ owed = {}
        /\ told = None
    BY DEF HostInit, K!KeeperInit
  <1> QED
    BY <1>1, <1>2
       DEF HostInv, Belief, TrueBelief, NothingHeld, Quiescent, OwedIsKnown, ToldIsOwned

\* The keeper and the host agree in every reachable state.
THEOREM HostInvariance == HostSpec => []HostInv
  <1>1. SafeSpec => []Inv
    BY Invariance
  <1>2. Inv /\ HostInv /\ [HostNext]_hostVars => HostInv'
    BY HostStep
  <1> QED
    BY <1>1, <1>2, HostInitInv, HostIsManager, PTL DEF HostSpec

\* Whatever the order of starts, stops, exits, switches, restarts and crashes, and
\* as long as no call to the host has failed: while the core the keeper was told of
\* lives and the service serves, the host lets in traffic for that core's
\* executable exactly while it is asked to, and it never does for another one than
\* the keeper was last told of, nor when nobody asks.
THEOREM RuleFollows == HostSpec => []RuleFollowsCore
  <1>1. HostInv => RuleFollowsCore
    <2> SUFFICES ASSUME HostInv, up, slips = 0
                 PROVE  /\ rules \subseteq {program}
                        /\ ~desired /\ ~lanProxy => rules = {}
                        /\ svc = "serving" /\ told # None /\ (desired \/ lanProxy)
                              => rules = {told.program}
      BY DEF RuleFollowsCore
    <2>1. rules = {IF desired \/ lanProxy THEN program ELSE NoProgram} \ {NoProgram}
      BY DEF HostInv, Belief, TrueBelief
    <2>2. ASSUME svc = "serving", told # None
          PROVE  program = told.program /\ program # NoProgram
      BY <2>2, ProgramAssumption DEF HostInv, HostTypeOK, ToldIsOwned
    <2> QED
      BY <2>1, <2>2
  <1> QED
    BY <1>1, HostInvariance, PTL

\* As long as no call has failed, every adapter that forwards on the service's
\* account is one it will switch off.
THEOREM OwedStaysKnown == HostSpec => []OwedIsKnown
  <1>1. HostInv => OwedIsKnown
    BY DEF HostInv
  <1> QED
    BY <1>1, HostInvariance, PTL

\* After an orderly exit without a late start the keeper holds nothing; when no
\* call has failed, no adapter forwards on its account and no inbound rule is open.
THEOREM CleanExit == HostSpec => ExitLeavesNothing
  <1> DEFINE Clean == HostExit /\ program = NoProgram
                        => /\ managed = {} /\ firewall = NoProgram
                           /\ slips = 0 => owed = {} /\ rules' = {}
  <1>1. HostInv => [Clean]_hostVars
    <2> SUFFICES ASSUME HostInv, HostExit, program = NoProgram
                 PROVE  /\ managed = {} /\ firewall = NoProgram
                        /\ slips = 0 => owed = {} /\ rules' = {}
      OBVIOUS
    <2>1. up /\ rules' = rules
      BY DEF HostExit, Exit, up, K!KeeperEnds
    <2> QED
      BY <2>1 DEF HostInv, TrueBelief, NothingHeld, OwedIsKnown
  <1> QED
    BY <1>1, HostInvariance, PTL DEF ExitLeavesNothing
=============================================================================
