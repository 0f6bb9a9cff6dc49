---------------------------- MODULE ServiceHost ----------------------------
(***************************************************************************)
(* The LocalSystem service as it runs on a host: the session manager and   *)
(* the forwarding keeper it calls.  The manager tells the keeper which     *)
(* core runs (SetDevice at the end of a start, ClearDevice at the end of a *)
(* stop and of the shutdown); forwarding requests and the keeper's         *)
(* three-second tick do not take the manager's mutex and may fall between  *)
(* any two steps of a lifecycle operation.                                 *)
(***************************************************************************)
EXTENDS ServiceManager

CONSTANTS Lans, Tun, Programs, NoProgram, MaxSlips,
          MaxFailures   \* bound on faults and slips together

ASSUME TunAssumption == Tun \notin Lans
ASSUME ToldAssumption == None \notin [pid : Pids, program : Programs]
ASSUME ProgramAssumption == NoProgram \notin Programs
ASSUME SlipsAssumption == MaxSlips \in Nat /\ MaxFailures \in Nat

VARIABLES desired, lanProxy, program, managed, firewall,
          usable, fwd, owed, rules, slips,
          told   \* history: the last core SetDevice was called for, while it lives

K == INSTANCE ForwardingKeeper

forwarding == <<desired, lanProxy, program, managed, firewall,
                usable, fwd, owed, rules, slips>>
hostVars == <<vars, forwarding, told>>

HostTypeOK ==
    /\ TypeOK /\ K!KeeperTypeOK
    /\ told \in [pid : Pids, program : Programs] \cup {None}

HostInit == Init /\ K!KeeperInit /\ told = None

-----------------------------------------------------------------------------

Bounded == faults' + slips' <= MaxFailures

\* The history ends with the core, or with the service.
Recalls(latest) ==
    told' = IF latest # None /\ proc'[latest.pid] = "core" /\ svc' # "down" THEN latest ELSE None

\* start: the keeper learns the TUN device of the profile and the executable.
StartDone ==
    /\ StartWrite
    /\ \E prog \in Programs :
          K!SetDevice(prog) /\ Recalls([pid |-> child, program |-> prog])
    /\ Bounded

StopDone == StopClear /\ K!ClearDevice /\ Bounded /\ Recalls(told)

\* What else a lifecycle operation does leaves the keeper alone.
ManagerStep ==
    /\ \/ Requested
       \/ ReconcileReadFails \/ ReconcileNoRecord \/ ReconcileRecord
       \/ ReconcileLive \/ ReconcileConflict \/ ReconcileNotLive
       \/ ReconcileForget \/ ReconcileForgetFails
       \/ StartRefused \/ StartFails \/ StartCreate
       \/ StartAssign \/ StartAssignFails
       \/ StartWriteFails \/ EmergencyStop \/ EmergencyStopFails
       \/ StopKill \/ StopKillFails \/ StopClearFails
       \/ Shutdown \/ ShutdownStop
    /\ UNCHANGED forwarding
    /\ Bounded /\ Recalls(told)

\* applyForwarding and Run: neither takes the manager's mutex.  The ticker is
\* stopped when the shutdown begins.
ForwardingRequest ==
    /\ up
    /\ \/ \E on \in BOOLEAN : K!SetDesired(on) \/ K!SetLANProxy(on)
       \/ K!KeeperStatus
    /\ UNCHANGED <<vars, told>>
    /\ Bounded

KeeperTick == svc = "serving" /\ K!Tick /\ UNCHANGED <<vars, told>> /\ Bounded

HostBoot  == Boot /\ K!KeeperBoots /\ Bounded /\ Recalls(told)
HostClear == ShutdownClear /\ K!ClearDevice /\ Bounded /\ Recalls(told)
HostExit  == Exit /\ K!KeeperEnds /\ Recalls(told)
HostCrash == Crash /\ K!KeeperEnds /\ Bounded /\ Recalls(told)

\* Only a running core has a TUN adapter.
TunAppears   == LiveCores # {} /\ K!AdapterUp(Tun) /\ UNCHANGED <<vars, told>>
TunVanishes  == K!AdapterDown(Tun) /\ UNCHANGED <<vars, told>>
UserForwards == \E a \in K!Adapters : K!UserSwitches(a) /\ UNCHANGED <<vars, told>>

HostEnvironment ==
    \/ (\E p \in Pids : CoreExits(p) \/ Reaped(p)) /\ UNCHANGED forwarding /\ Recalls(told)
    \/ TunAppears \/ TunVanishes \/ UserForwards

HostNext ==
    \/ StartDone \/ StopDone \/ ManagerStep
    \/ ForwardingRequest \/ KeeperTick
    \/ HostBoot \/ HostClear \/ HostExit \/ HostCrash
    \/ HostEnvironment

(***************************************************************************)
(* The service makes its own steps, its ticker ticks, and an adapter does  *)
(* not outlive its core; the stop of the shutdown waits for the mutex.     *)
(***************************************************************************)
HostFairness ==
    /\ WF_hostVars(StartDone \/ StopDone \/ (Progress /\ ManagerStep))
    /\ WF_hostVars(HostClear \/ HostExit)
    /\ SF_hostVars(ShutdownStop /\ ManagerStep)
    /\ WF_hostVars(KeeperTick)
    /\ WF_hostVars(LiveCores = {} /\ TunVanishes)

HostSpec == HostInit /\ [][HostNext]_hostVars /\ HostFairness

\* Even with a client that reconciled for ever; the desktop client polls only
\* while its own status says that a core runs.
PolledHostSpec == HostSpec /\ SF_hostVars(Reconcile /\ ManagerStep)

-----------------------------------------------------------------------------
(* Properties. *)

\* Forwarding never outlives the core that needed it: whatever the keeper
\* switched on is switched off again once the core is gone, also when the core
\* died by itself and nobody asked for a stop.
ForwardingEndsWithCore ==
    managed # {} ~> (managed = {} \/ LiveCores # {})

\* While gateway mode is wanted, the keeper re-applies it to an adapter the
\* core has recreated or the user has switched off.
ForwardingReapplied ==
    (Tun \in usable /\ Tun \notin fwd)
        ~> (Tun \in fwd \/ Tun \notin usable \/ ~desired \/ program = NoProgram)

\* "The inbound rule exactly while gateway mode or allow-lan is wanted and a core
\* is running" (forwarding.go), as far as it is kept.  Through changes of the two
\* wishes, starts, stops, restarts of the service and its crashes, and as long as
\* no call to the host has failed: nothing is open when nobody asks, nothing but
\* the executable the keeper was last told of is ever open, and while the core it
\* was told of lives, and the service serves, the rule is open for that core's
\* executable whenever somebody asks.  That the rule also goes when that core dies
\* by itself is RuleEndsWithCore; a core that only a reconcile has taken over was
\* never told to the keeper.
RuleFollowsCore ==
    up /\ slips = 0 =>
        /\ rules \subseteq {program}
        /\ ~desired /\ ~lanProxy => rules = {}
        /\ svc = "serving" /\ told # None /\ (desired \/ lanProxy) => rules = {told.program}

\* What the service has switched on and not off again it still knows of, as long
\* as no call to the host has failed: nobody else will switch it off.
OwedIsKnown == slips = 0 => owed \subseteq managed

\* "Never leave the host forwarding after the service is gone": after an orderly
\* exit the keeper holds nothing, and unless a call to the host has failed no
\* adapter forwards on the service's account and its rule is closed.  (A start
\* accepted before the listener closed may complete after the shutdown cleared
\* the device.)
ExitLeavesNothing ==
    [][HostExit /\ program = NoProgram
         => /\ managed = {} /\ firewall = NoProgram
            /\ slips = 0 => owed = {} /\ rules' = {}]_hostVars

\* The strengthening that is inductive.  The keeper believes what it has asked
\* for, running or not; what it believes of the rule is true while it runs; and
\* without a core it holds nothing on.
Belief     == slips = 0 => firewall = IF desired \/ lanProxy THEN program ELSE NoProgram
TrueBelief == up /\ slips = 0 => rules = {firewall} \ {NoProgram}
NothingHeld == program = NoProgram => managed = {} /\ firewall = NoProgram
Quiescent  == ~up => program = NoProgram

\* The core the keeper was told of is the one the manager owns, and no operation
\* of the manager gives it up before it is dead: the keeper still knows it.
ToldIsOwned ==
    told # None =>
        /\ told.pid \in LiveCores \ leaked
        /\ pc \notin {"assign", "write", "emergency"}
        /\ svc = "serving" => program = told.program

HostInv ==
    /\ HostTypeOK /\ Belief /\ TrueBelief /\ NothingHeld /\ Quiescent /\ OwedIsKnown
    /\ ToldIsOwned

\* "syncFirewallLocked keeps the inbound rule exactly while [gateway mode] or
\* allow-lan is wanted and a core is running" (forwarding.go): while the service
\* runs, an open rule is closed again, or a core comes back.
RuleEndsWithCore ==
    (rules # {} /\ svc = "serving")
        ~> (rules = {} \/ LiveCores # {} \/ svc # "serving")

=============================================================================
