---------------------------- MODULE TunCoordinator ----------------------------
(***************************************************************************)
(* The TUN mode of the one shared core: TunCoordinator (its phases, its    *)
(* queue and the readiness probes of an enable) over the hot switch, which *)
(* patches the running core's configuration.  The TUN adapter lives and    *)
(* dies with the core.  Every call to the controller can fail, and fails   *)
(* when no core is there; a core this process has not started may know     *)
(* another secret.                                                         *)
(***************************************************************************)
EXTENDS Naturals

CONSTANT MaxTroubles  \* bound on calls that fail

ASSUME TunAssumption == MaxTroubles \in Nat

VARIABLES
    core,        \* the core runs
    stray,       \* history: it is one of a former process, or one its start or the
                 \* launch has disowned
    device,      \* its TUN adapter is up
    tun,         \* the coordinator's phase
    unconfirmed, \* the status carries TUN_DATA_PLANE_UNCONFIRMED
    op,          \* what holds the coordinator's queue
    probes,      \* readiness probes in flight; fenced: readiness_generation has moved on
    troubles     \* calls that failed so far

tunVars == <<device, tun, unconfirmed, op, probes>>

Phases == {"configured", "starting", "active", "restoring", "failed", "restore-failed", "conflict"}
Probe  == [fenced : BOOLEAN, over : BOOLEAN, at : {"probing", "passed", "late"}]

\* A core that has outlived the process before may still have its adapter up.
TunInit ==
    /\ device \in {FALSE, core}
    /\ tun = "configured" /\ unconfirmed = FALSE /\ op = "none" /\ probes = {}

\* A call to the controller fails: there is no core, or none that knows the
\* secret, or it is a trouble.
CallFails == IF core /\ ~stray THEN troubles < MaxTroubles /\ troubles' = troubles + 1
                               ELSE UNCHANGED troubles

Mishap == troubles < MaxTroubles /\ troubles' = troubles + 1

\* What a probe was started for is over once the phase leaves "active"; a new
\* generation fences every probe in flight.
Moves(phase, bump) ==
    /\ tun' = phase
    /\ unconfirmed' = FALSE
    /\ probes' = {[p EXCEPT !.over = @ \/ tun = "active", !.fenced = @ \/ bump] : p \in probes}

\* initialize: the core answers that its TUN is on, which is taken for an enable
\* that was interrupted.
InitializeRestores ==
    /\ op = "none" /\ tun = "configured" /\ device
    /\ Moves("restoring", FALSE)
    /\ op' = "restore"
    /\ UNCHANGED <<device, troubles>>

\* Nothing to recover, or no answer, which is taken for the same.
InitializeRests ==
    /\ op = "none"
    /\ \/ (tun # "configured" \/ ~device) /\ UNCHANGED troubles
       \/ tun = "configured" /\ device /\ CallFails
    /\ UNCHANGED tunVars

Serving == tun \in {"active", "starting", "restoring", "failed", "restore-failed"}
Refuses == tun \in {"active", "starting", "restoring", "conflict"}

EnableBegins ==
    /\ op = "none" /\ ~Refuses
    /\ Moves("starting", TRUE)
    /\ op' = "enable"
    /\ UNCHANGED <<device, troubles>>

Enabling == op = "enable"

EnableApplied ==
    /\ Enabling /\ core
    /\ device' = TRUE
    /\ tun' = "active" /\ unconfirmed' = FALSE
    /\ probes' = probes \cup {[fenced |-> FALSE, over |-> FALSE, at |-> "probing"]}
    /\ op' = "none"
    /\ UNCHANGED troubles

\* Another program owns the adapter's name or address.
EnableConflict ==
    /\ Enabling /\ core /\ ~device /\ Mishap
    /\ Moves("conflict", FALSE)
    /\ op' = "none"
    /\ UNCHANGED device

\* The configuration cannot be read, or the patch fails and is rolled back; or
\* the patch is accepted and cannot be read back.
EnableFails ==
    /\ Enabling /\ CallFails
    /\ Moves("failed", FALSE)
    /\ op' = "none"
    /\ \/ UNCHANGED device
       \/ core /\ device' = TRUE

\* Mutant: an enable that could not be rolled back is left as it is.
EnableUnsureKept ==
    /\ Enabling /\ CallFails
    /\ Moves("restoring", FALSE)
    /\ op' = "none"
    /\ \/ UNCHANGED device
       \/ core /\ device' = TRUE

\* Neither the patch nor its rollback is confirmed.
EnableUnsure ==
    /\ Enabling /\ CallFails
    /\ Moves("restoring", FALSE)
    /\ op' = "restore"
    /\ \/ UNCHANGED device
       \/ core /\ device' = TRUE

DisableBegins ==
    /\ op = "none" /\ tun # "configured"
    /\ Moves("restoring", TRUE)
    /\ op' = "restore"
    /\ UNCHANGED <<device, troubles>>

Restoring == op = "restore" /\ op' = "none"

Restored ==
    /\ Restoring /\ core
    /\ device' = FALSE
    /\ Moves("configured", FALSE)
    /\ UNCHANGED troubles

\* Mutant: an accepted patch is taken for a switched-off adapter.
RestoreFailsUnseen ==
    /\ Restoring /\ CallFails
    /\ Moves("configured", FALSE)
    /\ UNCHANGED device

\* A call fails, or the configuration read back still has TUN enabled.
RestoreFails ==
    /\ Restoring /\ CallFails
    /\ Moves("restore-failed", FALSE)
    /\ \/ UNCHANGED device
       \/ device /\ device' = FALSE

TunWorks ==
    \/ EnableApplied \/ EnableConflict \/ EnableFails \/ EnableUnsure
    \/ Restored \/ RestoreFails

\* Mutant: the exit of the host does not end the probes of the enable.
HostExitUnfenced ==
    /\ op = "none"
    /\ Moves("configured", FALSE)
    /\ UNCHANGED <<device, op>>

\* handle_host_exit: the core is gone, and its adapter with it.
HostExit ==
    /\ op = "none"
    /\ Moves("configured", TRUE)
    /\ UNCHANGED <<device, op>>

-----------------------------------------------------------------------------
(* observe_readiness: the fence is asked first, then the status is locked. *)

ProbeKeeps == UNCHANGED <<device, tun, op, core, stray, troubles>>

ProbeSucceeds(p) ==
    /\ p.at = "probing"
    /\ probes' = probes \ {p}
    /\ UNCHANGED unconfirmed /\ ProbeKeeps

ProbeFails(p) ==
    /\ p.at = "probing"
    /\ probes' = (probes \ {p}) \cup
           (IF ~p.fenced
            THEN {[p EXCEPT !.at = IF p.over THEN "late" ELSE "passed"]} ELSE {})
    /\ UNCHANGED unconfirmed /\ ProbeKeeps

ProbeMarks(p) ==
    /\ p.at # "probing"
    /\ unconfirmed' = (unconfirmed \/ tun = "active")
    /\ probes' = probes \ {p}
    /\ ProbeKeeps

Probing == \E p \in probes : ProbeSucceeds(p) \/ ProbeFails(p) \/ ProbeMarks(p)

-----------------------------------------------------------------------------
(* Properties. *)

TunTypeOK ==
    /\ core \in BOOLEAN /\ stray \in BOOLEAN /\ device \in BOOLEAN /\ unconfirmed \in BOOLEAN
    /\ tun \in Phases /\ op \in {"none", "enable", "restore"}
    /\ probes \in SUBSET Probe /\ troubles \in 0..MaxTroubles

\* A readiness probe that fails after its enable is over never passes the fence:
\* whatever ends an enable also ends its generation.
LateReadinessFenced == \A p \in probes : p.at # "late"

\* The mode does not stay "starting" or "restoring", which every other request
\* takes for a switch in progress.
TunSettles == tun \in {"starting", "restoring"} ~> tun \notin {"starting", "restoring"}

=============================================================================
