---------------------------- MODULE SystemProxy ----------------------------
(***************************************************************************)
(* The Windows system proxy as Murge borrows it (system_proxy.rs): three   *)
(* registry values of the user, a bundle on disk that remembers what they  *)
(* were, and the operations that write them.                               *)
(*                                                                         *)
(* Every operation of the service waits in one queue, so one at a time is  *)
(* in progress; but it writes the three values one after the other, and    *)
(* between two writes another program may write them too, the process may  *)
(* die, or the session-end thread may restore the bundle outside the       *)
(* queue.  `pc` says what the operation in progress does next; when it is  *)
(* one of the three value names, that value is written next.               *)
(*                                                                         *)
(* A server value is abstracted to who listens there, an override list to  *)
(* what it contains: "bare" (the user's entries), "local" (those and the   *)
(* local addresses), "custom" (the entries of the bypass policy).          *)
(***************************************************************************)
EXTENDS Naturals

CONSTANTS
    Targets,    \* listeners of the mihomo core the proxy can be pointed at
    Others,     \* any other value of ProxyServer, an absent one included
    None,       \* no file, nothing
    Causes,     \* why the process may be fenced: "quit", "session"
    MaxFaults,  \* bound on the failed calls and deaths of one behaviour
    MaxEdits    \* bound on the writes of other programs in one behaviour

ASSUME ServersAssumption == Targets \cap Others = {} /\ None \notin Targets
ASSUME CausesAssumption == Causes \subseteq {"quit", "session"}
ASSUME BoundsAssumption == MaxFaults \in Nat /\ MaxEdits \in Nat

VARIABLES
    reg,        \* ProxyEnable, ProxyServer and ProxyOverride of the user
    user,       \* history: what they would be had Murge never touched them
    backup,     \* the bundle on disk
    policy,     \* the bypass policy on disk is enabled
    alive,      \* the GUI process runs
    recovering, \* the recovery of its launch has not run init to the end
    phase,      \* status.phase
    resume,     \* network_resume_pending
    fence,      \* mutations_fenced: why no new write may begin
    admitted,   \* a request passed the gate before the fence, not yet the queue
    op,         \* the operation that holds the queue
    pc,         \* what it does next
    task,       \* what it writes: the bundle's written or its previous values
    bundle,     \* the bundle it works with
    target,     \* the listener enable was asked for
    direct,     \* the restore of the session-end thread: what it does next
    dbundle,    \* the bundle that restore works with
    answer,     \* what the caller that stops the core was told last
    faults,     \* failed calls and deaths so far
    edits,      \* writes of other programs so far
    excuses     \* history: why the registry may differ from what it should be

registry == <<reg, user>>
disk     == <<backup, policy>>
status   == <<phase, resume, answer>>
fences   == <<fence, admitted>>
queue    == <<op, pc, task, bundle, target>>
thread   == <<direct, dbundle>>
bounds   == <<faults, edits>>
process  == <<alive, recovering>>
vars     == <<registry, disk, process, status, fences, queue, thread, bounds, excuses>>

Keys     == {"ProxyEnable", "ProxyServer", "ProxyOverride"}
Registry == [ProxyEnable : {"off", "on"}, ProxyServer : Targets \cup Others,
             ProxyOverride : {"bare", "local", "custom"}]
Bundles  == [target : Targets, previous : Registry, written : Registry]
Enabling == {"enable", "netup"}
Ops      == Enabling \cup {"init", "disable", "netdown", "kernel", "verify", "bypass"}

ASSUME NoneAssumption == None \notin Bundles /\ None \notin Registry

ProxyTypeOK ==
    /\ reg \in Registry
    /\ user \in Registry
    /\ backup \in Bundles \cup {None}
    /\ policy \in BOOLEAN
    /\ alive \in BOOLEAN
    /\ recovering \in BOOLEAN
    /\ phase \in {"disabled", "enabling", "enabled", "restoring",
                  "restore-failed", "conflict"}
    /\ resume \in BOOLEAN
    /\ fence \subseteq Causes
    /\ admitted \in BOOLEAN
    /\ op \in Ops \cup {None}
    /\ pc \in Keys \cup {"idle", "probe", "snapshot", "persist",
                         "check", "delete"}
    /\ task \in {None, "restore", "stale", "apply", "rollback"}
    /\ bundle \in Bundles \cup {None}
    /\ target \in Targets \cup {None}
    /\ direct \in Keys \cup {"off", "check", "delete", "done"}
    /\ dbundle \in Bundles \cup {None}
    /\ answer \in {"none", "safe", "unsafe"}
    /\ faults \in 0 .. MaxFaults
    /\ edits \in 0 .. MaxEdits
    /\ excuses \subseteq {"torn", "contended", "clobbered", "raced"}

Server(r) == r.ProxyServer

Init ==
    /\ reg \in {r \in Registry : Server(r) \in Others /\ r.ProxyOverride = "bare"}
    /\ user = reg
    /\ backup = None
    /\ policy = FALSE
    /\ alive = FALSE
    /\ recovering = FALSE
    /\ phase = "disabled"
    /\ resume = FALSE
    /\ fence = {}
    /\ admitted = FALSE
    /\ op = None
    /\ pc = "idle"
    /\ task = None
    /\ bundle = None
    /\ target = None
    /\ direct = "off"
    /\ dbundle = None
    /\ answer = "none"
    /\ faults = 0
    /\ edits = 0
    /\ excuses = {}

-----------------------------------------------------------------------------
(* Helpers. *)

\* A call of the operation in progress fails, or the process dies.
Fault == faults < MaxFaults /\ faults' = faults + 1 /\ UNCHANGED edits

\* resolve_proxy_override: an enabled policy replaces the user's own entries.
Resolve(enabled, override) ==
    IF enabled \/ override = "custom" THEN "custom" ELSE "local"

\* build_written_state.
Written(listener, observed, enabled) ==
    [ProxyEnable   |-> "on",
     ProxyServer   |-> listener,
     ProxyOverride |-> Resolve(enabled, observed.ProxyOverride)]

\* Mutant: only the exact values count, not a server that is still ours.
CanRestoreExact(r, b) == r = b.written \/ r = b.previous

\* can_restore_backup: the values are the ones written, or the user's of
\* before, or the server is still ours.
CanRestore(r, b) == r = b.written \/ r = b.previous \/ Server(r) = b.target

\* What is done after a value is written.
After == [ProxyEnable |-> "ProxyServer", ProxyServer |-> "ProxyOverride",
          ProxyOverride |-> "check"]

Goal == IF task = "apply" THEN bundle.written ELSE bundle.previous

\* What is excused, for the properties below: a sequence of writes cut short
\* where the recovery rule does not recognise its values ("torn"), a write of
\* another program in the middle of one ("contended"), a restore of disable or
\* handle_network_down over another tool's values ("clobbered"), and the two
\* restores of a session end that overtake an application, a bypass edit included
\* ("raced").
Excuse(cause, here) == excuses' = excuses \cup (IF here THEN {cause} ELSE {})
Torn == /\ pc \in Keys \/ direct \in Keys
        /\ backup # None
        /\ ~CanRestore(reg, backup)
Writing == pc \in Keys \cup {"check", "persist"} \/ direct \in Keys \cup {"check"}
DirectActive == direct \notin {"off", "done"}

Idle == alive /\ pc = "idle"

\* A request of the GUI passed the runtime gate, which is closed during a quit,
\* and now takes the queue.
Takes == Idle /\ (fence = {} \/ admitted) /\ admitted' = FALSE /\ UNCHANGED fence

\* The operation ends and leaves the queue.
Done(p, told) ==
    /\ phase' = p
    /\ answer' = told
    /\ op' = None
    /\ pc' = "idle"
    /\ task' = None
    /\ bundle' = None
    /\ target' = None

\* The operation goes on to write the values of bundle b.
Writes(o, t, b, p) ==
    /\ op' = o
    /\ task' = t
    /\ bundle' = b
    /\ pc' = "ProxyEnable"
    /\ phase' = p
    /\ answer' = "none"

\* handle_network_up re-arms itself when its enable fails.
KeepResume == resume' = (resume \/ op = "netup")

-----------------------------------------------------------------------------
(* init: the recovery task of a launch runs it, and again when it fails to   *)
(* restore; requests may be served before it.                                *)

Launch ==
    /\ ~alive
    /\ alive' = TRUE
    /\ recovering' = TRUE
    /\ UNCHANGED <<registry, disk, status, fences, queue, thread, bounds, excuses>>

Recovers == Idle /\ recovering

InitNothing ==
    /\ Recovers
    /\ \/ backup = None /\ UNCHANGED bounds
       \/ Fault
    /\ Done("disabled", "none")
    /\ recovering' = FALSE
    /\ UNCHANGED <<registry, disk, alive, resume, fences, thread, excuses>>

InitRestores ==
    /\ Recovers
    /\ backup # None
    /\ CanRestore(reg, backup)
    /\ Writes("init", "restore", backup, "restoring")
    /\ UNCHANGED <<registry, disk, process, resume, fences, target, thread,
                   bounds, excuses>>

\* The proxy is off and not ours: the bundle can never be restored.
InitDrops ==
    /\ Recovers
    /\ backup # None
    /\ ~CanRestore(reg, backup)
    /\ reg.ProxyEnable = "off"
    /\ \/ backup' = None /\ UNCHANGED bounds
       \/ UNCHANGED backup /\ Fault
    /\ Done("disabled", "none")
    /\ recovering' = FALSE
    /\ Excuse("raced", DirectActive)
    /\ UNCHANGED <<registry, policy, alive, resume, fences, thread>>

InitConflict ==
    /\ Recovers
    /\ backup # None
    /\ ~CanRestore(reg, backup)
    /\ reg.ProxyEnable = "on"
    /\ Done("conflict", "none")
    /\ recovering' = FALSE
    /\ UNCHANGED <<registry, disk, alive, resume, fences, thread, bounds, excuses>>

-----------------------------------------------------------------------------
(* restore_before_kernel_unavailable: before the core stops, at a quit and   *)
(* at a session end; it does not wait for the gate.                          *)

KernelReadFails ==
    /\ Idle
    /\ Fault
    /\ \E p \in {"conflict", phase} : Done(p, "unsafe")
    /\ UNCHANGED <<registry, disk, process, resume, fences, thread, excuses>>

KernelNothing ==
    /\ Idle
    /\ backup = None
    /\ Done(phase, "safe")
    /\ UNCHANGED <<registry, disk, process, resume, fences, thread, bounds, excuses>>

\* Mutant: only the exact values written count as ours.
KernelConflictExact ==
    /\ Idle
    /\ backup # None
    /\ reg # backup.written
    /\ reg # backup.previous
    /\ Done("conflict", "safe")
    /\ UNCHANGED <<registry, disk, process, resume, fences, thread, bounds, excuses>>

KernelConflict ==
    /\ Idle
    /\ backup # None
    /\ ~CanRestore(reg, backup)
    /\ Done("conflict", "safe")
    /\ UNCHANGED <<registry, disk, process, resume, fences, thread, bounds, excuses>>

KernelRestores ==
    /\ Idle
    /\ backup # None
    /\ CanRestore(reg, backup)
    /\ Writes("kernel", "restore", backup, "restoring")
    /\ UNCHANGED <<registry, disk, process, resume, fences, target, thread,
                   bounds, excuses>>

-----------------------------------------------------------------------------
(* disable and handle_network_down restore whatever the registry holds, the  *)
(* values of a takeover included, although the latter is to "turn off an     *)
(* owned proxy".                                                             *)

DisableNothing ==
    /\ Takes
    /\ backup = None
    /\ Done("disabled", "none")
    /\ UNCHANGED <<registry, disk, process, resume, thread, bounds, excuses>>

DisableRestores ==
    /\ Takes
    /\ backup # None
    /\ Writes("disable", "restore", backup, "restoring")
    /\ Excuse("clobbered", ~CanRestore(reg, backup))
    /\ UNCHANGED <<registry, disk, process, resume, target, thread, bounds>>

NetDownRestores ==
    /\ Takes
    /\ phase \in {"enabled", "restore-failed"}
    /\ backup # None
    /\ resume' = TRUE
    /\ Writes("netdown", "restore", backup, "restoring")
    /\ Excuse("clobbered", ~CanRestore(reg, backup))
    /\ UNCHANGED <<registry, disk, process, target, thread, bounds>>

\* disable, handle_network_down, verify_integrity: the bundle cannot be read.
ReadFails ==
    /\ Takes
    /\ Fault
    /\ Done(phase, "none")
    /\ UNCHANGED <<registry, disk, process, resume, thread, excuses>>

-----------------------------------------------------------------------------
(* verify_integrity, every 30 seconds. *)

VerifyConflict ==
    /\ Takes
    /\ phase = "enabled"
    /\ backup # None
    /\ Server(reg) # Server(backup.written)
    /\ Done("conflict", "none")
    /\ UNCHANGED <<registry, disk, process, resume, thread, bounds, excuses>>

\* Mutant: another tool's server is written over.
VerifyRepairsTakeover ==
    /\ Takes
    /\ phase = "enabled"
    /\ backup # None
    /\ reg # backup.written
    /\ fence = {}
    /\ Writes("verify", "apply", backup, phase)
    /\ UNCHANGED <<registry, disk, process, resume, target, thread, bounds, excuses>>

\* Mutant: only the switch is looked at.
VerifyRepairsSwitch ==
    /\ Takes
    /\ phase = "enabled"
    /\ backup # None
    /\ reg.ProxyEnable # backup.written.ProxyEnable
    /\ Server(reg) = Server(backup.written)
    /\ fence = {}
    /\ Writes("verify", "apply", backup, phase)
    /\ UNCHANGED <<registry, disk, process, resume, target, thread, bounds, excuses>>

VerifyRepairs ==
    /\ Takes
    /\ phase = "enabled"
    /\ backup # None
    /\ reg # backup.written
    /\ Server(reg) = Server(backup.written)
    /\ fence = {}
    /\ Writes("verify", "apply", backup, phase)
    /\ UNCHANGED <<registry, disk, process, resume, target, thread, bounds, excuses>>

-----------------------------------------------------------------------------
(* set_proxy_bypass: the policy first, then the bundle, then the registry.   *)

BypassSaves(enabled) ==
    /\ Takes
    /\ policy' = enabled
    /\ \/ (phase # "enabled" \/ backup = None) /\ UNCHANGED bounds
       \/ Fault
    /\ Done(phase, "none")
    /\ UNCHANGED <<registry, backup, process, resume, thread, excuses>>

BypassConflict(enabled) ==
    /\ Takes
    /\ policy' = enabled
    /\ phase = "enabled"
    /\ backup # None
    /\ reg # backup.written
    /\ Done("conflict", "none")
    /\ UNCHANGED <<registry, backup, process, resume, thread, bounds, excuses>>

BypassApplies(enabled) ==
    /\ Takes
    /\ policy' = enabled
    /\ phase = "enabled"
    /\ backup # None
    /\ reg = backup.written
    /\ op' = "bypass"
    /\ task' = "apply"
    /\ bundle' = [backup EXCEPT
                    !.written = Written(backup.target, backup.previous, enabled)]
    /\ pc' = "persist"
    /\ answer' = "none"
    /\ Excuse("raced", DirectActive)
    /\ UNCHANGED <<registry, backup, process, phase, resume, target, thread, bounds>>

-----------------------------------------------------------------------------
(* enable, asked by the user or by handle_network_up. *)

EnableBegins(o) ==
    /\ Takes
    /\ o = "netup" => resume
    /\ resume' = (resume /\ o # "netup")
    /\ op' = o
    /\ pc' = "probe"
    /\ answer' = "none"
    /\ UNCHANGED <<registry, disk, process, phase, task, bundle, target, thread,
                   bounds, excuses>>

\* The core does not run, or its controller does not answer.
EnableProbeFails ==
    /\ pc = "probe"
    /\ \E p \in {"disabled", phase} : Done(p, "none")
    /\ KeepResume
    /\ UNCHANGED <<registry, disk, process, fences, thread, bounds, excuses>>

EnableFenced ==
    /\ pc \in {"probe", "snapshot"}
    /\ fence # {}
    /\ Done(phase, "none")
    /\ KeepResume
    /\ UNCHANGED <<registry, disk, process, fences, thread, bounds, excuses>>

EnableReadFails ==
    /\ pc \in {"probe", "snapshot"}
    /\ Fault
    /\ Done(phase, "none")
    /\ KeepResume
    /\ UNCHANGED <<registry, disk, process, fences, thread, excuses>>

Probed(t) == pc = "probe" /\ fence = {} /\ t \in Targets

EnableAlready(t) ==
    /\ Probed(t)
    /\ backup # None
    /\ reg = backup.written
    /\ backup.target = t
    /\ Done("enabled", "none")
    /\ UNCHANGED <<registry, disk, process, resume, fences, thread, bounds, excuses>>

EnableRestoresStale(t) ==
    /\ Probed(t)
    /\ backup # None
    /\ CanRestore(reg, backup)
    /\ ~(reg = backup.written /\ backup.target = t)
    /\ Writes(op, "stale", backup, "restoring")
    /\ target' = t
    /\ UNCHANGED <<registry, disk, process, resume, fences, thread, bounds, excuses>>

\* Mutant: a stale bundle is not restored first.
EnableGoesOnStale(t) ==
    /\ Probed(t)
    /\ pc' = "snapshot"
    /\ target' = t
    /\ UNCHANGED <<registry, disk, process, status, fences, op, task, bundle,
                   thread, bounds, excuses>>

\* No bundle, or one that another tool's values have made obsolete.
EnableGoesOn(t) ==
    /\ Probed(t)
    /\ backup # None => ~CanRestore(reg, backup)
    /\ pc' = "snapshot"
    /\ target' = t
    /\ UNCHANGED <<registry, disk, process, status, fences, op, task, bundle,
                   thread, bounds, excuses>>

\* Mutant: the fence is not looked at again before the bundle is written.
EnableSnapshotUnfenced ==
    /\ pc = "snapshot"
    /\ bundle' = [target |-> target, previous |-> reg,
                  written |-> Written(target, reg, policy)]
    /\ task' = "apply"
    /\ pc' = "persist"
    /\ UNCHANGED <<registry, disk, process, status, fences, op, target, thread,
                   bounds, excuses>>

EnableSnapshot ==
    /\ pc = "snapshot"
    /\ fence = {}
    /\ bundle' = [target |-> target, previous |-> reg,
                  written |-> Written(target, reg, policy)]
    /\ task' = "apply"
    /\ pc' = "persist"
    /\ UNCHANGED <<registry, disk, process, status, fences, op, target, thread,
                   bounds, excuses>>

\* Mutant: the bundle is kept in memory while the values are written.
PersistInMemory ==
    /\ pc = "persist"
    /\ pc' = "ProxyEnable"
    /\ phase' = IF op = "bypass" THEN phase ELSE "enabling"
    /\ UNCHANGED <<registry, disk, process, resume, answer, fences, op, task,
                   bundle, target, thread, bounds, excuses>>

\* The bundle is on disk before the first value is written.
Persist ==
    /\ pc = "persist"
    /\ backup' = bundle
    /\ pc' = "ProxyEnable"
    /\ phase' = IF op = "bypass" THEN phase ELSE "enabling"
    /\ UNCHANGED <<registry, policy, process, resume, answer, fences, op, task,
                   bundle, target, thread, bounds, excuses>>

PersistFails ==
    /\ pc = "persist"
    /\ Fault
    /\ Done(IF op = "bypass" THEN phase ELSE "disabled", "none")
    /\ KeepResume
    /\ UNCHANGED <<registry, disk, process, fences, thread, excuses>>

-----------------------------------------------------------------------------
(* What all operations share: the adapter's writes, the read-back, and the   *)
(* deletion of the bundle.                                                   *)

WriteValue ==
    /\ pc \in Keys
    /\ reg' = [reg EXCEPT ![pc] = Goal[pc]]
    /\ pc' = After[pc]
    /\ UNCHANGED <<user, disk, process, status, fences, op, task, bundle, target,
                   thread, bounds, excuses>>

\* enable undoes what it applied; other operations give up.
Fails ==
    IF task = "apply" /\ op \in Enabling
    THEN /\ task' = "rollback"
         /\ pc' = "ProxyEnable"
         /\ UNCHANGED <<status, op, bundle, target, excuses, recovering>>
    ELSE /\ Done(IF task \in {"restore", "rollback"} THEN "restore-failed" ELSE phase,
                 IF op = "kernel" THEN "unsafe" ELSE "none")
         /\ KeepResume
         /\ recovering' \in IF op = "init" THEN BOOLEAN ELSE {recovering}
         /\ Excuse("torn", Torn)

WriteFails ==
    /\ pc \in Keys
    /\ Fault
    /\ Fails
    /\ UNCHANGED <<registry, disk, alive, fences, thread>>

CheckFails ==
    /\ pc = "check"
    /\ op # "bypass"
    /\ \/ reg # Goal /\ UNCHANGED bounds
       \/ Fault
    /\ Fails
    /\ UNCHANGED <<registry, disk, alive, fences, thread>>

\* The applied values are in force; set_proxy_bypass does not look.
ApplyDone ==
    /\ pc = "check"
    /\ task = "apply"
    /\ reg = Goal \/ op = "bypass"
    /\ Done(IF op \in Enabling THEN "enabled" ELSE phase, "none")
    /\ UNCHANGED <<registry, disk, process, resume, fences, thread, bounds, excuses>>

RestoreChecked ==
    /\ pc = "check"
    /\ task # "apply"
    /\ reg = Goal
    /\ pc' = "delete"
    /\ UNCHANGED <<registry, disk, process, status, fences, op, task, bundle,
                   target, thread, bounds, excuses>>

\* A bundle that cannot be deleted is left on disk and nobody is told.
RestoreDone ==
    /\ pc = "delete"
    /\ \/ backup' = None /\ UNCHANGED bounds
       \/ UNCHANGED backup /\ Fault
    /\ IF task = "stale"
       THEN /\ pc' = "snapshot"
            /\ task' = None
            /\ bundle' = None
            /\ UNCHANGED <<status, op, target>>
       ELSE /\ Done("disabled", IF op = "kernel" THEN "safe" ELSE "none")
            /\ KeepResume
    /\ recovering' = (recovering /\ op # "init")
    /\ UNCHANGED <<registry, policy, alive, fences, thread, excuses>>

-----------------------------------------------------------------------------
(* restore_owned_proxy_blocking: the session-end thread, when the queued     *)
(* restore has not succeeded within two seconds.                             *)

DirectNothing ==
    /\ alive /\ "session" \in fence /\ direct = "off"
    /\ \/ (backup # None => ~CanRestore(reg, backup)) /\ UNCHANGED bounds
       \/ Fault
    /\ direct' = "done"
    /\ Excuse("raced", task = "apply")
    /\ UNCHANGED <<registry, disk, process, status, fences, queue, dbundle>>

DirectRestores ==
    /\ alive /\ "session" \in fence /\ direct = "off"
    /\ backup # None
    /\ CanRestore(reg, backup)
    /\ direct' = "ProxyEnable"
    /\ dbundle' = backup
    /\ Excuse("raced", task = "apply")
    /\ UNCHANGED <<registry, disk, process, status, fences, queue, bounds>>

DirectWrites ==
    /\ direct \in Keys
    /\ reg' = [reg EXCEPT ![direct] = dbundle.previous[direct]]
    /\ direct' = After[direct]
    /\ UNCHANGED <<user, disk, process, status, fences, queue, dbundle, bounds, excuses>>

DirectFails ==
    /\ \/ direct \in Keys /\ Fault
       \/ direct = "check" /\ reg # dbundle.previous /\ UNCHANGED bounds
       \/ direct = "check" /\ Fault
    /\ direct' = "done"
    /\ dbundle' = None
    /\ Excuse("torn", Torn)
    /\ UNCHANGED <<registry, disk, process, status, fences, queue>>

DirectChecked ==
    /\ direct = "check"
    /\ reg = dbundle.previous
    /\ direct' = "delete"
    /\ UNCHANGED <<registry, disk, process, status, fences, queue, dbundle, bounds, excuses>>

DirectDone ==
    /\ direct = "delete"
    /\ \/ backup' = None /\ UNCHANGED bounds
       \/ UNCHANGED backup /\ Fault
    /\ direct' = "done"
    /\ dbundle' = None
    /\ UNCHANGED <<registry, policy, process, status, fences, queue, excuses>>

-----------------------------------------------------------------------------
(* The process: quit, session end, death. *)

\* At most one request is past the gate; it may still wait for the queue.
Fences(cause) ==
    /\ alive
    /\ cause \in Causes \ fence
    /\ fence' = fence \cup {cause}
    /\ admitted' \in {admitted, fence = {} /\ op \in {None, "kernel", "init"}}
    /\ UNCHANGED <<registry, disk, process, status, queue, thread, bounds, excuses>>

Quit == Fences("quit")
SessionEnds == Fences("session")

\* The proxy could not be restored: the quit is cancelled, a session end is not.
QuitCancelled ==
    /\ Idle
    /\ "quit" \in fence
    /\ answer = "unsafe"
    /\ fence' = fence \ {"quit"}
    /\ admitted' = (admitted /\ fence' # {})
    /\ UNCHANGED <<registry, disk, process, status, queue, thread, bounds, excuses>>

Dies ==
    /\ alive' = FALSE
    /\ recovering' = FALSE
    /\ phase' = "disabled"
    /\ resume' = FALSE
    /\ answer' = "none"
    /\ fence' = {}
    /\ admitted' = FALSE
    /\ op' = None
    /\ pc' = "idle"
    /\ task' = None
    /\ bundle' = None
    /\ target' = None
    /\ direct' = "off"
    /\ dbundle' = None
    /\ Excuse("torn", Torn)
    /\ UNCHANGED <<registry, disk>>

QuitDone == Idle /\ "quit" \in fence /\ answer = "safe" /\ Dies /\ UNCHANGED bounds
\* Windows ends the process: a death among the others.
SessionOver == alive /\ "session" \in fence /\ Dies /\ Fault
Crash == alive /\ Dies /\ Fault

-----------------------------------------------------------------------------
(* Other programs. *)

Edit == edits < MaxEdits /\ edits' = edits + 1 /\ UNCHANGED faults

\* The user or another tool sets the proxy to a server of its own, and either
\* replaces the override list or leaves it.
Takeover(r) ==
    /\ Edit
    /\ Server(r) \in Others
    /\ r.ProxyOverride \in {"bare", reg.ProxyOverride}
    /\ r # reg
    /\ reg' = r
    /\ user' = r
    /\ Excuse("contended", Writing)
    /\ UNCHANGED <<disk, process, status, fences, queue, thread>>

\* The switch of the Windows settings, or a cleanup tool: the server stays ours.
Sweep(r) ==
    /\ Edit
    /\ Server(reg) \in Targets
    /\ Server(r) = Server(reg)
    /\ r.ProxyOverride \in {"bare", reg.ProxyOverride}
    /\ r # reg
    /\ reg' = r
    /\ Excuse("contended", Writing)
    /\ UNCHANGED <<user, disk, process, status, fences, queue, thread>>

-----------------------------------------------------------------------------

\* What the process does by itself once an operation holds the queue.
Progress ==
    \/ InitNothing \/ InitRestores \/ InitDrops \/ InitConflict
    \/ EnableProbeFails \/ EnableFenced \/ EnableReadFails
    \/ \E t \in Targets : EnableAlready(t) \/ EnableRestoresStale(t) \/ EnableGoesOn(t)
    \/ EnableSnapshot \/ Persist \/ PersistFails
    \/ WriteValue \/ WriteFails \/ CheckFails
    \/ ApplyDone \/ RestoreChecked \/ RestoreDone

Verify == VerifyConflict \/ VerifyRepairs

Requests ==
    \/ KernelReadFails \/ KernelNothing \/ KernelConflict \/ KernelRestores
    \/ DisableNothing \/ DisableRestores \/ NetDownRestores \/ ReadFails
    \/ \E enabled \in BOOLEAN :
          BypassSaves(enabled) \/ BypassConflict(enabled) \/ BypassApplies(enabled)
    \/ \E o \in Enabling : EnableBegins(o)

SessionThread ==
    \/ DirectNothing \/ DirectRestores \/ DirectWrites \/ DirectFails
    \/ DirectChecked \/ DirectDone

Life == Launch \/ Quit \/ SessionEnds \/ QuitCancelled \/ QuitDone \/ SessionOver \/ Crash

OtherPrograms == \E r \in Registry : Takeover(r) \/ Sweep(r)

Next == Progress \/ Verify \/ Requests \/ SessionThread \/ Life \/ OtherPrograms

\* An operation that holds the queue goes on, and the guard's timer ticks, which
\* it does while the setting proxyGuard is on; the queue is fair.
Fairness == WF_vars(Progress) /\ SF_vars(Verify)

Spec == Init /\ [][Next]_vars /\ Fairness

-----------------------------------------------------------------------------
(* Properties. *)

\* "The exact-restore guarantee": once no bundle is left on disk, the three
\* values are what they would be had Murge never run, after any sequence of
\* requests, failed calls, deaths between two steps and other programs' writes,
\* but for the excused ones.
ExactRestore == backup = None /\ excuses = {} => reg = user

\* The recovery rule never trusts a stale bundle: whenever it would restore one,
\* the values of that bundle are the user's.
RestoresUsers ==
    backup # None /\ CanRestore(reg, backup) /\ excuses = {} => backup.previous = user

\* A core is never stopped behind a proxy that still points at it: when the
\* caller was told so, the server is not ours.  A session end whose two restores
\* overtake an application is the exception.
KernelStopSafe ==
    answer = "safe" /\ "raced" \notin excuses => Server(reg) \notin Targets

\* "An external takeover must never be fought" (verify_integrity): the three
\* operations that first ask whether the values are still Murge's, the recovery of
\* a launch, the restore before a core stops and the guard's check, leave values
\* alone that are not.  The two that do not ask, disable and the restore when the
\* network goes down, write the bundle's values over a takeover and are no part
\* of this.
PassiveLeavesUser ==
    [][reg = user /\ excuses' = {} /\ op \in {"init", "kernel", "verify"}
         => reg' = user']_vars

\* The guard, while its setting is on, repairs what a cleanup tool undid, also when
\* a bypass edit failed half way.
GuardRepairs ==
    (alive /\ phase = "enabled" /\ backup # None /\ reg # backup.written)
        ~> (~alive \/ fence # {} \/ phase # "enabled" \/ backup = None
            \/ reg = backup.written)

\* Once the session-end handler has returned, Windows may end the process at any
\* moment: the proxy is not ours then, unless a call failed or an application
\* that had passed its last check overtook the restore.
SessionEndSafe ==
    direct = "done" /\ faults = 0 /\ excuses = {} => Server(reg) \notin Targets

\* "Persist the owned bundle BEFORE applying so a crash mid-apply is recoverable
\* next launch" (enable): when no other program ever wrote the registry, the
\* recovery of the next launch recognises the bundle a dead process left.
CrashRecoverable ==
    Idle /\ recovering /\ edits = 0 /\ backup # None => CanRestore(reg, backup)

\* The bundle as the note of a loan: one the recovery rule would restore, or that
\* somebody is restoring or applying.
Note ==
    IF backup # None /\ (CanRestore(reg, backup) \/ pc \in Keys \/ direct \in Keys)
    THEN backup.previous ELSE None

Loan == INSTANCE ProxyLoan WITH
            Values <- Registry, Ours <- {r \in Registry : Server(r) \in Targets},
            value <- reg, mine <- user, note <- Note, told <- answer = "safe",
            trust <- IF excuses = {} THEN "exact"
                     ELSE IF "raced" \notin excuses THEN "server" ELSE "none"

\* The whole of it: the service keeps the loan of the user's settings, with a
\* bundle written ahead of the first value and deleted after the last one, whatever
\* fails or dies in between.
ImplementsLoan == Loan!Spec

=============================================================================
