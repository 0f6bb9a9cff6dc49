--------------------------- MODULE ServiceManager ---------------------------
(***************************************************************************)
(* The session manager of the LocalSystem service (manager.go) with the    *)
(* ownership file it persists (store.go) and the process runtime it drives *)
(* (runtime_windows.go).                                                   *)
(*                                                                         *)
(* The lifecycle operations start, stop, status and reconcile hold the     *)
(* manager's mutex, so at most one of them is in progress; but each makes  *)
(* several system calls, and between two of them a core may exit, a PID    *)
(* may be reused, or the service itself may die.  `pc` says which call the *)
(* operation in progress makes next.                                       *)
(*                                                                         *)
(* MaxFaults bounds the failures of the environment that a behaviour may   *)
(* contain (a disk error, a system call that fails, a death of the         *)
(* service).  Exits of a core and reuses of a PID are not bounded.         *)
(***************************************************************************)
EXTENDS Naturals

CONSTANTS
    Sessions,   \* session ids a client can ask for
    Pids,       \* process ids of the host
    None,       \* the nil pointer: no owner, no record
    MaxFaults   \* bound on the failures of one behaviour

ASSUME NoneAssumption == None \notin [sid : Sessions, pid : Pids]
                         /\ None \notin Sessions /\ None \notin Pids
ASSUME FaultsAssumption == MaxFaults \in Nat

VARIABLES
    svc,        \* the service process: down, serving, or a stage of shutdown
    farewell,   \* the session shutdown's status call reported, to stop it
    owned,      \* manager.owned: the session and child the manager answers for
    blocked,    \* manager.blocked: the ownership file could not be read
    conflict,   \* manager.conflict: the recorded PID could not be verified
    lastExit,   \* manager.lastExit # "": the last child exited by itself
    record,     \* ownership.json, which survives the service
    proc,       \* what each PID of the host names
    job,        \* the live children in the service's kill-on-close job
    pc,         \* next call of the lifecycle operation holding the mutex
    req,        \* which operation that is
    sid,        \* the session id its request carries
    child,      \* the PID runtime.Start returned to it
    reply,      \* the last answer, erased when an operation begins
    faults,     \* failures so far, at most MaxFaults
    leaked      \* history: children the service gave up on (see AccountedCores)

memory  == <<owned, blocked, conflict, lastExit>>
call    == <<pc, req, sid, child, reply>>
host    == <<proc, job, leaked>>
service == <<svc, farewell>>
vars    == <<service, memory, record, host, call, faults>>

Owners   == [sid : Sessions, pid : Pids]
Stages   == {"down", "serving", "closing", "closed", "cleared"}
ProcKind == {"none", "core", "exited", "foreign"}
Steps    == {"idle", "read", "inspect", "clearExited", "clearDead", "create",
             "assign", "write", "emergency", "kill", "clear"}
Requests == {"none", "boot", "start", "stop", "reconcile", "shutdown"}
Outcomes == {"none", "running", "stopped", "stopping", "failed", "conflict"}

TypeOK ==
    /\ svc \in Stages
    /\ farewell \in Sessions \cup {None}
    /\ owned \in Owners \cup {None}
    /\ blocked \in BOOLEAN
    /\ conflict \in BOOLEAN
    /\ lastExit \in BOOLEAN
    /\ record \in Owners \cup {None}
    /\ proc \in [Pids -> ProcKind]
    /\ job \in SUBSET Pids
    /\ leaked \in SUBSET Pids
    /\ pc \in Steps
    /\ req \in Requests
    /\ sid \in Sessions \cup {None}
    /\ child \in Pids \cup {None}
    /\ reply \in Outcomes
    /\ faults \in 0 .. MaxFaults

Init ==
    /\ svc = "down"
    /\ farewell = None
    /\ owned = None
    /\ blocked = FALSE
    /\ conflict = FALSE
    /\ lastExit = FALSE
    /\ record = None
    /\ proc = [p \in Pids |-> "none"]
    /\ job = {}
    /\ leaked = {}
    /\ pc = "idle"
    /\ req = "none"
    /\ sid = None
    /\ child = None
    /\ reply = "none"
    /\ faults = 0

-----------------------------------------------------------------------------
(* Helpers. *)

Fault == faults < MaxFaults /\ faults' = faults + 1

up == svc # "down"

At(step) == up /\ pc = step

\* Handle takes the mutex and runs the operation from `step`.
Begin(request, session, step) ==
    /\ At("idle")
    /\ req' = request
    /\ sid' = session
    /\ pc' = step
    /\ reply' = "none"
    /\ UNCHANGED child

Goto(step) == pc' = step /\ UNCHANGED <<req, sid, reply>>

\* The operation answers and releases the mutex.
Reply(outcome) ==
    /\ reply' = outcome
    /\ pc' = "idle"
    /\ req' = "none"
    /\ sid' = None
    /\ child' = None

\* An operation that answers without making any call.
Answer(outcome) ==
    /\ At("idle")
    /\ reply' = outcome
    /\ UNCHANGED <<pc, req, sid, child>>

\* The child exits: it leaves the job, and its PID names an exited process
\* until the last handle is closed.
Exits(p) ==
    /\ proc' = [proc EXCEPT ![p] = "exited"]
    /\ job' = job \ {p}
    /\ leaked' = leaked \ {p}

\* Mutant: the image of the process is not compared.
RuntimeStopsUnverified(p) ==
    \/ proc[p] = "none" /\ UNCHANGED host
    \/ proc[p] \in {"core", "foreign"} /\ Exits(p)

\* runtime.Stop terminates a process only after it matched the image of the
\* core; a PID nobody holds counts as stopped.
RuntimeStops(p) ==
    \/ proc[p] = "none" /\ UNCHANGED host
    \/ proc[p] = "core" /\ Exits(p)

\* runtime.Stop refuses a reused PID, cannot query an exited process, or a
\* system call of it fails.
RuntimeStopFails(p) ==
    /\ UNCHANGED host
    /\ \/ proc[p] \in {"foreign", "exited"} /\ UNCHANGED faults
       \/ proc[p] = "core" /\ Fault

-----------------------------------------------------------------------------
(* reconcile, run for itself, once when the service starts, and by a start  *)
(* that finds the manager blocked.                                          *)

\* The end of reconcile: a start goes on only when it returned no error and
\* left the manager unblocked, otherwise it answers conflict.
EndReconcile(outcome, failed) ==
    IF req # "start" THEN Reply(outcome)
    ELSE IF failed \/ blocked' THEN Reply("conflict")
    ELSE Goto("create") /\ UNCHANGED child

Reconcile ==
    /\ Begin("reconcile", None, "read")
    /\ UNCHANGED <<service, memory, record, host, faults>>

\* readStoreResilient: one call that succeeds after at most three tries.
ReconcileReadFails ==
    /\ At("read")
    /\ Fault
    /\ blocked' = TRUE
    /\ EndReconcile("failed", TRUE)
    /\ UNCHANGED <<service, owned, conflict, lastExit, record, host>>

\* Mutant: an empty store does not clear the blocked latch.
ReconcileNoRecordLatched ==
    /\ At("read")
    /\ record = None
    /\ owned' = None
    /\ UNCHANGED blocked
    /\ conflict' = FALSE
    /\ EndReconcile(IF lastExit THEN "failed" ELSE "stopped", FALSE)
    /\ UNCHANGED <<service, lastExit, record, host, faults>>

\* Mutant: an empty store leaves the owner in memory.
ReconcileNoRecordKeepsOwner ==
    /\ At("read")
    /\ record = None
    /\ blocked' = FALSE
    /\ conflict' = FALSE
    /\ EndReconcile(IF lastExit THEN "failed" ELSE "stopped", FALSE)
    /\ UNCHANGED <<service, owned, lastExit, record, host, faults>>

ReconcileNoRecord ==
    /\ At("read")
    /\ record = None
    /\ owned' = None
    /\ blocked' = FALSE
    /\ conflict' = FALSE
    /\ EndReconcile(IF lastExit THEN "failed" ELSE "stopped", FALSE)
    /\ UNCHANGED <<service, lastExit, record, host, faults>>

ReconcileRecord ==
    /\ At("read")
    /\ record # None
    /\ Goto("inspect")
    /\ UNCHANGED <<service, memory, record, host, child, faults>>

\* runtime.Inspect matched the image and attached the process to the job.
ReconcileLive ==
    /\ At("inspect")
    /\ proc[record.pid] = "core"
    /\ job' = job \cup {record.pid}
    /\ leaked' = leaked \ {record.pid}
    /\ owned' = record
    /\ blocked' = FALSE
    /\ conflict' = FALSE
    /\ EndReconcile("running", FALSE)
    /\ UNCHANGED <<service, lastExit, record, proc, faults>>

\* runtime.Inspect cannot vouch for the process behind the recorded PID.
ReconcileConflict ==
    /\ At("inspect")
    /\ \/ proc[record.pid] = "foreign" /\ UNCHANGED faults
       \/ proc[record.pid] \in {"core", "exited"} /\ Fault
    /\ owned' = record
    /\ conflict' = TRUE
    /\ UNCHANGED blocked
    /\ EndReconcile("conflict", TRUE)
    /\ UNCHANGED <<service, lastExit, record, host>>

\* Mutant: an error of Inspect counts as "not live".
ReconcileNotLiveOnError ==
    /\ At("inspect")
    /\ \/ proc[record.pid] = "exited" /\ Goto("clearExited") /\ UNCHANGED faults
       \/ proc[record.pid] = "none" /\ Goto("clearDead") /\ UNCHANGED faults
       \/ proc[record.pid] = "core" /\ Goto("clearDead") /\ Fault
    /\ UNCHANGED <<service, memory, record, host, child>>

ReconcileNotLive ==
    /\ At("inspect")
    /\ \/ proc[record.pid] = "exited" /\ Goto("clearExited")
       \/ proc[record.pid] = "none" /\ Goto("clearDead")
    /\ UNCHANGED <<service, memory, record, host, child, faults>>

ReconcileForget ==
    /\ record' = None
    /\ owned' = None
    /\ blocked' = FALSE
    /\ conflict' = FALSE
    /\ \/ At("clearExited") /\ lastExit' = TRUE /\ EndReconcile("failed", TRUE)
       \/ At("clearDead") /\ UNCHANGED lastExit /\ EndReconcile("stopped", FALSE)
    /\ UNCHANGED <<service, host, faults>>

\* store.Clear removes two files: the record may be gone when it fails.
ReconcileForgetFails ==
    /\ At("clearExited") \/ At("clearDead")
    /\ Fault
    /\ record' \in {record, None}
    /\ UNCHANGED memory
    /\ EndReconcile("failed", TRUE)
    /\ UNCHANGED <<service, host>>

-----------------------------------------------------------------------------
(* start. *)

\* Mutant: a blocked manager does not reconcile before it starts.
StartUnrecovered(s) ==
    /\ Begin("start", s, "create")
    /\ UNCHANGED <<service, memory, record, host, faults>>

Start(s) ==
    /\ Begin("start", s, IF blocked THEN "read" ELSE "create")
    /\ UNCHANGED <<service, memory, record, host, faults>>

StartRefused ==
    /\ At("create")
    /\ owned # None
    /\ Reply("conflict")
    /\ UNCHANGED <<service, memory, record, host, faults>>

\* Processes that listen on the ports of the profile are terminated just
\* before the core is created: an elevated competing core, for instance.
Reclaim(holders) ==
    /\ holders \subseteq {p \in Pids : proc[p] \in {"core", "foreign"}}
    /\ job' = job \ holders
    /\ leaked' = leaked \ holders

\* Nothing was created: bad version, bad profile, a port still taken, ...
StartFails ==
    /\ At("create")
    /\ owned = None
    /\ \E holders \in SUBSET Pids :
          /\ Reclaim(holders)
          /\ proc' = [p \in Pids |-> IF p \in holders THEN "exited" ELSE proc[p]]
    /\ Reply("failed")
    /\ UNCHANGED <<service, memory, record, faults>>

\* Mutant: the owned child is not looked at.
StartCreateUnchecked ==
    /\ At("create")
    /\ \E new \in Pids :
          /\ proc[new] = "none"
          /\ proc' = [proc EXCEPT ![new] = "core"]
          /\ child' = new
    /\ Goto("assign")
    /\ UNCHANGED <<service, memory, record, job, leaked, faults>>

StartCreate ==
    /\ At("create")
    /\ owned = None
    /\ \E holders \in SUBSET Pids, new \in Pids :
          /\ Reclaim(holders)
          /\ proc[new] = "none"
          /\ proc' = [p \in Pids |-> IF p = new THEN "core"
                                    ELSE IF p \in holders THEN "exited"
                                    ELSE proc[p]]
          /\ child' = new
    /\ Goto("assign")
    /\ UNCHANGED <<service, memory, record, faults>>

StartAssign ==
    /\ At("assign")
    /\ proc[child] = "core"
    /\ job' = job \cup {child}
    /\ Goto("write")
    /\ UNCHANGED <<service, memory, record, proc, leaked, child, faults>>

\* A child that cannot be bound to the job is killed and waited for.
StartAssignFails ==
    /\ At("assign")
    /\ proc[child] # "core" \/ faults < MaxFaults
    /\ faults' = IF proc[child] = "core" THEN faults + 1 ELSE faults
    /\ proc' = [proc EXCEPT ![child] = "none"]
    /\ Reply("failed")
    /\ UNCHANGED <<service, memory, record, job, leaked>>

StartWrite ==
    /\ At("write")
    /\ record' = [sid |-> sid, pid |-> child]
    /\ owned' = [sid |-> sid, pid |-> child]
    /\ lastExit' = FALSE
    /\ Reply("running")
    /\ UNCHANGED <<service, blocked, conflict, host, faults>>

StartWriteFails ==
    /\ At("write")
    /\ Fault
    /\ Goto("emergency")
    /\ UNCHANGED <<service, memory, record, host, child>>

EmergencyStop ==
    /\ At("emergency")
    /\ RuntimeStops(child)
    /\ Reply("failed")
    /\ UNCHANGED <<service, memory, record, faults>>

\* The child keeps running and only memory knows it.
EmergencyStopFails ==
    /\ At("emergency")
    /\ \/ proc[child] \in {"foreign", "exited"} /\ UNCHANGED <<leaked, faults>>
       \/ proc[child] = "core" /\ Fault /\ leaked' = leaked \cup {child}
    /\ owned' = [sid |-> sid, pid |-> child]
    /\ Reply("stopping")
    /\ UNCHANGED <<service, blocked, conflict, lastExit, record, proc, job>>

-----------------------------------------------------------------------------
(* stop, asked by a client or by the shutdown of the service; status.       *)

Refusing == blocked \/ conflict

\* The guards of stop: what it answers before any system call, "" if none.
StopGuard(s) ==
    IF Refusing THEN "conflict"
    ELSE IF owned = None THEN "stopped"
    ELSE IF owned.sid # s THEN "conflict" ELSE ""

Stop(s) ==
    /\ IF StopGuard(s) = "" THEN Begin("stop", s, "kill")
       ELSE Answer(StopGuard(s))
    /\ UNCHANGED <<service, memory, record, host, faults>>

\* Shutdown goes on to clear the forwarding once its stop has answered.
StopReply(outcome) ==
    /\ Reply(outcome)
    /\ svc' = IF req = "shutdown" THEN "closed" ELSE svc
    /\ UNCHANGED farewell

StopKill ==
    /\ At("kill")
    /\ RuntimeStops(owned.pid)
    /\ Goto("clear")
    /\ UNCHANGED <<service, memory, record, child, faults>>

\* Mutant: a failed runtime.Stop is taken for a stop.
StopKillFailsIgnored ==
    /\ At("kill")
    /\ RuntimeStopFails(owned.pid)
    /\ Goto("clear")
    /\ UNCHANGED <<service, memory, record, child>>

StopKillFails ==
    /\ At("kill")
    /\ RuntimeStopFails(owned.pid)
    /\ StopReply("stopping")
    /\ UNCHANGED <<memory, record>>

StopClear ==
    /\ At("clear")
    /\ record' = None
    /\ owned' = None
    /\ StopReply("stopped")
    /\ UNCHANGED <<blocked, conflict, lastExit, host, faults>>

StopClearFails ==
    /\ At("clear")
    /\ Fault
    /\ record' \in {record, None}
    /\ StopReply("failed")
    /\ UNCHANGED <<memory, host>>

Status ==
    /\ Answer(IF Refusing THEN "conflict"
              ELSE IF owned # None THEN "running"
              ELSE IF lastExit THEN "failed" ELSE "stopped")
    /\ UNCHANGED <<service, memory, record, host, faults>>

-----------------------------------------------------------------------------
(* The service process.  Requests accepted before the shutdown began may   *)
(* still be waiting for the mutex while it runs.                           *)

Boot ==
    /\ svc = "down"
    /\ svc' = "serving"
    /\ req' = "boot"
    /\ pc' = "read"
    /\ UNCHANGED <<farewell, memory, record, host, sid, child, reply, faults>>

Shutdown ==
    /\ svc = "serving"
    /\ pc = "idle"
    /\ farewell' = IF owned = None THEN None ELSE owned.sid
    /\ svc' = IF owned = None THEN "closed" ELSE "closing"
    /\ UNCHANGED <<memory, record, host, call, faults>>

ShutdownStop ==
    /\ svc = "closing"
    /\ farewell # None
    /\ IF StopGuard(farewell) = ""
       THEN Begin("shutdown", farewell, "kill") /\ UNCHANGED svc
       ELSE Answer(StopGuard(farewell)) /\ svc' = "closed"
    /\ UNCHANGED <<farewell, memory, record, host, faults>>

\* forwarding.ClearDevice, the deferred call of shutdown.
ShutdownClear ==
    /\ svc = "closed"
    /\ svc' = "cleared"
    /\ UNCHANGED <<farewell, memory, record, host, call, faults>>

\* The process ends: its memory is gone and the job kills what is in it.
Ends ==
    /\ svc' = "down"
    /\ farewell' = None
    /\ owned' = None
    /\ blocked' = FALSE
    /\ conflict' = FALSE
    /\ lastExit' = FALSE
    /\ pc' = "idle"
    /\ req' = "none"
    /\ sid' = None
    /\ child' = None
    /\ reply' = "none"
    /\ proc' = [p \in Pids |-> IF p \in job THEN "none" ELSE proc[p]]
    /\ job' = {}
    /\ leaked' = {p \in Pids \ job : proc[p] = "core"}
    /\ UNCHANGED record

Exit  == svc = "cleared" /\ Ends /\ UNCHANGED faults
Crash == up /\ Fault /\ Ends

-----------------------------------------------------------------------------
(* The host. *)

CoreExits(p) ==
    /\ proc[p] = "core"
    /\ Exits(p)
    /\ UNCHANGED <<service, memory, record, call, faults>>

\* The last handle of an exited process is closed: its PID is free.  The
\* service waits on a child, and so closes its handle, once it is in the job.
Reaped(p) ==
    /\ proc[p] = "exited"
    /\ ~(pc = "assign" /\ p = child)
    /\ proc' = [proc EXCEPT ![p] = "none"]
    /\ UNCHANGED <<service, memory, record, job, leaked, call, faults>>

\* A program of the user's gets a free PID, or ends.
ForeignStarts(p) ==
    /\ proc[p] = "none"
    /\ proc' = [proc EXCEPT ![p] = "foreign"]
    /\ UNCHANGED <<service, memory, record, job, leaked, call, faults>>

ForeignEnds(p) ==
    /\ proc[p] = "foreign"
    /\ proc' = [proc EXCEPT ![p] = "none"]
    /\ UNCHANGED <<service, memory, record, job, leaked, call, faults>>

-----------------------------------------------------------------------------

Requested ==
    \/ \E s \in Sessions : Start(s) \/ Stop(s)
    \/ Reconcile
    \/ Status

\* The steps the service makes by itself once an operation has begun.
Progress ==
    \/ ReconcileReadFails \/ ReconcileNoRecord \/ ReconcileRecord
    \/ ReconcileLive \/ ReconcileConflict \/ ReconcileNotLive
    \/ ReconcileForget \/ ReconcileForgetFails
    \/ StartRefused \/ StartFails \/ StartCreate
    \/ StartAssign \/ StartAssignFails
    \/ StartWrite \/ StartWriteFails \/ EmergencyStop \/ EmergencyStopFails
    \/ StopKill \/ StopKillFails \/ StopClear \/ StopClearFails

ServiceLife ==
    Boot \/ Shutdown \/ ShutdownStop \/ ShutdownClear \/ Exit \/ Crash

Environment ==
    \E p \in Pids : CoreExits(p) \/ Reaped(p) \/ ForeignStarts(p) \/ ForeignEnds(p)

Next == Requested \/ Progress \/ ServiceLife \/ Environment

(***************************************************************************)
(* An operation that has begun goes on, the service control manager        *)
(* restarts the service, and the handle of a dead child is closed; Go's    *)
(* mutex does not starve a waiter, hence strong fairness of the shutdown,  *)
(* which waits for it.  No request is ever bound to come: the desktop      *)
(* client polls reconcile only while its own status says that a core runs, *)
(* and after an error it waits for the user.                               *)
(***************************************************************************)
Fairness ==
    /\ WF_vars(Progress)
    /\ WF_vars(Boot)
    /\ SF_vars(ShutdownStop \/ ShutdownClear \/ Exit)
    /\ WF_vars(\E p \in Pids : Reaped(p))

SafeSpec == Init /\ [][Next]_vars
Spec     == SafeSpec /\ Fairness

-----------------------------------------------------------------------------
(* Properties. *)

LiveCores == {p \in Pids : proc[p] = "core"}

\* A core nobody answers for would hold its ports and its TUN adapter until
\* the machine restarts.  Every live core is owned in memory, recorded on disk
\* or in the hands of the start in progress, except those that escaped in the
\* two ways the code leaves open: the service died between creating the child
\* and binding it to the job, or the record could not be written and the
\* emergency stop failed as well.
AccountedCores ==
    \A p \in LiveCores \ leaked :
        \/ owned # None /\ owned.pid = p
        \/ pc \in {"assign", "write", "emergency"} /\ child = p

\* Two cores would fight over the TUN adapter and the system routes: but for
\* the escaped ones, the service never has two cores alive.
OneCore == \A p, q \in LiveCores \ leaked : p = q

\* The client turns the network over to direct access, and may start another
\* core, when it reads "stopped": no core of the service is alive then, until
\* the next operation begins.
StoppedMeansNoCore ==
    up /\ pc = "idle" /\ reply = "stopped" => LiveCores \subseteq leaked

\* start looks at `blocked` and `owned` only, never at `conflict`; still it
\* never creates a child while the ownership of another is unverified.
CreatesOnlyVerified ==
    [][pc = "create" /\ pc' = "assign" => ~Refusing]_vars

\* "refusing to stop reused PID": neither stop nor the emergency stop of a
\* start ends a program of the user's that got the PID of a dead core.
StopSparesForeign ==
    [][pc' # pc /\ pc \in {"kill", "emergency"}
         => \A p \in Pids : proc[p] = "foreign" => proc'[p] = "foreign"]_vars

\* "A transient store error never wedges enable until service restart"
\* (manager.go): as long as somebody asks again, for a start or a reconcile, the
\* latch clears, unless the recorded PID is in other hands (which the manager
\* reports as a conflict).  Nothing clears it while nobody asks.
BlockedRecovers ==
    []<><<Reconcile \/ \E s \in Sessions : Start(s)>>_vars
        => (blocked ~> ~blocked \/ conflict)

\* A core that died is not reported as running for ever: as long as clients
\* reconcile (each poll, each launch and each start of theirs does), the manager
\* gives up its ownership, unless its PID is reused meanwhile.
DeadOwnerForgotten ==
    []<><<Reconcile>>_vars =>
        \A p \in Pids :
            (owned # None /\ owned.pid = p /\ proc[p] = "none")
                ~> (owned = None \/ owned.pid # p \/ proc[p] # "none")

-----------------------------------------------------------------------------
(***************************************************************************)
(* The inductive invariant behind the safety properties.  What keeps a     *)
(* core accounted for is DurableOwner: a live core the manager owns is the *)
(* one on disk, so a reconcile that trusts the disk forgets no live core.  *)
(***************************************************************************)

\* Nothing of the service is left while it is down.
DownIsEmpty ==
    svc = "down" =>
        /\ owned = None /\ ~blocked /\ ~conflict /\ pc = "idle"
        /\ reply = "none" /\ job = {}

\* The job holds every live core but the one just created, and the leaked.
JobHoldsCores ==
    /\ job \subseteq LiveCores
    /\ leaked \subseteq LiveCores
    /\ \A p \in LiveCores \ leaked : p \in job \/ (pc = "assign" /\ child = p)

ConflictHasOwner == conflict => owned # None

DurableOwner ==
    owned # None /\ owned.pid \in LiveCores \ leaked => record = owned

\* What each step may rely on.
StepFacts ==
    /\ pc \in {"inspect", "clearExited", "clearDead"} => record # None
    /\ pc \in {"clearExited", "clearDead"} => record.pid \notin LiveCores
    /\ pc = "create" => ~blocked /\ sid \in Sessions
    /\ req = "start" => sid \in Sessions
    /\ pc \in {"assign", "write", "emergency"} =>
          /\ owned = None /\ ~blocked /\ ~conflict
          /\ child \in Pids \ leaked /\ sid \in Sessions
    /\ pc = "assign" => child \notin job
    /\ pc \in {"kill", "clear"} => owned # None /\ ~Refusing
    /\ pc = "clear" => owned.pid \notin LiveCores

StoppedHasNoOwner == pc = "idle" /\ reply = "stopped" => owned = None

Inv ==
    /\ TypeOK
    /\ DownIsEmpty
    /\ JobHoldsCores
    /\ ConflictHasOwner
    /\ DurableOwner
    /\ StepFacts
    /\ AccountedCores
    /\ StoppedHasNoOwner

-----------------------------------------------------------------------------
(* What the module promises to a client. *)

Lease == INSTANCE CoreLease WITH
             cores   <- LiveCores \ leaked,
             claim   <- record,
             stopped <- up /\ pc = "idle" /\ reply = "stopped"

\* Through every interleaving of calls, exits, reused PIDs, disk errors and
\* deaths the manager keeps the service's contract: one core, whose durable
\* claim is given up only after the core is dead, and truthful answers.
ImplementsLease == Lease!Spec

=============================================================================
