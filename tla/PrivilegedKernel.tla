--------------------------- MODULE PrivilegedKernel ---------------------------
(***************************************************************************)
(* The desktop side of the privileged core: PrivilegedKernelGateway        *)
(* (start, stop, reconcile_liveness, declare_lost, initialize, one queue   *)
(* for all), the TunServiceClient that remembers which session it owns,    *)
(* and the exit monitor that polls every five seconds.                     *)
(*                                                                         *)
(* The service on the other end of the pipe is given as its client sees    *)
(* it; ServiceManager has it in detail, CoreLease is what both promise.    *)
(* An answer may be late or lost, and a request the client no longer waits *)
(* for may still be executed.  A core is named by the session it was       *)
(* started for.                                                            *)
(***************************************************************************)
EXTENDS Naturals, Sequences

CONSTANTS
    None,        \* no session, no request
    Streak,      \* UNREACHABLE_TICKS
    Budget,      \* MAX_AUTO_RESTARTS
    MaxStarts,   \* bound on the sessions requested
    MaxTroubles, \* bound on lost answers, failed calls and deaths
    MaxExits,    \* bound on the cores that exit by themselves
    MaxCalls,    \* bound on the starts and stops of the user
    MaxQuits     \* bound on the quits

ASSUME LimitsAssumption == Streak \in Nat \ {0} /\ Budget \in Nat
ASSUME BoundsAssumption ==
    /\ MaxStarts \in Nat /\ MaxTroubles \in Nat /\ MaxExits \in Nat
    /\ MaxCalls \in Nat /\ MaxQuits \in Nat

Sessions  == 1..MaxStarts
Execution == [op : {"start", "record", "clear"}, sid : Sessions, mine : BOOLEAN]
ASSUME NoneAssumption == None \notin Sessions /\ None \notin Execution

VARIABLES
    up,         \* the service runs
    core,       \* the live core the service answers for
    escaped,    \* live cores it started and has lost
    claim,      \* the session the service has on record
    held,       \* the session it remembers
    blocked,    \* it could not read its record
    conflict,   \* it could not tell what its record names
    exited,     \* it remembers that its last core exited
    busy,       \* the request it executes
    wire,       \* the request the gateway waits for, and its answer
    late,       \* requests nobody waits for that are not executed yet
    phase,      \* the gateway's status
    owned,      \* the session the client believes it owns
    line,       \* the operations in the gateway's queue, the first one holds it
    at,         \* where that operation is
    mon,        \* where the exit monitor's tick is
    streak,     \* unreachable_streak
    restarts,   \* automatic restarts inside the window
    deferred,   \* deferred_recovery
    quit,       \* how far a quit is
    issued,     \* sessions requested so far
    strays,     \* history: sessions whose core may live unknown to the client
    due,        \* history: an exit was noticed and nothing has followed yet
    troubles, exits, calls, quits

memory  == <<held, blocked, conflict, exited>>
service == <<up, core, escaped, claim, memory, busy>>
pipe    == <<wire, late>>
gateway == <<phase, owned, line, at>>
monitor == <<mon, streak, restarts, deferred>>
history == <<issued, strays, due>>
bounds  == <<troubles, exits, calls, quits>>
vars    == <<service, pipe, gateway, monitor, quit, history, bounds>>

Maybe     == Sessions \cup {None}
Message   == [op : {"start", "stop", "reconcile"}, sid : Maybe]
Outcome   == {"none", "running", "stopped", "stopping", "failed", "conflict",
              "unreachable", "timeout"}
Exchange  == [op : {"none", "start", "stop", "reconcile"}, sid : Maybe, out : Outcome, of : Maybe]
Operation == [by : {"boot", "user", "monitor", "quit"}, op : {"init", "start", "stop", "poll", "lost"}]
Silence   == [op |-> "none", sid |-> None, out |-> "none", of |-> None]

GatewayTypeOK ==
    /\ up \in BOOLEAN /\ core \in Maybe /\ escaped \in SUBSET Sessions
    /\ claim \in Maybe /\ held \in Maybe
    /\ blocked \in BOOLEAN /\ conflict \in BOOLEAN /\ exited \in BOOLEAN
    /\ busy = None \/ busy \in Execution
    /\ wire \in Exchange
    /\ late \in SUBSET Message
    /\ phase \in {"stopped", "starting", "running", "stopping", "failed"}
    /\ owned \in Maybe
    /\ line \in Seq(Operation)
    /\ at \in {"begin", "asked", "stale", "launch", "relaunch", "ready", "readying", "cleanup"}
    /\ mon \in {"idle", "called", "live", "probe", "gone", "recover"}
    /\ streak \in 0..Streak /\ restarts \in 0..Budget /\ deferred \in BOOLEAN
    /\ quit \in {"no", "fenced", "stopped", "unstopped"}
    /\ issued \in 0..MaxStarts /\ strays \in SUBSET Sessions /\ due \in BOOLEAN
    /\ troubles \in 0..MaxTroubles /\ exits \in 0..MaxExits
    /\ calls \in 0..MaxCalls /\ quits \in 0..MaxQuits

Init ==
    /\ up = TRUE /\ core = None /\ escaped = {} /\ claim = None /\ busy = None
    /\ held = None /\ blocked = FALSE /\ conflict = FALSE /\ exited = FALSE
    /\ wire = Silence /\ late = {}
    /\ phase = "stopped" /\ owned = None
    /\ line = <<[by |-> "boot", op |-> "init"]>> /\ at = "begin"
    /\ mon = "idle" /\ streak = 0 /\ restarts = 0 /\ deferred = FALSE
    /\ quit = "no"
    /\ issued = 0 /\ strays = {} /\ due = FALSE
    /\ troubles = 0 /\ exits = 0 /\ calls = 0 /\ quits = 0

Trouble == troubles < MaxTroubles /\ troubles' = troubles + 1 /\ UNCHANGED <<exits, calls, quits>>

-----------------------------------------------------------------------------
(* The service: one request at a time. *)

Pending == wire.op # "none" /\ wire.out = "none"
Taken   == busy # None /\ busy.mine

\* The request m is next: the one the gateway waits for (mine), or a late one,
\* which has waited for the manager's mutex longer and gets it first.
Request(m, mine) ==
    /\ up /\ busy = None
    /\ IF mine
       THEN Pending /\ late = {} /\ m = [op |-> wire.op, sid |-> wire.sid] /\ UNCHANGED late
       ELSE m \in late /\ late' = late \ {m}

Replies(mine, out, of) ==
    wire' = IF mine THEN [wire EXCEPT !.out = out, !.of = of] ELSE wire

ServiceKeeps == UNCHANGED <<gateway, monitor, quit, history>>

\* manager.reconcile: what the record turns out to be, the outcome that is
\* answered with its session, and whether the call succeeds.
Unread(out, of, ok) ==
    /\ Trouble
    /\ blocked' = TRUE
    /\ out = "failed" /\ of = None /\ ~ok
    /\ UNCHANGED <<claim, held, conflict, exited>>

Verifies(owner) == held' = owner /\ blocked' = FALSE /\ conflict' = FALSE

NoRecord(out, of, ok) ==
    /\ claim = None
    /\ Verifies(None)
    /\ out = (IF exited THEN "failed" ELSE "stopped") /\ of = None /\ ok
    /\ UNCHANGED <<claim, exited, bounds>>

Adopts(out, of, ok) ==
    /\ claim # None /\ claim = core
    /\ Verifies(claim)
    /\ out = "running" /\ of = claim /\ ok
    /\ UNCHANGED <<claim, exited, bounds>>

\* Inspect cannot vouch for the process behind the recorded PID.
Unsure(out, of, ok) ==
    /\ claim # None
    /\ Trouble
    /\ held' = claim /\ conflict' = TRUE
    /\ out = "conflict" /\ of = claim /\ ~ok
    /\ UNCHANGED <<claim, blocked, exited>>

\* The recorded core is dead: with an exit code to show for it, or gone.
Forgets(out, of, ok) ==
    /\ claim # None /\ claim # core
    /\ claim' = None /\ Verifies(None)
    /\ exited' = (exited \/ ~ok)
    /\ out = (IF ok THEN "stopped" ELSE "failed") /\ of = None
    /\ UNCHANGED bounds

\* store.Clear removes two files, and may fail on either.
ForgetFails(out, of, ok) ==
    /\ claim # None /\ claim # core
    /\ Trouble
    /\ claim' \in {claim, None}
    /\ out = "failed" /\ of = None /\ ~ok
    /\ UNCHANGED memory

Reconciles(out, of, ok) ==
    \/ Unread(out, of, ok) \/ NoRecord(out, of, ok) \/ Adopts(out, of, ok)
    \/ Unsure(out, of, ok) \/ Forgets(out, of, ok) \/ ForgetFails(out, of, ok)

ServeReconcile(mine) ==
    /\ Request([op |-> "reconcile", sid |-> None], mine)
    /\ \E out \in Outcome, of \in Maybe, ok \in BOOLEAN :
          Reconciles(out, of, ok) /\ Replies(mine, out, of)
    /\ UNCHANGED <<up, core, escaped, busy>>
    /\ ServiceKeeps

ServeStart(s, mine) ==
    /\ Request([op |-> "start", sid |-> s], mine)
    /\ busy' = [op |-> "start", sid |-> s, mine |-> mine]
    /\ UNCHANGED <<up, core, escaped, claim, memory, wire, bounds>>
    /\ ServiceKeeps

\* A blocked manager reconciles once more before it refuses.
Recovers ==
    /\ busy # None /\ busy.op = "start" /\ blocked
    /\ \E out \in Outcome, of \in Maybe, ok \in BOOLEAN :
          /\ Reconciles(out, of, ok)
          /\ \/ ok /\ UNCHANGED <<busy, wire>>
             \/ ~ok /\ busy' = None /\ Replies(busy.mine, "conflict", None)
    /\ UNCHANGED <<up, core, escaped, late>>
    /\ ServiceKeeps

Starting == busy # None /\ busy.op = "start" /\ ~blocked

\* Mutant: the service starts a second core.
LaunchesUnclaimed ==
    /\ Starting
    /\ core' = busy.sid /\ busy' = [busy EXCEPT !.op = "record"]
    /\ UNCHANGED <<up, escaped, claim, memory, wire, late, bounds>>
    /\ ServiceKeeps

\* runtime.Start ends who listens on the ports of the profile before it creates
\* the core and puts it into the job.  Nothing asks whether there is a conflict.
Launches ==
    /\ Starting
    /\ \/ /\ held = None
          /\ core' = busy.sid /\ busy' = [busy EXCEPT !.op = "record"]
          /\ escaped' \in SUBSET escaped
          /\ UNCHANGED <<wire, bounds>>
       \/ /\ held # None
          /\ Replies(busy.mine, "conflict", held) /\ busy' = None
          /\ UNCHANGED <<core, escaped, bounds>>
       \/ /\ held = None
          /\ Trouble
          /\ Replies(busy.mine, "failed", None) /\ busy' = None
          /\ escaped' \in SUBSET escaped
          /\ UNCHANGED core
    /\ UNCHANGED <<up, claim, memory, late>>
    /\ ServiceKeeps

Recording == busy # None /\ busy.op = "record"

Records ==
    /\ Recording
    /\ claim' = busy.sid /\ held' = busy.sid /\ exited' = FALSE
    /\ Replies(busy.mine, "running", busy.sid)
    /\ busy' = None
    /\ UNCHANGED <<up, core, escaped, blocked, conflict, late, bounds>>
    /\ ServiceKeeps

\* The record cannot be written: the core is stopped, or only memory knows it.
RecordFails ==
    /\ Recording
    /\ Trouble
    /\ core' = None
    /\ \/ /\ Replies(busy.mine, "failed", None)
          /\ UNCHANGED <<escaped, held>>
       \/ /\ Replies(busy.mine, "stopping", busy.sid)
          /\ held' = busy.sid
          /\ escaped' = IF core = None THEN escaped ELSE escaped \cup {core}
    /\ busy' = None
    /\ UNCHANGED <<up, claim, blocked, conflict, exited, late>>
    /\ ServiceKeeps

\* stop: refused while the owner is unverified, and to any other session.
Refuses(s) == blocked \/ conflict \/ held \notin {s, None}

ServeStop(s, mine) ==
    /\ Request([op |-> "stop", sid |-> s], mine)
    /\ \/ /\ Refuses(s)
          /\ Replies(mine, "conflict", held)
          /\ UNCHANGED <<core, escaped, busy, bounds>>
       \/ /\ ~Refuses(s) /\ held = None
          /\ Replies(mine, "stopped", None)
          /\ UNCHANGED <<core, escaped, busy, bounds>>
       \/ /\ ~Refuses(s) /\ held = s
          /\ core' = IF core = s THEN None ELSE core
          /\ escaped' = escaped \ {s}
          /\ busy' = [op |-> "clear", sid |-> s, mine |-> mine]
          /\ UNCHANGED <<wire, bounds>>
       \/ /\ ~Refuses(s) /\ held = s
          /\ IF s \in escaped \cup {core} THEN Trouble ELSE UNCHANGED bounds
          /\ Replies(mine, "stopping", held)
          /\ UNCHANGED <<core, escaped, busy>>
    /\ UNCHANGED <<up, claim, memory>>
    /\ ServiceKeeps

Clears ==
    /\ busy # None /\ busy.op = "clear"
    /\ \/ /\ claim' = None /\ held' = None
          /\ Replies(busy.mine, "stopped", None)
          /\ UNCHANGED bounds
       \/ /\ Trouble
          /\ claim' \in {claim, None}
          /\ Replies(busy.mine, "failed", None)
          /\ UNCHANGED held
    /\ busy' = None
    /\ UNCHANGED <<up, core, escaped, blocked, conflict, exited, late>>
    /\ ServiceKeeps

CoreExits ==
    /\ exits < MaxExits
    /\ exits' = exits + 1
    /\ \/ core # None /\ core' = None /\ UNCHANGED escaped
       \/ \E s \in escaped : escaped' = escaped \ {s} /\ UNCHANGED core
    /\ UNCHANGED <<up, claim, memory, busy, pipe, troubles, calls, quits>>
    /\ ServiceKeeps

\* The job object takes the cores along, but for one it does not hold yet.
ServiceDies ==
    /\ up /\ Trouble
    /\ up' = FALSE /\ core' = None
    /\ escaped' \in SUBSET IF Recording THEN {core} \ {None} ELSE {}
    /\ Verifies(None) /\ exited' = FALSE
    /\ busy' = None /\ late' = {}
    /\ wire' = IF Pending THEN [wire EXCEPT !.out = "unreachable"] ELSE wire
    /\ UNCHANGED claim
    /\ ServiceKeeps

\* initialize reconciles before the pipe is open.
ServiceStarts ==
    /\ ~up
    /\ up' = TRUE
    /\ \E out \in Outcome, of \in Maybe, ok \in BOOLEAN : Reconciles(out, of, ok)
    /\ UNCHANGED <<core, escaped, busy, pipe>>
    /\ ServiceKeeps

ServiceSteps ==
    \/ \E mine \in BOOLEAN : ServeReconcile(mine)
    \/ \E s \in Sessions, mine \in BOOLEAN : ServeStart(s, mine) \/ ServeStop(s, mine)
    \/ Recovers \/ Launches \/ Records \/ RecordFails \/ Clears \/ ServiceStarts

-----------------------------------------------------------------------------
(* The pipe. *)

Unreachable ==
    /\ Pending /\ ~up
    /\ wire' = [wire EXCEPT !.out = "unreachable"]
    /\ UNCHANGED <<service, late, bounds>>
    /\ ServiceKeeps

\* The pipe is busy or breaks: the request is lost, or its answer is.
Breaks ==
    /\ Pending /\ up /\ Trouble
    /\ wire' = [wire EXCEPT !.out = "unreachable"]
    /\ busy' = IF Taken THEN [busy EXCEPT !.mine = FALSE] ELSE busy
    /\ UNCHANGED <<up, core, escaped, claim, memory, late>>
    /\ ServiceKeeps

\* The client gives up; the service does not know.
TimesOut ==
    /\ Pending /\ up /\ Trouble
    /\ wire' = [wire EXCEPT !.out = "timeout"]
    /\ IF Taken
       THEN busy' = [busy EXCEPT !.mine = FALSE] /\ UNCHANGED late
       ELSE late' = late \cup {[op |-> wire.op, sid |-> wire.sid]} /\ UNCHANGED busy
    /\ UNCHANGED <<up, core, escaped, claim, memory>>
    /\ ServiceKeeps

-----------------------------------------------------------------------------
(* The gateway's queue.  One operation holds it from its first step to its   *)
(* last; who called waits for the result.                                    *)

Doing(op, step) == line # <<>> /\ Head(line).op = op /\ at = step
Got(op, step)   == Doing(op, step) /\ wire.out # "none"
Quitting        == quit # "no"
InLine(who)     == \E i \in DOMAIN line : line[i].by = who

Joins(who, op) == line' = Append(line, [by |-> who, op |-> op])

Ask(op, sid, step) ==
    /\ wire' = [op |-> op, sid |-> sid, out |-> "none", of |-> None]
    /\ at' = step
    /\ UNCHANGED <<line, mon, quit>>

\* The operation returns; `result` is what the monitor makes of it.
Returns(result) ==
    /\ line' = Tail(line)
    /\ at' = "begin"
    /\ wire' = Silence
    /\ mon' = IF Head(line).by = "monitor" THEN result ELSE mon
    /\ quit' = IF Head(line).by # "quit" THEN quit
               ELSE IF phase' = "stopped" THEN "stopped" ELSE "unstopped"

Stays == UNCHANGED <<service, late, streak, restarts, deferred, bounds>>

\* TunServiceClient::reconcile: only these two answers touch the session.
OwnedAfter ==
    CASE wire.out = "running" -> wire.of
      [] wire.out = "stopped" -> None
      [] OTHER                -> owned

\* An answer about the core accounts for every request made before it.
Settles(outs) == strays' = IF wire.out \in outs THEN {} ELSE strays

\* TunServiceClient::stop
OwnedAfterStop == IF wire.out = "stopped" THEN None ELSE owned

\* initialize: the core of a previous process goes.  It is the first in the queue
\* here; a start of the user that overtakes it is in NetworkDetector.
InitAsks ==
    /\ Doing("init", "begin")
    /\ Ask("reconcile", None, "asked")
    /\ UNCHANGED <<phase, owned, history>> /\ Stays

InitAsked ==
    /\ Got("init", "asked")
    /\ owned' = OwnedAfter
    /\ IF wire.out = "running"
       THEN Ask("stop", wire.of, "cleanup") /\ UNCHANGED phase
       ELSE /\ phase' = IF wire.out \in {"stopped", "failed"} THEN "stopped" ELSE phase
            /\ Returns("idle")
    /\ Settles({"stopped"})
    /\ UNCHANGED <<issued, due>> /\ Stays

InitStopped ==
    /\ Got("init", "cleanup")
    /\ owned' = OwnedAfterStop
    /\ phase' = IF wire.out = "stopped" THEN "stopped" ELSE phase
    /\ Settles({"stopped"})
    /\ Returns("idle")
    /\ UNCHANGED <<issued, due>> /\ Stays

\* start: the error path asks the service to stop what the client owns.
Fails(own) ==
    /\ owned' = own
    /\ IF own = None
       THEN phase' = "failed" /\ Returns("idle")
       ELSE Ask("stop", own, "cleanup") /\ UNCHANGED phase
    /\ UNCHANGED issued

\* TunServiceClient::start: refused while a session is owned.  Building the
\* profile can fail, and does here once the session ids have run out.
Requests(own) ==
    IF own = None /\ issued < MaxStarts
    THEN /\ issued' = issued + 1
         /\ owned' = own
         /\ Ask("start", issued', "launch")
         /\ UNCHANGED phase
    ELSE Fails(own)

StartBegins ==
    /\ Doing("start", "begin")
    /\ due' = IF Head(line).by = "monitor" THEN due ELSE FALSE
    /\ IF phase \in {"running", "starting"}
       THEN Returns("idle") /\ UNCHANGED phase
       ELSE /\ phase' = "starting"
            /\ Ask("reconcile", None, "asked")
    /\ UNCHANGED <<owned, issued, strays>> /\ Stays

\* retry_service, up to its deadline.
StartRetries ==
    /\ Got("start", "asked")
    /\ wire.out = "unreachable" /\ ~Quitting
    /\ Ask("reconcile", None, "asked")
    /\ UNCHANGED <<phase, owned, history>> /\ Stays

StartAsked ==
    /\ Got("start", "asked")
    /\ Settles({"running", "stopped"})
    /\ CASE wire.out = "running" -> /\ owned' = wire.of
                                    /\ Ask("stop", wire.of, "stale")
                                    /\ UNCHANGED <<phase, issued>>
         [] wire.out \in {"stopped", "failed"} -> Requests(OwnedAfter)
         [] OTHER -> Fails(owned)
    /\ UNCHANGED due /\ Stays

StaleStopped ==
    /\ Got("start", "stale")
    /\ Settles({"stopped"})
    /\ IF wire.out = "stopped" THEN Requests(None) ELSE Fails(owned)
    /\ UNCHANGED due /\ Stays

\* An answer that is lost says nothing about the core.
Launched ==
    /\ Got("start", "launch")
    /\ IF wire.out = "running"
       THEN /\ owned' = wire.sid
            /\ strays' = {}
            /\ at' = "ready" /\ wire' = Silence
            /\ UNCHANGED <<phase, line, mon, quit, issued>>
       ELSE /\ strays' = IF wire.out \in {"unreachable", "timeout"}
                         THEN strays \cup {wire.sid} ELSE strays
            /\ Fails(owned)
    /\ UNCHANGED due /\ Stays

\* start_profile: whose core is it?
LaunchUnclear ==
    /\ Got("start", "launch")
    /\ wire.out = "unreachable" /\ ~Quitting
    /\ strays' = strays \cup {wire.sid}
    /\ Ask("reconcile", None, "relaunch")
    /\ UNCHANGED <<phase, owned, issued, due>> /\ Stays

\* Mutant: the core is adopted, its session is not.
RelaunchesForgets ==
    /\ Got("start", "relaunch")
    /\ Settles({"running", "stopped"})
    /\ IF wire.out = "running"
       THEN /\ at' = "ready" /\ wire' = Silence
            /\ UNCHANGED <<owned, phase, line, mon, quit, issued>>
       ELSE Requests(OwnedAfter)
    /\ UNCHANGED due /\ Stays

Relaunches ==
    /\ Got("start", "relaunch")
    /\ Settles({"running", "stopped"})
    /\ IF wire.out = "running"
       THEN /\ owned' = wire.of
            /\ at' = "ready" /\ wire' = Silence
            /\ UNCHANGED <<phase, line, mon, quit, issued>>
       ELSE Requests(OwnedAfter)
    /\ UNCHANGED due /\ Stays

\* The port and the secret of the controller are settings: it is any live core
\* that answers, one of a former process too.
Answering == core # None \/ escaped # {}

\* wait_until_ready_or_exited
Ready ==
    /\ Doing("start", "ready") /\ ~Quitting
    /\ Answering
    /\ phase' = "running"
    /\ Returns("idle")
    /\ UNCHANGED <<owned, history>> /\ Stays

NotReady ==
    /\ Doing("start", "ready") /\ ~Quitting
    /\ Ask("reconcile", None, "readying")
    /\ UNCHANGED <<phase, owned, history>> /\ Stays

Aborted ==
    /\ Doing("start", "ready") /\ Quitting
    /\ Fails(owned)
    /\ UNCHANGED <<strays, due>> /\ Stays

\* The controller does not answer in time, or with another version.
ReadyTimesOut ==
    /\ Doing("start", "ready")
    /\ IF Answering THEN Trouble ELSE UNCHANGED bounds
    /\ Fails(owned)
    /\ UNCHANGED <<service, late, streak, restarts, deferred, strays, due>>

ReadyAsked ==
    /\ Got("start", "readying")
    /\ Settles({"running", "stopped"})
    /\ IF wire.out = "running"
       THEN /\ owned' = wire.of
            /\ at' = "ready" /\ wire' = Silence
            /\ UNCHANGED <<phase, line, mon, quit, issued>>
       ELSE Fails(OwnedAfter)
    /\ UNCHANGED due /\ Stays

StartFailed ==
    /\ Got("start", "cleanup")
    /\ owned' = OwnedAfterStop
    /\ phase' = "failed"
    /\ Settles({"stopped"})
    /\ Returns("idle")
    /\ UNCHANGED <<issued, due>> /\ Stays

\* stop: nothing to ask for when the client owns no session.
StopBegins ==
    /\ Doing("stop", "begin")
    /\ due' = FALSE
    /\ IF phase = "stopped" \/ owned = None
       THEN phase' = "stopped" /\ Returns("idle")
       ELSE phase' = "stopping" /\ Ask("stop", owned, "asked")
    /\ UNCHANGED <<owned, issued, strays>> /\ Stays

\* Mutant: the stop is reported although the service refused it.
StopAnsweredAnyway ==
    /\ Got("stop", "asked")
    /\ owned' = OwnedAfterStop
    /\ phase' = "stopped"
    /\ Settles({"stopped"})
    /\ Returns("idle")
    /\ UNCHANGED <<issued, due>> /\ Stays

StopAnswered ==
    /\ Got("stop", "asked")
    /\ owned' = OwnedAfterStop
    /\ phase' = IF wire.out = "stopped" THEN "stopped" ELSE "failed"
    /\ Settles({"stopped"})
    /\ Returns("idle")
    /\ UNCHANGED <<issued, due>> /\ Stays

\* reconcile_liveness.  A record that cannot be read is answered like an exit.
PollAsks ==
    /\ Doing("poll", "begin")
    /\ Ask("reconcile", None, "asked")
    /\ UNCHANGED <<phase, owned, history>> /\ Stays

Live     == wire.out = "running"
Dead     == wire.out \in {"stopped", "failed"}
Believed == phase \in {"running", "starting"}

\* Mutant: the core stays "running" until a restart has succeeded.
PollGoneUnmarked ==
    /\ Got("poll", "asked") /\ Dead
    /\ owned' = IF Believed THEN None ELSE OwnedAfter
    /\ IF Believed /\ core # None THEN strays' = strays \cup {core} ELSE Settles({"stopped"})
    /\ due' = (due \/ Believed)
    /\ Returns("gone")
    /\ UNCHANGED <<phase, issued>> /\ Stays

PollGone ==
    /\ Got("poll", "asked") /\ Dead
    /\ owned' = IF Believed THEN None ELSE OwnedAfter
    /\ phase' = IF Believed THEN "failed" ELSE phase
    /\ IF Believed /\ core # None THEN strays' = strays \cup {core} ELSE Settles({"stopped"})
    /\ due' = (due \/ Believed)
    /\ Returns("gone")
    /\ UNCHANGED issued /\ Stays

PollAnswered ==
    /\ Got("poll", "asked") /\ ~Dead
    /\ owned' = OwnedAfter
    /\ IF phase = "stopped" THEN UNCHANGED strays ELSE Settles({"running"})
    /\ Returns(CASE Live -> "live" [] wire.out = "unreachable" -> "probe" [] OTHER -> "idle")
    /\ UNCHANGED <<phase, issued, due>> /\ Stays

\* declare_lost
DeclaresLost ==
    /\ Doing("lost", "begin")
    /\ IF Believed
       THEN /\ owned' = None /\ phase' = "failed" /\ due' = TRUE
            /\ strays' = IF core # None THEN strays \cup {core} ELSE strays
            /\ Returns("gone")
       ELSE Returns("idle") /\ UNCHANGED <<owned, phase, due, strays>>
    /\ UNCHANGED issued /\ Stays

GatewaySteps ==
    \/ InitAsks \/ InitAsked \/ InitStopped
    \/ StartBegins \/ StartRetries \/ StartAsked \/ StaleStopped \/ Launched
    \/ LaunchUnclear \/ Relaunches \/ Ready \/ NotReady \/ ReadyTimesOut
    \/ Aborted \/ ReadyAsked \/ StartFailed \/ StopBegins \/ StopAnswered
    \/ PollAsks \/ PollGone \/ PollAnswered \/ DeclaresLost

-----------------------------------------------------------------------------
(* PrivilegedExitMonitor: one tick at a time. *)

MonitorKeeps == UNCHANGED <<service, pipe, phase, owned, at, quit, issued, strays, bounds>>

Ticks ==
    /\ mon = "idle" /\ ~Quitting
    /\ deferred' = FALSE
    /\ \/ /\ deferred
          /\ mon' = IF phase = "failed" THEN "recover" ELSE "idle"
          /\ due' = (due /\ phase = "failed")
          /\ UNCHANGED <<line, streak>>
       \/ /\ ~deferred /\ Believed
          /\ mon' = "called"
          /\ Joins("monitor", "poll")
          /\ UNCHANGED <<streak, due>>
       \/ /\ ~deferred /\ ~Believed /\ streak # 0
          /\ streak' = 0
          /\ UNCHANGED <<mon, line, due>>
    /\ UNCHANGED restarts /\ MonitorKeeps

SeesLive ==
    /\ mon = "live"
    /\ streak' = 0
    /\ mon' = "idle"
    /\ UNCHANGED <<line, restarts, deferred, due>> /\ MonitorKeeps

\* The service is unreachable: does a controller still answer?
Probes ==
    /\ mon = "probe"
    /\ streak' = IF Answering THEN 0 ELSE (streak + 1) % Streak
    /\ IF ~Answering /\ streak' = 0
       THEN mon' = "called" /\ Joins("monitor", "lost")
       ELSE mon' = "idle" /\ UNCHANGED line
    /\ UNCHANGED <<restarts, deferred, due>> /\ MonitorKeeps

\* Mutant: an exit that is seen during a quit is forgotten.
SeesGoneDrops ==
    /\ mon = "gone"
    /\ streak' = 0
    /\ mon' = IF Quitting THEN "idle" ELSE "recover"
    /\ UNCHANGED <<line, restarts, deferred, due>> /\ MonitorKeeps

SeesGone ==
    /\ mon = "gone"
    /\ streak' = 0
    /\ deferred' = Quitting
    /\ mon' = IF Quitting THEN "idle" ELSE "recover"
    /\ UNCHANGED <<line, restarts, due>> /\ MonitorKeeps

\* recover, behind the steps that make the network safe: pause, defer (the
\* restart is refunded), restart, or leave it to the recovery coordinator.
Pauses ==
    /\ mon = "recover" /\ restarts = Budget
    /\ mon' = "idle"
    /\ due' = FALSE
    /\ UNCHANGED <<line, streak, restarts, deferred>> /\ MonitorKeeps

Defers ==
    /\ mon = "recover" /\ restarts < Budget /\ Quitting
    /\ mon' = "idle"
    /\ deferred' = TRUE
    /\ UNCHANGED <<line, streak, restarts, due>> /\ MonitorKeeps

\* Mutant: the quit is not looked at again before the restart.
RestartsUnasked ==
    /\ mon = "recover" /\ restarts < Budget
    /\ restarts' = restarts + 1
    /\ due' = FALSE
    /\ mon' = "called" /\ Joins("monitor", "start")
    /\ UNCHANGED <<streak, deferred>> /\ MonitorKeeps

Restarts ==
    /\ mon = "recover" /\ restarts < Budget /\ ~Quitting
    /\ restarts' = restarts + 1
    /\ due' = FALSE
    /\ \/ mon' = "called" /\ Joins("monitor", "start")
       \/ mon' = "idle" /\ UNCHANGED line
    /\ UNCHANGED <<streak, deferred>> /\ MonitorKeeps

WindowPasses ==
    /\ restarts > 0
    /\ restarts' = restarts - 1
    /\ UNCHANGED <<mon, line, streak, deferred, due>> /\ MonitorKeeps

MonitorSteps == Ticks \/ SeesLive \/ Probes \/ SeesGone \/ Pauses \/ Defers \/ Restarts

-----------------------------------------------------------------------------
(* The user, the quit, and the end of the process. *)

\* A request of the user holds the runtime gate until it is answered.
Calls(op) ==
    /\ calls < MaxCalls /\ ~Quitting /\ ~InLine("user")
    /\ Joins("user", op)
    /\ calls' = calls + 1
    /\ UNCHANGED <<service, pipe, phase, owned, at, monitor, quit, history,
                   troubles, exits, quits>>

QuitKeeps == UNCHANGED <<service, pipe, phase, owned, at, monitor, history>>

Quits ==
    /\ quit = "no" /\ quits < MaxQuits
    /\ quit' = "fenced"
    /\ quits' = quits + 1
    /\ UNCHANGED <<line, troubles, exits, calls>> /\ QuitKeeps

\* Behind the gate: the network is restored, the core stopped.
QuitStops ==
    /\ quit = "fenced" /\ ~InLine("user") /\ ~InLine("quit")
    /\ Joins("quit", "stop")
    /\ UNCHANGED <<quit, bounds>> /\ QuitKeeps

\* The proxy could not be restored.
QuitCancelled ==
    /\ quit = "fenced" /\ ~InLine("user") /\ ~InLine("quit")
    /\ quit' = "no"
    /\ UNCHANGED <<line, bounds>> /\ QuitKeeps

\* The process ends, and the next launch knows nothing.
Ends ==
    /\ phase' = "stopped" /\ owned' = None
    /\ line' = <<[by |-> "boot", op |-> "init"]>> /\ at' = "begin"
    /\ mon' = "idle" /\ streak' = 0 /\ restarts' = 0 /\ deferred' = FALSE
    /\ quit' = "no" /\ due' = FALSE
    /\ wire' = Silence
    /\ late' = IF Pending /\ ~Taken THEN late \cup {[op |-> wire.op, sid |-> wire.sid]}
               ELSE late
    /\ busy' = IF Taken THEN [busy EXCEPT !.mine = FALSE] ELSE busy
    /\ strays' = 1..issued
    /\ UNCHANGED <<up, core, escaped, claim, memory, issued>>

Dies == Trouble /\ Ends
Exits == quit \in {"stopped", "unstopped"} /\ Ends /\ UNCHANGED bounds

Next ==
    \/ ServiceSteps \/ CoreExits \/ ServiceDies
    \/ Unreachable \/ Breaks \/ TimesOut
    \/ GatewaySteps \/ MonitorSteps \/ WindowPasses
    \/ Calls("start") \/ Calls("stop")
    \/ Quits \/ QuitStops \/ QuitCancelled \/ Dies \/ Exits

\* The service answers and is restarted, who holds the queue goes on, the
\* monitor ticks, and a quit comes to an end.
Fairness ==
    /\ WF_vars(ServiceSteps \/ Unreachable)
    /\ WF_vars(GatewaySteps)
    /\ WF_vars(MonitorSteps)
    /\ WF_vars(QuitStops \/ QuitCancelled \/ Exits)

Spec == Init /\ [][Next]_vars /\ Fairness

-----------------------------------------------------------------------------
(* Properties. *)

\* A status "stopped" means that no core runs, but for one whose start was not
\* answered, which was given up for lost or which a former process left, until
\* the service next answers about it: after every sequence of exits, restarts,
\* retries and lost answers.  The core is the one the service answers for: what
\* escapes the service itself (its record not written and its emergency stop
\* failed, or its own death before the job holds the core) runs behind any
\* status, and is the subject of ServiceManager.
StoppedIsStopped == phase = "stopped" => core = None \/ core \in strays

\* The session the client would stop is that of the core that runs while the
\* status says so: also when the answer to its start was lost and the session was
\* learnt from the service, and when a core of a former process answers.
RunningIsOwned == phase = "running" /\ core # None => core = owned

\* A core that exits is not reported as running for ever.
ExitNoticed == phase = "running" /\ core = None ~> phase # "running" \/ core # None

\* An exit the monitor has noticed is followed by a restart, by the recovery
\* coordinator's wake, by a pause of the crash loop or by the user, also when a
\* quit that is cancelled comes in between.
ExitRecovered == due ~> ~due

\* An exit that was noticed is not forgotten while nothing has followed it: the
\* monitor is at it, or has deferred it to a later tick because of a quit; and no
\* other status than "failed" hides it meanwhile.
NoticeKept ==
    due => /\ phase = "failed"
           /\ mon \in {"gone", "recover"} \/ (mon = "idle" /\ deferred)

\* Once a quit has stopped the core nothing starts one before the process ends,
\* although the monitor's restart does not take the runtime gate; again but for
\* what has escaped the service.
QuitLeavesNoCore == quit = "stopped" => core = None \/ core \in strays

\* The poll "returns false only when a process this gateway believed live is now
\* definitively gone".
GoneMeansGone == [][mon # "gone" /\ mon' = "gone" => Believed /\ core = None]_vars

\* The service this module assumes keeps the contract ServiceManager implements.
Lease == INSTANCE CoreLease WITH
             Pids    <- Sessions,
             cores   <- IF core = None THEN {} ELSE {core},
             claim   <- IF claim = None THEN None ELSE [sid |-> claim, pid |-> claim],
             stopped <- FALSE

ServiceKeepsLease == Lease!Spec

=============================================================================
