------------------------ MODULE RecoveryCoordinator ------------------------
(***************************************************************************)
(* The recovery coordinator of the desktop client (runtime_intent.rs): it  *)
(* brings the networking modes the user wants back up, in the background,  *)
(* by attempts that a chain of timers begins.                              *)
(*                                                                         *)
(* A timer is a spawned task that sleeps, clears the coordinator's timer   *)
(* and becomes the attempt; the state of the coordinator is behind a lock  *)
(* that a task takes and leaves several times.  Every step of an attempt   *)
(* first asks a fence (has the intent changed?), then waits in the line    *)
(* for the runtime gate, which the user's own requests take as well.       *)
(*                                                                         *)
(* Delays are abstracted to their order: a sleeping task wakes at any      *)
(* time.  Of a generation only its being the current one matters.  Phases  *)
(* that the recovery leaves alone (conflict, unsupported) are left out.    *)
(***************************************************************************)
EXTENDS Naturals, Sequences, SequencesExt

CONSTANTS
    Modes,        \* the modes the user can ask for: "proxy", "tun"
    Backoff,      \* retries in one window (backoff.len())
    MaxTasks,     \* bound on the spawned tasks alive at once
    MaxLine,      \* bound on the operations in the line for the gate
    MaxRequests,  \* bound on the user's requests of one behaviour
    MaxSignals    \* bound on the wake and cancel signals of one behaviour

ASSUME ModesAssumption == Modes \subseteq {"proxy", "tun"}
ASSUME CoordinatorAssumption ==
    /\ Backoff \in Nat \ {0} /\ MaxTasks \in Nat \ {0}
    /\ MaxLine \in Nat \ {0} /\ MaxRequests \in Nat /\ MaxSignals \in Nat

VARIABLES
    started,      \* state.started
    running,      \* state.running: an attempt is in progress
    wakePending,  \* state.wake_pending
    nextDelay,    \* state.next_delay
    open,         \* state.deadline has not passed
    timer,        \* state.timer: the task it can abort, 0 if none
    last,         \* state.last: the intent it acted upon, or was told
    task,         \* the spawned tasks
    line,         \* who waits for the runtime gate; the first one holds it
    stage,        \* how far the user's request that holds the gate has come
    desired,      \* the settings: the modes the user wants
    on,           \* the modes that are up
    quitting,     \* lifecycle::is_quitting
    requests,     \* the user's requests so far
    signals,      \* the signals so far
    due,          \* history: an attempt is owed to the user or to a signal; an
                  \* aborted attempt pays only when it comes to its end
    quiet         \* history: the attempts were cancelled, nothing re-armed them

coordinator == <<started, running, wakePending, nextDelay, open, timer, last>>
host        == <<desired, on, quitting>>
gate        == <<line, stage>>
bounds      == <<requests, signals>>
history     == <<due, quiet>>
vars        == <<coordinator, task, gate, host, bounds, history>>

Core   == "kernel"
Ids    == 1 .. MaxTasks
NoTask == 0
Untold == {"untold"}    \* state.last is None

\* restore_runtime_intent brings the core up, then the proxy, then TUN, then
\* the proxy again.
Order == <<Core, "proxy", "tun", "proxy">>

\* `late` is history: when the attempt noted the intent it had read, the settings
\* had already changed.
Stages == {"free", "sleeping", "fired", "ready", "read", "note", "step",
           "line", "select", "finish", "exit"}
Task   == [at : Stages, current : BOOLEAN, doomed : BOOLEAN,
           flags : SUBSET Modes, step : 1 .. Len(Order),
           seen : SUBSET {Core, "tun"}, late : BOOLEAN]
Free   == [at |-> "free", current |-> FALSE, doomed |-> FALSE, flags |-> {},
           step |-> 1, seen |-> {}, late |-> FALSE]
Asleep == [Free EXCEPT !.at = "sleeping", !.current = TRUE]

\* Who waits in the line: a request of the user, another operation, or a task.
Waiters  == [who : 0 .. MaxTasks, mode : Modes \cup {"other", "retry"}, want : BOOLEAN]
User(mode, want) == [who |-> 0, mode |-> mode, want |-> want]
Other            == [who |-> 0, mode |-> "other", want |-> FALSE]
Retry(t)         == [who |-> t, mode |-> "retry", want |-> TRUE]

CoordinatorTypeOK ==
    /\ started \in BOOLEAN
    /\ running \in BOOLEAN
    /\ wakePending \in BOOLEAN
    /\ nextDelay \in 0 .. Backoff
    /\ open \in BOOLEAN
    /\ timer \in Ids \cup {NoTask}
    /\ last \in (SUBSET Modes) \cup {Untold}
    /\ task \in [Ids -> Task]
    /\ line \in Seq(Waiters)
    /\ Len(line) <= MaxLine
    /\ stage \in {"asked", "written", "told"}
    /\ desired \subseteq Modes
    /\ on \subseteq {Core, "proxy", "tun"}
    /\ quitting \in {"no", "yes", "over"}
    /\ requests \in 0 .. MaxRequests
    /\ signals \in 0 .. MaxSignals
    /\ due \in BOOLEAN
    /\ quiet \in BOOLEAN

Init ==
    /\ started = FALSE
    /\ running = FALSE
    /\ wakePending = FALSE
    /\ nextDelay = 0
    /\ open = FALSE
    /\ timer = NoTask
    /\ last = Untold
    /\ task = [t \in Ids |-> Free]
    /\ line = <<>>
    /\ stage = "asked"
    /\ desired \in SUBSET Modes
    /\ on = {}
    /\ quitting = "no"
    /\ requests = 0
    /\ signals = 0
    /\ due = FALSE
    /\ quiet = FALSE

-----------------------------------------------------------------------------
(* Helpers. *)

suspended == quitting # "no"

\* clear_timer aborts the task behind the timer: asleep it is gone at once, but
\* one that is being polled goes on to its next wait, and is dropped there.
Cleared ==
    IF timer = NoTask THEN task
    ELSE [task EXCEPT ![timer] =
            IF @.at = "sleeping" THEN Free ELSE [@ EXCEPT !.doomed = TRUE]]

\* state.generation += 1: no task that was spawned before is current.
Outdated(tasks) == [t \in Ids |-> [tasks[t] EXCEPT !.current = FALSE]]

\* schedule: spawn a task that sleeps, and remember it as the timer.
Spawn(tasks) ==
    \E t \in Ids :
        /\ tasks[t].at = "free"
        /\ \A s \in 1 .. t - 1 : tasks[s].at # "free"
        /\ task' = [tasks EXCEPT ![t] = Asleep]
        /\ timer' = t

\* Mutant: the number of retries is not looked at.
ScheduleNextUnbounded(tasks, old, next, inTime) ==
    /\ nextDelay' = IF started' THEN next + 1 ELSE next
    /\ IF started' /\ inTime
       THEN Spawn(tasks)
       ELSE task' = tasks /\ timer' = old

\* schedule_next: one retry of the window is used up, also when it comes too
\* late to be scheduled.
ScheduleNext(tasks, old, next, inTime) ==
    /\ nextDelay' = IF started' /\ next < Backoff THEN next + 1 ELSE next
    /\ IF started' /\ next < Backoff /\ inTime
       THEN Spawn(tasks)
       ELSE task' = tasks /\ timer' = old

At(t, where) == task[t].at = where

Goes(t, where) == task' = [task EXCEPT ![t].at = where]

\* What every step of an attempt asks before it waits for the gate.
Fence(t) == started /\ task[t].current /\ ~suspended

-----------------------------------------------------------------------------
(* The coordinator's methods. *)

Start ==
    /\ ~started
    /\ ~suspended
    /\ started' = TRUE
    /\ open' = TRUE
    /\ ScheduleNext(task, timer, 0, TRUE)
    /\ UNCHANGED <<running, wakePending, last, gate, host, bounds, history>>

Signal == signals < MaxSignals /\ signals' = signals + 1 /\ UNCHANGED requests

\* Mutant: the signal is not kept for the end of the attempt in progress.
WakeUnkept ==
    /\ started
    /\ Signal
    /\ nextDelay' = 0
    /\ open' = TRUE
    /\ IF running
       THEN UNCHANGED <<wakePending, task, timer>>
       ELSE Spawn(Cleared) /\ UNCHANGED wakePending
    /\ due' = TRUE
    /\ quiet' = FALSE
    /\ UNCHANGED <<started, running, last, gate, host>>

\* wake: the network is back, the machine resumed, or the core has died.
Wake ==
    /\ started
    /\ Signal
    /\ nextDelay' = 0
    /\ open' = TRUE
    /\ IF running
       THEN wakePending' = TRUE /\ UNCHANGED <<task, timer>>
       ELSE Spawn(Cleared) /\ UNCHANGED wakePending
    /\ due' = TRUE
    /\ quiet' = FALSE
    /\ UNCHANGED <<started, running, last, gate, host>>

\* Mutant: an attempt in progress is not outdated.
CancelPendingTimer ==
    /\ started
    /\ Signal
    /\ task' = Cleared
    /\ wakePending' = FALSE
    /\ timer' = NoTask
    /\ nextDelay' = Backoff
    /\ due' = FALSE
    /\ quiet' = TRUE
    /\ UNCHANGED <<started, running, open, last, gate, host>>

\* cancel_pending: a core that keeps dying is not started again.
CancelPending ==
    /\ started
    /\ Signal
    /\ task' = Outdated(Cleared)
    /\ wakePending' = FALSE
    /\ timer' = NoTask
    /\ nextDelay' = Backoff
    /\ due' = FALSE
    /\ quiet' = TRUE
    /\ UNCHANGED <<started, running, open, last, gate, host>>

\* stop, when the quit disposes of the services.
Stop ==
    /\ started
    /\ quitting = "yes"
    /\ quitting' = "over"
    /\ started' = FALSE
    /\ task' = Outdated(Cleared)
    /\ wakePending' = FALSE
    /\ timer' = NoTask
    /\ due' = FALSE
    /\ quiet' = TRUE
    /\ UNCHANGED <<running, nextDelay, open, last, gate, desired, on, bounds>>

\* Mutant: an attempt in progress is not outdated by a change of intent.
HandleSettingsChangeLate ==
    /\ UNCHANGED <<started, running>>
    /\ IF last = desired
       THEN UNCHANGED <<wakePending, nextDelay, open, timer, last, task, quiet>>
       ELSE /\ last' = desired
            /\ open' = TRUE
            /\ quiet' = FALSE
            /\ IF running
               THEN /\ wakePending' = TRUE
                    /\ nextDelay' = 0
                    /\ task' = Cleared
                    /\ timer' = NoTask
               ELSE /\ ScheduleNext(Outdated(Cleared), NoTask, 0, TRUE)
                    /\ UNCHANGED wakePending

\* handle_settings_change, called by the request that has written the settings.
HandleSettingsChange ==
    /\ UNCHANGED <<started, running>>
    /\ IF last = desired
       THEN UNCHANGED <<wakePending, nextDelay, open, timer, last, task, quiet>>
       ELSE /\ last' = desired
            /\ open' = TRUE
            /\ quiet' = FALSE
            /\ IF running
               THEN /\ wakePending' = TRUE
                    /\ nextDelay' = 0
                    /\ task' = Outdated(Cleared)
                    /\ timer' = NoTask
               ELSE /\ ScheduleNext(Outdated(Cleared), NoTask, 0, TRUE)
                    /\ UNCHANGED wakePending

-----------------------------------------------------------------------------
(* A spawned task: the timer, then the attempt (schedule and tick). *)

Fires(t) ==
    /\ At(t, "sleeping")
    /\ Goes(t, "fired")
    /\ UNCHANGED <<coordinator, gate, host, bounds, history>>

\* The task forgets the timer, whichever that is by now.
Forgets(t) ==
    /\ At(t, "fired")
    /\ timer' = NoTask
    /\ Goes(t, "ready")
    /\ UNCHANGED <<started, running, wakePending, nextDelay, open, last, gate,
                   host, bounds, history>>

\* Mutant: whether an attempt is in progress is not looked at.
TickUnguarded(t) ==
    /\ At(t, "ready")
    /\ IF ~started \/ ~task[t].current
       THEN task' = [task EXCEPT ![t] = Free] /\ UNCHANGED running
       ELSE Goes(t, "read") /\ running' = TRUE
    /\ UNCHANGED <<started, wakePending, nextDelay, open, timer, last, gate, host,
                   bounds, history>>

Tick(t) ==
    /\ At(t, "ready")
    /\ IF ~started \/ running \/ ~task[t].current
       THEN task' = [task EXCEPT ![t] = Free] /\ UNCHANGED running
       ELSE Goes(t, "read") /\ running' = TRUE
    /\ UNCHANGED <<started, wakePending, nextDelay, open, timer, last, gate, host,
                   bounds, history>>

ReadsFlags(t) ==
    /\ At(t, "read")
    /\ task' = [task EXCEPT ![t].at = "note", ![t].flags = desired]
    /\ due' = (due /\ task[t].doomed)
    /\ UNCHANGED <<coordinator, gate, host, bounds, quiet>>

NotesFlags(t) ==
    /\ At(t, "note")
    /\ last' = task[t].flags
    /\ task' = [task EXCEPT ![t].at = IF task[t].current THEN "step" ELSE "exit",
                            ![t].late = task[t].current /\ task[t].flags # desired]
    /\ UNCHANGED <<started, running, wakePending, nextDelay, open, timer, gate,
                   host, bounds, history>>

\* The mode of this step is wanted and not up.
Retryable(t) ==
    LET mode == Order[task[t].step]
    IN  /\ mode \notin on
        /\ mode # Core => mode \in task[t].flags /\ Core \in task[t].seen

\* The attempt looks at what is up and turns to its next step.
Advance(t) ==
    LET seen == IF task[t].step < 3 THEN on' \cap {Core} ELSE on' \cap {Core, "tun"}
    IN  task' = [task EXCEPT
            ![t].seen = seen,
            ![t].step = IF @ < Len(Order) THEN @ + 1 ELSE @,
            ![t].at   = IF task[t].step < Len(Order) THEN "step"
                        ELSE IF Core \in seen THEN "select" ELSE "finish"]

\* While the gate is held, a mode may be on its way up or down: such a phase is
\* not retried.
StepSkips(t) ==
    /\ At(t, "step")
    /\ Retryable(t) /\ Fence(t) => line # <<>>
    /\ UNCHANGED host
    /\ Advance(t)
    /\ UNCHANGED <<coordinator, gate, bounds, history>>

StepQueues(t) ==
    /\ At(t, "step")
    /\ Retryable(t)
    /\ Fence(t)
    /\ Len(line) < MaxLine
    /\ line' = Append(line, Retry(t))
    /\ Goes(t, "line")
    /\ UNCHANGED <<coordinator, stage, host, bounds, history>>

Holds(waiter) == line # <<>> /\ Head(line) = waiter

\* What an operation that starts the core, and then switches `mode` on, may
\* leave behind; enabling the proxy in an attempt does not start the core.
BringsUp(mode) == {on, on \cup {Core}, on \cup {Core, mode}}
StepLeaves(t) ==
    IF Order[task[t].step] # "proxy" THEN BringsUp(Order[task[t].step])
    ELSE IF Core \in on THEN {on, on \cup {"proxy"}} ELSE {on}

\* The gate refuses once a quit has begun.  An aborted task goes on only if it is
\* refused without having waited for anything.
StepActs(t) ==
    /\ At(t, "line")
    /\ Holds(Retry(t))
    /\ on' \in IF suspended \/ task[t].doomed THEN {on} ELSE StepLeaves(t)
    /\ UNCHANGED <<desired, quitting>>
    /\ Advance(t)
    /\ line' = Tail(line)
    /\ UNCHANGED <<coordinator, stage, bounds, history>>

\* restore_selections.
Selects(t) ==
    /\ At(t, "select")
    /\ ~task[t].doomed
    /\ Goes(t, "finish")
    /\ UNCHANGED <<coordinator, gate, host, bounds, history>>

\* needs_another_attempt.
NeedsAnother(t) ==
    \/ Core \notin task[t].seen
    \/ "tun" \in task[t].flags /\ "tun" \notin task[t].seen
    \/ "proxy" \in task[t].flags /\ "proxy" \notin on

Finishes(t) ==
    /\ At(t, "finish")
    /\ UNCHANGED <<started, running, wakePending, open, last>>
    /\ LET tasks == [task EXCEPT ![t].at = "exit"]
       IN  IF ~task[t].current
           THEN task' = tasks /\ UNCHANGED <<timer, nextDelay>>
           ELSE IF NeedsAnother(t)
           THEN ScheduleNext(tasks, timer, nextDelay, open)
           ELSE /\ task' = [Cleared EXCEPT ![t].at = "exit"]
                /\ timer' = NoTask
                /\ UNCHANGED nextDelay
    /\ UNCHANGED <<gate, host, bounds, history>>

Exits(t) ==
    /\ At(t, "exit")
    /\ running' = FALSE
    /\ IF wakePending /\ started
       THEN wakePending' = FALSE /\ Spawn([Cleared EXCEPT ![t] = Free])
       ELSE task' = [task EXCEPT ![t] = Free] /\ UNCHANGED <<wakePending, timer>>
    /\ due' = (due /\ (wakePending \/ ~task[t].doomed))
    /\ UNCHANGED <<started, nextDelay, open, last, gate, host, bounds, quiet>>

\* An aborted task is dropped where it first waits, perhaps in the middle of
\* what it does behind the gate: `running` stays set.
Dropped(t) ==
    /\ task[t].doomed
    /\ \/ At(t, "select") /\ UNCHANGED <<line, on>>
       \/ /\ At(t, "line")
          /\ on' \in IF Holds(Retry(t)) /\ ~suspended THEN StepLeaves(t) ELSE {on}
          /\ \E i \in 1 .. Len(line) :
                line[i] = Retry(t) /\ line' = RemoveAt(line, i)
    /\ task' = [task EXCEPT ![t] = Free]
    /\ UNCHANGED <<coordinator, stage, desired, quitting, bounds, history>>

-----------------------------------------------------------------------------
(* The line for the gate: the user's requests, and any other operation.      *)

UserAsks(mode, want) ==
    /\ requests < MaxRequests
    /\ Len(line) < MaxLine
    /\ requests' = requests + 1
    /\ line' = Append(line, User(mode, want))
    /\ UNCHANGED <<coordinator, task, stage, host, signals, history>>

Request == Head(line)
UserHolds(where) == line # <<>> /\ Request.mode \in Modes /\ stage = where

Leaves == line' = Tail(line) /\ stage' = "asked"

\* The quit has begun, or the core that TUN needs cannot be started.
UserRefused ==
    /\ UserHolds("asked")
    /\ suspended \/ Request = User("tun", TRUE)
    /\ Leaves
    /\ UNCHANGED <<coordinator, task, host, bounds, history>>

\* TUN is asked for in the settings once the core runs.
UserWrites ==
    /\ UserHolds("asked")
    /\ ~suspended
    /\ desired' = IF Request.want THEN desired \cup {Request.mode}
                  ELSE desired \ {Request.mode}
    /\ on' = IF Request = User("tun", TRUE) THEN on \cup {Core} ELSE on
    /\ stage' = "written"
    /\ UNCHANGED <<coordinator, task, line, quitting, bounds, history>>

UserNotifies ==
    /\ UserHolds("written")
    /\ HandleSettingsChange
    /\ due' = (due \/ last # desired)
    /\ stage' = "told"
    /\ UNCHANGED <<line, host, bounds>>

UserActs ==
    /\ UserHolds("told")
    /\ on' \in IF Request.want THEN BringsUp(Request.mode)
               ELSE {on, on \ {Request.mode}}
    /\ Leaves
    /\ UNCHANGED <<coordinator, task, desired, quitting, bounds, history>>

\* A request that does not change the intent: a start or a stop of the core, a
\* reload, a change of the core version.
OtherAsks ==
    /\ Len(line) < MaxLine
    /\ line' = Append(line, Other)
    /\ UNCHANGED <<coordinator, task, stage, host, bounds, history>>

OtherActs ==
    /\ Holds(Other)
    /\ \/ UNCHANGED on
       \/ on' = {} /\ ~suspended
       \/ on' = on \cup {Core} /\ ~suspended
    /\ Leaves
    /\ UNCHANGED <<coordinator, task, desired, quitting, bounds, history>>

-----------------------------------------------------------------------------
(* The rest of the world. *)

\* The two minutes of the window are over.
WindowCloses ==
    /\ open
    /\ open' = FALSE
    /\ UNCHANGED <<started, running, wakePending, nextDelay, timer, last, task,
                   gate, host, bounds, history>>

\* The core or the TUN adapter fails.
ModeFails(lost) ==
    /\ on' = on \ lost
    /\ on' # on
    /\ UNCHANGED <<coordinator, task, gate, desired, quitting, bounds, history>>

Quit ==
    /\ quitting = "no"
    /\ quitting' = "yes"
    /\ UNCHANGED <<coordinator, task, gate, desired, on, bounds, history>>

QuitCancelled ==
    /\ quitting = "yes"
    /\ quitting' = "no"
    /\ UNCHANGED <<coordinator, task, gate, desired, on, bounds, history>>

-----------------------------------------------------------------------------

\* What a task does by itself.
Attempt(t) ==
    \/ Forgets(t) \/ Tick(t) \/ ReadsFlags(t) \/ NotesFlags(t)
    \/ StepSkips(t) \/ StepQueues(t) \/ StepActs(t) \/ Selects(t)
    \/ Finishes(t) \/ Exits(t) \/ Dropped(t)

\* What the user's request or another operation does that holds the gate.
GateMoves == UserRefused \/ UserWrites \/ UserNotifies \/ UserActs \/ OtherActs

Asks == OtherAsks \/ \E mode \in Modes, want \in BOOLEAN : UserAsks(mode, want)

Methods == Start \/ Wake \/ CancelPending \/ Stop

World ==
    \/ WindowCloses \/ Quit \/ QuitCancelled
    \/ \E lost \in {{Core, "tun"}, {"tun"}} : ModeFails(lost)

Next ==
    \/ \E t \in Ids : Fires(t) \/ Attempt(t)
    \/ GateMoves \/ Asks \/ Methods \/ World

(***************************************************************************)
(* Timers fire, a task that runs goes on, and the gate, a fair mutex, is   *)
(* held for a bounded time.  Joining the line is strongly fair, since the  *)
(* line is shorter than MaxLine again and again.                           *)
(***************************************************************************)
Fairness ==
    /\ \A t \in Ids : WF_vars(Fires(t)) /\ SF_vars(Attempt(t))
    /\ WF_vars(GateMoves)

Spec == Init /\ [][Next]_vars /\ Fairness

-----------------------------------------------------------------------------
(* Properties. *)

Attempting(t) ==
    task[t].at \in {"read", "note", "step", "line", "select", "finish", "exit"}

\* An aborted attempt was dropped and nothing ever resets `running`.
Stuck == running /\ \A t \in Ids : ~Attempting(t)

\* "Nothing runs concurrently": however timers, signals and changes of intent
\* overlap, two attempts are never in progress.
OneAttempt == \A s, t \in Ids : Attempting(s) /\ Attempting(t) => s = t

\* "Abandon queued attempts": from a cancellation until the next signal or change
\* of intent no timer is set, no attempt begins, and no step of the attempt in
\* progress passes its fence, whichever timers were firing and wherever that
\* attempt was.  A step that has passed it before and waits in the line for the
\* gate still acts: the fence is not asked again after the wait (NoStaleWork).
CancelledStandsStill ==
    [][quiet /\ quiet' =>
          \A t \in Ids : task'[t].at \in {"sleeping", "read", "line"}
                            => task[t].at = task'[t].at]_vars

\* An attempt that is owed is always in somebody's hands: a timer that nothing has
\* aborted while no attempt is in progress, an attempt that has yet to read the
\* settings or was aborted and comes to its end, or the note that makes the attempt
\* in progress spawn another.  Or a dropped attempt has left the coordinator stuck.
Timed(t) == task[t].at \in {"sleeping", "fired", "ready"}
                /\ task[t].current /\ ~task[t].doomed
Pays(t)  == Attempting(t) /\ (At(t, "read") \/ task[t].doomed)

DebtCarried ==
    due /\ started =>
        \/ Stuck
        \/ running /\ wakePending
        \/ ~running /\ \E t \in Ids : Timed(t)
        \/ \E t \in Ids : Pays(t)

\* The strengthening that is inductive.  An attempt in progress has set `running`;
\* a quiet coordinator has no current task and keeps no signal for later; a user's request holds the gate
\* until it has told the coordinator what it wrote; and an attempt that is still
\* current after its note has seen the settings as they are.
RunningAttempt   == \A t \in Ids : Attempting(t) => running
CancelledStaysQuiet ==
    quiet => \A t \in Ids : task[t].at # "free" => ~task[t].current
QuietCoordinator == quiet => ~wakePending /\ (started \/ quitting = "over")
UserInLine       == stage # "asked" => line # <<>> /\ Head(line).mode \in Modes
Noted(t)         == task[t].at \in {"step", "line", "select", "finish", "exit"}
NotedIntent      ==
    \A t \in Ids : Noted(t) /\ task[t].current =>
        /\ last = task[t].flags
        /\ task[t].late \/ task[t].flags = desired \/ stage = "written"

Inv ==
    /\ CoordinatorTypeOK
    /\ OneAttempt
    /\ RunningAttempt
    /\ CancelledStaysQuiet
    /\ QuietCoordinator
    /\ UserInLine
    /\ NotedIntent

\* What a debt rests on besides: nothing runs before the first start.
FirstStart == ~started => ~running \/ quitting = "over"

DebtInv == Inv /\ FirstStart /\ DebtCarried

\* An attempt passes the fence only for a mode the user still wants, or one the
\* user's request has just given up without having told so.  The exception is an
\* attempt that was overtaken between its read of the settings and its note of
\* them: a change back to what `state.last` holds then does not outdate it.
FenceSeesIntent ==
    [][\A t \in Ids :
          At(t, "step") /\ task'[t].at = "line" /\ Order[task[t].step] # Core
            => \/ Order[task[t].step] \in desired
               \/ stage = "written"
               \/ task[t].late]_vars

\* A signal and a change of intent are followed by an attempt that reads the
\* settings afterwards, unless a dropped attempt has left the coordinator stuck.
RetriesKept == (due /\ started) ~> (~due \/ ~started \/ Stuck)

\* wake: "Immediately retry after a confirmed network-up/resume/host-exit
\* signal: a fresh recovery episode with a new window."
WakeRetries == (due /\ started) ~> (~due \/ ~started)

\* "A user's later network-mode change is never followed by stale work": an
\* attempt brings nothing up that the settings no longer ask for.
NoStaleWork ==
    [][\A t \in Ids :
          At(t, "line") /\ task'[t].at # "line"
            => on' \ on \subseteq desired \cup {Core}]_vars

=============================================================================
