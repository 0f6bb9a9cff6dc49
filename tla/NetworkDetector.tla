---------------------------- MODULE NetworkDetector ----------------------------
(***************************************************************************)
(* The connectivity watchdog over the host it stops and restarts: the      *)
(* detector's tick cut at its awaits, the runtime gate it shares with the  *)
(* requests of the user, the exit monitor that shares nothing, the owned   *)
(* system proxy and the TUN mode, from the launch that finds the core of   *)
(* the process before.                                                     *)
(*                                                                         *)
(* A request is the sequence of steps it takes behind the gate; the first  *)
(* one that fails ends it.  The proxy is reduced to whether it points at   *)
(* us and whether its phase says so (SystemProxy has the rest, also what   *)
(* the launch does for the proxy first), the service to the core.          *)
(***************************************************************************)
EXTENDS TunCoordinator, Sequences

CONSTANTS MaxRequests, \* bound on the user's requests
          MaxOutages,  \* bound on the outages
          MaxExits     \* bound on the cores that exit by themselves

ASSUME NetworkAssumption == MaxRequests \in Nat /\ MaxOutages \in Nat /\ MaxExits \in Nat

VARIABLES
    kernel,     \* the kernel's status
    ours,       \* the system proxy points at us
    hidden,     \* it does, and its phase is neither "enabled" nor "restore-failed"
    pending,    \* network_resume_pending
    desired,    \* the setting tunDesired
    online,     \* what is_connected answers
    line,       \* the runtime gate: the first request holds it
    at,         \* where the detector's tick is
    seen,       \* the run mode this tick has read
    answer,     \* what the detector's last request returned
    saw,        \* saw_offline
    resume,     \* resume_mode
    handled,    \* outage_handled
    stopping,   \* stop_kernel_pending
    disabling,  \* proxy_disable_pending
    mon,        \* where the exit monitor's recovery is
    boot,       \* where recover_managed_state, spawned by the launch, is
    swept,      \* history: it has put "stopped" over the status of a start of this
                \* process, and no stop has run to its end since
    stopper,    \* history: whose request stopped the kernel last
    requests, outages, exits

host     == <<core, stray, kernel, ours, hidden, pending, desired>>
launch   == <<boot, swept>>
detector == <<at, seen, answer, saw, resume, handled, stopping, disabling>>
bounds   == <<requests, outages, exits>>
vars     == <<tunVars, troubles, host, online, line, detector, mon, launch, stopper, bounds>>

StopJob  == <<"restore", "tun_down", "stop", "tun_reset">>
UserJobs == {<<"start">>, StopJob, <<"start", "want", "tun_up">>, <<"unwant", "tun_off">>,
             <<"start", "proxy_on">>, <<"proxy_off">>}
Steps    == {"start", "restore", "tun_down", "stop", "tun_reset", "want", "tun_up", "unwant",
             "tun_off", "tun_wait", "proxy_on", "proxy_off", "net_down", "net_up"}
Modes    == {"stopped", "kernel", "tun"}

NetworkTypeOK ==
    /\ TunTypeOK
    /\ kernel \in {"stopped", "running", "failed"}
    /\ ours \in BOOLEAN /\ hidden \in BOOLEAN /\ pending \in BOOLEAN /\ desired \in BOOLEAN /\ online \in BOOLEAN
    /\ line \in Seq([by : {"user", "detector"}, todo : Seq(Steps) \ {<<>>}]) /\ Len(line) <= 2
    /\ at \in {"idle", "confirm", "resume", "starting", "up", "upping", "down", "downing",
               "stop", "stopping"}
    /\ seen \in Modes /\ answer \in BOOLEAN
    /\ saw \in BOOLEAN /\ handled \in BOOLEAN /\ resume \in Modes
    /\ stopping \in BOOLEAN /\ disabling \in BOOLEAN
    /\ mon \in {"idle", "reset", "proxy", "restart"}
    /\ boot \in {"kernel", "tun", "done"} /\ swept \in BOOLEAN
    /\ stopper \in {"none", "user", "detector"}
    /\ requests \in 0..MaxRequests /\ outages \in 0..MaxOutages /\ exits \in 0..MaxExits

Init ==
    /\ core \in BOOLEAN /\ stray = core /\ TunInit /\ troubles = 0
    /\ boot = "kernel" /\ swept = FALSE
    /\ kernel = "stopped" /\ ours = FALSE /\ hidden = FALSE /\ pending = FALSE /\ desired = FALSE
    /\ online = TRUE /\ line = <<>>
    /\ at = "idle" /\ seen = "stopped" /\ answer = TRUE
    /\ saw = FALSE /\ resume = "stopped" /\ handled = FALSE
    /\ stopping = FALSE /\ disabling = FALSE
    /\ mon = "idle" /\ stopper = "none"
    /\ requests = 0 /\ outages = 0 /\ exits = 0

-----------------------------------------------------------------------------
(* The steps of whoever holds the runtime gate. *)

Holds(step) == line # <<>> /\ Head(Head(line).todo) = step
Holder      == Head(line).by

Answers(result) ==
    /\ line' = Tail(line)
    /\ answer' = IF Holder = "detector" THEN result ELSE answer

Done ==
    IF Len(Head(line).todo) > 1
    THEN line' = [line EXCEPT ![1].todo = Tail(@)] /\ UNCHANGED answer
    ELSE Answers(TRUE)

Failed == Answers(FALSE)

StepKeeps == UNCHANGED <<online, at, seen, saw, resume, handled, stopping, disabling, launch, bounds>>
TunKeeps  == UNCHANGED tunVars

process == <<core, stray, kernel>>

\* A start that succeeds stops what it finds first.
Launched == core' = TRUE /\ stray' = FALSE /\ device' = FALSE /\ kernel' = "running"
Gone     == core' = FALSE /\ stray' = FALSE /\ device' = FALSE

\* A start that fails stops nothing, what it found, or what it launched; or it
\* leaves that behind.
Start ==
    /\ Holds("start")
    /\ \/ kernel = "running" /\ Done /\ UNCHANGED <<process, device, stopper, troubles>>
       \/ kernel # "running" /\ Launched /\ stopper' = "none" /\ Done /\ UNCHANGED troubles
       \/ /\ kernel # "running" /\ Mishap
          /\ kernel' = "failed"
          /\ \/ Gone
             \/ UNCHANGED <<core, stray, device>>
             \/ core' = TRUE /\ stray' = TRUE /\ device' = FALSE
          /\ Failed
          /\ UNCHANGED stopper
    /\ UNCHANGED <<tun, unconfirmed, op, probes, ours, hidden, pending, desired, mon>>
    /\ StepKeeps

(* The system proxy.  Its restore fails before or behind the change of its  *)
(* phase; its enable asks for a running core first, and says "disabled" of  *)
(* a proxy that is ours when there is none.                                 *)

RestoresProxy == ours' = FALSE /\ hidden' = FALSE /\ UNCHANGED troubles
RestoreBreaks(says) == ours /\ Mishap /\ hidden' \in says /\ UNCHANGED ours

EnablesProxy == core /\ kernel = "running" /\ ours' = TRUE /\ hidden' = FALSE /\ UNCHANGED troubles

EnableBreaks ==
    IF core /\ kernel = "running"
    THEN /\ Mishap
         /\ \/ hidden' \in {hidden, ours} /\ UNCHANGED ours
            \/ ours' = TRUE /\ hidden' = FALSE
    ELSE hidden' = ours /\ UNCHANGED <<ours, troubles>>

\* Mutant: the kernel is stopped although the proxy could not be restored.
RestoreIgnored ==
    /\ Holds("restore")
    /\ \/ RestoresProxy /\ Done
       \/ RestoreBreaks(BOOLEAN) /\ Done
    /\ UNCHANGED <<process, pending, desired, mon, stopper>> /\ TunKeeps /\ StepKeeps

\* restore_before_kernel_unavailable
Restore ==
    /\ Holds("restore")
    /\ \/ RestoresProxy /\ Done
       \/ RestoreBreaks(BOOLEAN) /\ Failed
    /\ UNCHANGED <<process, pending, desired, mon, stopper>> /\ TunKeeps /\ StepKeeps

\* The coordinator's queue is first come, first served: a reset of the exit
\* monitor that waits for it goes first.
TunFree == op = "none" /\ mon # "reset"

Begins(begin, needed) ==
    /\ TunFree
    /\ IF needed
       THEN begin /\ line' = [line EXCEPT ![1].todo[1] = "tun_wait"] /\ UNCHANGED answer
       ELSE Done /\ TunKeeps /\ UNCHANGED troubles
    /\ UNCHANGED <<host, mon, stopper>> /\ StepKeeps

TunUp   == Holds("tun_up")   /\ Begins(EnableBegins, ~Refuses)
TunDown == Holds("tun_down") /\ Begins(DisableBegins, Serving)
TunOff  == Holds("tun_off")  /\ Begins(DisableBegins, tun # "configured")

TunWait ==
    /\ Holds("tun_wait") /\ op = "none"
    /\ Done
    /\ UNCHANGED <<host, mon, stopper, troubles>> /\ TunKeeps /\ StepKeeps

\* PrivilegedKernelGateway::stop, which asks for nothing behind a status "stopped"
\* or for a core it does not own.
Stop ==
    /\ Holds("stop")
    /\ \/ kernel = "stopped" /\ Done /\ UNCHANGED <<process, device, stopper, troubles>>
       \/ /\ kernel # "stopped"
          /\ kernel' = "stopped" /\ stopper' = Holder
          /\ Gone \/ (stray /\ UNCHANGED <<core, stray, device>>)
          /\ Done
          /\ UNCHANGED troubles
       \/ /\ kernel # "stopped" /\ Mishap
          /\ kernel' = "failed"
          /\ Gone \/ UNCHANGED <<core, stray, device>>
          /\ Failed
          /\ UNCHANGED stopper
    /\ UNCHANGED <<tun, unconfirmed, op, probes, ours, hidden, pending, desired, mon>>
    /\ StepKeeps

TunReset ==
    /\ Holds("tun_reset") /\ TunFree
    /\ IF Serving THEN HostExit ELSE TunKeeps
    /\ swept' = FALSE
    /\ Done
    /\ UNCHANGED <<host, boot, mon, stopper, troubles>>
    /\ UNCHANGED <<online, at, seen, saw, resume, handled, stopping, disabling, bounds>>

Wants ==
    /\ \/ Holds("want") /\ desired' = TRUE
       \/ Holds("unwant") /\ desired' = FALSE
    /\ Done
    /\ UNCHANGED <<process, ours, hidden, pending, mon, stopper, troubles>> /\ TunKeeps /\ StepKeeps

ProxyOn ==
    /\ Holds("proxy_on")
    /\ \/ EnablesProxy /\ Done
       \/ EnableBreaks /\ Failed
    /\ UNCHANGED <<process, pending, desired, mon, stopper>> /\ TunKeeps /\ StepKeeps

ProxyOff ==
    /\ Holds("proxy_off")
    /\ \/ RestoresProxy /\ Done
       \/ RestoreBreaks({hidden, FALSE}) /\ Failed
    /\ UNCHANGED <<process, pending, desired, mon, stopper>> /\ TunKeeps /\ StepKeeps

\* handle_network_down: "idle" unless the phase says that the proxy is ours.  The
\* outage is noted once the bundle is read.
NetDown ==
    /\ Holds("net_down")
    /\ \/ (~ours \/ hidden) /\ Done /\ UNCHANGED <<ours, hidden, pending, troubles>>
       \/ ours /\ ~hidden /\ RestoresProxy /\ pending' = TRUE /\ Done
       \/ ours /\ ~hidden /\ Mishap /\ (pending' = TRUE \/ UNCHANGED pending) /\ Failed
          /\ UNCHANGED <<ours, hidden>>
    /\ UNCHANGED <<process, desired, mon, stopper>> /\ TunKeeps /\ StepKeeps

\* Mutant: the pending flag is not put back when the proxy cannot be enabled.
NetUpForgets ==
    /\ Holds("net_up")
    /\ pending' = FALSE
    /\ \/ ~pending /\ Done /\ UNCHANGED <<ours, hidden, troubles>>
       \/ pending /\ EnablesProxy /\ Done
       \/ pending /\ EnableBreaks /\ Failed
    /\ UNCHANGED <<process, desired, mon, stopper>> /\ TunKeeps /\ StepKeeps

\* handle_network_up
NetUp ==
    /\ Holds("net_up")
    /\ \/ ~pending /\ Done /\ UNCHANGED <<ours, hidden, pending, troubles>>
       \/ pending /\ EnablesProxy /\ pending' = FALSE /\ Done
       \/ pending /\ EnableBreaks /\ Failed /\ UNCHANGED pending
    /\ UNCHANGED <<process, desired, mon, stopper>> /\ TunKeeps /\ StepKeeps

GateSteps ==
    \/ Start \/ Restore \/ TunUp \/ TunDown \/ TunOff \/ TunWait \/ Stop \/ TunReset
    \/ Wants \/ ProxyOn \/ ProxyOff \/ NetDown \/ NetUp

Joins(who, job) == line' = Append(line, [by |-> who, todo |-> job])

-----------------------------------------------------------------------------
(* NetworkDetector::tick.  A resume mode "stopped" is the code's None. *)

Mode ==
    CASE tun \in {"active", "starting", "restoring"} -> "tun"
      [] tun \notin {"active", "starting", "restoring"} /\ kernel = "running" -> "kernel"
      [] OTHER -> "stopped"

DetectorKeeps == UNCHANGED <<tunVars, troubles, host, online, mon, launch, stopper, bounds>>
Answered == \A i \in DOMAIN line : line[i].by # "detector"

\* The end of a tick: an episode that is over can be followed by another.
Unlatches(over) ==
    /\ handled' = (handled /\ ~over)
    /\ disabling' = (disabling /\ ~over)

Ticks ==
    /\ at = "idle"
    /\ \/ online /\ saw /\ at' = "resume"
       \/ ~online /\ ~handled /\ at' = "confirm"
       \/ ~online /\ handled /\ (disabling \/ stopping) /\ at' = "down"
    /\ UNCHANGED <<line, seen, answer, saw, resume, handled, stopping, disabling>>
    /\ DetectorKeeps

\* Mutant: without a host to stop the proxy is not looked at.
ConfirmsHostOnly ==
    /\ at = "confirm"
    /\ IF online
       THEN /\ at' = IF saw THEN "resume" ELSE "idle"
            /\ UNCHANGED <<saw, resume, handled, stopping, disabling>>
       ELSE /\ at' = "down"
            /\ saw' = TRUE /\ handled' = TRUE /\ disabling' = (Mode # "stopped")
            /\ resume' = Mode /\ stopping' = (Mode # "stopped")
    /\ UNCHANGED <<line, seen, answer>> /\ DetectorKeeps

\* The second sample.
Confirms ==
    /\ at = "confirm"
    /\ IF online
       THEN /\ at' = IF saw THEN "resume" ELSE "idle"
            /\ UNCHANGED <<saw, resume, handled, stopping, disabling>>
       ELSE /\ at' = "down"
            /\ saw' = TRUE /\ handled' = TRUE /\ disabling' = TRUE
            /\ resume' = Mode /\ stopping' = (Mode # "stopped")
    /\ UNCHANGED <<line, seen, answer>> /\ DetectorKeeps

GoesDown ==
    /\ \/ at = "down" /\ disabling /\ Joins("detector", <<"net_down">>) /\ at' = "downing"
          /\ UNCHANGED disabling
       \/ at = "down" /\ ~disabling /\ at' = "stop" /\ UNCHANGED <<line, disabling>>
       \/ /\ at = "downing" /\ Answered
          /\ disabling' = ~answer
          /\ at' = "stop" /\ UNCHANGED line
    /\ answer' = TRUE
    /\ UNCHANGED <<seen, saw, resume, handled, stopping>> /\ DetectorKeeps

StopsHost ==
    /\ \/ /\ at = "stop"
          /\ IF ~disabling /\ stopping
             THEN Joins("detector", StopJob) /\ at' = "stopping"
             ELSE at' = "idle" /\ UNCHANGED line
          /\ UNCHANGED stopping
       \/ /\ at = "stopping" /\ Answered
          /\ stopping' = ~answer
          /\ at' = "idle" /\ UNCHANGED line
    /\ answer' = TRUE
    /\ UNCHANGED <<seen, saw, resume, handled, disabling>> /\ DetectorKeeps

\* start_kernel, or start_tun, which looks at the setting before it waits for the
\* gate.
StartJob == IF resume = "tun" /\ desired THEN <<"start", "tun_up">> ELSE <<"start">>

ResumesHost ==
    /\ \/ /\ at = "resume"
          /\ seen' = Mode
          /\ IF resume \notin {"stopped", Mode}
             THEN Joins("detector", StartJob) /\ at' = "starting"
             ELSE at' = "up" /\ UNCHANGED line
       \/ /\ at = "starting" /\ Answered
          /\ seen' = Mode
          /\ at' = "up" /\ UNCHANGED line
    /\ answer' = TRUE
    /\ UNCHANGED <<saw, resume, handled, stopping, disabling>> /\ DetectorKeeps

Recovered == answer /\ resume \in {"stopped", seen}

\* Mutant: the episode ends although its host is not back.
ComesUpEarly ==
    /\ \/ /\ at = "up"
          /\ IF resume = "stopped" \/ seen # "stopped"
             THEN Joins("detector", <<"net_up">>) /\ at' = "upping" /\ UNCHANGED <<saw, resume>>
             ELSE at' = "idle" /\ saw' = FALSE /\ resume' = "stopped" /\ UNCHANGED line
          /\ UNCHANGED <<handled, disabling>>
       \/ /\ at = "upping" /\ Answered
          /\ saw' = ~answer /\ resume' = IF answer THEN "stopped" ELSE resume
          /\ Unlatches(answer)
          /\ at' = "idle" /\ UNCHANGED line
    /\ seen' = IF at' = "idle" THEN "stopped" ELSE seen
    /\ answer' = TRUE
    /\ UNCHANGED stopping /\ DetectorKeeps

ComesUp ==
    /\ \/ /\ at = "up"
          /\ IF resume = "stopped" \/ seen # "stopped"
             THEN Joins("detector", <<"net_up">>) /\ at' = "upping"
             ELSE at' = "idle" /\ UNCHANGED line
          /\ UNCHANGED <<saw, resume, handled, disabling>>
       \/ /\ at = "upping" /\ Answered
          /\ saw' = ~Recovered /\ resume' = IF Recovered THEN "stopped" ELSE resume
          /\ Unlatches(Recovered)
          /\ at' = "idle" /\ UNCHANGED line
    /\ seen' = IF at' = "idle" THEN "stopped" ELSE seen
    /\ answer' = TRUE
    /\ UNCHANGED stopping /\ DetectorKeeps

DetectorSteps == Ticks \/ Confirms \/ GoesDown \/ StopsHost \/ ResumesHost \/ ComesUp

-----------------------------------------------------------------------------
(* The exit monitor: none of its steps takes the gate. *)

MonitorKeeps == UNCHANGED <<pending, desired, online, line, detector, launch, bounds>>

SeesExit ==
    /\ mon = "idle" /\ kernel = "running" /\ ~core
    /\ kernel' = "failed"
    /\ mon' = "reset"
    /\ UNCHANGED <<core, stray, ours, hidden, stopper, troubles>> /\ TunKeeps /\ MonitorKeeps

Resets ==
    /\ mon = "reset" /\ HostExit
    /\ mon' = "proxy"
    /\ UNCHANGED <<process, ours, hidden, stopper, troubles>> /\ MonitorKeeps

MonitorRestores ==
    /\ mon = "proxy"
    /\ RestoresProxy \/ RestoreBreaks(BOOLEAN)
    /\ mon' = "restart"
    /\ UNCHANGED <<process, stopper>> /\ TunKeeps /\ MonitorKeeps

\* The restart, or a pause of the crash loop, or a wake of the coordinator.
MonitorRestarts ==
    /\ mon = "restart"
    /\ mon' = "idle"
    /\ \/ kernel # "running" /\ Launched /\ stopper' = "none"
       \/ UNCHANGED <<process, device, stopper>>
    /\ UNCHANGED <<ours, hidden, troubles, tun, unconfirmed, op, probes>>
    /\ MonitorKeeps

MonitorSteps == SeesExit \/ Resets \/ MonitorRestores \/ MonitorRestarts

-----------------------------------------------------------------------------
(* The user and the world. *)

Asks ==
    /\ requests < MaxRequests /\ \A i \in DOMAIN line : line[i].by # "user"
    /\ \E job \in UserJobs : Joins("user", job)
    /\ requests' = requests + 1
    /\ UNCHANGED <<tunVars, troubles, host, online, detector, mon, launch, stopper, outages, exits>>

WorldKeeps == UNCHANGED <<kernel, ours, hidden, pending, desired, line, detector, mon, launch, stopper, requests>>

GoesOffline ==
    /\ online /\ outages < MaxOutages
    /\ online' = FALSE /\ outages' = outages + 1
    /\ UNCHANGED <<core, stray, tunVars, troubles, exits>> /\ WorldKeeps

GoesOnline ==
    /\ ~online
    /\ online' = TRUE
    /\ UNCHANGED <<core, stray, tunVars, troubles, outages, exits>> /\ WorldKeeps

CoreExits ==
    /\ core /\ exits < MaxExits
    /\ Gone
    /\ exits' = exits + 1
    /\ UNCHANGED <<tun, unconfirmed, op, probes, troubles, online, outages>>
    /\ WorldKeeps

TunStep ==
    /\ TunWorks
    /\ UNCHANGED <<host, online, line, detector, mon, launch, stopper, bounds>>

ProbeStep ==
    /\ Probing
    /\ UNCHANGED <<kernel, ours, hidden, pending, desired, online, line, detector, mon, launch, stopper, bounds>>

-----------------------------------------------------------------------------
(* recover_managed_state behind the recovery of the proxy: spawned by the    *)
(* launch, it takes the queue of the kernel and of the coordinator, but not  *)
(* the runtime gate.                                                         *)

LaunchKeeps == UNCHANGED <<ours, hidden, pending, desired, online, line, detector, mon, stopper, bounds>>

\* PrivilegedKernelGateway::initialize: whatever core the service owns is stopped.
\* A service that cannot read its record owns none, in its answer.
InitializesKernel ==
    /\ boot = "kernel"
    /\ boot' = "tun"
    /\ \/ kernel' = "stopped" /\ Gone /\ UNCHANGED troubles
       \/ Mishap /\ kernel' = "stopped" /\ stray' = core /\ UNCHANGED <<core, device>>
       \/ Mishap /\ UNCHANGED kernel /\ (Gone \/ UNCHANGED <<core, stray, device>>)
    /\ swept' = (swept \/ (kernel # "stopped" /\ kernel' = "stopped"))
    /\ UNCHANGED <<tun, unconfirmed, op, probes>> /\ LaunchKeeps

InitializesTun ==
    /\ boot = "tun" /\ TunFree
    /\ InitializeRestores \/ InitializeRests
    /\ boot' = "done"
    /\ UNCHANGED <<process, swept>> /\ LaunchKeeps

LaunchSteps == InitializesKernel \/ InitializesTun

Next ==
    \/ GateSteps \/ TunStep \/ ProbeStep \/ DetectorSteps \/ MonitorSteps \/ LaunchSteps
    \/ Asks \/ GoesOffline \/ GoesOnline \/ CoreExits

\* Whoever holds the gate or a queue goes on, and both timers tick.
Fairness ==
    /\ WF_vars(GateSteps) /\ WF_vars(TunStep)
    /\ WF_vars(DetectorSteps) /\ WF_vars(MonitorSteps)

Spec == Init /\ [][Next]_vars /\ Fairness

-----------------------------------------------------------------------------
(* Properties. *)

\* An orderly stop never leaves the system proxy pointing at a port nobody
\* listens on, whoever asked for it and whatever failed before.  (Swept: the
\* launch's initialize takes no gate, and stops a core a user has just started
\* without a look at the proxy or the TUN mode.)
NoDeadPort == kernel = "stopped" => ~ours \/ swept

\* The TUN status is true, also after a launch over a core that has outlived the
\* process before: behind "configured" no adapter is up but that of a core this
\* process does not stand for, and behind an "active" that no exit is about to
\* correct, nor the launch has swept, one is.
TunStatusTrue ==
    /\ tun = "configured" /\ device => stray
    /\ tun = "active" /\ core /\ mon = "idle" => device \/ swept

\* Once the network is back the host the detector has stopped comes back, however
\* often a restart fails first.  (A conflict of the TUN mode survives the stop, and
\* leaving it then reads as a host that serves.)
HostReturns ==
    (resume # "stopped" /\ online /\ kernel = "stopped" /\ stopper = "detector" /\ tun = "configured")
        ~> (kernel = "running" \/ ~online)

\* A proxy the outage turned off comes back with the network and the host, also
\* when it cannot be enabled at first or the core exits meanwhile.
ProxyReturns == pending /\ resume # "stopped" /\ online ~> ours \/ ~online

\* An outage the detector has not latched before turns the owned proxy off,
\* however often its restore fails first.  (Hidden: handle_network_down takes a
\* proxy whose phase is neither "enabled" nor "restore-failed" for nobody's.)
OutageSafe == ~online /\ ours /\ ~hidden /\ ~handled ~> ~ours \/ hidden \/ online

\* Whatever an outage has left to be undone (a proxy to turn on again, a host to
\* restart, a latch to open) belongs to an episode the detector still remembers:
\* a tick ends it with the network back, and only when everything is done.
EpisodeKept == pending \/ handled \/ resume # "stopped" => saw

\* "Latches the offline actions per outage episode": once the network stays and
\* no call fails the episode ends, so that the next outage is handled again.
LatchEnds == handled /\ online ~> ~handled \/ ~online

-----------------------------------------------------------------------------
(***************************************************************************)
(* The inductive invariant behind the safety properties.  A request that   *)
(* is behind the gate relies on what its earlier steps have left, and only *)
(* the exit monitor and the launch may disturb it; the coordinator enables *)
(* only while the request that holds the gate waits for it.                *)
(***************************************************************************)

\* Requests as they join the line, and what is left of one behind the gate.
Jobs     == UserJobs \cup {<<"start", "tun_up">>, <<"net_down">>, <<"net_up">>}
StopRest == {<<"tun_down", "stop", "tun_reset">>, <<"tun_wait", "stop", "tun_reset">>,
             <<"stop", "tun_reset">>}
Rests    == Jobs \cup StopRest \cup {<<"tun_reset">>, <<"want", "tun_up">>, <<"tun_up">>,
                                   <<"tun_wait">>, <<"tun_off">>, <<"proxy_on">>}

\* One request of the user and one of the detector, who waits for it.
LineShape ==
    /\ line \in Seq([by : {"user", "detector"}, todo : Rests]) /\ Len(line) <= 2
    /\ Len(line) = 2 => line[1].by # line[2].by /\ line[2].todo \in Jobs
    /\ ~Answered => at \in {"starting", "upping", "downing", "stopping"}

\* What the request behind the gate relies on.
GateFacts ==
    line # <<>> =>
        /\ Head(line).todo \in StopRest => ~ours
        /\ Head(line).todo \in StopRest /\ ~Holds("tun_down") => tun # "active" /\ op # "enable"
        /\ Holds("tun_reset") => ~ours /\ (device => stray)
        /\ Holds("want") \/ Holds("tun_up") => swept \/ (core => kernel = "running")

QueueFacts ==
    /\ op = "enable" => /\ Holds("tun_wait") /\ tun = "starting"
                        /\ swept \/ (core => kernel = "running")
    /\ op = "restore" => tun = "restoring"

DeviceFacts ==
    /\ device => core
    /\ mon = "reset" => ~device /\ (op = "enable" => ~core)
    /\ tun = "configured" /\ device => stray
    /\ tun = "active" /\ mon # "reset" => swept \/ (kernel = "running" /\ (core => device))

HostFacts ==
    /\ stray => core /\ kernel # "running"
    /\ core /\ ~stray => kernel # "stopped"
    /\ NoDeadPort

ProbesFenced == \A p \in probes : (p.over => p.fenced) /\ p.at # "late"

Inv == NetworkTypeOK /\ LineShape /\ GateFacts /\ QueueFacts /\ DeviceFacts /\ HostFacts /\ ProbesFenced

=============================================================================
