# Verification of Murge's network ownership

Murge is a Windows desktop client (Tauri: Rust backend, Vue renderer) for the
Mihomo proxy core, with a LocalSystem service in Go that runs the core with the
privileges a TUN adapter needs. While it runs, it borrows things that belong to
the user or to the machine: a privileged core process, IPv4 forwarding and a
firewall rule of the host, the Windows system proxy, the routes of a TUN
adapter. What has to be right is that each of them is given back, exactly and
whatever fails, dies or interleaves. These modules are about that ownership.

Paths below are relative to the repository.

## The system and its parts

| part | source | state it keeps | who changes it | hard because |
|---|---|---|---|---|
| session manager of the service | `native/tun-service/manager.go`, `store.go` | owned child, `blocked`, `conflict`, last exit, `ownership.json` | requests over a named pipe, the shutdown of the service | a lifecycle operation is several system calls; cores die, PIDs are reused, disks fail, the service dies between two of them |
| process runtime of the service | `runtime_windows.go`, `port_reclaimer.go` | the kill-on-close job object, image of the last core | the manager | creating and binding a child are two steps |
| forwarding keeper | `forwarding.go`, `forwarding_windows.go` | what it wants, what it switched on, the rule it believes in | requests, a three-second tick, the manager; its own mutex | adapters come and go, calls fail, nobody tells it that a core died |
| service process | `main_windows.go` | serving or shutting down | service control manager | requests accepted before the shutdown still run during it |
| system proxy service | `src-tauri/src/system_proxy.rs` | phase, pending resume, fences; the bundle on disk; three registry values | user, network detector, 30-second guard, core stop, quit, session end, launch recovery | three separate registry writes, other programs, death between two writes |
| quit and session end | `lifecycle.rs`, `session_events.rs` | shutdown flag, runtime gate, session-end flag | user, Windows | a second restore outside the queue, cancellation, fences checked before awaits |
| recovery coordinator | `runtime_intent.rs` | generation, timer, window, running | settings changes, network and power signals | timers aborted in the middle, work that was overtaken |
| TUN coordinator, hot switch | `tun.rs`, `tun_hot_switch.rs` | phase, backup, readiness generation | user, detector, exit monitor | late readiness after a new start |
| privileged core controller, exit monitor | `privileged_kernel.rs`, `tun_service.rs` | session id, liveness streak, restart budget | user, 5-second poll | answers lost on the pipe, an exit seen twice |
| network detector | `network_detector.rs`, `network_watch.rs` | outage flags | 2-second tick | a pending action left undone when a call fails |
| core process, startup, controller client, events | `kernel*.rs`, `startup.rs`, `mihomo.rs`, `events.rs` | process and stream state | all of the above | I/O |
| IPC, tray, renderer | `ipc.rs`, `tray.rs`, `src/renderer` | mirrors | user | order of gate, setting and action |
| profiles, overrides, subscriptions, settings, backup, usage, logs | many files | files | user | data transformation |
| MITM engine | `mitm/` | rules, connections | traffic | byte processing |
| updates, core versions, installer | `updates.rs`, `mihomo_artifact.rs`, `kernel_versions_windows.go`, `installer_cli.rs` | files | user | downloads |

How they interact: the renderer and the tray call the IPC, the IPC takes the
runtime gate (`runtime_update_guard`) and calls the proxy, TUN and core
services; the core service of TUN mode talks to the Go service over a named
pipe, which calls the session manager (under its mutex) or the forwarding keeper
(under the keeper's). The detector, the guard's timer, the recovery coordinator
and the exit monitor call the same services from timers. Quit and session end
close the gate and restore the proxy before the core stops.

## Modules

### `ServiceManager`: the session manager, its file and its runtime

One action per system call of `start`, `stop` and `reconcile`. `pc` is the next
call of the operation that holds the mutex, `req` which operation it is; `owned`,
`blocked`, `conflict` and `lastExit` are the fields of `sessionManager`, `record`
is `ownership.json`. `proc` says what each PID of the host names (a core, a
process that exited but whose handle is open, a program of the user's, nothing),
`job` which children die with the service. A core may exit and a PID may be
reused between any two steps; a disk error, a failing system call and a death of
the service may come at any step, `MaxFaults` of them in one behaviour. The
shutdown (`closing`, `closed`, `cleared`) makes its own stop request while earlier
requests may still be waiting for the mutex.

`leaked` is a history variable. The code leaves two ways in which a core escapes:
the service dies between creating a child and binding it to the job, and the
record cannot be written and the emergency stop fails too. The properties say
that those are the only ones.

Abstractions: the three reads of `readStoreResilient` are one call; the image
check compares with one core image; version lookup, profile write and provider
seeding are the failure of `StartFails`.

| property | what it says |
|---|---|
| `AccountedCores` | every live core is owned, recorded or in the hands of the start in progress, but for the two escapes |
| `OneCore` | never two live cores, although `start` looks only at memory |
| `StoppedMeansNoCore` | an answer `stopped` is true until the next operation begins |
| `CreatesOnlyVerified` | no child is created while another's ownership is unverified, although `start` never reads `conflict` |
| `StopSparesForeign` | a program that got the PID of a dead core is not terminated |
| `BlockedRecovers` | as long as somebody asks again, for a start or a reconcile, the latch clears |
| `DeadOwnerForgotten` | as long as somebody reconciles, a dead core does not stay owned |

The last two are conditional because nobody is bound to ask. The client polls only
while its phase is `running` or `starting` (`privileged_kernel.rs:459-468`), and an
error of the service makes that phase `failed`: the latch, or the owner whose record
could not be cleared, then stays until somebody starts or stops a core or the next
launch reconciles.

`AccountedCores` has a strengthening that is inductive: `Inv`, whose heart is
`DurableOwner` (a live core the manager owns is the one on disk, so a reconcile
that trusts the disk forgets no live core), `JobHoldsCores` and the facts each
step may rely on.

### `CoreLease`: what the service promises

The abstract specification of the service, in the three things a client can tell
apart: the live cores it answers for (`cores`), the claim on disk that says whose
they are, and whether its last answer was `stopped` with no operation begun since.
A core is launched only where none runs and not behind an answer `stopped`; a
claim is given up only when its core is dead; `stopped` is true while it stands.

`ServiceManager` implements it: `Lease` maps `cores` to the live cores that have
not escaped, `claim` to `ownership.json`, `stopped` to the idle manager's last
answer, and `ImplementsLease` is the lease's specification. TLC checks it in the
run `service_manager`, `ServiceManagerRefinement` proves it. `PrivilegedKernel`
assumes the same contract of the service at the other end of its pipe
(`ServiceKeepsLease`), which is what joins the two halves.

### `ForwardingKeeper` and `ServiceHost`

`ForwardingKeeper` has no specification of its own: it is the keeper's operations
over the host's adapters, flags and rule. Each is one step, since it holds the
keeper's mutex; `Ensure` is `ensureLocked` with the failures of its calls chosen
(`MaxSlips`). `ServiceHost` composes it with `ServiceManager`: a start ends with
`SetDevice`, a stop and a shutdown with `ClearDevice`, and forwarding requests and
the tick fall between any two steps of a lifecycle operation, since they do not
take the manager's mutex. `MaxFailures` bounds faults and slips together.

`owed` is a history variable: the adapters that forward because this run of the
service switched them on. The keeper's own note of them is `managed`, which it
also clears where a call failed; the properties about the host itself compare the
two, and excuse a behaviour in which a call of the keeper's has failed (`slips`).

| property | what it says |
|---|---|
| `ForwardingEndsWithCore` | what the keeper switched on goes off once the core is gone, also when it died by itself |
| `ForwardingReapplied` | an adapter that was recreated or switched off forwards again while gateway mode is wanted |
| `ExitLeavesNothing` | after an orderly exit of the service, but for a late start, the keeper holds nothing, no adapter of the host forwards on its account and no inbound rule is open |
| `RuleFollowsCore` | until a call fails: nothing is open when neither gateway mode nor allow-lan asks, nothing but the executable the keeper was last told of ever is, and while the core it was told of lives, its executable is open whenever one of them asks |
| `RuleEndsWithCore` | (does not hold) the firewall rule is closed when the core is gone |

`told` is another history variable: the core and executable of the last `SetDevice`, as
long as that core lives. A core that a reconcile has taken over from the record is never told
to the keeper, and one that dies by itself leaves its rule open (`RuleEndsWithCore`);
`RuleFollowsCore` asserts neither.

Two things the keeper does are part of the model and of no property. A rule whose
replacement failed half way is not added again when the core goes back to the old
version, since belief and wish then agree (`SyncFirewall`). And an adapter that the
keeper has switched on and the user has switched off and on again by hand is still
in `managed`, so the end of gateway mode switches it off (`UserSwitches`), although
the head of `forwarding.go` says that a setting made by hand is never undone.

### `SystemProxy`

The three registry values (`reg`), the bundle on disk (`backup`), the service's
phase, its queue (`op`, `pc`, `task`) and the session-end thread's restore
(`direct`), which runs outside the queue. Reads that follow each other without a
write are one step; each of the three values is written by a step of its own, for
an application (`apply_now`), a restore (`restore_now`) and the rollback of
enable alike, so a death or another program's write can fall between any two.
`user` is a history variable: what the values would be had Murge never touched
them. A server value is who listens there, an override list is what it contains.

`excuses` is the second history variable. It records the four situations the code
openly leaves to the user: a sequence of writes cut short where the recovery rule
does not recognise the mix (`torn`), another program's write in the middle of a
sequence (`contended`), a restore over another tool's values (`clobbered`), and
the restores of a session end overtaking an application (`raced`). The invariants
say that outside them the guarantee is exact; `system_proxy_torn` shows that the
first contradicts what the source says of itself.

| property | what it says |
|---|---|
| `ExactRestore` | no bundle on disk means the three values are the user's |
| `RestoresUsers` | whenever the recovery rule would restore a bundle, its values are the user's |
| `KernelStopSafe` | told that it may stop the core, the caller leaves no proxy that points at it |
| `PassiveLeavesUser` | the three operations that ask `can_restore_backup` first (guard, launch recovery, restore before a core stops) leave values alone that are not Murge's |
| `GuardRepairs` | the guard repairs what a cleanup tool undid |
| `SessionEndSafe` | when the session-end handler returns, the proxy does not point at Murge |
| `ImplementsLoan` | the service keeps the contract of `ProxyLoan` |
| `CrashRecoverable` | (does not hold) the next launch recognises the bundle of a dead process |

Three things the code does are part of the model and of no property. The launch
recovery is spawned beside the IPC and takes back a proxy that was enabled before
it ran. Disable restores without asking `can_restore_backup`, and so does
`handle_network_down`, which nobody has asked for and whose comment speaks of the
"owned proxy" (`system_proxy.rs:1810-1812`): when another tool has taken the
proxy over, either writes the bundle's values over it. `ExactRestore` excuses that
as `clobbered`. And `set_proxy_bypass` never looks at the fence: what it writes
across a session end is excused as `raced`.

Abstractions: an unsupported platform, an unparsable bundle and
`validate_restorable` are left out; probing for a listener is one step; two
processes over one bundle (the installer's command line) are not modelled.

### `ProxyLoan`: what the proxy service promises

The abstract specification of the service: the user's proxy settings are lent to
Murge against a note. The note is taken while the settings are still the user's
(`Borrow`), only against it do they become something else (`Use`), and it is torn
up when they are back (`Return`); another tool's values end the loan
(`Takeover`). A failed call or a death is no step of it. An answer that the core
may stop is true while it stands.

`SystemProxy` implements it. `Loan` maps `value` to the registry, `mine` to
`user`, and `note` to the previous values of the bundle on disk where that bundle
counts: the recovery rule would restore it, or a sequence of writes is under way.
A bundle that neither holds of is an obsolete one, which the code ignores or
deletes. `trust` is what `excuses` leaves of the promise: with no excuse it is
`exact`; until a session end has overtaken an application it is `server`, that
Murge's server stands only against a note and no note names it; then `none`.
TLC checks `ImplementsLoan` in the run `system_proxy`, `SystemProxyRefinement`
proves it.

### `RecoveryCoordinator`: timers, attempts and the gate

The state of `RecoveryCoordinator` in `runtime_intent.rs` (`started`, `running`,
`wakePending`, `nextDelay`, `open`, `timer`, `last`), the spawned tasks (`task`),
and the line for the runtime gate (`line`, first come first served), which the
attempts share with the user's requests. A task sleeps, forgets `state.timer`,
and becomes an attempt; each lock it takes and each place where it waits is a step
of its own (`Fires`, `Forgets`, `Tick`, `ReadsFlags`, `NotesFlags`, one
`StepQueues` and `StepActs` for each of the four operations, `Finishes`, `Exits`).
`Cleared` models `JoinHandle::abort` as tokio has it: a sleeping task is gone, one
that is running goes on until it waits (`doomed`, `Dropped`). A user's request
waits in the line, writes the settings, tells the coordinator, acts; a mode can
fail at any time, and a quit can begin, be cancelled or go through.

Of a generation only its being the current one is kept, of the two minutes only
whether they are over. The replay at startup is left out (its operations look to
the coordinator like `OtherActs`), as are phases it would not retry.
`due`, `quiet` and the tasks' `late` are history variables.

| property | what it says |
|---|---|
| `OneAttempt` | two attempts are never in progress, though timers are forgotten and aborted late |
| `CancelledStandsStill` | after `cancel_pending` or `stop`, until the next signal or intent: no timer is set, no attempt begins, no step passes its fence |
| `FenceSeesIntent` | an attempt passes its fence only for a mode the settings ask for |
| `DebtCarried` | an attempt that is owed is in somebody's hands: a live timer, an attempt that has yet to read the settings or was aborted, or the note that makes it spawn another |
| `RetriesKept` | a signal or a change of intent is followed by an attempt that reads the settings afterwards, unless the coordinator is stuck |
| `NoStaleWork` | (does not hold) an attempt brings nothing up that the settings no longer ask for |
| `WakeRetries` | (does not hold) `RetriesKept` without its exception |

A step that has passed its fence before the cancellation and waits in the line still
acts: that is the gap `NoStaleWork` shows for an intent change, and
`CancelledStandsStill` does not close it.

`FenceSeesIntent` has an exception of its own: an attempt reads the settings and
notes them in two critical sections. When the user changes them in between, and
back again before the attempt has gone on, `state.last` already holds the value
and the second change is taken for none (`task.late`).

### `PrivilegedKernel`: the client of the service

The operations of `PrivilegedKernelGateway` (`initialize`, `start`, `stop`,
`reconcile_liveness`, `declare_lost`) in their queue (`line`, `at`), the session
`TunServiceClient` remembers (`owned`), the exit monitor's tick and recovery
(`mon`, `streak`, `restarts`, `deferred`), a quit, and a relaunch of the desktop
process, which knows nothing of its predecessor. One step of an operation sends a
request (`StartAsked`, `StopBegins`, `PollAsks` ...), another one takes the answer
(`ReadyAsked`, `StopAnswered`, `PollAnswered` ...). Between them the service
executes the request in its own steps and may die in each, the pipe may break
(`Breaks`), the client may give up (`TimesOut`), and a request nobody waits for
any more may still be executed.

The service is the one of `ServiceManager` as its client can tell it: its record
(`claim`) and its memory (`held`, `blocked`, `conflict`, `exited` for the last exit)
are apart, and each branch of `start`, `stop` and `reconcile` answers what the code
answers (`Unread`, `NoRecord`, `Adopts`, `Unsure`, `Forgets`, `ForgetFails` for
reconcile; `Refuses` for a stop while the owner is unverified; `RecordFails` for the
write that fails, with its emergency stop). A core that the service itself loses
(emergency stop failed, or death before the job holds the core) moves to `escaped`
and lives on there; what happens to it is the subject of `ServiceManager`, and the
properties here are about the core the service answers for.

Choices: a core is named by the session it was started for; a request the client
has abandoned is served before the current one, as a mutex that does not overtake
does it; readiness is answered by any live core (`Answering`), since the
controller's port and secret are settings that outlive the process;
`initialize` is the first operation in the queue (a start of the user that overtakes
it is in `NetworkDetector`). `strays` is a history variable:
the sessions whose core may live unknown to the client, because a start was not
answered, a core was given up for lost, or a former process left it; an answer
about the core empties it (`Settles`), since the service has by then executed
every earlier request. `due` says that an exit was noticed and nothing has followed.

| property | what it says |
|---|---|
| `StoppedIsStopped` | a status `stopped` means that the service has no core, but for one it has not answered for yet (`strays`) |
| `RunningIsOwned` | the core the service has behind a status `running` is the one a stop of the client would stop |
| `QuitLeavesNoCore` | once a quit has stopped the core nothing makes the service start one before the process ends |
| `NoticeKept` | an exit that was noticed and not followed by anything leaves the status `failed`, and the monitor or a later tick of it has the recovery |
| `ExitNoticed`, `ExitRecovered` | a core that exits is not reported as running for ever; what the monitor notices is followed by a restart, a wake, a pause of the crash loop or the user |
| `ServiceKeepsLease` | the assumed service keeps the contract of `CoreLease` |
| `GoneMeansGone` | (does not hold) the poll reports an exit only of a core that was believed live and is gone |

### `TunCoordinator` and `NetworkDetector`

`TunCoordinator` has no specification of its own: it is the TUN mode of the one
shared core, the coordinator's phases and queue (`tun`, `op`) over the calls of
the hot switch, each of which can fail, and the readiness probes, which look at
the generation and at the status in two steps (`fenced`, `over`).

`NetworkDetector` puts it beside the detector's tick (`at`, one step between two
awaits), the runtime gate (`line`), the user's requests, the exit monitor, which
takes no gate, and the world: outages, cores that exit, calls that fail. A request
is the list of steps it takes behind the gate (`todo`); the first one that fails
ends it. The proxy is whether it points at us (`ours`) and whether its phase hides
that (`hidden`: a failed enable says `disabled` of a proxy that is still ours, and
`handle_network_down` then answers `idle`); the service is the core.

A behaviour begins with a launch, which may find the core of the process before with
its adapter up. `recover_managed_state` (`runtime_intent.rs:731-771`) is spawned
without the runtime gate and takes the proxy (its part is in `SystemProxy`), the
kernel (`InitializesKernel`) and the TUN coordinator (`InitializesTun`) in this
order. `TunCoordinator::initialize` finds a core only when the kernel's part has
failed to stop it; it then asks the controller, whose secret is a stable setting
(`lib.rs:310`), and takes an adapter that is up for an interrupted enable. The replay
of the user's wishes that follows is the coordinator's (`RecoveryCoordinator`).

Two history variables mark what the launch leaves. `stray`: the core that runs is of
a former process, or one a start or the launch has disowned; no status of this
process speaks of it. `swept`: a start of the user overtook the launch, and
`initialize` has stopped its core and set the kernel to `stopped` without a look at
the proxy or the TUN mode; it lasts until the next orderly stop. No comment or test
says what the code owes such a start, so the properties excuse it and say that
nothing else has this effect.

| property | what it says |
|---|---|
| `NoDeadPort` | an orderly stop leaves no system proxy that points at a port nobody listens on, unless the launch has `swept` |
| `TunStatusTrue` | from the launch on: behind `configured` no adapter is up but a stray core's; behind `active`, unless an exit is being handled or the launch has `swept`, one is |
| `LateReadinessFenced` | a readiness probe that outlives its enable does not get past the fence |
| `EpisodeKept` | what an outage has left to be undone (proxy, host, latch) belongs to an episode the detector still remembers |
| `TunSettles` | the mode does not stay `starting` or `restoring` |
| `HostReturns` | the host the detector stopped comes back with the network, however often a restart fails |
| `ProxyReturns` | so does the proxy, also when the core exits meanwhile |
| `OutageSafe` | an outage turns the owned proxy off, however often its restore fails, unless its phase hides it |
| `LatchEnds` | (does not hold) once the network is back for good, the episode ends |

`HostReturns` exempts a TUN conflict, which survives the stop: leaving it then
reads as a host that serves. Left out: the recovery coordinator and a quit beside
the detector, `stop` of the detector, answers of the store that cannot be read.

Two things are in the model and in no property. The readiness probe looks at the
generation and then takes the lock of the status in a second step (`ProbeMarks`);
`LateReadinessFenced` says that no late probe gets past the first, not what a mark
between the two does to the status. And the detector compares the run mode before
it waits for the gate, so a stop of the user that is served meanwhile is undone; the
head of the module says that the restart "never fights the user's explicit stop"
(`network_detector.rs:7-9`), which no property here tests.

## Runs

| run | bounds | shows |
|---|---|---|
| `service_manager` | 2 sessions, 2 PIDs, 2 faults | the session manager; two PIDs are enough for two cores and for a reused PID, two sessions for a mismatch, two faults for a failed write with a failed emergency stop |
| `service_host` | 1 session, 1 PID, 1 LAN adapter, 1 executable, 1 fault or slip | the composition; one failure is a crash or a failed call at every step. with two executables (a change of the core's version) its properties hold as well, in 465 thousand states; the proofs of the safety properties know no bound on them |
| `service_host_rule` | the same, no failure | violation of `RuleEndsWithCore` |
| `system_proxy` | 1 listener, 1 foreign server, 1 fault, 1 write of another program, quits and session ends | the proxy; one fault is a death, a failed write or a failed deletion at every step. Constraint `CalmSessionEnd`: a session end meets no fault, no foreign write and no quit before the process has died of it; it keeps the state space small; `SystemProxyProofs` proves the safety properties without it |
| `system_proxy_torn` | 1 death | violation of `CrashRecoverable` |
| `recovery` | TUN, 1 retry, 2 tasks, line of 2, 1 request, 1 signal | the coordinator; two tasks are a timer and an attempt, or the aborted and the new timer; a line of two lets an attempt wait behind the user; a second signal or request, and the proxy as a second mode, were tried with a line of one and showed nothing else |
| `recovery_stale` | 1 task, no signal | violation of `NoStaleWork` |
| `recovery_stuck` | 1 signal, no request | violation of `WakeRetries` |
| `privileged_kernel` | streak of 2, 1 restart, 2 sessions, 2 troubles, 1 exit, 2 user calls, 1 quit | the gateway, the monitor and the pipe; two sessions are enough for a stale answer about another core, two troubles for a lost start whose repetition is lost too or for a streak of unreachable polls, one exit with one restart for the whole of the budget |
| `privileged_stop` | no trouble, no exit, no quit | violation of `GoneMeansGone` |
| `network` | 1 failing call, 2 requests of the user, 2 outages, 1 exit | the detector and the TUN mode; two outages are needed for an episode that has to begin again, two requests for one that changes the mode while another waits. Constraint `Calm`: the second outage only while no core has exited by itself, and no outage or exit while the launch is at work or what it has swept is not stopped |
| `network_latch` | no failing call, 2 requests, 1 outage, no exit | violation of `LatchEnds` |

Deadlock is checked in the runs of the service, the proxy and the recovery
coordinator. In those of `PrivilegedKernel` and `NetworkDetector` it is not: with
the bounded inputs used up and nothing left to do, the system rests.

A constraint cuts off behaviours, and the liveness properties are checked on what
is left; the safety proofs below know no bound and no constraint.

### What the violations show

* `RuleEndsWithCore`: a core dies by itself; `reconcile` forgets it but does not
  call `ClearDevice`, so the keeper still wants the rule for its executable. The
  comment above `syncFirewallLocked` says it is kept exactly while a core runs.
* `CrashRecoverable`: enable dies after `ProxyEnable` was written. The values are
  neither the written nor the previous ones and the server is not ours, so the
  recovery refuses and the user's old proxy stays switched on. (Only when
  `ProxyEnable` was off and another server was stored.)
* `NoStaleWork`: an attempt asks its fence, then waits for the gate behind the
  user's disable; behind the gate nothing asks again, and the mode comes back.
* `WakeRetries`: a wake aborts the timer just as it fires. The task sets `running`,
  is dropped at its first wait, and every later signal only sets `wake_pending`.
* `GoneMeansGone`: the monitor looks at the phase before it waits in the gateway's
  queue. Behind a stop of the user the poll finds the service stopped and returns
  "gone"; the monitor recovers and starts the core the user has just stopped.
* `LatchEnds`: the episode ends only when the run mode equals the one latched at
  its beginning. A user who changes the TUN mode meanwhile keeps the two apart for
  ever, and the next outage is not handled.

## Fairness

`ServiceManager`: an operation that has begun goes on (it is one goroutine that
never waits for a client), the service control manager restarts the service, the
runtime waits on its children so a dead child's handle is closed, and the shutdown
gets the mutex (strong fairness: Go's mutex does not starve a waiter). No fairness is
assumed of any request, of exits or of faults: that somebody keeps asking is the
antecedent of the two properties that need it. `ServiceHost` adds the ticker
and the disappearance of an adapter whose core is gone; polling is added only for
`RuleEndsWithCore`, whose violation it must not explain. `SystemProxy`: an operation
that holds the queue goes on, and the guard's timer ticks (strong fairness: the
queue is a fair tokio mutex; the timer checks only while the setting `proxyGuard` is
on, `lifecycle.rs:583-589`, which `GuardRepairs` assumes). `RecoveryCoordinator`: timers fire, who holds the
gate goes on (its operations have timeouts), and a task goes on (strong fairness,
since it joins a line that is full now and then; the bound on the line is ours).
No fairness of signals, requests or `start`. `PrivilegedKernel`: the service
executes what it has taken or fails to (the service control manager restarts it),
who holds the gateway's queue goes on (every call has a timeout), the monitor
ticks, and a quit that has begun ends or is cancelled. None of the user's calls, of
exits or of troubles. `NetworkDetector`: the steps behind the gate, the
coordinator's queue, the detector's tick and the monitor go on; each is one task,
so weak fairness of each suffices. None of outages, of the network's return, of
requests, of probes or of the launch.

## Proofs

`ServiceManagerProofs` proves, for every set of sessions and PIDs and any number
of faults, that `Inv` is an invariant (`Invariance`) and from it `TypeCorrect`,
`CoresAccounted`, `AtMostOneCore`, `StoppedIsTrue`, and the action properties
`VerifiedCreation` and `ForeignSpared`. The proof that a step preserves `Inv`
is split into typing (`TypeStep`) and the rest (`SafeStep`), one step per action.
The assumptions are the two named ones of `ServiceManager` (`None` is not an
owner; `MaxFaults` is a natural number).

`RecoveryCoordinatorProofs` proves, for every length of the backoff table and any
number of tasks, requests and signals, that the `Inv` of `RecoveryCoordinator` is
an invariant (`CoordinatorInvariance`), and from it `CoordinatorTypeCorrect`,
`AtMostOneAttempt`, `CancellationHolds` and `FenceIsCurrent`. One attempt at a
time needs only that an attempt has set `running`. The cancellation needs that a quiet
coordinator has no current task (`CancelledStaysQuiet`) and no signal kept for later
(`QuietCoordinator`). The fence needs more: that an
attempt which is still current after its note saw the settings as they are
(`NotedIntent`), hence that whoever wrote them holds the gate until it has told so
(`UserInLine`), hence that nobody's request is taken out of the line meanwhile.
`DebtIsCarried` proves `DebtCarried` with `DebtInv`: whatever aborts the timer that
would pay a debt puts another in its place, or finds an attempt in progress and
leaves it the note, which its end reads.
The helpers are used through what they do to a task (`Keeps`, `Sleeps`): the
methods keep attempts as they are, and only one task moves in a step of a task.
The assumptions are the two named ones of the module.

`ServiceManagerRefinement` proves `Refinement`: with the mapping of `CoreLease`
above, the first state of the manager is one of the lease, and under `Inv` every
step is a launch, a grant, an adoption, a revocation, an end, or leaves the three
mapped variables alone (one lemma for each kind). `DurableOwner` is what makes a
revocation safe.

`ServiceHostProofs` proves that the composition is a session manager
(`HostIsManager`): every step of `HostNext` is a step of the manager or stutters
on its variables. So all that is proved of the manager holds beside the keeper
(`HostKeepsCores`). `HostTypeCorrect` adds the keeper's own types. `HostInvariance`
proves the inductive `HostInv`, for any adapters, executables and number of
failures: until a call fails the keeper believes in the rule it would ask for
(`Belief`) and the belief is true of the host while it runs (`TrueBelief`); without
a core it holds nothing (`NothingHeld`); a service that is down has no core's
executable (`Quiescent`). `RuleFollows` needs both beliefs, since every operation
compares wish and belief and touches the host only where they differ. That the rule is
the one of the core the keeper was told of needs that while this core lives no start
is under way that would name another, and the keeper's executable is its
(`ToldIsOwned`). `CleanExit`
needs `NothingHeld`, for the keeper, and `OwedIsKnown` (`OwedStaysKnown`), for the
host: as long as no call has failed, what is owed is managed, and nothing is managed
any more.
The new assumptions are the named ones of the keeper.

`NetworkDetectorProofs` proves, for any number of requests, outages, exits and
failing calls, that the `Inv` of `NetworkDetector` is inductive, and from it
`NetworkTypeCorrect`, `StopLeavesNoDeadPort`, `TunStatusCorrect` and
`ReadinessFenced`, from a launch that may find a core and its adapter. `NoDeadPort` is not inductive: that a stop may switch the
kernel off rests on what the earlier steps of the same request have left, and the
exit monitor and the launch work on the same state without the gate. `GateFacts` says for each
rest of a request what it relies on (the proxy is restored, the mode is not
active, no adapter is left); `QueueFacts` that the coordinator works only while
the request that holds the gate waits for it; `DeviceFacts` what the monitor leaves
true in the middle of its recovery; `HostFacts` that a stray core is never behind
`running` and one that is not stray never behind `stopped`; `LineShape` that the line has at most one
request of the user and one of the detector, and that the detector waits for its
own. Lemmas say what is left of a request after a step (`Stepped`, `Follows`), and
that a request which only joins the line disturbs nothing (`KeepsFacts`).
`EpisodeIsKept` needs more than its own invariant (`EpisodeInv`): a tick beyond its
first look has an episode (`EpisodeSteps`), the detector's jobs in the line are those
of the place where its tick waits, and the user asks for none of them
(`NetRequests`), and a good answer to the last one means that nothing is pending
(`AnsweredUp`), so the tick that ends the episode ends it with everything done. The
assumptions are the named ones of the two modules, that the bounds are natural
numbers.

`PrivilegedKernelProofs` proves, for any number of sessions, troubles, exits, calls
and quits, `GatewayTypeCorrect`, `LeaseKept`, and from the invariant `Inv` it defines
`StoppedIsTrue`, `RunningIsStoppable` and `QuitIsFinal`. The lease needs only
`ServiceFacts`: a core that lives is the one on record and the one in memory, or about
to be recorded where nothing is. The other three rest on one another. `StrayFacts` says that a start
nobody waits for any more is of a stray session, and that there is none once an
answer about the core has come, while the status is `running` or a core gets ready:
the client learns of no core that a forgotten request could replace. `OwnFacts` says
whose a living core is: a stray's, the client's, or the one the pending start names.
`LineFacts` says what stands in the queue behind the stop of a quit: polls, which
start nothing. Each step of the gateway is brought to one form first (`Accounted`),
which `AccountedKeeps` shows to be enough. `NoticeIsKept` adds two facts of its own
(`NoticeInv`): only the monitor polls, and it waits for the one request it has in
the line (`MonitorInLine`), so an exit is not noticed behind its back; and a stop
that has begun shows as `stopping` (`StopUnderWay`), so that its end is the user's
act and not a status that hides the exit. The assumptions are the named ones of the
module: the limits and bounds are natural numbers, and `None` is neither a session
nor a request in execution.

`SystemProxyProofs` proves, for any listeners and foreign servers and any number of
failed calls, deaths and writes of other programs, `ProxyTypeCorrect`,
`RestoredExactly`, `RecoveryRestoresUsers`, `StopIsSafe`, `SessionEndIsSafe` and
`TakeoverIsLeft`: all safety properties of the run `system_proxy`, without its
constraint. The invariant has three layers, each true while less is excused.
`Typed` always holds. `ServerFacts` holds until a session end overtakes an
application: the server is Murge's only while the bundle on disk is of that
listener, no bundle gives the server back to Murge, and who writes Murge's values
works with the bundle that is on disk, not beside the session-end thread. It
suffices for `KernelStopSafe` in spite of torn writes and of other programs.
`UserFacts` holds while nothing is excused: a bundle that is being restored, or
would be, holds the user's values; one that would not be is obsolete because the
registry holds them; and what a sequence has written so far is what it is to
write (`Wrote`), also when the queue and the session-end thread restore the same
bundle at once, since both write the user's values. That nothing is excused later
only if nothing was before is `ExcusesGrow`. The assumptions are the named ones of
the module: no listener is a foreign server, `None` is neither a listener, a
bundle nor a value of the registry, the bounds are natural numbers.

`SystemProxyRefinement` proves `LoanIsKept`: with the mapping of `ProxyLoan` the
first state of the proxy service is one of the loan, and every step is a borrowing,
a use, a return, a takeover or leaves the three values alone while nothing is
excused (`ExactStep`), and keeps the weaker guard while no session end has
overtaken an application (`GuardedStep`). Two facts carry it: under `Inv` the note,
where there is one, is the user's values (`ExactNote`), and a note stays while
somebody still writes against it (`WritersNote`). The steps are sorted by what they
touch: none of the values (`RestsStep`, which is where the note comes and goes), a
value by a sequence of writes (`WriteStep`), values of another program
(`TakeoverStep`), ours by a cleanup tool (`SweepStep`). `LoanIsSolvent` proves what the
loan is for: in each of its behaviours no note means the user's values, a note holds
nothing else, and Murge's server never stands without one.

### Only model-checked

Every invariant and every action property of a passing run is stated by a theorem.
The type invariants are proved for every module and checked by a run only where they
say more than a type (`CoordinatorTypeOK`: a retry never looks past the backoff
table). What is left to TLC is liveness, since neither fairness nor ENABLED is within the
prover's reach: `BlockedRecovers`, `DeadOwnerForgotten`, `ForwardingEndsWithCore`,
`ForwardingReapplied`, `GuardRepairs`, `RetriesKept`, `ExitNoticed`,
`ExitRecovered`, `TunSettles`, `HostReturns`, `ProxyReturns`, `OutageSafe`. Where
such a property can fail by something being forgotten, that part is a safety
property and proved: `DebtCarried` for `RetriesKept`, `NoticeKept` for
`ExitRecovered`, `EpisodeKept` for `HostReturns` and `ProxyReturns`. That the one
who has the work also comes to do it is what TLC adds.

## Plan

1. `ServiceManager`, `ForwardingKeeper`, `ServiceHost`, `SystemProxy` (done), with
   the proofs of the session manager (done).
2. `RecoveryCoordinator` and its proofs (done).
3. `CoreLease` and the refinement, `PrivilegedKernel` and its proofs (done).
4. `TunCoordinator`, `NetworkDetector` and their proofs (done).
5. The proofs of `SystemProxy` (done).
6. `ProxyLoan` and its refinement, the proofs of the keeper on its host, of the
   debts, notices and episodes that recovery rests on (done).
7. Left: the recovery coordinator and a quit beside the detector.

## Not modelled

The parts `PROJECT.json` lists as `not_modelled`, with the reason: pure I/O and
transformation of data (profiles, subscriptions, logs, usage, updates), the MITM
engine, the renderer's mirrors. They are most of the repository's lines and have
little state that a second actor shares; what they share with the modelled parts
(two settings, the gate, the core's status) is modelled there. The order of
startup, the command-line restore of the installer (a second process over one
bundle), and the quit's TUN teardown and timeouts are left out as well. Liveness of the host's own services, timing in
seconds, and the contents of registry strings are abstracted everywhere.
