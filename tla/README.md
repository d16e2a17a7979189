# Formal models of v2rayE

v2rayE is a Go service that embeds xray-core, takes over the host's routes (TUN)
and desktop proxy while the core runs, and is driven through an HTTP API by a
terminal UI. This directory holds TLA+ models of its stateful parts, the TLC
configurations that check them on small instances, and TLAPS proofs of what
matters most. File and line references are to `backend-go/` of this repository;
`service.go` is `internal/service/native/service.go`.

## The system

| Part | State | Operations | Meets |
| --- | --- | --- | --- |
| Core lifecycle (`service.go` 99–409, 1783–1836) | `xrayCore`, `running`, `starting`, `degraded`, `stats` under `mu`; `coreOpMu`, `switchMu` | `StartCore`, `StopCore`, `RestartCore`, `ShutdownCore`, `CoreStatus` | everything below |
| Watchdog (`service.go` 1838–1844, 1922–2032) | restart attempts, scheduled, restarting | tick every second; sleeping auto-restart goroutines | lifecycle, through `coreOpMu` |
| Runtime changes (`service.go` 357–401, 530–541, 1415–1460, 1694–1770) | config, selection | save, then restart a running core | lifecycle, through `switchMu` then `coreOpMu` |
| TUN takeover (`service.go` 2352–2952) | kernel rules and routes, `tunRestoreRoutes` in memory and in config.json | set up, clear, repair | called by the lifecycle |
| TUN reconciliation (`service.go` 2968–3146) | last drift | every few seconds: compare, rebuild | takeover, lifecycle |
| System proxy (`service.go` 867–898, 2146–2202) | desktop settings, mode in config.json | apply on start, clear on stop | lifecycle, config |
| Storage (`storage/store.go`) | JSON files | load with defaults, replace atomically | everybody: load, modify, save without a common lock |
| Profiles and subscriptions (`service.go` 438–852) | profiles.json, subscriptions.json, state.json | create, edit, delete, import, refresh over the network, automatic refresh | lifecycle (selection changes) |
| Log broker (`log_stream.go`) | history ring, subscriber channels | dispatch, subscribe, cancel, clear | xray's log handler, SSE handlers |
| Event stream (`httpapi/server.go` 825–896) | subscriber channels | publish, subscribe, remove | every mutating handler |
| Statistics (`stats.go`) | counters, quit channel | poll each second, reset, shut down | lifecycle |
| Launcher (`launcher/`) | instance lock file, boot-restore goroutine | lock, restore on boot, shut down | lifecycle, network state |
| HTTP handlers (`httpapi/server.go`) | none of their own | one service call each; exit clean-up | service |
| Routing (`config_gen.go` 118–196, 549–766, `routing_test_tool.go`, `geodata_update.go`) | routing.json, geo assets, the rules of a running core | update, download, build rules, test a target | lifecycle, config |
| Share links and outbounds (`sub_parse.go`, `config_gen.go` 257–543) | the stored profile | parse, edit, generate | catalog, TUI |
| TUI (`cmd/tui`) | copies of config and profiles, selection, dirty flags, dialogs and focus, stream goroutines | poll, edit, save, open and close dialogs, stream with reconnect | HTTP API; UI loop |

What makes it hard. Lifecycle operations are long and mix memory, files and
kernel commands; `mu` is released around every slow step, so each operation is a
chain of critical sections between which a status poll, the watchdog, another
call or an exit of the core can come. Failures half-way must leave neither
routes to a dead core nor a host without its default route. State files are
read, changed and written back by several goroutines. Timers fire into
operations already under way.

What must hold, per part:

- *Lifecycle*: one xray instance at most; one start at a time; flags, poller and
  instance agree; whoever loses the core also loses the takeover and the proxy;
  no deadlock; each call returns; the restore intent says what the user wants.
- *Watchdog*: an exit is followed by a restart, up to the retry limit, never
  against a stop, never at the cost of a running core.
- *Runtime changes*: what is on disk is what a running core was built from.
- *TUN takeover*: a host always gets its default route back, over crashes too.
- *Reconciliation*: repairs what drifted, for the profile in use, and settles.
- *Storage*: a crash leaves the old or the new file; updates are not lost.
- *Catalog*: deleted things stay deleted; the selection names a profile.
- *Streams*: lines arrive in order, at most once; a slow or leaving reader
  disturbs nobody.
- *Launcher*: one instance; a shutdown wins over a boot restore, and leaves the
  host clean.
- *Routing*: the routing test says what the core does.
- *Links*: no security setting of a link is lost on the way to the core.
- *TUI*: what was typed is not overwritten; list, form and selection are about one
  profile; keys go to the dialog on the screen.

## Modules

| Module | Models |
| --- | --- |
| `CoreLifecycle` | lifecycle, watchdog, automatic restarts, runtime changes and repair |
| `CoreContract` | what the lifecycle promises to the rest of the machine: abstract, implemented by `CoreLifecycle` |
| `CoreSwitch` | config and selection changes among all other operations: which start a change overlooks |
| `MCCoreLifecycle`, `MCCoreSwitch` | the instances TLC checks: initial configs, symmetry |
| `CoreLifecycleProofs` | the inductive invariant, the theorems that follow, and that the contract is kept |
| `TunPolicy` | policy routing: the kernel's rule list, set-up and clean-up command by command, the reconciliation loop |
| `MCTunPolicy` | its instances: two profiles, the order of routes |
| `TunPolicyProofs` | its inductive invariant and the theorems that follow |
| `TunRestore` | the takeover of the default route: its record in memory and in config.json, the restore, crashes |
| `MCTunRestore` | its instance: two links, one at the metric of the TUN route |
| `TunRestoreProofs` | its inductive invariant and the theorems that follow |
| `FanOut` | what a stream promises: abstract, implemented by the next two |
| `LogBroker` | the core log: dispatch, subscriptions, history, cancel |
| `EventBus` | the metadata events: publish, subscribe, remove |
| `Catalog` | profiles, subscriptions, selection and the automatic refresh over three JSON files, with failed saves and restarts |
| `CatalogProofs` | its inductive invariant and the theorems that follow |
| `Launcher` | server processes over one data directory: instance lock, boot restore, signals, exit clean-up |
| `RoutingRules` | the rules built for the core, the routing test, updates of rules and assets |
| `BackendProofs` | the invariants of `Launcher`, `LogBroker` and `EventBus`; that the routing test agrees with the router, and that both streams implement `FanOut` |
| `Links` | share link, profile, form, outbound |
| `SettingsForm` | the settings page against polls, saves and language switches |
| `ProfilesPage` | list, selection, form and delete dialog of the page of profiles against reloads |
| `Overlays` | the dialogs of the console, their focus and the UI queue |
| `ConsoleProofs` | the invariants of the last four |
| `Picks` | the elements of a sequence at chosen positions: what a loop leaves that copies some of a slice |
| `SeqLemmas` | sequences and least elements: what the proofs need of them |
| `MCServer` | one instance of the parts from `FanOut` on |
| `ServerProofs` | that in `MCServer` each part behaves as it does alone, hence keeps what was proved of it |

The two TUN modules refine what `CoreLifecycle` has as the Boolean `tunTakeover`:
they take from it that set-up and clean-up run under `coreOpMu`, one lifecycle call
at a time, and add what the kernel, the device and the file do meanwhile.

### CoreLifecycle

A goroutine is a process: `Clients` (API handlers, one call at a time), `Dog`
(`watchdogLoop`) and `Sleepers` (slots for `runScheduledAutoRestart`). `pc[p]` is
where it stands, `op[p]` the call it works for, `mine`, `cfgCopy`, `stCopy` and
`ready` are the local variables that survive a step: an xray instance taken or
started, a config or state loaded earlier, and the `Ready()` of a returned status.

One action is one critical section of `Service.mu`, one access to a file, or one
external effect. `mu` never spans two actions, so it needs no variable; `coreOpMu`
and `switchMu` do. The variables follow the fields: `xrayCore` is `"none"`,
`"live"` or `"dead"` (present but no longer `IsRunning`); `built` is history — the
config and profile the running core was built from; `config` and `state` are the
two JSON files, with the settings and fields the lifecycle depends on;
`tunTakeover` and `desktopProxy` say what the host is set up to do.

| Code | Actions |
| --- | --- |
| `startCore` | `Claim`, `LoadConfig`, `PickProfile`, `PickSave`, `ClearStale`, `Launch`, `Commit`, `SetupTun`, `ApplyProxy`, `SaveLoad`, `SaveWrite`, `OpCheck` … `OpBuild`, `Unstart` |
| `stopCore` | `StopTake`, `StopClose`, `StopTun`, `StopProxy`, then `SaveLoad`, `SaveWrite` when the restore intent is cleared, then the status |
| `statusForLifecycleOp` | `OpCheck`, `ExitCheck`, `ExitClear`, `OpBuild` |
| `CoreStatus` | `Check`, and on an exit `LockCoreOp`, `ExitCheck`, `ExitClear`, `Unlock` |
| `RestartCore` | the stop's actions, then the start's, in one `coreOpMu` section |
| `watchdogTick` | `TickExit`, `TickDegraded` |
| `runScheduledAutoRestart` | `Wake`, `LockCoreOp`, stop and start, `Unlock`, `AutoDone` |
| `restartCoreForRuntimeChange` | `ChangeCheck`, `LockSwitch`, `SwitchCheck`, restart, `SwitchUnlock` |
| `UpdateConfig` | `CallUpdate` (load and merge), `UpdateSave`, `TunOff` when TUN goes off, then the runtime change |
| `SelectProfile` | `CallSelect` (load), `SelectSave`, then the runtime change |
| `RepairTunAndRestart` | `CallRepair`, `Check`, `WasRunning`, `TunOff`, then restart or start |

Abstractions, and why they are sound for the properties stated:

- An exit of the core (`CoreExit`) is an act of the environment, possible whenever
  an instance is published: the code asks `IsRunning` and must be ready for it.
- Config generation, writing the xray file and starting the instance are one step,
  `Launch`, that works or fails (`LaunchResults`). The three error returns differ
  in the error text only. A start without any profile takes the same exit.
- TUN setup, its stale clean-up and the second try are one step, `SetupTun`; when
  it fails, part of the takeover may be left. The clean-up commands succeed;
  `cleanupStaleTunInterface`, whose error ends an operation, may fail
  (`StaleResults`). Applying the desktop proxy succeeds.
- `config` holds two settings: TUN on or off, proxy applied or not. Saving restore
  routes into config.json (`persistTunRestoreRoutes`) loads and saves the file in
  one go and does not touch these two; it is left out here.
- Error texts (`lastError`), start times, logs and the published events are left out.
- `MaxRetries` is a positive limit; 0 in the code means no limit. The back-off
  becomes "sleeps for some time". `Sleepers` bounds the sleeping goroutines: with
  all slots taken a tick comes later, which the ticker may do anyway.
- The profile list is fixed: creating and deleting profiles belongs to the catalog.
- Saves of config.json and state.json may fail (`SaveResults`): the code ignores or logs
  the error and goes on (`SavesConfig`, `SavesState`), `SelectProfile` returns it.

`CoreSwitch` extends this with one history variable, `overlooked`. `UpdateConfig` and
`SelectProfile` save, then restart a core that runs; a start that has read its files and
not committed is no running core, so a change that looks then restarts nothing and the
start goes on with what it has read. `Overlooks` is that moment and no other, and the
next start, which reads everything, ends it.

`CoreContract` is the same component seen by everybody else: one xray instance, at
most one section at work on it, the host's takeover, whether a section still has to
decide about it, and whether a clean-up after an exit is booked. Its actions carry the
promises in their guards: an instance is launched only when there is none, withdrawn
only by a stop, closed before its section ends; a takeover is put in place once per
core, by the section that has published it, and given back only while there is no core,
the user's switching TUN off excepted; a section that ends without a core leaves no
takeover, unless a clean-up is booked. `KeepsContract` maps the lifecycle to it: a
section is what holds `coreOpMu` (its `Kind` from the call), the instance is the one
in some goroutine's hands or else `xrayCore`, and a goroutine that waits for
`coreOpMu` with an exit clean-up is a booking. Everything about flags, files,
`switchMu`, counters and plans is a stutter.

### TunPolicy

Two goroutines, `User` (lifecycle calls) and `Rec` (`tunPolicyReconcileLoop`), share
`coreOpMu`; one action is one `ip` command, one lookup or one critical section. The
kernel is `rules`, the rule list of the priority window in evaluation order (`ip rule
add` goes behind the rules of its priority, `ip rule del priority` takes the first
one), `tableRoute`, `main` and `device`. `job`, `bypass`, `dels`, `next` and `after`
are the locals of the goroutine that holds the lock; `picked` is the profile `Rec`
reads before it waits for the lock.

| Code | Actions |
| --- | --- |
| `setupTunPolicyRouting` | `Wait`, `Build`, the clean-up, the installation |
| `clearManagedTunPolicyRoutingForFamily` | `ListRules`, `Delete` once per rule, then the route |
| `installTunPolicyRoutingForFamily` | `AddRoute`, `AddMark`, `AddBypass` once per target, `AddCatch` |
| `reconcileTunPolicyRouting` | `RecTick`, `RecPick`, `Lock`, `RecCheck`, `Drift`, then the set-up |
| `startCore`, `stopCore`, exit clean-up, `UpdateConfig`, `SelectProfile` | `Claim`, `Launch`, `Failed`, `StopCore`, `ExitCheck`, `LinkDel`, `CallMode`, `CallSelect` |

Left out: the second address family, which takes the same steps after the first when
the host has an IPv6 default route; the check for another running server. A failed lookup
of the server leaves it out of the list, in the set-up and in the comparison alike.
Every command may fail, a deletion as well: the clean-up then goes on with the next
rule. `left` is history: since the rules were last listed, a deletion failed or took
another tool's rule for ours, the listing itself failed, or the process crashed; rules
of ours may then be there that nobody is about to remove.

### TunRestore

`coreOpMu` leaves one lifecycle goroutine, whose place is `pc`; `UpdateConfig` loads
and saves config.json beside it (`UpdateLoad`, `UpdateSave`). `memory` is
`s.tunRestoreRoutes`, `persisted` the record in config.json with its hints, `found`
the routes the call under way has in hand, `config` the record in the config
`startCore` loaded. `owed` is history: routes noted, replaced, and not back; `recorded`
is history, too: when the process died they were all on record, and no takeover has
replaced a route since.

| Code | Actions |
| --- | --- |
| `startCore` | `Start`, `Load`, `Launch`, `Failed` (second try, degraded), `ApplyProxy`, `Finish` |
| `setupTunRouting`, `resolveTunRestoreRoutes` | `Read`, `Wait`, `Replace`, `Remember`, `Persist` |
| `stopCore`, exit clean-up, `clearTunRouting` | `Stop`, `Watchdog`, `Take`, `Restore` once per route, `DelTun`, `Persist` |
| `restoreCoreOnBoot` | `Boot` |

A route is its device, with one metric each; `ip route replace` takes the place of
the route of the same metric. `booting` is set when state.json asks for a restore;
its goroutine tries until a launch works (six times in the code, more often than
`MaxEvents` launches can fail). A route that comes up between `Read` and `Replace`
is replaced without anybody having noted it; it is not counted as owed. `ip route
replace` of a restore fails for a link that is down and may fail for any other reason;
the record is dropped all the same. `missed` is history: the routes nobody is going to
put back, because that command failed, nobody had noted them, or their place was taken
when their link came up. `persistTunRestoreRoutes` always works in the model.

### LogBroker, EventBus and FanOut

`FanOut` has items, members and what each received: a member gets an item at most
once, after it was published, while it is a member. Items may be dropped and may
arrive in any order. Each of the two streams adds its own promise about order.

`LogBroker`: `Dispatch` is the critical section that puts the line in the ring and
copies the subscribers; `SendLive` is one send after the unlock. `Subscribe` registers
and copies the ring; `SendHistory` is one send of the history goroutine. The handler is
`Receive`; leaving is `CancelDelete`, then `CancelClose` outside the lock. A send on a
closed channel sets `panicked`, after which the process does nothing more.
`EventBus`: `PublishLock`, one `PublishSend` per subscriber, `PublishUnlock` - the mutex
is held throughout, so removal and send never overlap and all clients see one order.
Full channels drop in both.

The log broker maps to `FanOut` with `leaving` counted as `gone`, since the handler
has left its loop; `received` is what the handlers have written (`seen`,
`forwarded`).

### Catalog

The store locks one load or one save at a time, so an operation is a sequence of
store calls, its `todo` (`LoopSteps` and `Refresh` are such sequences); between them
the calls of others come. `task[c]` holds the copies it works on. `maps` is there
because `LoadState` copies a struct and shares its map: an update of the map by the
auto-update loop reaches the cache before it is saved. `Crash` restarts from the files;
it stands for the concurrent map access that ends the process, too. A save may fail
(`Fail`); the caches then stay as they were. `overtaken` is history: the files somebody
else wrote since this operation loaded them.

### Launcher

A process goes `off`, `serving`, `draining` (the HTTP server shuts down), `closing`
(`ShutdownCore`), `returned`, `dead`. Its goroutines are `main`, the boot restore
(`boot`: probing, ready, starting, waiting) and one request handler; `mutex` says which
holds `coreOpMu`. `core` and `owner` abstract `CoreLifecycle`: who has a core and whose
start installed the takeover the host has. The takeover has one name on the host, so
tearing down is tearing down whatever is there. `Killed` ends a process at any step.

### RoutingRules

`BuildRules` translates `buildRoutingRulesWithConfig`, `CoreRoute` is xray's router
over them (external: first rule that matches, and a second pass over resolved
addresses under `ipifnonmatch`), `TestRouting` is `routing_test_tool.go`. `installed` is
what the running core was given. Updates, downloads (which may stop after the first
file) and a change of the local proxy mode come between.

Core and test read the values of a rule in two ways, and both are modelled. A pattern on
names says which names the core takes it for and which are its text or below it:
`CoreName` goes by the first; `TestName` (`ruleMatchesDomain`) skips regular expressions,
knows of geosite only `cn`, as the suffix `.cn`, and takes a bare word as a suffix. A
pattern on addresses is a network or a list of geoip.dat: `CoreAddr` looks it up in the
file the core read at its start; `TestAddr` (`ruleMatchesIP`) in the file as it was when
the test first needed that list (`cached`, never dropped by an update), and adds the
built-in networks to `cn` and the private ones to `private`. Ports and networks are
compared as one text (`OneText`).

### Links

`ShareLinks` are the links of each protocol, `ParseProfile` what is stored, `Saved` what
the profile form writes back (only the fields it knows), `BuildOutbound` what the core
gets. `wanted` is what link and user asked for.

### SettingsForm, ProfilesPage, Overlays

A goroutine of the console is a task with the step it stands before; requests to the
backend are one step, which reads or writes the backend's copy. Redrawing happens
later on the UI loop from the state it finds then; several requests for it are one.

A behaviour of `SettingsForm` is about one setting: the language, whose drop-down
(`ChooseLanguage`) takes effect at once and marks nothing, or any other field
(`SettingsChanged`). Painting the form is two steps under `a.mu`, `StartRefresh` and
`RefreshSettings`, with `suspendFieldTracking` set between them. The flag is one for
all: the buttons that enter proxy users set and clear it from their own goroutine
(`PickProxyUser`, `ResumeTracking`) while the text itself waits for the UI loop
(`SetPickedText`). `paint = "stuck"` is a UI loop that waits for itself.

In `ProfilesPage` a move of the cursor is two steps, as `onProfileSelectionChanged` takes
`a.mu` twice: `MoveCursor` looks the row up, `SelectAimed` selects. `strayed` is history:
a reload between the two took the profile off the list.

In `Overlays` `uiQueue` holds the updates handed to `runUI`; `RunUpdate` takes any of
them, since each has a goroutine of its own. `stack` is what lies over the page, `prev`
the focus each dialog found when it opened.

### Fairness

`FairSpec` gives every goroutine weak fairness on its own steps: the Go scheduler
runs what can run, and every step of the model terminates in the code (a kernel
command or a store access ends). `Acquire` gets strong fairness: a `sync.Mutex`
switches to starvation mode after a millisecond and is then handed to the oldest
waiter, so a goroutine that waits while the lock is released again and again gets
it. The watchdog's ticker is weakly fair. No fairness on calls or on exits of the core.
`TunPolicy` is fair in the same way: weakly for steps under way, the reconciliation
ticker and xray's creation of its device, strongly for taking `coreOpMu`. `TunRestore`
is weakly fair for the steps under way, the start at boot and the watchdog; nothing
promises that the device appears. Faults, crashes and changes of the network are not
fair and bounded by `MaxEvents`, so that a repair is not undone for ever.

## What the runs check

| Run | Instance | Shows |
| --- | --- | --- |
| `core_safety` | 2 clients: start, stop, shutdown, TUN switched off and on; watchdog, 1 sleeper, 1 retry; launches and TUN may fail | `IndInv`, `OneCore`, `StartsAreExclusive`, `LocksAreOrdered`, `TakeoverHasOwner`, `ProxyHasOwner`, `RunningIsRestored`; `ExitCleanupSparesLiveCore`, `OnlyStopsDropIntent`, `StopClearsIntent`; the refinement `KeepsContract` |
| `core_switch` | 2 clients: start, TUN switched off and on; watchdog, 1 sleeper, 1 retry; saves may fail | `SwitchTakesEffect` |
| `core_live` | 1 client: start, stop, status, update, select, repair; watchdog, 1 sleeper, 2 retries, fair | `CallsReturn`, `TakeoverIsUndone`, `FailedLaunchesEnd` |
| `core_exit_lost` | 1 client, starts and status polls, fair | violation of `ExitRecovers` |
| `core_stop_undone` | 1 client, starts and stops | violation of `AutoRestartRespectsStop` |
| `core_retries` | 1 client, TUN setup always fails, fair | violation of `RetriesEnd` |
| `tun_policy` | 2 profiles, 3 modes, 2 moving prefixes, a window with room for 2 bypass rules, one foreign priority, 2 events, fair | the rule list is right whenever nobody works on it; `Repaired` |
| `tun_foreign` | 1 profile, a wide window, 1 event | violation of `ForeignRulesSurvive` |
| `tun_restore` | 2 links, 4 events, proxy on and off, fair | `IndInv`, `NothingForgotten`, `StopRestores`, `RecordLasts`, `CrashRecovers` |
| `tun_crash` | the same, 1 event | violation of `WayBack` |
| `tun_proxy` | the same, 1 event | violation of `TakeoverOnRecord` |
| `server` | `LogBroker` … `Links`, one per behaviour (bounds below) | `LogIsFanOut`, `LiveLinesInOrder`, `BusIsFanOut`, `ClientsAgreeOnOrder`, `SavesKeepOthersWork`, `BackoffSurvives`, `ServersKeepApart`, `TesterAgrees`, `UnsavedEditsSurvive`, `PageSettles`, `KeysGoToTheTop`, `LinkIsHonoured` |

Two clients are enough for the safety properties: with the watchdog and a sleeping
goroutine four goroutines compete, and every conflict in the code is between two
(the proofs remove the bound for the properties they cover). One sleeper suffices
where the code never has two planned restarts alive at once; a stop resets the
plan while the goroutine still sleeps, and with `Wake` returning at once when
nothing is planned a second slot adds no behaviour but a second such return.
One retry already has the cases "a retry is left" and "none is left".

In `tun_policy` the window holds fewer rules than there are targets, so truncation
happens in most builds; two events are the least with which a failure meets a moved
route or a crash a foreign rule. In `tun_restore` one link has the metric of the TUN
route, which replaces it, and the other another one, which stays: four events let
links go, a crash happen and a launch or a command fail in one behaviour. Both
networks of each kind are there once; the proofs do away with the bound.

`server` checks the parts of `MCServer` together. They share no variable with each
other nor, at this level, with the core's lifecycle; so a behaviour has a `focus`, the
part it is about, and the rest stays at one initial state: the state space is the sum of
the parts', not their product, and every invariant of a part that does not move holds
in its initial state. Processes are symmetric. The bounds:

- *Log*: two writers, one subscription, a ring and a channel of two, four lines: the ring
  overflows, the channel overflows, history and live lines interleave. With one
  subscription nothing is lost: `LogIsFanOut` and `LiveLinesInOrder` speak of each one
  alone, and the proofs have any number.
- *Bus*: two handlers with two events each and two clients, channels of two.
- *Catalog*: two callers and the auto-update loop, two operations, one window that ends,
  two faults (a failed save and a crash in one behaviour), subscriptions that offer
  duplicates.
- *Launcher*: two processes, two attempts of the boot restore, one request: with a signal
  and a kill at any step they meet before, in and after the clean-up of an exit.
- *Routing*: four lists of custom rules, all modes and strategies, all asset states, two
  editions of geoip.dat, one update of each kind; names that resolve to one, several and
  no addresses; three ports, of which the rules name one and two; among the rules a list
  of geosite.dat, a regular expression and a bare word, and an address that is built in
  and not in the file. What the two read alike is a matter of one rule and one target.
- *Console*: two goroutines; two edits and two loads, so that an edit comes before and
  after a save or a button under way; three profiles and two jobs; three dialogs opened
  with two updates waiting; two saves of the form. The proofs have any number.

No part of the run is fair, and nothing in it is a liveness property.

What its properties except, because the code does not do it (the exceptions are
history variables or conditions named in the modules):

- `TesterAgrees`: values of a rule that core and test read differently *for the target in
  question* (`ReadAlike`): regular expressions, lists of geosite.dat and bare words
  (`routing_test_tool.go` 450–457), an address that `geoip:cn` has built in and the file has
  not (476–479), lists the test keeps from an older file (511), several ports (396). Also
  names in direct mode under `ipifnonmatch`, a restart still to come, and assets
  that appeared under the core. A rule that says nothing of the target excepts nothing.
- `UnsavedEditsSurvive`: a language chosen in the drop-down; edits made before the form was
  loaded or while a save is under way; a first edit made while a button had the tracking
  suspended (`unlucky`).
- `PageSettles`: a last reload that failed after a batch of delay tests (`lagging`); the
  selection, not the rest of the page, after a reload between the halves of a move (`strayed`).
- `SwitchTakesEffect`: a core whose start a change has overlooked (`overlooked`).
- `StopRestores`: the routes whose own restore failed, or that nobody had noted,
  or whose place was taken when their link came up (`missed`).
- `KeysGoToTheTop`: dialogs opened over one another (`together`) - a menu item queues the
  close of the menu and the next dialog at once, in any order - and pages rebuilt under
  a dialog (`rebuilt`).
- `SavesKeepOthersWork`: saves of a file that somebody wrote between the operation's load
  and its save (`overtaken`); these lose the other's change. A refresh and a delay test
  are excepted from the exception: they work for seconds, and load after it.
- `BackoffSurvives`: a note of an attempt that failed to be written, or was written from a
  copy others had overtaken (`markLost`).
- `ServersKeepApart`: starts that take the mutex after `ShutdownCore` (`late`), and cores
  that lose their takeover to an exit clean-up, which does not take it (`lost`).

### Where code and documents part

- *An exit can go unnoticed by the watchdog* (`core_exit_lost`). Detecting the exit
  resets `running`; whoever does so first — a `GET /core/status`, which the UI
  sends all the time — takes the event from the watchdog, which compares
  `wasRunning` with `running` in its own section only.
- *An automatic restart can undo a stop* (`core_stop_undone`). The goroutine checks
  that the restart is still planned, then waits for `coreOpMu`; a `StopCore` that
  gets the lock first resets the plan, and nobody looks again.
- *The retry limit may never be reached* (`core_retries`). `startCore` resets the
  counter at its commit, before TUN setup can declare the core degraded.

- *Rules of other tools are deleted* (`tun_foreign`). The clean-up lists the rules
  and keeps those it owns, then deletes by priority; the kernel takes the first rule
  of that priority. The other tool's rule is gone, and ours stays.
  `ForeignLossNeedsSharedPrio` shows that nothing else endangers a foreign rule.
- *Restore routes are saved too late* (`tun_crash`). The flow chart saves them before
  the default route is replaced, the code after it.
- *A start with the system proxy on erases them again* (`tun_proxy`): it saves the
  config it loaded before the takeover.

Seen in `TunPolicy` and `TunRestore`, without a run of their own: with a full window
the comparison finds drift at every tick, and each tick rebuilds the same rules; a
rebuild that fails at the catch-all is not repaired, because only bypass rules are
compared; the clean-up deletes in ascending order, so for a moment the catch-all
stands without the mark rule; the second try of `startCore` comes after the deletion
of the running core's device, and cannot succeed if the device was there; after a
crash, a start that finds another default route overwrites the record of the one it
had replaced; an `UpdateConfig` around a takeover erases the record or revives it.

Seen in `CoreLifecycle`, without a run of their own: a profile selected, or a
setting changed, while another client's start is between its loads and its commit does
not reach the core (`overlooked`); switching the proxy mode off
while the core runs leaves the desktop proxy set after the next stop
(`ProxyHasOwner`, with `"proxy"` in `Toggles`); a selection that loaded state.json
before a stop and saves it after leaves the restore intent set
(`StopClearsIntent`, with `"select"` in `Calls`); a restart planned for a degraded
core also bounces the healthy core a manual restart has brought up meanwhile.

Seen in the parts of `MCServer`, or next to them:

- `dispatch` sends after the unlock and `cancel` closes after it (`log_stream.go` 54–59,
  84–88): a send on a closed channel is a panic. `LogBroker` reaches it (`panicked`).
- The history is sent anew to each subscription, so a console that reconnects shows it
  again. The comment of `logBroker.clear` says "when core stops"; it is called at a start.
- A language switch writes back the console's copy of the config (`i18n.go` 1255–1257), and
  a save of the routing page the cached custom rules (`actions_network_pages.go:358`):
  what others wrote since the last poll is undone. A save before the first load sends
  the form as it is, empty.
- The language drop-down saves nothing and marks nothing: the next poll sets the stored
  language again (`layout.go` 173–178, `i18n.go` 1180–1202).
- The UI loop can wait for itself. It fills the form with `a.mu` locked and the tracking of
  fields suspended (`render_updates.go:65`); a button's goroutine that clears the same flag
  meanwhile (`helpers.go:441`) lets the change of a field call `markSettingsDirty`, which locks
  `a.mu` (`render_updates.go:322`). `SettingsForm` reaches it (`paint = "stuck"`).
- The same flag suppresses an edit made while a button has it set, and does not suppress the
  text the button enters, which is set after it was cleared.
- A reload between the two critical sections of a move of the cursor (`layout.go` 571 and
  576) leaves the selection on a profile that is gone until the next reload (`strayed`).
- The routing test and the core differ on the values listed under `TesterAgrees` above; a
  geodata update does not reach the lists the test has read (`routing_test_tool.go:511`).
- Going to a page from the palette leaves the focus on a widget of the old page.
- Paths are lost for links vmess over xhttp and splithttp, trojan over h2 and xhttp, vless
  over h2; the form rejects profiles over splithttp; hysteria2 and tuic do not look at the
  global `skipCertVerify`; a reality link without a public key is served as plain TLS.

## What is proved

### CoreLifecycle

`CoreLifecycleProofs`, for any number of clients, sleepers, profiles and retries and any
sets of outcomes, from `ProcAssumption` and `DataAssumption` alone (the goroutines
are distinct and no placeholder is one of them; the default profile is a profile).

`IndInv` says which label goes with which lock, flag and local instance:
`HoldsCoreOpMu` (a label inside a `coreOpMu` section if and only if the goroutine
holds it) turns the lock into mutual exclusion of labels; `HoldsSwitchMu` follows a
runtime change through its restart; `HoldsStartSlot` ties `starting` to one
goroutine inside `startCore`; `HoldsInstance` and `StatsFollowTheCore` tie
instances outside and inside `s.xrayCore` together; `CleanupIsPending` says that a
takeover without a core, or one about to be made for a core already gone, has
somebody standing before the step that undoes it. None of the safety properties is
inductive alone: `OneCore`, for one, needs to know that nobody else can stand
between `launch` and `commit`, which needs both the lock and the labels.

`TypeOKStep` and one lemma per part show that each action preserves it;
`Invariance` concludes `Spec => []IndInv`, and the other theorems are its
consequences: `TypeCorrectness`, `AtMostOneCore`, `ExclusiveStarts`, `StatsAndCore`,
`LockOrder`, `TakeoverOwned`, and the action properties `ExitCleanupIsSafe` and
`TakeoverUnderLock`. `LocksAreOrdered` also says that no lock stays with a goroutine
that has returned or sleeps: whoever waits waits for somebody at work, at a step that
can be taken, which is the safety half of `CallsReturn`.

`LifecycleKeepsContract` is the refinement, `Spec => KeepsContract`, under no
assumption about the calls. Its steps rest on `IndInv` and on `OpsKeepKind`: an
operation does only what its kind may (a plain stop never gets into `startCore`, what
sleeps books no clean-up). `Seen` says how the contract sees a state in which somebody
holds `coreOpMu`: the section is of the holder's kind, and who is at `setupTun`, at
`commit` or has an instance in hand is the holder. `IndInv` implies it (`HolderSees`).
Each action of the lifecycle then belongs to one of a few groups with a
lemma each - outside every section and unseen (`OutsideIsUnseen`, `PlanIsUnseen`),
inside one and unseen (`InsideIsUnseen`, `UnseenSteps`), taking and releasing the lock
(`SectionSteps`), moving the instance (`InstanceSteps`), changing the host
(`HostSteps`), seeing an exit (`InsideNotices`, `OutsideNotices`, `ExitIsAllowed`) -
and `StepKeepsContract` puts them together. `ContractNeverAbandons` draws the
consequence within the contract: a host taken over without a core has a section at work
or a clean-up booked.

### TunPolicy

`TunPolicyProofs`, for any window of priorities, any profiles, DNS servers and routes,
any rules of other tools and any number of faults, from `PolicyAssumption` (the window
has room for mark, catch-all and one rule between, other tools' rules in question lie in
it, and no target of a bypass rule is called like another rule).

The properties speak of moments when nobody works on the rules; what makes them
inductive is what holds in between. `IndInv` says in which order the rules stand and that
each of ours is there once; that a clean-up, which lists once and deletes by priority,
still finds what it has to delete, in the order of its list (`Deleting`); that an
installation has added exactly the rules before `next` (`Building`), so that a catch-all
means a whole build (`Settled`); and that rules of
ours without a core, or in a mode that is not "policy", are there only while the call that
will notice is on its way (`Accounted`). The last one is where the reconciliation could go
wrong: it picks the profile before it has the lock, and is right only because it looks at
core and mode again under it.

`PolicyTyping` (types, and that a build never counts beyond its targets), `XrayEscapes` (`EscapeFirst`), `OneBuild` (`NoMixture`), `NothingStrays`
(`NoStrayRules`) and `ForeignLost` (`ForeignLossNeedsSharedPrio`) follow. `CriticalAreBypassed`
(`CriticalFirst`) assumes that the window has room for the server and the DNS servers,
`1 + Len(Dns) <= Capacity`; otherwise the last of the DNS servers are cut off, as the code
has it. The instance of `tun_policy` satisfies it, and has too little room for the routes.

### TunRestore

`TunRestoreProofs`, for any set of links with different metrics and any number of
events, from `RestoreAssumption`. `StopRestores` speaks of the end of a call, and
`NothingForgotten` is not inductive: taking the routes out of memory keeps it only
if those were all that is owed. `IndInv` therefore divides the phases: before a
takeover and after a restore nobody owes anything and memory is empty
(`NobodyOwes`); between noting and remembering, and during the restore, the routes
in hand cover what is owed (`FoundOwes`); everywhere else memory does (`Holders`).
`Links` says that the route of a link that is up is there, owed or missed, so that a
failed restore costs that route and no other; `Devices` ties the TUN route to the device and the
device to the core, `Phases` says which call passes where. There is one lemma per
action, with one step per part; `Inductive`, `Typing`, `Remembers` and `Restores`
follow.

`RecordOutlivesCrashes` (`RecordLasts`) is the safety half of `CrashRecovers`: what was
on record when the process died stays on record until a takeover replaces another
route. What could undo it is everybody who writes config.json from a copy:
`RecordIsCopied` says that while something is still owed, the copy of an `UpdateConfig`
under way, the config a start has loaded and the routes a restore has in hand all
hold the record, and that nobody stands before a step that writes another one. It is
inductive together with `IndInv` (`RecordOutlivesEvents`, `RecordOutlivesStarts`,
`RecordOutlivesRestore`). `CrashRecovers` itself adds that the repair happens.

### More about CoreLifecycle

Five properties need more than `IndInv`, and four of them an assumption; without it they
do not hold, as the list above says.

- `RunningIsRecorded` and, through `IntentFollowsStops`, `StopIsRemembered` assume
  `"select" \notin Calls` and `~SavesMayFail`, `IntentOutlivesExits` the first alone:
  `SelectProfile` writes back a copy of state.json that may be older than a start or a stop,
  and what a failed save was to record is not recorded. `RestoreIsRecorded` says that a
  running core not yet recorded has its start before `saveState`, and that a `saveState` with a
  running core is one of a start; `IntentFollowsStops` says whose `saveState` lowers the intent,
  and that between that and the release of `coreOpMu` nothing can raise it.
- `ProxyOwned` assumes `"proxy" \notin Toggles`, and holds with failing saves: with the mode
  unchanged, every copy of the config a start works with has the mode on disk, and a proxy
  that outlived its core has a goroutine before the step that clears it (`ProxyIsPending`).
- `ChangesTakeEffect` (`SwitchTakesEffect`, over `CoreSwitch`) assumes nothing: any clients,
  automatic restarts, calls, failures and lost saves. `SwitchIsPending` says that
  a running core that does not go by the files, and a start that works on older copies of
  them, have somebody on the way to a restart (`Behind`) or were overlooked. Most steps
  touch neither files nor copies nor who is on the way (`Calm`, `CalmKeeps`); loading reads
  everything (`ReadsEverything`), the look at `running` is `LookKeeps`, saving sets
  somebody on the way (`SaveSetsOff`), and the rest has a lemma each.

### The streams

`BackendProofs`, on `LogBroker` (any writers, subscribers, ring and channel sizes): the invariant
speaks of a client's *flow*, what it has seen followed by what is in its channel. A flow
has no line twice and keeps the order of each writer's live lines (`Flows`); a send still
to do is of the latest line of its writer, which is not in the flow (`Sends`); what is left
of the history is older than the subscription and not in the flow (`Histories`). That a
line is sent to all before its writer logs another makes these inductive. `LiveInOrder`
follows, and with `Flows` the step simulation of `LogImplementsFanOut`: `Receive` is a
`Deliver` of some item, `Dispatch` a `Publish`, `CancelDelete` a `Leave`, everything behind the channels a
stutter.

The proof about `EventBus` is built likewise on *trails*. `Agree` alone is not inductive: it needs
`LatestLast`, that the event being sent is at the end of every trail that has it, and
`NotYet`, that those still to be served do not have it; both rest on the mutex
(`OneAtATime`). `AgreementOnOrder` and `BusImplementsFanOut` follow.

### Catalog

`CatalogProofs`, for any callers, offers, bodies and bounds, from `CatalogAssumption` (the loop is
no caller; there are bodies; an offer is a list of them that is not empty). `CatInv` has two halves.

- An operation saves what it loaded, changed. So the copy it holds is what the file says
  *unless* others have written the file since, which `overtaken` records (`Copied`); and
  what it has still to do is a legal sequence of store calls, loads before the saves that need
  them (`Ordered`). Hence a save that was not overtaken changes the entries
  the operation is about and no others: `OthersWorkSurvives` (`SavesKeepOthersWork`).
- The loop notes an attempt in the map it shares with the cached state, saves the
  state, and fetches. What was fetched in this window is therefore on disk
  (`Noted`), and what is about to be fetched was not among it when the loop looked
  (`Due`). A crash forgets memory and loses nothing of this: `NoSecondFetch` (`BackoffSurvives`).

`CatalogTyping` says that no interleaving, failed save or crash brings an id into the
files that was not given out.

### Launcher and RoutingRules

`BackendProofs`, on `Launcher` (any set of processes, any number of attempts and requests): `LockHeld`
ties the lock to serving, `MutexHeld` says what the goroutine that holds a core mutex may
still do, `CoresLate` that a core of a process past `ShutdownCore` is a late one. Hence a
process that tears down or takes over meets only its own takeover or an excused one
(`OthersAreLate`). `ProcessesKeepApart` and `OneServer` follow.

On `RoutingRules` (any names, addresses, look-ups, lists and user rules of the known kinds, from
`RoutingValues`): `TestPredictsCore` (`TesterAgrees`). Core and test read patterns, ports and
networks differently, may look at different editions of a list, and combine a name and an
address condition of one rule differently. Of the rules that are built none has both
(`BodyFits`); where the two readings of a rule agree on the target (`ReadAlike`), the test takes
it, at once or put off, exactly when the router does, in its first or its second pass
(`RuleMatch`). The closing rule of mode direct, which the test does not match, has its default
in its place (`SameWithClosing`). `RoutingInv` says when the core has the rules of what is stored.

### The console

`ConsoleProofs`, on `SettingsForm` (any goroutines, any bounds): `EditsHeld` - an edit the model
answers for is still in the form, and both flags stand, so that no refresh writes over it;
`AnswersSettled` and `Known` - a save about to clear the flags is of a value that is stored, and
no later edit has that value. `EditsSurvive` follows.

On `Links`: `Agreement` compares the stored profile with what was asked for in the
fields its protocol uses; the outbound alone would be too weak, because a field the
outbound does not use today (the server name without TLS) is used after the next edit.
`LinksHonoured` follows.

On `ProfilesPage` (any number of profiles and tasks): unless a reload is under
way or has failed, rows and form fit the list and the selection or a redraw that makes them fit
is queued, and the selection is a profile of the list, under the cursor, unless a move has
strayed (`PageHeld`). `PageOfOnePiece` (`PageSettles`)
follows: with nothing queued and nobody under way they fit.

On `Overlays` (any number of openings and waiting updates): as long as no dialog was opened
over another one and no page rebuilt under one, the screen has no dialog, one, or the
edit dialog with its preview; the focus is on top, and the way back is to the page
(`OneDialog`). `KeysFollow` (`KeysGoToTheTop`) follows.

### The form of the models

Nothing can be proved here of what a recursive operator computes for every input, and the
filters and folds of the library are recursive. The models therefore say *which* elements are
kept: `Picked(list, E)` has the elements of `list` at the positions in `E`, in order, and
`PickedIs` proves what it returns (from the least-element principle, `Least`, which stands in
for induction on numbers). A first match is the `Min` of the positions that match.

### The parts together

`ServerProofs`: in `MCServer` every part takes steps of its own only (`LogAlone`,
`BusAlone`, ...), so its specification is implied, and what was proved of it alone holds.
`ServerTyping` (`TypeOK` of the run) and `ServerIsSafe` (all other properties of the run)
follow.

### Only model-checked

Liveness, which is out of the prover's reach: `CallsReturn`, `TakeoverIsUndone`,
`FailedLaunchesEnd`, `Repaired` and `CrashRecovers`. Every other property of a passing run
is a theorem, five of them under the assumptions named above. The violations are
counterexamples of their runs.

## Plan

What is left, in this order:

1. `Launcher` on top of `CoreContract`, in place of its own abstraction of the core.
2. The stream goroutines of the console (`streams.go`): reconnection with back-off against
   shutdown.
3. Files that cannot be read, in `Catalog`: the next save replaces them.

## Not modelled

The embedded SOCKS code (nothing constructs it); the text of links, the JSON of inbounds,
DNS, mux and fragments (translation without state); the HTTP of downloads; the LAN
filter and token of the API; desktop commands of the system proxy; counters of the
statistics poller; layout, texts and the remaining pages of the console.
