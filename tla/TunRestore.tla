---------------------------- MODULE TunRestore -----------------------------
(***************************************************************************)
(* Taking over the default route and giving it back                        *)
(* (internal/service/native/service.go, 2352-2383 and 2553-2662): the mode *)
(* with tunHijackDefaultRoute.  setupTunRouting notes the routes it finds, *)
(* replaces the default route, and only then records them in memory and in *)
(* config.json; clearTunRouting takes them from there and puts them back.  *)
(*                                                                         *)
(* coreOpMu makes these two exclusive, so one goroutine, the lifecycle,    *)
(* carries them out.  A second one, UpdateConfig, loads and saves the same *)
(* file without a common lock.  Links go down and come back, commands      *)
(* fail, the core exits, and the process dies between any two steps.       *)
(***************************************************************************)
EXTENDS Naturals

CONSTANTS
  Nets,        \* network devices, each with one default route
  Metric,      \* [Nets -> Nat]: the metrics of these routes, all different
  Tun,         \* the default route through the TUN device, of metric 0
  MaxEvents    \* bound: faults, exits, crashes, link changes

ASSUME RestoreAssumption ==
  /\ Tun \notin Nets
  /\ Metric \in [Nets -> Nat]
  /\ \A m, n \in Nets : Metric[m] = Metric[n] => m = n
  /\ MaxEvents \in Nat

VARIABLES
  up,          \* the devices that are up
  defaults,    \* the default routes of the main table
  core, degraded,
  device,      \* the TUN device: the core makes one, and some time later it is there
  intent,      \* CoreShouldRestore in state.json
  memory,      \* s.tunRestoreRoutes
  persisted,   \* tunRestoreRoutes (and the hints) in config.json
  pc, op,      \* of the lifecycle
  found,       \* restoreRoutes, and routes in clearTunRouting
  second,      \* startCore is at its second try
  config,      \* the record in the config startCore has loaded
  proxy,       \* startCore applies the system proxy, and saves the config after it
  updating, updateCopy,   \* UpdateConfig between load and save
  booting,     \* the restore at boot is under way
  owed,        \* history: routes replaced by ours that are still to be put back
  missed,      \* history: routes of links that are up nobody will put back
  crashed,     \* history: the process died while some were owed
  recorded,    \* history: at a death they were on record, and no takeover since
  events

kernel == <<up, defaults, device>>
service == <<core, degraded, memory, intent>>
work == <<pc, op, found, second, config>>
update == <<updating, updateCopy, proxy>>
history == <<crashed, recorded, missed>>
vars == <<kernel, service, persisted, work, update, booting, owed, history, events>>

-----------------------------------------------------------------------------
\* ip route replace: the route takes the place of the one of its metric.
MetricOf(r) == IF r = Tun THEN 0 ELSE Metric[r]
Replaced(r) == {d \in defaults : MetricOf(d) = MetricOf(r)}
\* Mutant: ip route append.
WithDefaultAppended(r) == defaults \cup {r}
WithDefault(r) == (defaults \ Replaced(r)) \cup {r}

Init ==
  /\ up = Nets /\ defaults = Nets
  /\ core = "none" /\ device = "none" /\ degraded = FALSE /\ intent = FALSE
  /\ memory = {} /\ persisted = {}
  /\ pc = "idle" /\ op = "none" /\ found = {} /\ second = FALSE
  /\ config = {} /\ proxy \in BOOLEAN
  /\ updating = FALSE /\ updateCopy = {}
  /\ booting = FALSE
  /\ owed = {} /\ missed = {} /\ crashed = FALSE /\ recorded = FALSE /\ events = 0

Fault == events < MaxEvents /\ events' = events + 1
Works(ok) == IF ok THEN UNCHANGED events ELSE Fault
Goto(l) == pc' = l
\* The device goes, and the route through it with it.
DeviceGoes == device' = "none" /\ defaults' = defaults \ {Tun}

-----------------------------------------------------------------------------
(* The environment.                                                        *)

LinkDown(n) ==
  /\ n \in up /\ Fault
  /\ up' = up \ {n} /\ defaults' = defaults \ {n}
  /\ owed' = owed \ {n} /\ missed' = missed \ {n}
  /\ UNCHANGED <<device, service, persisted, work, update, booting, crashed, recorded>>

\* The network manager brings the route back unless its place is taken.
LinkUp(n) ==
  /\ n \notin up /\ Fault
  /\ up' = up \cup {n}
  /\ IF Replaced(n) = {} THEN defaults' = defaults \cup {n} /\ UNCHANGED missed
                         ELSE missed' = missed \cup {n} /\ UNCHANGED defaults
  /\ UNCHANGED <<device, service, persisted, work, update, booting, owed, crashed, recorded>>

DeviceUp ==
  /\ device = "coming" /\ device' = "there"
  /\ UNCHANGED <<up, defaults, service, persisted, work, update, booting, owed,
                 history, events>>

CoreExit ==
  /\ core = "live" /\ Fault
  /\ core' = "dead" /\ DeviceGoes
  /\ UNCHANGED <<up, degraded, memory, intent, persisted, work, update, booting, owed, history>>

\* The process dies with everything it had in memory and its TUN device.  The next
\* one restores the core if state.json says so.
Crash ==
  /\ Fault
  /\ core' = "none" /\ degraded' = FALSE /\ memory' = {}
  /\ pc' = "idle" /\ op' = "none" /\ found' = {} /\ second' = FALSE
  /\ config' = {} /\ updating' = FALSE /\ updateCopy' = {}
  /\ DeviceGoes
  /\ crashed' = (crashed \/ owed # {})
  /\ recorded' = (owed \subseteq persisted)
  /\ booting' = intent
  /\ UNCHANGED <<up, intent, persisted, proxy, owed, missed>>

\* UpdateConfig loads config.json, merges, and saves the whole file.
UpdateLoad ==
  /\ ~updating
  /\ updating' = TRUE /\ updateCopy' = persisted
  /\ UNCHANGED <<kernel, service, persisted, work, proxy, booting, owed, history, events>>

UpdateSave ==
  /\ updating
  /\ persisted' = updateCopy
  /\ updating' = FALSE /\ updateCopy' = {}
  /\ UNCHANGED <<kernel, service, work, proxy, booting, owed, history, events>>

-----------------------------------------------------------------------------
(* The lifecycle: what starts a setup or a cleanup.                        *)

Begin(o, l) == op' = o /\ Goto(l) /\ UNCHANGED <<found, second, config>>

\* A user, the boot restore or an automatic restart starts the core.
Start ==
  /\ pc = "idle" /\ core = "none"
  /\ Begin("start", "load")
  /\ UNCHANGED <<kernel, service, persisted, update, booting, owed, history, events>>

\* stopCore, alone, at the shutdown, or as the first half of a restart.
Stop(o) ==
  /\ pc = "idle"
  /\ core' = "none" /\ degraded' = FALSE /\ DeviceGoes
  /\ Begin(o, "take")
  /\ UNCHANGED <<up, memory, intent, persisted, update, booting, owed, history, events>>

\* The watchdog restarts a degraded core, or cleans up after a dead one.
Watchdog ==
  /\ pc = "idle"
  /\ \/ core = "live" /\ degraded /\ Begin("autoRestart", "take")
     \/ core = "dead" /\ Begin("exit", "take")
  /\ core' = "none" /\ degraded' = FALSE /\ DeviceGoes
  /\ UNCHANGED <<up, memory, intent, persisted, update, booting, owed, history, events>>

-----------------------------------------------------------------------------
(* startCore and setupTunRouting.                                          *)

Done ==
  /\ Goto("idle") /\ op' = "none"
  /\ found' = {} /\ second' = FALSE /\ config' = {}

\* The config startCore works with from here to its end.
Load ==
  /\ pc = "load"
  /\ config' = persisted
  /\ Goto("launch")
  /\ UNCHANGED <<kernel, service, persisted, op, found, second, update,
                 booting, owed, history, events>>

Launch(ok) ==
  /\ pc = "launch" /\ Works(ok)
  /\ IF ok
     THEN /\ core' = "live" /\ degraded' = FALSE /\ device' = "coming" /\ booting' = FALSE
          /\ Goto("read") /\ UNCHANGED <<op, found, second, config>>
     ELSE Done /\ UNCHANGED <<core, degraded, device, booting>>
  /\ UNCHANGED <<up, defaults, memory, intent, persisted, update, owed, history>>

\* No default route at all is an error; then come the routes that are not ours,
\* or else the recorded ones; without either the takeover is refused.
Read ==
  /\ pc = "read"
  /\ found' = IF defaults \ {Tun} # {} THEN defaults \ {Tun} ELSE persisted
  /\ Goto(IF defaults # {} /\ found' # {} THEN "wait" ELSE "failed")
  /\ UNCHANGED <<kernel, service, persisted, op, second, config, update,
                 booting, owed, history, events>>

\* waitForNetworkInterface: there in time, or an error.
Wait(ok) ==
  /\ pc = "wait" /\ ok = (device = "there")
  /\ Goto(IF ok THEN "replace" ELSE "failed")
  /\ UNCHANGED <<kernel, service, persisted, op, found, second, config, update,
                 booting, owed, history, events>>

\* A core that has exited meanwhile has no device to route through.  A route that
\* came up after Read is replaced as well, but nobody has noted it: such a route
\* is not owed but missed.
Replace(ok) ==
  /\ pc = "replace"
  /\ IF device = "there" THEN Works(ok) ELSE ~ok /\ UNCHANGED events
  /\ IF ok THEN /\ defaults' = WithDefault(Tun)
                /\ owed' = owed \cup (Replaced(Tun) \cap found)
                /\ missed' = missed \cup (Replaced(Tun) \ (found \cup {Tun}))
                /\ Goto("remember")
           ELSE UNCHANGED <<defaults, owed, missed>> /\ Goto("failed")
  /\ recorded' = (recorded /\ ~ok)
  /\ UNCHANGED <<up, device, service, persisted, op, found, second, config, update,
                 booting, crashed>>

\* Mutant: what was recorded first stays recorded.
RememberFirst ==
  /\ pc = "remember"
  /\ memory' = IF persisted # {} THEN persisted ELSE found
  /\ Goto("persist")
  /\ UNCHANGED <<kernel, core, degraded, intent, persisted, op, found, second, config,
                 update, booting, owed, history, events>>
Remember ==
  /\ pc = "remember"
  /\ memory' = found
  /\ Goto("persist")
  /\ UNCHANGED <<kernel, core, degraded, intent, persisted, op, found, second, config,
                 update, booting, owed, history, events>>

\* persistTunRestoreRoutes, for setup and for cleanup: the record in config.json
\* is replaced; what else the config holds does not matter here.
Persist ==
  /\ pc \in {"persist", "wipe"}
  /\ persisted' = IF pc = "persist" THEN found ELSE {}
  /\ Goto(IF pc = "persist" THEN "proxy" ELSE "finish")
  /\ UNCHANGED <<kernel, service, op, found, second, config, update,
                 booting, owed, history, events>>

\* The second try comes after cleanupStaleTunInterface, which deletes the device,
\* the running core's; when it fails as well the core runs on, degraded.
Failed ==
  /\ pc = "failed"
  /\ IF second
     THEN degraded' = (core = "live") /\ Goto("proxy") /\ UNCHANGED <<device, defaults, second>>
     ELSE /\ second' = TRUE /\ Goto("read") /\ UNCHANGED degraded
          /\ IF device = "there" THEN DeviceGoes ELSE UNCHANGED <<device, defaults>>
  /\ UNCHANGED <<up, core, memory, intent, persisted, op, found, config, update,
                 booting, owed, history, events>>

\* applyConfiguredSystemProxyOnCoreStart: once the proxy is set, the config loaded
\* at the beginning is saved as a whole, with the record it had then.
ApplyProxy(ok) ==
  /\ pc = "proxy"
  /\ IF proxy THEN /\ Works(ok)
                  /\ persisted' = IF ok THEN config ELSE persisted
              ELSE ok /\ UNCHANGED <<persisted, events>>
  /\ Goto("finish")
  /\ UNCHANGED <<kernel, service, op, found, second, config, update,
                 booting, owed, history>>

\* saveState, at the end of startCore and, for a stop or a restart that a user
\* asked for, of stopCore; the second half of a restart follows.
Finish ==
  /\ pc = "finish"
  /\ intent' = CASE op = "start" -> TRUE
                 [] op \in {"stop", "restart"} -> FALSE
                 [] OTHER -> intent
  /\ IF op \in {"restart", "autoRestart"}
     THEN op' = "start" /\ Goto("load") /\ UNCHANGED <<found, second, config>>
     ELSE Done
  /\ UNCHANGED <<kernel, core, degraded, memory, persisted, update, booting, owed,
                 history, events>>

-----------------------------------------------------------------------------
(* clearTunRouting.                                                        *)

\* Mutant: only the routes in memory are restored.
TakeMemory ==
  /\ pc = "take"
  /\ found' = memory
  /\ memory' = {}
  /\ Goto("restore")
  /\ UNCHANGED <<kernel, core, degraded, intent, persisted, op, second, config, update,
                 booting, owed, history, events>>
\* Mutant: the record is wiped as soon as it is read, before the routes are back.
TakeAndWipe ==
  /\ pc = "take"
  /\ found' = IF memory # {} THEN memory ELSE persisted
  /\ memory' = {} /\ persisted' = {}
  /\ Goto("restore")
  /\ UNCHANGED <<kernel, core, degraded, intent, op, second, config, update,
                 booting, owed, history, events>>
\* The routes in memory, or else those in config.json.
Take ==
  /\ pc = "take"
  /\ found' = IF memory # {} THEN memory ELSE persisted
  /\ memory' = {}
  /\ Goto("restore")
  /\ UNCHANGED <<kernel, core, degraded, intent, persisted, op, second, config, update,
                 booting, owed, history, events>>

\* Mutant: the first route that cannot be restored ends the cleanup of the others.
RestoreUpToFailure(r, ok) ==
  /\ pc = "restore" /\ r \in found
  /\ IF r \in up THEN Works(ok) ELSE ~ok /\ UNCHANGED events
  /\ found' = IF ok THEN found \ {r} ELSE {}
  /\ IF ok THEN defaults' = WithDefault(r) /\ missed' = missed \ {r}
           ELSE missed' = missed \cup ({r} \cap owed) /\ UNCHANGED defaults
  /\ owed' = owed \ {r}
  /\ UNCHANGED <<up, device, service, persisted, pc, op, second, config, update,
                 booting, crashed, recorded>>
\* ip route replace, one route after the other.  It fails for a device that is
\* down, and may fail for any other reason; a failure is only logged, and the route
\* is missed from then on, since the record is dropped all the same.
Restore(r, ok) ==
  /\ pc = "restore" /\ r \in found
  /\ IF r \in up THEN Works(ok) ELSE ~ok /\ UNCHANGED events
  /\ found' = found \ {r}
  /\ IF ok THEN defaults' = WithDefault(r) /\ missed' = missed \ {r}
           ELSE missed' = missed \cup ({r} \cap owed) /\ UNCHANGED defaults
  /\ owed' = owed \ {r}
  /\ UNCHANGED <<up, device, service, persisted, pc, op, second, config, update,
                 booting, crashed, recorded>>

\* ip route del default dev <tun>, ip link del; then the record is wiped.
DelTun ==
  /\ pc = "restore" /\ found = {}
  /\ DeviceGoes
  /\ Goto("wipe")
  /\ UNCHANGED <<up, service, persisted, op, found, second, config, update,
                 booting, owed, history, events>>

-----------------------------------------------------------------------------
Step ==
  \/ Load \/ Read \/ Remember \/ Persist \/ Failed \/ Finish \/ Take \/ DelTun
  \/ \E ok \in BOOLEAN : Launch(ok) \/ Wait(ok) \/ Replace(ok) \/ ApplyProxy(ok)
  \/ \E r \in Nets, ok \in BOOLEAN : Restore(r, ok)
Boot == booting /\ Start

Next ==
  \/ \E n \in Nets : LinkDown(n) \/ LinkUp(n)
  \/ DeviceUp \/ CoreExit \/ Crash \/ UpdateLoad \/ UpdateSave
  \/ Start \/ (\E o \in {"stop", "shutdown", "restart"} : Stop(o)) \/ Watchdog
  \/ Step

Spec == Init /\ [][Next]_vars
\* Steps under way go on; after a boot the core is restored; the watchdog ticks.
FairSpec == Spec /\ WF_vars(Step) /\ WF_vars(Boot) /\ WF_vars(Watchdog)

-----------------------------------------------------------------------------
(* Properties.                                                             *)

Labels == {"idle", "load", "launch", "read", "wait", "replace", "remember", "persist",
           "failed", "proxy", "finish", "take", "restore", "wipe"}

\* Every variable keeps its type.
TypeOK ==
  /\ up \subseteq Nets /\ defaults \subseteq Nets \cup {Tun}
  /\ core \in {"none", "live", "dead"} /\ degraded \in BOOLEAN /\ intent \in BOOLEAN
  /\ memory \subseteq Nets /\ persisted \subseteq Nets /\ found \subseteq Nets
  /\ updateCopy \subseteq Nets /\ owed \subseteq Nets /\ missed \subseteq Nets
  /\ pc \in Labels /\ device \in {"none", "coming", "there"}
  /\ op \in {"none", "start", "stop", "shutdown", "restart", "autoRestart", "exit"}
  /\ config \subseteq Nets /\ proxy \in BOOLEAN
  /\ second \in BOOLEAN /\ updating \in BOOLEAN /\ booting \in BOOLEAN
  /\ crashed \in BOOLEAN /\ recorded \in BOOLEAN /\ events \in 0..MaxEvents
  /\ \A d, e \in defaults : MetricOf(d) = MetricOf(e) => d = e

\* While the process lives, a route it has replaced is in its memory or in the
\* hands of the operation under way, whatever UpdateConfig does to the file.
NothingForgotten == ~crashed => owed \subseteq memory \cup found

\* When a stop, or the cleanup after an exit, is over, no route goes through TUN and
\* every link that is up has its default route again (release notes v0.1.5, line 18),
\* but for the routes that are missed: the command that was to put one back has
\* failed, the takeover has replaced one it had not noted, or a link came up while
\* the place of its route was taken.  A failure for one route is no excuse for
\* another.
StopRestores ==
  pc = "idle" /\ core = "none" =>
    Tun \notin defaults /\ (~crashed => up \subseteq defaults \cup missed)

\* What was on record in config.json when the process died stays there, over
\* restores that a further death cuts short, failing starts, updates of the config
\* and the save of the proxy, until the routes are back or one more takeover has
\* replaced a route.
RecordLasts == recorded => owed \subseteq persisted

\* Who holds the owed routes while nothing crashed, by phase: nobody needs to
\* before a takeover and after a restore; found, then memory, after it.
NobodyOwes ==
  \/ pc \in {"load", "launch", "wipe", "read", "wait", "replace", "failed"}
  \/ pc = "finish" /\ op # "start"
  \/ pc = "idle" /\ core = "none"
FoundOwes == pc \in {"remember", "restore"}
\* A route is there only for a link that is up, or for the device; the route of a
\* link that is up is there, or owed, or missed.
Links ==
  /\ defaults \subseteq up \cup {Tun} /\ owed \subseteq up
  /\ up \subseteq defaults \cup owed \cup missed
\* A route through TUN needs the device, and the device the core.
Devices == (Tun \in defaults => device = "there") /\ (device # "none" => core = "live")
\* Which calls pass which phase, and in which of them there is a core.
Phases ==
  /\ pc \in {"load", "launch", "take", "restore", "wipe"} => core = "none"
  /\ pc \in {"load", "launch", "read", "wait", "replace", "remember", "failed",
             "persist", "proxy"} => op = "start"
  /\ pc \in {"take", "restore", "wipe"} => op # "start"
  /\ pc \in {"read", "wait", "replace", "remember", "failed", "persist", "proxy"} =>
       core # "none"
  /\ pc = "finish" => (op = "start" <=> core # "none")
\* Memory is empty where nobody needs it, and what is owed is in the right hands.
Holders ==
  /\ NobodyOwes \/ FoundOwes => memory = {}
  /\ ~crashed => /\ NobodyOwes => owed = {}
                 /\ FoundOwes => owed \subseteq found
                 /\ ~NobodyOwes /\ ~FoundOwes => owed \subseteq memory
\* In every phase of startCore and stopCore the routes that were replaced are with
\* their holder, and core, device and links fit the phase: what makes
\* NothingForgotten and StopRestores inductive.
IndInv == TypeOK /\ Links /\ Devices /\ Phases /\ Holders

\* Where the record is besides config.json while it lasts: in every copy of the
\* config that may yet be saved, and in the hands of the restore.  Memory is empty,
\* so that the restore asks the file, and nobody is about to overwrite it.
RecordIsCopied ==
  recorded /\ owed # {} =>
    /\ owed \subseteq persisted /\ memory = {}
    /\ updating => owed \subseteq updateCopy
    /\ pc \in {"launch", "read", "wait", "failed", "replace", "proxy"} => owed \subseteq config
    /\ pc = "restore" => owed \subseteq found
    /\ pc \notin {"remember", "persist", "wipe"}

\* The machine has lost its default route to us.
Stranded == owed # {} /\ defaults = {}
\* The record is in config.json, and no UpdateConfig is about to undo that.
OnRecord == owed \subseteq persisted /\ (updating => owed \subseteq updateCopy)
\* A process that comes up without a default route on the machine, but with its
\* record in config.json and the wish to run in state.json, repairs that: by the
\* start at boot, which fails for lack of a route, the degraded state that
\* follows, and the restart of the watchdog, which restores before it starts.  Not if
\* the links that had a route go down or the very commands of that restore fail.
CrashRecovers ==
  booting /\ Stranded /\ OnRecord ~> defaults # {} \/ up \subseteq missed

\* A replaced route can be found again, in the memory of the living process or
\* in config.json, where it is saved before the route is replaced
\* (backend-go/docs/04-feature-flow.md:119).
WayBack == owed \subseteq memory \cup found \cup persisted

\* A takeover that is complete is on record in config.json as long as it lasts
\* (backend-go/docs/04-feature-flow.md:122), unless an update of the config has
\* come in between.
TakeoverOnRecord ==
  pc = "idle" /\ ~updating /\ ~crashed /\ Tun \in defaults => owed \subseteq persisted
=============================================================================
