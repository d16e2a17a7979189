--------------------------- MODULE CoreLifecycle ---------------------------
(***************************************************************************)
(* The lifecycle of the embedded xray-core inside native.Service           *)
(* (internal/service/native/service.go): StartCore, StopCore, RestartCore, *)
(* ShutdownCore, the restart a config or profile change asks for, the TUN  *)
(* repair, the status poll, the watchdog and the auto-restart goroutines   *)
(* it spawns.                                                              *)
(*                                                                         *)
(* Every goroutine is a process with a program counter.  One action is one *)
(* critical section of Service.mu, one store access, or one external       *)
(* effect (start or close an xray instance, change the TUN takeover,       *)
(* change the desktop proxy): these are the points where another goroutine *)
(* can get in between.  Service.mu is a leaf lock held only inside such a  *)
(* step and does not appear; coreOpMu and switchMu are held across steps   *)
(* and do.                                                                 *)
(***************************************************************************)
EXTENDS Naturals

CONSTANTS
  Clients,        \* goroutines serving API calls, one call at a time each
  Dog,            \* the goroutine of watchdogLoop
  Sleepers,       \* slots for goroutines of runScheduledAutoRestart (bound)
  Profiles,       \* the stored profiles
  DefaultProfile, \* profiles[0], picked when none is selected
  NoProfile,      \* PersistentState.CurrentProfileID = ""
  NoProc,         \* an unlocked mutex
  NoBuild,        \* no core is running, so none was built
  Calls,          \* the API calls the clients make
  Toggles,        \* the config settings UpdateConfig flips
  InitConfigs,    \* the config.json contents the process may find at boot
  AutoRestart,    \* config coreAutoRestart
  MaxRetries,     \* config coreAutoRestartMaxRetries, when it is a limit
  LaunchResults,  \* may startManagedXrayCore work, fail, or both
  TunResults,     \* may setupManagedTunRouting (with its retry) work or fail
  StaleResults,   \* may cleanupStaleTunInterface work or fail
  SaveResults     \* may writing config.json or state.json work or fail

Proc == Clients \cup {Dog} \cup Sleepers
Config == [tun: BOOLEAN, proxy: BOOLEAN]
NoConfig == [tun |-> FALSE, proxy |-> FALSE]
State == [prof: Profiles \cup {NoProfile}, restore: BOOLEAN]
NoState == [prof |-> NoProfile, restore |-> FALSE]
AllCalls == {"status", "start", "stop", "shutdown", "restart",
             "update", "select", "repair"}

ASSUME ProcAssumption ==
  /\ Dog \notin Clients /\ Dog \notin Sleepers
  /\ Clients \cap Sleepers = {}
  /\ NoProc \notin Proc
ASSUME DataAssumption ==
  /\ DefaultProfile \in Profiles /\ NoProfile \notin Profiles
  /\ NoBuild \notin (Config \X (Profiles \cup {NoProfile}))
  /\ Calls \subseteq AllCalls
  /\ Toggles \subseteq {"tun", "proxy"}
  /\ InitConfigs \subseteq Config
  /\ AutoRestart \in BOOLEAN
  /\ MaxRetries \in Nat \ {0}
ASSUME OutcomeAssumption ==
  /\ LaunchResults \subseteq BOOLEAN
  /\ TunResults \subseteq BOOLEAN
  /\ StaleResults \subseteq BOOLEAN /\ SaveResults \subseteq BOOLEAN

VARIABLES
  coreOpMu, switchMu,                       \* the holder of each mutex
  xrayCore,     \* s.xrayCore: "none" (nil), "live", or "dead" (not IsRunning)
  running, starting, degraded, stats,       \* stats: s.stats # nil
  watchdogRestartAttempts, watchdogRestartScheduled, watchdogRestarting,
  built,        \* config and profile the core in s.xrayCore was built from
  config, state,                            \* config.json and state.json
  tunTakeover, desktopProxy,                \* what the host is set up to do
  pc, op,       \* where each goroutine is, and on behalf of which call
  mine,         \* an xray instance held in a local variable
  cfgCopy, stCopy,                          \* local copies of config and state
  ready         \* Ready() of the status a lifecycle operation returned

locks == <<coreOpMu, switchMu>>
core == <<xrayCore, running, degraded, stats, built>>
dogFlags == <<watchdogRestartAttempts, watchdogRestartScheduled, watchdogRestarting>>
disk == <<config, state>>
host == <<tunTakeover, desktopProxy>>
frame == <<op, mine, cfgCopy, stCopy, ready>>
vars == <<locks, core, starting, dogFlags, disk, host, pc, frame>>

-----------------------------------------------------------------------------
(* Program counters.  The name of a label is the name of the action that   *)
(* leaves it, except for the resting ones (idle, asleep).                  *)

StopLabels == {"stopTake", "stopClose", "stopTun", "stopProxy"}
\* startCore after its claim of the start slot: s.starting is set.
StartLabels == {"loadConfig", "pickProfile", "pickSave", "clearStale", "launch", "commit",
                "setupTun", "applyProxy", "unstart"}
SharedLabels == {"saveLoad", "saveWrite", "opCheck", "opBuild",
                 "exitCheck", "exitClear"}
\* Labels inside a coreOpMu critical section.
HoldLabels == StopLabels \cup StartLabels \cup SharedLabels
                \cup {"claim", "tunOff", "unlock"}
WaitLabels == {"opLock", "offLock", "switchLock"}
OtherLabels == {"idle", "check", "wasRunning", "updateSave", "selectSave",
                "changeCheck", "switchCheck", "switchUnlock", "asleep", "autoDone"}
Labels == HoldLabels \cup WaitLabels \cup OtherLabels

\* A goroutine's operation: a call in progress, the watchdog's exit cleanup,
\* or an auto restart (autoEager: restartWhileRunning).
Ops == AllCalls \cup {"none", "updateOff", "tick", "auto", "autoEager"}
AutoOps == {"auto", "autoEager"}
\* The operations whose coreOpMu section is only the cleanup after an exit.
ExitOps == {"status", "repair", "tick"}

Goto(p, l) == pc' = [pc EXCEPT ![p] = l]

\* A goroutine returns: its locals die with its frame.
Return(p) ==
  /\ Goto(p, "idle")
  /\ op' = [op EXCEPT ![p] = "none"]
  /\ cfgCopy' = [cfgCopy EXCEPT ![p] = NoConfig]
  /\ stCopy' = [stCopy EXCEPT ![p] = NoState]
  /\ ready' = [ready EXCEPT ![p] = FALSE]
  /\ UNCHANGED mine

Init ==
  /\ coreOpMu = NoProc /\ switchMu = NoProc
  /\ xrayCore = "none" /\ built = NoBuild
  /\ running = FALSE /\ starting = FALSE /\ degraded = FALSE /\ stats = FALSE
  /\ watchdogRestartAttempts = 0
  /\ watchdogRestartScheduled = FALSE /\ watchdogRestarting = FALSE
  /\ config \in InitConfigs
  /\ state = NoState
  /\ tunTakeover = FALSE /\ desktopProxy = FALSE
  /\ pc = [p \in Proc |-> "idle"]
  /\ op = [p \in Proc |-> "none"]
  /\ mine = [p \in Proc |-> "none"]
  /\ cfgCopy = [p \in Proc |-> NoConfig]
  /\ stCopy = [p \in Proc |-> NoState]
  /\ ready = [p \in Proc |-> FALSE]

-----------------------------------------------------------------------------
(* What checkProcExitedLocked does when it finds the core dead.            *)
\* Mutant: the stats poller is not shut down with the core it polls.
DropCoreLeakingStats ==
  /\ xrayCore' = "none" /\ running' = FALSE /\ degraded' = FALSE
  /\ built' = NoBuild /\ UNCHANGED stats
CoreExited == xrayCore = "dead"
DropCore ==
  /\ xrayCore' = "none" /\ running' = FALSE /\ degraded' = FALSE
  /\ stats' = FALSE /\ built' = NoBuild
IsReady == running /\ ~degraded

(* The environment: the embedded instance stops by itself.                 *)
CoreExit ==
  /\ xrayCore = "live"
  /\ xrayCore' = "dead"
  /\ UNCHANGED <<running, degraded, stats, built, locks, starting, dogFlags,
                 disk, host, pc, frame>>

-----------------------------------------------------------------------------
(* Calls arriving at the API.                                              *)

\* Where a call starts: with a lock, or with the mu section of CoreStatus.
EntryLabel(c) == IF c \in {"status", "repair"} THEN "check" ELSE "opLock"

\* StartCore, StopCore, ShutdownCore, RestartCore, CoreStatus.
Call(p, c) ==
  /\ pc[p] = "idle" /\ p \in Clients
  /\ c \in Calls \ {"update", "select", "repair"}
  /\ op' = [op EXCEPT ![p] = c]
  /\ Goto(p, EntryLabel(c))
  /\ UNCHANGED <<locks, core, starting, dogFlags, disk, host, mine, cfgCopy, stCopy, ready>>

\* RepairTunAndRestart: with TUN off it only reports the status.
CallRepair(p) ==
  /\ pc[p] = "idle" /\ p \in Clients /\ "repair" \in Calls
  /\ op' = [op EXCEPT ![p] = IF config.tun THEN "repair" ELSE "status"]
  /\ Goto(p, EntryLabel("repair"))
  /\ UNCHANGED <<locks, core, starting, dogFlags, disk, host, mine, cfgCopy, stCopy, ready>>

\* UpdateConfig loads and merges; the save is the next step.
CallUpdate(p, t) ==
  /\ pc[p] = "idle" /\ p \in Clients /\ "update" \in Calls
  /\ cfgCopy' = [cfgCopy EXCEPT ![p] = [config EXCEPT ![t] = ~config[t]]]
  /\ op' = [op EXCEPT ![p] = IF t = "tun" /\ config.tun THEN "updateOff" ELSE "update"]
  /\ Goto(p, "updateSave")
  /\ UNCHANGED <<locks, core, starting, dogFlags, disk, host, mine, stCopy, ready>>

\* A save that fails is logged or its error thrown away, and the caller goes on;
\* only SelectProfile returns it.
SavesMayFail == FALSE \in SaveResults
SavesConfig(p) == \E works \in SaveResults : config' = IF works THEN cfgCopy[p] ELSE config
SavesState(st) == \E works \in SaveResults : state' = IF works THEN st ELSE state

\* Mutant: the TUN cleanup of UpdateConfig does not take coreOpMu.
UpdateSaveUnlocked(p) ==
  /\ pc[p] = "updateSave"
  /\ SavesConfig(p)
  /\ Goto(p, IF op[p] = "updateOff" THEN "tunOff" ELSE "changeCheck")
  /\ UNCHANGED <<locks, core, starting, dogFlags, state, host, frame>>

UpdateSave(p) ==
  /\ pc[p] = "updateSave"
  /\ SavesConfig(p)
  /\ Goto(p, IF op[p] = "updateOff" THEN "offLock" ELSE "changeCheck")
  /\ UNCHANGED <<locks, core, starting, dogFlags, state, host, frame>>

\* SelectProfile loads the state; the save is the next step.
CallSelect(p, prof) ==
  /\ pc[p] = "idle" /\ p \in Clients /\ "select" \in Calls
  /\ stCopy' = [stCopy EXCEPT ![p] = [state EXCEPT !.prof = prof]]
  /\ op' = [op EXCEPT ![p] = "select"]
  /\ Goto(p, "selectSave")
  /\ UNCHANGED <<locks, core, starting, dogFlags, disk, host, mine, cfgCopy, ready>>

SelectSave(p) ==
  /\ pc[p] = "selectSave"
  /\ \E works \in SaveResults :
       IF works THEN state' = stCopy[p] /\ Goto(p, "changeCheck") /\ UNCHANGED frame
                ELSE UNCHANGED state /\ Return(p)
  /\ UNCHANGED <<locks, core, starting, dogFlags, config, host>>

-----------------------------------------------------------------------------
(* restartCoreForRuntimeChange: a check under mu, switchMu, the same check *)
(* without mu, then RestartCore with switchMu held.                        *)

\* Mutant: a change leaves alone the core whose start is not over yet.
ChangeCheckOfStarted(p) ==
  /\ pc[p] = "changeCheck"
  /\ IF running /\ ~starting THEN /\ Goto(p, "switchLock")
                                  /\ UNCHANGED frame
                             ELSE Return(p)
  /\ UNCHANGED <<locks, core, starting, dogFlags, disk, host>>

ChangeCheck(p) ==
  /\ pc[p] = "changeCheck"
  /\ IF running THEN /\ Goto(p, "switchLock")
                     /\ UNCHANGED frame
                ELSE Return(p)
  /\ UNCHANGED <<locks, core, starting, dogFlags, disk, host>>

LockSwitch(p) ==
  /\ pc[p] = "switchLock" /\ switchMu = NoProc
  /\ switchMu' = p
  /\ Goto(p, "switchCheck")
  /\ UNCHANGED <<coreOpMu, core, starting, dogFlags, disk, host, frame>>

SwitchCheck(p) ==
  /\ pc[p] = "switchCheck"
  /\ IF running THEN /\ op' = [op EXCEPT ![p] = "restart"]
                     /\ Goto(p, "opLock")
                ELSE /\ Goto(p, "switchUnlock")
                     /\ UNCHANGED op
  /\ UNCHANGED <<locks, core, starting, dogFlags, disk, host, mine, cfgCopy, stCopy, ready>>

\* Mutant: the early return of the second check keeps switchMu.
SwitchUnlockForgotten(p) ==
  /\ pc[p] = "switchUnlock"
  /\ UNCHANGED switchMu
  /\ Return(p)
  /\ UNCHANGED <<coreOpMu, core, starting, dogFlags, disk, host>>

SwitchUnlock(p) ==
  /\ pc[p] = "switchUnlock"
  /\ switchMu' = NoProc
  /\ Return(p)
  /\ UNCHANGED <<coreOpMu, core, starting, dogFlags, disk, host>>

-----------------------------------------------------------------------------
(* coreOpMu.  A goroutine that gets it runs one lifecycle operation, or    *)
(* the TUN cleanup of UpdateConfig and RepairTunAndRestart (offLock).      *)

FirstLabel(o) ==
  IF o \in ExitOps THEN "exitCheck"
  ELSE IF o \in {"stop", "shutdown", "restart", "autoEager"} THEN "stopTake"
  ELSE "claim"

\* Mutant: lifecycle operations do not wait for each other.
FreeAlways(mutex) == mutex \in Proc \cup {NoProc}
Free(mutex) == mutex = NoProc

LockCoreOp(p) ==
  /\ pc[p] \in {"opLock", "offLock"} /\ Free(coreOpMu)
  /\ coreOpMu' = p
  /\ Goto(p, IF pc[p] = "offLock" THEN "tunOff" ELSE FirstLabel(op[p]))
  /\ UNCHANGED <<switchMu, core, starting, dogFlags, disk, host, frame>>

Unlock(p) ==
  /\ pc[p] = "unlock"
  /\ coreOpMu' = NoProc
  /\ IF op[p] \in AutoOps THEN Goto(p, "autoDone") /\ UNCHANGED frame
     ELSE IF op[p] = "repair" THEN Goto(p, "wasRunning") /\ UNCHANGED frame
     ELSE IF switchMu = p THEN Goto(p, "switchUnlock") /\ UNCHANGED frame
     ELSE Return(p)
  /\ UNCHANGED <<switchMu, core, starting, dogFlags, disk, host>>

\* clearTunRouting under coreOpMu, then unlock.  Only the repair also runs
\* cleanupStaleTunInterface, and gives up when that fails.
TunOff(p) ==
  /\ pc[p] = "tunOff"
  /\ tunTakeover' = FALSE
  /\ coreOpMu' = NoProc
  /\ IF op[p] = "updateOff"
     THEN Goto(p, "changeCheck") /\ UNCHANGED frame
     ELSE \E works \in StaleResults :
            IF works THEN Goto(p, "opLock") /\ UNCHANGED frame ELSE Return(p)
  /\ UNCHANGED <<switchMu, core, starting, dogFlags, disk, desktopProxy>>

-----------------------------------------------------------------------------
(* stopCore.                                                               *)

\* Mutant: every stop clears the restore intent.
ClearsIntentAlways(o) == o \in Ops
\* Mutant: StopCore stops without clearing the restore intent.
ClearsIntentOnRestart(o) == o = "restart"
\* The restore intent survives a shutdown and an automatic restart.
ClearsIntent(o) == o \in {"stop", "restart"}
ResetsWatchdog(o) == o # "autoEager"

StopTake(p) ==
  /\ pc[p] = "stopTake"
  /\ mine' = [mine EXCEPT ![p] = xrayCore]
  /\ DropCore
  /\ IF ResetsWatchdog(op[p])
     THEN /\ watchdogRestartAttempts' = 0
          /\ watchdogRestartScheduled' = FALSE
          /\ watchdogRestarting' = FALSE
     ELSE UNCHANGED dogFlags
  /\ Goto(p, "stopClose")
  /\ UNCHANGED <<locks, starting, disk, host, op, cfgCopy, stCopy, ready>>

StopClose(p) ==
  /\ pc[p] = "stopClose"
  /\ mine' = [mine EXCEPT ![p] = "none"]
  /\ Goto(p, "stopTun")
  /\ UNCHANGED <<locks, core, starting, dogFlags, disk, host, op, cfgCopy, stCopy, ready>>

StopTun(p) ==
  /\ pc[p] = "stopTun"
  /\ tunTakeover' = FALSE
  /\ Goto(p, "stopProxy")
  /\ UNCHANGED <<locks, core, starting, dogFlags, disk, desktopProxy, frame>>

\* clearSystemProxyOnCoreStop goes by the mode config.json holds now.
ProxyAfterStop == IF config.proxy THEN FALSE ELSE desktopProxy

StopProxy(p) ==
  /\ pc[p] = "stopProxy"
  /\ desktopProxy' = ProxyAfterStop
  /\ Goto(p, IF ClearsIntent(op[p]) THEN "saveLoad" ELSE "opCheck")
  /\ UNCHANGED <<locks, core, starting, dogFlags, disk, tunTakeover, frame>>

-----------------------------------------------------------------------------
(* startCore.                                                              *)

Claim(p) ==
  /\ pc[p] = "claim"
  /\ IF CoreExited
     THEN /\ DropCore /\ Goto(p, "exitCheck")
          /\ UNCHANGED <<starting, ready>>
     ELSE IF running \/ starting
     THEN /\ ready' = [ready EXCEPT ![p] = IsReady]
          /\ Goto(p, "unlock")
          /\ UNCHANGED <<core, starting>>
     ELSE /\ starting' = TRUE
          /\ Goto(p, "loadConfig")
          /\ UNCHANGED <<core, ready>>
  /\ UNCHANGED <<locks, dogFlags, disk, host, op, mine, cfgCopy, stCopy>>

LoadConfig(p) ==
  /\ pc[p] = "loadConfig"
  /\ cfgCopy' = [cfgCopy EXCEPT ![p] = config]
  /\ Goto(p, "pickProfile")
  /\ UNCHANGED <<locks, core, starting, dogFlags, disk, host, op, mine, stCopy, ready>>

\* pickSelectedProfile falls back to the first profile, and that is saved.
PickProfile(p) ==
  /\ pc[p] = "pickProfile"
  /\ IF state.prof = NoProfile
     THEN /\ stCopy' = [stCopy EXCEPT ![p] = [state EXCEPT !.prof = DefaultProfile]]
          /\ Goto(p, "pickSave")
     ELSE /\ stCopy' = [stCopy EXCEPT ![p] = state]
          /\ Goto(p, "clearStale")
  /\ UNCHANGED <<locks, core, starting, dogFlags, disk, host, op, mine, cfgCopy, ready>>

PickSave(p) ==
  /\ pc[p] = "pickSave"
  /\ SavesState(stCopy[p])
  /\ Goto(p, "clearStale")
  /\ UNCHANGED <<locks, core, starting, dogFlags, config, host, frame>>

\* With TUN on: clearManagedTunPolicyRouting, then cleanupStaleTunInterface,
\* whose error ends the start.
ClearStale(p) ==
  /\ pc[p] = "clearStale"
  /\ IF cfgCopy[p].tun
     THEN /\ tunTakeover' = FALSE
          /\ \E works \in StaleResults : Goto(p, IF works THEN "launch" ELSE "unstart")
     ELSE Goto(p, "launch") /\ UNCHANGED tunTakeover
  /\ UNCHANGED <<locks, core, starting, dogFlags, disk, desktopProxy, frame>>

\* Mutant: the error return leaves s.starting set.
LaunchLeakingSlot(p) ==
  /\ pc[p] = "launch"
  /\ \E works \in LaunchResults :
       IF works THEN /\ mine' = [mine EXCEPT ![p] = "live"]
                     /\ Goto(p, "commit")
                ELSE /\ Goto(p, "unlock")
                     /\ UNCHANGED mine
  /\ UNCHANGED <<locks, core, starting, dogFlags, disk, host, op, cfgCopy, stCopy, ready>>

\* generateXrayConfig, writeConfigToFile and startManagedXrayCore: one fails
\* or all work.
Launch(p) ==
  /\ pc[p] = "launch"
  /\ \E works \in LaunchResults :
       IF works THEN /\ mine' = [mine EXCEPT ![p] = "live"]
                     /\ Goto(p, "commit")
                ELSE /\ Goto(p, "unstart")
                     /\ UNCHANGED mine
  /\ UNCHANGED <<locks, core, starting, dogFlags, disk, host, op, cfgCopy, stCopy, ready>>

Commit(p) ==
  /\ pc[p] = "commit"
  /\ xrayCore' = mine[p] /\ running' = TRUE /\ degraded' = FALSE /\ stats' = TRUE
  /\ built' = <<cfgCopy[p], stCopy[p].prof>>
  /\ watchdogRestartAttempts' = 0
  /\ watchdogRestartScheduled' = FALSE
  /\ watchdogRestarting' = FALSE
  /\ mine' = [mine EXCEPT ![p] = "none"]
  /\ Goto(p, "setupTun")
  /\ UNCHANGED <<locks, starting, disk, host, op, cfgCopy, stCopy, ready>>

\* setupManagedTunRouting, the stale cleanup and the second try: the takeover
\* is in place, or the core is degraded and rules of the attempt may be left.
SetupTun(p) ==
  /\ pc[p] = "setupTun"
  /\ IF cfgCopy[p].tun
     THEN \E works \in TunResults :
            IF works THEN tunTakeover' = TRUE /\ UNCHANGED degraded
                     ELSE tunTakeover' \in BOOLEAN /\ degraded' = TRUE
     ELSE UNCHANGED <<tunTakeover, degraded>>
  /\ Goto(p, "applyProxy")
  /\ UNCHANGED <<locks, xrayCore, running, stats, built, starting, dogFlags, disk,
                 desktopProxy, frame>>

\* The proxy is set, and then the config loaded above saved, or neither.
AppliesProxy(p) ==
  \E works \in SaveResults :
    IF works THEN desktopProxy' = TRUE /\ SavesConfig(p)
             ELSE UNCHANGED <<desktopProxy, config>>

\* Mutant: a start does not record that the core should be restored.
ApplyProxyUnrecorded(p) ==
  /\ pc[p] = "applyProxy"
  /\ IF cfgCopy[p].proxy
     THEN AppliesProxy(p)
     ELSE UNCHANGED <<desktopProxy, config>>
  /\ Goto(p, "opCheck")
  /\ UNCHANGED <<locks, core, starting, dogFlags, state, tunTakeover, frame>>

\* applyConfiguredSystemProxyOnCoreStart.
ApplyProxy(p) ==
  /\ pc[p] = "applyProxy"
  /\ IF cfgCopy[p].proxy
     THEN AppliesProxy(p)
     ELSE UNCHANGED <<desktopProxy, config>>
  /\ Goto(p, "saveLoad")
  /\ UNCHANGED <<locks, core, starting, dogFlags, state, tunTakeover, frame>>

\* The deferred function: s.starting is cleared on every exit path.
Unstart(p) ==
  /\ pc[p] = "unstart"
  /\ starting' = FALSE
  /\ Goto(p, "unlock")
  /\ UNCHANGED <<locks, core, dogFlags, disk, host, frame>>

-----------------------------------------------------------------------------
(* saveState: load state.json, set the restore intent, save it.            *)

SaveLoad(p) ==
  /\ pc[p] = "saveLoad"
  /\ stCopy' = [stCopy EXCEPT ![p] = state]
  /\ Goto(p, "saveWrite")
  /\ UNCHANGED <<locks, core, starting, dogFlags, disk, host, op, mine, cfgCopy, ready>>

SaveWrite(p) ==
  /\ pc[p] = "saveWrite"
  /\ SavesState([stCopy[p] EXCEPT !.restore = starting])
  /\ Goto(p, "opCheck")
  /\ UNCHANGED <<locks, core, starting, dogFlags, config, host, frame>>

(* statusForLifecycleOp: an exit found here is cleaned up without taking   *)
(* coreOpMu again.                                                         *)

\* Mutants: the exit cleanup takes coreOpMu once more, or is left out.
AfterDeadCheckRelocking(p) == IF p \in Proc THEN "opLock" ELSE "exitCheck"
AfterDeadCheckSkipping(p) == IF p \in Proc THEN "opBuild" ELSE "exitCheck"
AfterDeadCheck(p) == "exitCheck"
\* What follows the status: the rest of startCore, or the next of the two
\* halves of a restart, or the end of the critical section.
AfterBuild(p) ==
  IF starting THEN "unstart"
  ELSE IF op[p] \in {"restart", "autoEager"} THEN "claim"
  ELSE "unlock"

OpCheck(p) ==
  /\ pc[p] = "opCheck"
  /\ IF CoreExited THEN DropCore /\ Goto(p, AfterDeadCheck(p))
                   ELSE UNCHANGED core /\ Goto(p, "opBuild")
  /\ UNCHANGED <<locks, starting, dogFlags, disk, host, frame>>

OpBuild(p) ==
  /\ pc[p] = "opBuild"
  /\ ready' = [ready EXCEPT ![p] = IsReady]
  /\ Goto(p, AfterBuild(p))
  /\ UNCHANGED <<locks, core, starting, dogFlags, disk, host, op, mine, cfgCopy, stCopy>>

(* cleanupAfterCoreExitLocked: s.running is read under mu, the host is     *)
(* cleaned up after mu is released.                                        *)

AfterExit(p) ==
  IF op[p] \in ExitOps THEN "unlock" ELSE IF starting THEN "opBuild" ELSE "claim"
\* Mutant: the cleanup does not look whether a new core is running.
SparesNothing == FALSE
SparesTheCore == running

ExitCheck(p) ==
  /\ pc[p] = "exitCheck"
  /\ Goto(p, IF SparesTheCore THEN AfterExit(p) ELSE "exitClear")
  /\ UNCHANGED <<locks, core, starting, dogFlags, disk, host, frame>>

ExitClear(p) ==
  /\ pc[p] = "exitClear"
  /\ tunTakeover' = FALSE
  /\ desktopProxy' = ProxyAfterStop
  /\ Goto(p, AfterExit(p))
  /\ UNCHANGED <<locks, core, starting, dogFlags, disk, frame>>

-----------------------------------------------------------------------------
(* CoreStatus, alone or as the first step of the repair.                   *)

Check(p) ==
  /\ pc[p] = "check"
  /\ IF CoreExited
     THEN DropCore /\ Goto(p, "opLock") /\ UNCHANGED frame
     ELSE /\ UNCHANGED core
          /\ IF op[p] = "repair" THEN Goto(p, "wasRunning") /\ UNCHANGED frame
                                 ELSE Return(p)
  /\ UNCHANGED <<locks, starting, dogFlags, disk, host>>

\* RepairTunAndRestart remembers whether the core ran, cleans up, relaunches.
WasRunning(p) ==
  /\ pc[p] = "wasRunning"
  /\ op' = [op EXCEPT ![p] = IF running THEN "restart" ELSE "start"]
  /\ Goto(p, "offLock")
  /\ UNCHANGED <<locks, core, starting, dogFlags, disk, host, mine, cfgCopy, stCopy, ready>>

-----------------------------------------------------------------------------
(* The watchdog and its auto-restart goroutines.                           *)

\* Mutant: one retry more than the limit.
MayRetryOnceMore == AutoRestart /\ watchdogRestartAttempts <= MaxRetries
MayRetry == AutoRestart /\ watchdogRestartAttempts < MaxRetries
NonePlanned == ~watchdogRestarting /\ ~watchdogRestartScheduled

\* Mutant: the attempt is not counted.
CountNothing ==
  /\ UNCHANGED watchdogRestartAttempts
  /\ watchdogRestartScheduled' = TRUE
\* scheduleAutoRestartLocked: count the attempt, start a sleeping goroutine.
CountAttempt ==
  /\ watchdogRestartAttempts' = watchdogRestartAttempts + 1
  /\ watchdogRestartScheduled' = TRUE

\* watchdogTick finds the core dead: plan a restart, then clean up.  The
\* slot is a bound: with all slots asleep the tick comes later.
TickExit(sl) ==
  /\ pc[Dog] = "idle" /\ CoreExited
  /\ pc[sl] = "idle" \/ ~(running /\ NonePlanned /\ MayRetry)
  /\ DropCore
  /\ IF running /\ NonePlanned /\ MayRetry
     THEN /\ CountAttempt
          /\ op' = [op EXCEPT ![Dog] = "tick", ![sl] = "auto"]
          /\ pc' = [pc EXCEPT ![Dog] = "opLock", ![sl] = "asleep"]
     ELSE /\ op' = [op EXCEPT ![Dog] = "tick"]
          /\ pc' = [pc EXCEPT ![Dog] = "opLock"]
          /\ UNCHANGED <<watchdogRestartAttempts, watchdogRestartScheduled>>
  /\ UNCHANGED <<locks, starting, watchdogRestarting, disk, host,
                 mine, cfgCopy, stCopy, ready>>

\* watchdogTick finds a degraded core: plan a restart of the running core.
TickDegraded(sl) ==
  /\ pc[Dog] = "idle" /\ ~CoreExited
  /\ pc[sl] = "idle"
  /\ running /\ degraded /\ NonePlanned /\ MayRetry
  /\ CountAttempt
  /\ op' = [op EXCEPT ![sl] = "autoEager"]
  /\ pc' = [pc EXCEPT ![sl] = "asleep"]
  /\ UNCHANGED <<locks, core, starting, watchdogRestarting, disk, host,
                 mine, cfgCopy, stCopy, ready>>

\* runScheduledAutoRestart after its sleep.
SkipsWhenRunning(sl) == running /\ op[sl] = "auto"

Wake(sl) ==
  /\ pc[sl] = "asleep"
  /\ IF watchdogRestartScheduled /\ ~SkipsWhenRunning(sl)
     THEN watchdogRestarting' = TRUE /\ Goto(sl, "opLock") /\ UNCHANGED frame
     ELSE UNCHANGED watchdogRestarting /\ Return(sl)
  /\ watchdogRestartScheduled' = FALSE
  /\ UNCHANGED <<locks, core, starting, watchdogRestartAttempts, disk, host>>

\* After startCore: done, or the next attempt, whose goroutine takes over the
\* slot of this one.
RetriesAfter(sl) == ~ready[sl] /\ ~watchdogRestartScheduled /\ MayRetry

AutoDone(sl) ==
  /\ pc[sl] = "autoDone"
  /\ watchdogRestarting' = FALSE
  /\ IF RetriesAfter(sl)
     THEN /\ CountAttempt
          /\ op' = [op EXCEPT ![sl] = "auto"]
          /\ ready' = [ready EXCEPT ![sl] = FALSE]
          /\ Goto(sl, "asleep")
          /\ UNCHANGED <<mine, cfgCopy, stCopy>>
     ELSE /\ Return(sl)
          /\ watchdogRestartAttempts' = IF ready[sl] THEN 0 ELSE watchdogRestartAttempts
          /\ UNCHANGED watchdogRestartScheduled
  /\ UNCHANGED <<locks, core, starting, disk, host>>

-----------------------------------------------------------------------------
Arrive(p) ==
  \/ \E c \in AllCalls : Call(p, c)
  \/ CallRepair(p)
  \/ \E t \in Toggles : CallUpdate(p, t)
  \/ \E prof \in Profiles : CallSelect(p, prof)

\* A step of a goroutine inside the service, its lock acquisitions excepted.
Step(p) ==
  \/ UpdateSave(p) \/ SelectSave(p) \/ ChangeCheck(p) \/ SwitchCheck(p)
  \/ SwitchUnlock(p) \/ Unlock(p) \/ TunOff(p)
  \/ StopTake(p) \/ StopClose(p) \/ StopTun(p) \/ StopProxy(p)
  \/ Claim(p) \/ LoadConfig(p) \/ PickProfile(p) \/ PickSave(p) \/ ClearStale(p)
  \/ Launch(p) \/ Commit(p) \/ SetupTun(p) \/ ApplyProxy(p) \/ Unstart(p)
  \/ SaveLoad(p) \/ SaveWrite(p) \/ OpCheck(p) \/ OpBuild(p)
  \/ ExitCheck(p) \/ ExitClear(p) \/ Check(p) \/ WasRunning(p)
  \/ Wake(p) \/ AutoDone(p)
Acquire(p) == LockCoreOp(p) \/ LockSwitch(p)
Tick == \E sl \in Sleepers : TickExit(sl) \/ TickDegraded(sl)

Next ==
  \/ CoreExit
  \/ Tick
  \/ \E p \in Proc : Arrive(p) \/ Step(p) \/ Acquire(p)

Spec == Init /\ [][Next]_vars

(* A goroutine that can run does; a sync.Mutex hands itself over to waiters *)
(* that have waited too long, so a waiter is not overtaken for ever; the   *)
(* ticker keeps firing.  Nobody has to call, and the core need not exit.   *)
Fairness ==
  /\ \A p \in Proc : WF_vars(Step(p)) /\ SF_vars(Acquire(p))
  /\ WF_vars(Tick)
FairSpec == Spec /\ Fairness

-----------------------------------------------------------------------------
(* Properties.                                                             *)

\* Every variable keeps its type; in particular the attempts counted by the
\* watchdog never exceed coreAutoRestartMaxRetries.
TypeOK ==
  /\ coreOpMu \in Proc \cup {NoProc} /\ switchMu \in Proc \cup {NoProc}
  /\ xrayCore \in {"none", "live", "dead"}
  /\ running \in BOOLEAN /\ starting \in BOOLEAN
  /\ degraded \in BOOLEAN /\ stats \in BOOLEAN
  /\ watchdogRestartAttempts \in 0..MaxRetries
  /\ watchdogRestartScheduled \in BOOLEAN /\ watchdogRestarting \in BOOLEAN
  /\ built \in (Config \X (Profiles \cup {NoProfile})) \cup {NoBuild}
  /\ config \in Config /\ state \in State
  /\ tunTakeover \in BOOLEAN /\ desktopProxy \in BOOLEAN
  /\ pc \in [Proc -> Labels] /\ op \in [Proc -> Ops]
  /\ mine \in [Proc -> {"none", "live", "dead"}]
  /\ cfgCopy \in [Proc -> Config] /\ stCopy \in [Proc -> State]
  /\ ready \in [Proc -> BOOLEAN]

\* Never two xray instances at once: an instance some goroutine has started
\* and not yet published, or taken and not yet closed, excludes every other
\* (they would fight for the listen ports and the TUN device).
OneCore ==
  /\ \A p, q \in Proc : mine[p] # "none" /\ mine[q] # "none" => p = q
  /\ (\E p \in Proc : mine[p] # "none") => xrayCore = "none"

\* The start slot: s.starting is set exactly while one goroutine is between
\* its claim and the deferred reset, and no second start is ever under way.
StartsAreExclusive ==
  /\ \A p, q \in Proc : pc[p] \in StartLabels /\ pc[q] \in StartLabels => p = q
  /\ (\E p \in Proc : pc[p] \in StartLabels) => starting
  /\ starting => \E p \in Proc : coreOpMu = p
  /\ \A p \in Proc : pc[p] = "claim" => ~starting

\* s.running, s.xrayCore, the stats poller and the build the core runs change
\* together, whichever of stop, exit detection and commit comes first: no
\* poller outlives its core and none is overwritten by the next start.
StatsFollowTheCore ==
  /\ running <=> xrayCore # "none"
  /\ stats <=> running
  /\ (built = NoBuild) <=> ~running

\* Lock order switchMu, then coreOpMu, each taken at most once: a goroutine
\* that holds coreOpMu never waits for a lock, and none waits for switchMu
\* while it holds it.  No lock is left behind by a goroutine that has returned or
\* sleeps: every chain of waiting ends at a free lock or at somebody at work.
LocksAreOrdered ==
  /\ \A p \in Proc : pc[p] \in WaitLabels => coreOpMu # p
  /\ \A p \in Proc : pc[p] = "switchLock" => switchMu # p
  /\ coreOpMu \in Proc => pc[coreOpMu] \in HoldLabels
  /\ switchMu \in Proc => pc[switchMu] \notin {"idle", "asleep", "switchLock", "offLock"}

\* After the core is gone, somebody is bound to undo its TUN takeover: the
\* holder of coreOpMu, or a goroutine that saw the exit and is waiting for it
\* (release notes v0.1.5: no machine is left without a default route).
WillCleanUp(p) == coreOpMu = p \/ (pc[p] = "opLock" /\ op[p] \in ExitOps)
TakeoverHasOwner == tunTakeover /\ ~running => \E p \in Proc : WillCleanUp(p)

\* The same for the desktop proxy, when the proxy mode does not change.
ProxyHasOwner == desktopProxy /\ ~running => \E p \in Proc : WillCleanUp(p)

\* While nobody holds coreOpMu, a running core is one the next boot restores, as
\* long as the save of startCore, whose error it drops, works.
RunningIsRestored == running /\ Free(coreOpMu) => state.restore

\* The cleanup after an exit never takes the TUN takeover or the proxy away
\* from a core that started while the cleanup waited for coreOpMu.
ExitCleanupSparesLiveCore ==
  [][(\E p \in Proc : ExitClear(p)) => ~running]_vars

\* Shutdown, exit detection and automatic restarts keep the restore intent:
\* only a stop or a restart somebody asked for drops it.
OnlyStopsDropIntent ==
  [][state.restore /\ ~state'.restore
       => \E p \in Proc : coreOpMu = p /\ op[p] \in {"stop", "restart"}]_vars

\* The TUN takeover is changed only by the goroutine holding coreOpMu, and
\* put in place only for a core that goroutine has just published.
TakeoverIsSerialized ==
  [][tunTakeover' # tunTakeover
       => \E p \in Proc : coreOpMu = p /\ (tunTakeover' => pc[p] = "setupTun")]_vars

\* What the lifecycle looks like from outside: which instance there is, which
\* kind of operation holds coreOpMu, whether a clean-up after an exit waits for it.
Instance ==
  IF \E p \in Proc : pc[p] = "commit" THEN "new"
  ELSE IF \E p \in Proc : mine[p] # "none" THEN "old"
  ELSE xrayCore
Kind(p) ==
  IF pc[p] = "tunOff" THEN "tunOff"
  ELSE IF op[p] \in ExitOps THEN "cleanup"
  ELSE IF op[p] \in {"stop", "shutdown"} THEN "stop"
  ELSE IF op[p] \in {"restart", "autoEager"} THEN "restart"
  ELSE "start"
SectionKind == IF Free(coreOpMu) THEN "none" ELSE Kind(coreOpMu)
Deciding == \E p \in Proc : pc[p] = "setupTun"
Booked == \E p \in Proc : pc[p] = "opLock" /\ op[p] \in ExitOps

Contract == INSTANCE CoreContract WITH
  xray <- Instance,
  takeover <- tunTakeover,
  section <- SectionKind,
  deciding <- Deciding,
  booked <- Booked

\* The lifecycle keeps the contract of the core, however its goroutines
\* interleave: what the comment at service.go:44 asks of coreOpMu, and what it is for.
KeepsContract == Contract!ContractSpec

\* An automatic restart brings up only a core the user still wants: after a
\* stop, the restore intent is down until the next start.
AutoRestartRespectsStop ==
  [][\A sl \in Sleepers : Commit(sl) => state.restore]_vars

\* When StopCore releases coreOpMu, the restore intent is down, whatever start
\* or automatic restart it raced: the next boot leaves the core stopped
\* (internal/service/native/service_shutdown_test.go:60).  A SelectProfile
\* that loaded state.json before the stop and saves it after breaks this, so
\* it is checked without selections, and a save that fails is not reported
\* (service.go:2085), so with saves that work.
StopClearsIntent ==
  [][\A p \in Clients : Unlock(p) /\ op[p] = "stop" => ~state.restore]_vars

\* Every API call returns: no lock is lost and nobody waits for himself.
CallsReturn == \A p \in Clients : pc[p] # "idle" ~> pc[p] = "idle"

\* After a core exit the TUN takeover is undone or a new core takes it over.
TakeoverIsUndone == tunTakeover /\ ~running ~> ~tunTakeover \/ running

\* When launches keep failing and nobody stops the core by hand (which resets
\* the count of attempts), the automatic restarts give up.
AutoIdle == ~watchdogRestartScheduled /\ \A sl \in Sleepers : pc[sl] = "idle"
Failing == ~running /\ \A p \in Clients : pc[p] \notin StopLabels
FailedLaunchesEnd == <>[]Failing => <>[]AutoIdle

\* When no start ends with a ready core any more, the automatic restarts give
\* up (coreAutoRestartMaxRetries is the largest number of retries).
RetriesEnd == <>[](\A p \in Proc : ~ready[p]) => <>[]AutoIdle

\* A core that exits by itself is brought up again, as long as starts work.
ExitRecovers == xrayCore = "dead" ~> xrayCore = "live"
-----------------------------------------------------------------------------
(* What makes the safety properties inductive: which label goes with which *)
(* lock, flag and local instance.                                          *)

\* coreOpMu is held exactly between LockCoreOp and the unlock.
HoldsCoreOpMu == \A p \in Proc : coreOpMu = p <=> pc[p] \in HoldLabels

\* switchMu is held by a runtime change, on its way through RestartCore.
HoldsSwitchMu ==
  \A p \in Proc : switchMu = p =>
    \/ pc[p] \in {"switchCheck", "switchUnlock"}
    \/ op[p] = "restart" /\ pc[p] \in (HoldLabels \ {"tunOff"}) \cup {"opLock"}

\* s.starting belongs to the goroutine inside startCore, which holds coreOpMu
\* and does not run a mere exit cleanup.
InStart(p) ==
  coreOpMu = p /\ op[p] \notin ExitOps /\ pc[p] \in StartLabels \cup SharedLabels
HoldsStartSlot ==
  /\ starting => \E p \in Proc : InStart(p)
  /\ \A p \in Proc : pc[p] \in StartLabels => starting
  /\ \A p \in Proc : pc[p] = "claim" => op[p] \notin ExitOps
  /\ \A p \in Proc : pc[p] = "check" => op[p] \in ExitOps

\* From taking the instance to the end of the close, and from the claim to the
\* commit, s.xrayCore is nil; a local instance exists only around these.
Coreless == {"stopClose", "stopTun", "loadConfig", "pickProfile", "pickSave",
             "clearStale", "launch", "commit"}
HoldsInstance ==
  /\ \A p \in Proc : pc[p] \in Coreless => xrayCore = "none"
  /\ \A p \in Proc : pc[p] = "commit" => mine[p] = "live"
  /\ \A p \in Proc : mine[p] # "none" => pc[p] \in {"stopClose", "commit"}

\* Whenever a takeover is in place, or about to be, without a running core, a
\* goroutine stands before the step that undoes it; that step never runs
\* with a core running.
Cleans(p) ==
  \/ pc[p] = "opLock" /\ op[p] \in ExitOps
  \/ pc[p] \in {"exitCheck", "exitClear", "stopClose", "stopTun"}
CleanupIsPending ==
  /\ (tunTakeover \/ \E p \in Proc : pc[p] = "setupTun") /\ ~running
       => \E p \in Proc : Cleans(p)
  /\ \A p \in Proc : pc[p] = "exitClear" => ~running

IndInv ==
  /\ TypeOK /\ HoldsCoreOpMu /\ HoldsSwitchMu /\ HoldsStartSlot
  /\ StatsFollowTheCore /\ HoldsInstance /\ CleanupIsPending

\* An operation does only what its kind may: nobody but a stop or a restart takes
\* the instance away, a plain stop never gets into startCore, and what sleeps or
\* is on its way to a TUN clean-up books none.
OpsKeepKind ==
  /\ \A p \in Proc : pc[p] = "asleep" => op[p] \in AutoOps
  /\ \A p \in Proc : pc[p] \in {"offLock", "tunOff"} => op[p] \in {"updateOff", "start", "restart"}
  /\ \A p \in Proc : pc[p] \in StopLabels => op[p] \in {"stop", "shutdown", "restart", "autoEager"}
  /\ \A p \in Proc : coreOpMu = p /\ op[p] \in {"stop", "shutdown"} =>
       /\ ~starting
       /\ pc[p] \notin StartLabels \cup {"claim", "exitCheck", "exitClear"}
       /\ pc[p] # "stopTake" => xrayCore = "none"

\* A running core the next boot would not restore is one whose start has not
\* got to its saveState yet; a saveState of a stop finds no core running.
RestoreIsRecorded ==
  /\ running => \/ state.restore
                \/ \E p \in Proc : pc[p] \in {"setupTun", "applyProxy", "saveLoad", "saveWrite"}
  /\ \A p \in Proc : pc[p] \in {"saveLoad", "saveWrite"} /\ running => starting
  /\ \A p \in Proc : pc[p] = "stopProxy" => ~running
  /\ \A p \in Proc : pc[p] # "selectSave"

\* The proxy mode of every copy of the config that will be saved is the one on
\* disk, and what CleanupIsPending says of the takeover holds of the proxy.
CleansProxy(p) == Cleans(p) \/ pc[p] = "stopProxy"
ProxyIsPending ==
  /\ \A p \in Proc : pc[p] = "updateSave" \/ pc[p] \in StartLabels \ {"loadConfig", "unstart"}
       => cfgCopy[p].proxy = config.proxy
  /\ desktopProxy => config.proxy
  /\ (desktopProxy \/ \E p \in Proc : pc[p] \in {"setupTun", "applyProxy"}) /\ ~running
       => \E p \in Proc : CleansProxy(p)

\* Whose saveState lowers the restore intent, and that nothing raises it again
\* before the stop that lowered it lets go of coreOpMu.
IntentFollowsStops ==
  /\ \A p \in Proc : pc[p] \in {"saveLoad", "saveWrite"} => starting \/ op[p] \in {"stop", "restart"}
  /\ \A p \in Proc : pc[p] = "pickSave" => stCopy[p].restore = state.restore
  /\ \A p \in Proc : op[p] = "stop" =>
       /\ pc[p] \notin StartLabels \cup {"claim", "exitCheck", "exitClear"}
       /\ pc[p] \in {"stopClose", "stopTun", "stopProxy", "saveLoad", "saveWrite",
                     "opCheck", "opBuild", "unlock"} => ~starting /\ xrayCore = "none"
       /\ pc[p] \in {"opCheck", "opBuild", "unlock"} => ~state.restore \/ SavesMayFail
  /\ \A p \in Proc : pc[p] # "selectSave"
=============================================================================
