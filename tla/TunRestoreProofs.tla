--------------------------- MODULE TunRestoreProofs -------------------------
(***************************************************************************)
(* What TunRestore guarantees for any set of networks, any metrics and any *)
(* number of faults.  IndInv says which phase holds the routes that are    *)
(* owed: nobody has to before a takeover, the routes noted while they are  *)
(* handed over, memory in between.  Every action keeps it, one lemma each. *)
(***************************************************************************)
EXTENDS TunRestore, TLAPS

USE DEF Goto, Fault, Works, kernel, service, work, update, history

\* A link goes down, and with it its route; nobody owes it any more.
LEMMA LinkDownKeeps ==
  ASSUME IndInv, NEW n \in Nets, LinkDown(n)
  PROVE  IndInv'
<1>1. TypeOK'
  BY RestoreAssumption DEF IndInv, TypeOK, Labels, MetricOf, LinkDown
<1>2. Links' /\ Devices'
  BY RestoreAssumption DEF IndInv, TypeOK, Links, Devices, Phases, LinkDown
<1>3. Phases'
  BY DEF IndInv, TypeOK, Labels, Phases, LinkDown
<1>4. Holders'
  BY DEF IndInv, TypeOK, Labels, Links, Phases, Holders, NobodyOwes, FoundOwes, LinkDown
<1>5. QED
  BY <1>1, <1>2, <1>3, <1>4 DEF IndInv

\* A route that comes back stands on a link that is up.
LEMMA LinkUpKeeps ==
  ASSUME IndInv, NEW n \in Nets, LinkUp(n)
  PROVE  IndInv'
<1>1. TypeOK'
  BY RestoreAssumption DEF IndInv, TypeOK, Labels, MetricOf, LinkUp, Replaced
<1>2. Links' /\ Devices'
  BY RestoreAssumption DEF IndInv, TypeOK, Links, Devices, Phases, LinkUp, Replaced
<1>3. Phases'
  BY DEF IndInv, TypeOK, Labels, Phases, LinkUp, Replaced
<1>4. Holders'
  BY DEF IndInv, TypeOK, Labels, Links, Phases, Holders, NobodyOwes, FoundOwes, LinkUp, Replaced
<1>5. QED
  BY <1>1, <1>2, <1>3, <1>4 DEF IndInv

\* The device appears; routes and records stay.
LEMMA DeviceUpKeeps ==
  ASSUME IndInv, DeviceUp
  PROVE  IndInv'
<1>1. TypeOK'
  BY RestoreAssumption DEF IndInv, TypeOK, Labels, MetricOf, DeviceUp
<1>2. Links' /\ Devices'
  BY RestoreAssumption DEF IndInv, TypeOK, Links, Devices, Phases, DeviceUp
<1>3. Phases'
  BY DEF IndInv, TypeOK, Labels, Phases, DeviceUp
<1>4. Holders'
  BY DEF IndInv, TypeOK, Labels, Links, Phases, Holders, NobodyOwes, FoundOwes, DeviceUp
<1>5. QED
  BY <1>1, <1>2, <1>3, <1>4 DEF IndInv

\* The core exits in any phase; its device and the route through it go.
LEMMA CoreExitKeeps ==
  ASSUME IndInv, CoreExit
  PROVE  IndInv'
<1>1. TypeOK'
  BY RestoreAssumption DEF IndInv, TypeOK, Labels, MetricOf, CoreExit, DeviceGoes
<1>2. Links' /\ Devices'
  BY RestoreAssumption DEF IndInv, TypeOK, Links, Devices, Phases, CoreExit, DeviceGoes
<1>3. Phases'
  BY DEF IndInv, TypeOK, Labels, Phases, CoreExit, DeviceGoes
<1>4. Holders'
  BY DEF IndInv, TypeOK, Labels, Links, Phases, Holders, NobodyOwes, FoundOwes, CoreExit, DeviceGoes
<1>5. QED
  BY <1>1, <1>2, <1>3, <1>4 DEF IndInv

\* After a crash nothing is in memory; either nothing was owed, or the history
\* says so.
LEMMA CrashKeeps ==
  ASSUME IndInv, Crash
  PROVE  IndInv'
<1>1. TypeOK'
  <2>1. degraded' \in BOOLEAN /\ intent' \in BOOLEAN /\ proxy' \in BOOLEAN
    BY DEF IndInv, TypeOK, Crash, DeviceGoes
  <2>2. second' \in BOOLEAN /\ updating' \in BOOLEAN /\ booting' \in BOOLEAN
    BY DEF IndInv, TypeOK, Crash, DeviceGoes
  <2>3. crashed' \in BOOLEAN /\ recorded' \in BOOLEAN
    BY DEF IndInv, TypeOK, Crash, DeviceGoes
  <2>4. up' \subseteq Nets /\ defaults' \subseteq Nets \cup {Tun} /\ owed' \subseteq Nets /\ missed' \subseteq Nets
    BY DEF IndInv, TypeOK, Crash, DeviceGoes
  <2>5. /\ memory' \subseteq Nets /\ persisted' \subseteq Nets /\ found' \subseteq Nets
        /\ updateCopy' \subseteq Nets /\ config' \subseteq Nets
    BY DEF IndInv, TypeOK, Crash, DeviceGoes
  <2>6. /\ core' \in {"none", "live", "dead"} /\ device' \in {"none", "coming", "there"}
        /\ pc' \in Labels
        /\ op' \in {"none", "start", "stop", "shutdown", "restart", "autoRestart", "exit"}
    BY DEF IndInv, TypeOK, Labels, Crash, DeviceGoes
  <2>7. events' \in 0..MaxEvents
    BY RestoreAssumption DEF IndInv, TypeOK, Crash, DeviceGoes
  <2>8. \A d, e \in defaults' : MetricOf(d) = MetricOf(e) => d = e
    BY DEF IndInv, TypeOK, Crash, DeviceGoes
  <2>9. QED
    BY <2>1, <2>2, <2>3, <2>4, <2>5, <2>6, <2>7, <2>8 DEF TypeOK
<1>2. Links' /\ Devices'
  BY RestoreAssumption DEF IndInv, TypeOK, Links, Devices, Phases, Crash, DeviceGoes
<1>3. Phases'
  BY DEF IndInv, TypeOK, Labels, Phases, Crash, DeviceGoes
<1>4. Holders'
  BY DEF IndInv, TypeOK, Labels, Links, Phases, Holders, NobodyOwes, FoundOwes, Crash, DeviceGoes
<1>5. QED
  BY <1>1, <1>2, <1>3, <1>4 DEF IndInv

\* An update of the config reads the record.
LEMMA UpdateLoadKeeps ==
  ASSUME IndInv, UpdateLoad
  PROVE  IndInv'
<1>1. TypeOK'
  BY RestoreAssumption DEF IndInv, TypeOK, Labels, MetricOf, UpdateLoad
<1>2. Links' /\ Devices'
  BY RestoreAssumption DEF IndInv, TypeOK, Links, Devices, Phases, UpdateLoad
<1>3. Phases'
  BY DEF IndInv, TypeOK, Labels, Phases, UpdateLoad
<1>4. Holders'
  BY DEF IndInv, TypeOK, Labels, Links, Phases, Holders, NobodyOwes, FoundOwes, UpdateLoad
<1>5. QED
  BY <1>1, <1>2, <1>3, <1>4 DEF IndInv

\* An update of the config may write an old record: memory is not concerned.
LEMMA UpdateSaveKeeps ==
  ASSUME IndInv, UpdateSave
  PROVE  IndInv'
<1>1. TypeOK'
  <2>1. degraded' \in BOOLEAN /\ intent' \in BOOLEAN /\ proxy' \in BOOLEAN
    BY DEF IndInv, TypeOK, UpdateSave
  <2>2. second' \in BOOLEAN /\ updating' \in BOOLEAN /\ booting' \in BOOLEAN
    BY DEF IndInv, TypeOK, UpdateSave
  <2>3. crashed' \in BOOLEAN /\ recorded' \in BOOLEAN
    BY DEF IndInv, TypeOK, UpdateSave
  <2>4. up' \subseteq Nets /\ defaults' \subseteq Nets \cup {Tun} /\ owed' \subseteq Nets /\ missed' \subseteq Nets
    BY DEF IndInv, TypeOK, UpdateSave
  <2>5. /\ memory' \subseteq Nets /\ persisted' \subseteq Nets /\ found' \subseteq Nets
        /\ updateCopy' \subseteq Nets /\ config' \subseteq Nets
    BY DEF IndInv, TypeOK, UpdateSave
  <2>6. /\ core' \in {"none", "live", "dead"} /\ device' \in {"none", "coming", "there"}
        /\ pc' \in Labels
        /\ op' \in {"none", "start", "stop", "shutdown", "restart", "autoRestart", "exit"}
    BY DEF IndInv, TypeOK, Labels, UpdateSave
  <2>7. events' \in 0..MaxEvents
    BY RestoreAssumption DEF IndInv, TypeOK, UpdateSave
  <2>8. \A d, e \in defaults' : MetricOf(d) = MetricOf(e) => d = e
    BY DEF IndInv, TypeOK, UpdateSave
  <2>9. QED
    BY <2>1, <2>2, <2>3, <2>4, <2>5, <2>6, <2>7, <2>8 DEF TypeOK
<1>2. Links' /\ Devices'
  BY RestoreAssumption DEF IndInv, TypeOK, Links, Devices, Phases, UpdateSave
<1>3. Phases'
  BY DEF IndInv, TypeOK, Labels, Phases, UpdateSave
<1>4. Holders'
  BY DEF IndInv, TypeOK, Labels, Links, Phases, Holders, NobodyOwes, FoundOwes, UpdateSave
<1>5. QED
  BY <1>1, <1>2, <1>3, <1>4 DEF IndInv

\* A start finds an empty memory and nothing owed.
LEMMA StartKeeps ==
  ASSUME IndInv, Start
  PROVE  IndInv'
<1>1. TypeOK'
  BY RestoreAssumption DEF IndInv, TypeOK, Labels, MetricOf, Start, Begin
<1>2. Links' /\ Devices'
  BY RestoreAssumption DEF IndInv, TypeOK, Links, Devices, Phases, Start, Begin
<1>3. Phases'
  BY DEF IndInv, TypeOK, Labels, Phases, Start, Begin
<1>4. Holders'
  BY DEF IndInv, TypeOK, Labels, Links, Phases, Holders, NobodyOwes, FoundOwes, Start, Begin
<1>5. QED
  BY <1>1, <1>2, <1>3, <1>4 DEF IndInv

\* A stop hands what is owed to the cleanup, in memory.
LEMMA StopKeeps ==
  ASSUME IndInv, NEW o \in {"stop", "shutdown", "restart"}, Stop(o)
  PROVE  IndInv'
<1>1. TypeOK'
  BY RestoreAssumption DEF IndInv, TypeOK, Labels, MetricOf, Stop, Begin, DeviceGoes
<1>2. Links' /\ Devices'
  BY RestoreAssumption DEF IndInv, TypeOK, Links, Devices, Phases, Stop, Begin, DeviceGoes
<1>3. Phases'
  BY DEF IndInv, TypeOK, Labels, Phases, Stop, Begin, DeviceGoes
<1>4. Holders'
  BY DEF IndInv, TypeOK, Labels, Links, Phases, Holders, NobodyOwes, FoundOwes, Stop, Begin, DeviceGoes
<1>5. QED
  BY <1>1, <1>2, <1>3, <1>4 DEF IndInv

\* So does the watchdog.
LEMMA WatchdogKeeps ==
  ASSUME IndInv, Watchdog
  PROVE  IndInv'
<1>1. TypeOK'
  BY RestoreAssumption DEF IndInv, TypeOK, Labels, MetricOf, Watchdog, Begin, DeviceGoes
<1>2. Links' /\ Devices'
  BY RestoreAssumption DEF IndInv, TypeOK, Links, Devices, Phases, Watchdog, Begin, DeviceGoes
<1>3. Phases'
  BY DEF IndInv, TypeOK, Labels, Phases, Watchdog, Begin, DeviceGoes
<1>4. Holders'
  BY DEF IndInv, TypeOK, Labels, Links, Phases, Holders, NobodyOwes, FoundOwes, Watchdog, Begin, DeviceGoes
<1>5. QED
  BY <1>1, <1>2, <1>3, <1>4 DEF IndInv

\* The config is loaded.
LEMMA LoadKeeps ==
  ASSUME IndInv, Load
  PROVE  IndInv'
<1>1. TypeOK'
  BY RestoreAssumption DEF IndInv, TypeOK, Labels, MetricOf, Load
<1>2. Links' /\ Devices'
  BY RestoreAssumption DEF IndInv, TypeOK, Links, Devices, Phases, Load
<1>3. Phases'
  BY DEF IndInv, TypeOK, Labels, Phases, Load
<1>4. Holders'
  BY DEF IndInv, TypeOK, Labels, Links, Phases, Holders, NobodyOwes, FoundOwes, Load
<1>5. QED
  BY <1>1, <1>2, <1>3, <1>4 DEF IndInv

\* A launch makes a core, or ends the call.
LEMMA LaunchKeeps ==
  ASSUME IndInv, NEW ok \in BOOLEAN, Launch(ok)
  PROVE  IndInv'
<1>1. TypeOK'
  <2>1. degraded' \in BOOLEAN /\ intent' \in BOOLEAN /\ proxy' \in BOOLEAN
    BY DEF IndInv, TypeOK, Launch, Done
  <2>2. second' \in BOOLEAN /\ updating' \in BOOLEAN /\ booting' \in BOOLEAN
    BY DEF IndInv, TypeOK, Launch, Done
  <2>3. crashed' \in BOOLEAN /\ recorded' \in BOOLEAN
    BY DEF IndInv, TypeOK, Launch, Done
  <2>4. up' \subseteq Nets /\ defaults' \subseteq Nets \cup {Tun} /\ owed' \subseteq Nets /\ missed' \subseteq Nets
    BY DEF IndInv, TypeOK, Launch, Done
  <2>5. /\ memory' \subseteq Nets /\ persisted' \subseteq Nets /\ found' \subseteq Nets
        /\ updateCopy' \subseteq Nets /\ config' \subseteq Nets
    BY DEF IndInv, TypeOK, Launch, Done
  <2>6. /\ core' \in {"none", "live", "dead"} /\ device' \in {"none", "coming", "there"}
        /\ pc' \in Labels
        /\ op' \in {"none", "start", "stop", "shutdown", "restart", "autoRestart", "exit"}
    BY DEF IndInv, TypeOK, Labels, Launch, Done
  <2>7. events' \in 0..MaxEvents
    BY RestoreAssumption DEF IndInv, TypeOK, Launch, Done
  <2>8. \A d, e \in defaults' : MetricOf(d) = MetricOf(e) => d = e
    BY DEF IndInv, TypeOK, Launch, Done
  <2>9. QED
    BY <2>1, <2>2, <2>3, <2>4, <2>5, <2>6, <2>7, <2>8 DEF TypeOK
<1>2. Links' /\ Devices'
  BY RestoreAssumption DEF IndInv, TypeOK, Links, Devices, Phases, Launch, Done
<1>3. Phases'
  BY DEF IndInv, TypeOK, Labels, Phases, Launch, Done
<1>4. Holders'
  BY DEF IndInv, TypeOK, Labels, Links, Phases, Holders, NobodyOwes, FoundOwes, Launch, Done
<1>5. QED
  BY <1>1, <1>2, <1>3, <1>4 DEF IndInv

\* The routes there are noted.
LEMMA ReadKeeps ==
  ASSUME IndInv, Read
  PROVE  IndInv'
<1>1. TypeOK'
  BY RestoreAssumption DEF IndInv, TypeOK, Labels, MetricOf, Read
<1>2. Links' /\ Devices'
  BY RestoreAssumption DEF IndInv, TypeOK, Links, Devices, Phases, Read
<1>3. Phases'
  BY DEF IndInv, TypeOK, Labels, Phases, Read
<1>4. Holders'
  BY DEF IndInv, TypeOK, Labels, Links, Phases, Holders, NobodyOwes, FoundOwes, Read
<1>5. QED
  BY <1>1, <1>2, <1>3, <1>4 DEF IndInv

\* Waiting changes no route.
LEMMA WaitKeeps ==
  ASSUME IndInv, NEW ok \in BOOLEAN, Wait(ok)
  PROVE  IndInv'
<1>1. TypeOK'
  BY RestoreAssumption DEF IndInv, TypeOK, Labels, MetricOf, Wait
<1>2. Links' /\ Devices'
  BY RestoreAssumption DEF IndInv, TypeOK, Links, Devices, Phases, Wait
<1>3. Phases'
  BY DEF IndInv, TypeOK, Labels, Phases, Wait
<1>4. Holders'
  BY DEF IndInv, TypeOK, Labels, Links, Phases, Holders, NobodyOwes, FoundOwes, Wait
<1>5. QED
  BY <1>1, <1>2, <1>3, <1>4 DEF IndInv

\* A route that is replaced has been noted.
LEMMA ReplaceKeeps ==
  ASSUME IndInv, NEW ok \in BOOLEAN, Replace(ok)
  PROVE  IndInv'
<1>1. TypeOK'
  BY RestoreAssumption DEF IndInv, TypeOK, Labels, MetricOf, Replace, WithDefault, Replaced
<1>2. Links' /\ Devices'
  BY RestoreAssumption DEF IndInv, TypeOK, Links, Devices, Phases, Replace, WithDefault, Replaced
<1>3. Phases'
  BY DEF IndInv, TypeOK, Labels, Phases, Replace, WithDefault, Replaced
<1>4. Holders'
  BY DEF IndInv, TypeOK, Labels, Links, Phases, Holders, NobodyOwes, FoundOwes, Replace, WithDefault, Replaced
<1>5. QED
  BY <1>1, <1>2, <1>3, <1>4 DEF IndInv

\* What has been noted is in memory.
LEMMA RememberKeeps ==
  ASSUME IndInv, Remember
  PROVE  IndInv'
<1>1. TypeOK'
  BY RestoreAssumption DEF IndInv, TypeOK, Labels, MetricOf, Remember
<1>2. Links' /\ Devices'
  BY RestoreAssumption DEF IndInv, TypeOK, Links, Devices, Phases, Remember
<1>3. Phases'
  BY DEF IndInv, TypeOK, Labels, Phases, Remember
<1>4. Holders'
  BY DEF IndInv, TypeOK, Labels, Links, Phases, Holders, NobodyOwes, FoundOwes, Remember
<1>5. QED
  BY <1>1, <1>2, <1>3, <1>4 DEF IndInv

\* The record in config.json is written; memory stays.
LEMMA PersistKeeps ==
  ASSUME IndInv, Persist
  PROVE  IndInv'
<1>1. TypeOK'
  BY RestoreAssumption DEF IndInv, TypeOK, Labels, MetricOf, Persist
<1>2. Links' /\ Devices'
  BY RestoreAssumption DEF IndInv, TypeOK, Links, Devices, Phases, Persist
<1>3. Phases'
  BY DEF IndInv, TypeOK, Labels, Phases, Persist
<1>4. Holders'
  BY DEF IndInv, TypeOK, Labels, Links, Phases, Holders, NobodyOwes, FoundOwes, Persist
<1>5. QED
  BY <1>1, <1>2, <1>3, <1>4 DEF IndInv

\* The second try comes before any takeover.
LEMMA FailedKeeps ==
  ASSUME IndInv, Failed
  PROVE  IndInv'
<1>1. TypeOK'
  <2>1. degraded' \in BOOLEAN /\ intent' \in BOOLEAN /\ proxy' \in BOOLEAN
    BY DEF IndInv, TypeOK, Failed, DeviceGoes
  <2>2. second' \in BOOLEAN /\ updating' \in BOOLEAN /\ booting' \in BOOLEAN
    BY DEF IndInv, TypeOK, Failed, DeviceGoes
  <2>3. crashed' \in BOOLEAN /\ recorded' \in BOOLEAN
    BY DEF IndInv, TypeOK, Failed, DeviceGoes
  <2>4. up' \subseteq Nets /\ defaults' \subseteq Nets \cup {Tun} /\ owed' \subseteq Nets /\ missed' \subseteq Nets
    BY DEF IndInv, TypeOK, Failed, DeviceGoes
  <2>5. /\ memory' \subseteq Nets /\ persisted' \subseteq Nets /\ found' \subseteq Nets
        /\ updateCopy' \subseteq Nets /\ config' \subseteq Nets
    BY DEF IndInv, TypeOK, Failed, DeviceGoes
  <2>6. /\ core' \in {"none", "live", "dead"} /\ device' \in {"none", "coming", "there"}
        /\ pc' \in Labels
        /\ op' \in {"none", "start", "stop", "shutdown", "restart", "autoRestart", "exit"}
    BY DEF IndInv, TypeOK, Labels, Failed, DeviceGoes
  <2>7. events' \in 0..MaxEvents
    BY RestoreAssumption DEF IndInv, TypeOK, Failed, DeviceGoes
  <2>8. \A d, e \in defaults' : MetricOf(d) = MetricOf(e) => d = e
    BY DEF IndInv, TypeOK, Failed, DeviceGoes
  <2>9. QED
    BY <2>1, <2>2, <2>3, <2>4, <2>5, <2>6, <2>7, <2>8 DEF TypeOK
<1>2. Links' /\ Devices'
  BY RestoreAssumption DEF IndInv, TypeOK, Links, Devices, Phases, Failed, DeviceGoes
<1>3. Phases'
  BY DEF IndInv, TypeOK, Labels, Phases, Failed, DeviceGoes
<1>4. Holders'
  BY DEF IndInv, TypeOK, Labels, Links, Phases, Holders, NobodyOwes, FoundOwes, Failed, DeviceGoes
<1>5. QED
  BY <1>1, <1>2, <1>3, <1>4 DEF IndInv

\* The config that is saved may hold an old record: memory is not concerned.
LEMMA ApplyProxyKeeps ==
  ASSUME IndInv, NEW ok \in BOOLEAN, ApplyProxy(ok)
  PROVE  IndInv'
<1>1. TypeOK'
  BY RestoreAssumption DEF IndInv, TypeOK, Labels, MetricOf, ApplyProxy
<1>2. Links' /\ Devices'
  BY RestoreAssumption DEF IndInv, TypeOK, Links, Devices, Phases, ApplyProxy
<1>3. Phases'
  BY DEF IndInv, TypeOK, Labels, Phases, ApplyProxy
<1>4. Holders'
  BY DEF IndInv, TypeOK, Labels, Links, Phases, Holders, NobodyOwes, FoundOwes, ApplyProxy
<1>5. QED
  BY <1>1, <1>2, <1>3, <1>4 DEF IndInv

\* The end of a call, or the turn from stopping to starting.
LEMMA FinishKeeps ==
  ASSUME IndInv, Finish
  PROVE  IndInv'
<1>1. TypeOK'
  <2>1. UNCHANGED <<kernel, core, degraded, memory, persisted, update, booting, owed, history, events>>
    BY DEF Finish
  <2>2. /\ intent' \in BOOLEAN /\ pc' \in Labels /\ found' \subseteq Nets /\ config' \subseteq Nets
        /\ op' \in {"none", "start", "stop", "shutdown", "restart", "autoRestart", "exit"}
        /\ second' \in BOOLEAN
    BY DEF IndInv, TypeOK, Labels, Finish, Done
  <2>3. QED
    BY <2>1, <2>2 DEF IndInv, TypeOK, MetricOf
<1>2. Links' /\ Devices'
  BY RestoreAssumption DEF IndInv, TypeOK, Links, Devices, Phases, Finish, Done
<1>3. Phases'
  BY DEF IndInv, TypeOK, Labels, Phases, Finish, Done
<1>4. Holders'
  BY DEF IndInv, TypeOK, Labels, Links, Phases, Holders, NobodyOwes, FoundOwes, Finish, Done
<1>5. QED
  BY <1>1, <1>2, <1>3, <1>4 DEF IndInv

\* What is owed passes from memory to the cleanup; with nothing in memory,
\* nothing is owed.
LEMMA TakeKeeps ==
  ASSUME IndInv, Take
  PROVE  IndInv'
<1>1. TypeOK'
  BY RestoreAssumption DEF IndInv, TypeOK, Labels, MetricOf, Take
<1>2. Links' /\ Devices'
  BY RestoreAssumption DEF IndInv, TypeOK, Links, Devices, Phases, Take
<1>3. Phases'
  BY DEF IndInv, TypeOK, Labels, Phases, Take
<1>4. Holders'
  BY DEF IndInv, TypeOK, Labels, Links, Phases, Holders, NobodyOwes, FoundOwes, Take
<1>5. QED
  BY <1>1, <1>2, <1>3, <1>4 DEF IndInv

\* A route put back is no longer owed; one that could not be is missed.
LEMMA RestoreKeeps ==
  ASSUME IndInv, NEW r \in Nets, NEW ok \in BOOLEAN, Restore(r, ok)
  PROVE  IndInv'
<1>1. TypeOK'
  BY RestoreAssumption DEF IndInv, TypeOK, Labels, MetricOf, Restore, WithDefault, Replaced
<1>2. Links' /\ Devices'
  <2>1. Replaced(r) \subseteq {r, Tun}
    BY RestoreAssumption DEF IndInv, TypeOK, Replaced, MetricOf
  <2>2. CASE ok
    <3>1. defaults' = (defaults \ Replaced(r)) \cup {r} /\ r \in up
      BY <2>2 DEF Restore, WithDefault
    <3>2. /\ owed' = owed \ {r} /\ missed' = missed \ {r}
          /\ UNCHANGED <<up, device, core>>
      BY <2>2 DEF Restore
    <3>3. QED
      BY <2>1, <3>1, <3>2, RestoreAssumption DEF IndInv, TypeOK, Links, Devices
  <2>3. CASE ~ok
    BY <2>3 DEF IndInv, Links, Devices, Restore
  <2>4. QED
    BY <2>2, <2>3
<1>3. Phases'
  BY DEF IndInv, TypeOK, Labels, Phases, Restore, WithDefault, Replaced
<1>4. Holders'
  BY DEF IndInv, TypeOK, Labels, Links, Phases, Holders, NobodyOwes, FoundOwes, Restore, WithDefault, Replaced
<1>5. QED
  BY <1>1, <1>2, <1>3, <1>4 DEF IndInv

\* The cleanup has gone through all of them.
LEMMA DelTunKeeps ==
  ASSUME IndInv, DelTun
  PROVE  IndInv'
<1>1. TypeOK'
  BY RestoreAssumption DEF IndInv, TypeOK, Labels, MetricOf, DelTun, DeviceGoes
<1>2. Links' /\ Devices'
  BY RestoreAssumption DEF IndInv, TypeOK, Links, Devices, Phases, DelTun, DeviceGoes
<1>3. Phases'
  BY DEF IndInv, TypeOK, Labels, Phases, DelTun, DeviceGoes
<1>4. Holders'
  BY DEF IndInv, TypeOK, Labels, Links, Phases, Holders, NobodyOwes, FoundOwes, DelTun, DeviceGoes
<1>5. QED
  BY <1>1, <1>2, <1>3, <1>4 DEF IndInv

-----------------------------------------------------------------------------
\* At the beginning nothing is owed, and only the links have routes.
LEMMA InitInd == Init => IndInv
<1> SUFFICES ASSUME Init PROVE IndInv
  OBVIOUS
<1>1. \A d, e \in defaults : MetricOf(d) = MetricOf(e) => d = e
  BY RestoreAssumption DEF Init, MetricOf
<1>2. TypeOK
  <2>1. proxy \in BOOLEAN
    BY DEF Init
  <2>2. /\ degraded = FALSE /\ intent = FALSE /\ second = FALSE
        /\ updating = FALSE /\ booting = FALSE /\ crashed = FALSE /\ recorded = FALSE
    BY DEF Init
  <2>3. /\ up \subseteq Nets /\ defaults \subseteq Nets \cup {Tun} /\ memory \subseteq Nets
        /\ persisted \subseteq Nets /\ found \subseteq Nets /\ updateCopy \subseteq Nets
        /\ owed \subseteq Nets /\ missed \subseteq Nets /\ config \subseteq Nets
    BY DEF Init
  <2>4. /\ core = "none" /\ device = "none" /\ pc \in Labels /\ op = "none"
    BY DEF Init, Labels
  <2>5. events \in 0..MaxEvents
    BY RestoreAssumption DEF Init
  <2>6. QED
    BY <1>1, <2>1, <2>2, <2>3, <2>4, <2>5 DEF TypeOK
<1>3. Links /\ Devices /\ Phases
  BY RestoreAssumption DEF Init, Links, Devices, Phases
<1>4. Holders
  BY DEF Init, Holders, NobodyOwes, FoundOwes
<1>5. QED
  BY <1>2, <1>3, <1>4 DEF IndInv

\* Every step of the system, and stuttering, keeps IndInv.
LEMMA NextInd == IndInv /\ [Next]_vars => IndInv'
<1> SUFFICES ASSUME IndInv, [Next]_vars PROVE IndInv'
  OBVIOUS
<1>1. CASE Step
  BY <1>1, LoadKeeps, ReadKeeps, RememberKeeps, PersistKeeps, FailedKeeps, FinishKeeps,
     TakeKeeps, DelTunKeeps, LaunchKeeps, WaitKeeps, ReplaceKeeps, ApplyProxyKeeps,
     RestoreKeeps DEF Step
<1>2. CASE \/ DeviceUp \/ CoreExit \/ Crash \/ UpdateLoad \/ UpdateSave
          \/ \E n \in Nets : LinkDown(n) \/ LinkUp(n)
  BY <1>2, DeviceUpKeeps, CoreExitKeeps, CrashKeeps, UpdateLoadKeeps, UpdateSaveKeeps,
     LinkDownKeeps, LinkUpKeeps
<1>3. CASE Start \/ Watchdog \/ \E o \in {"stop", "shutdown", "restart"} : Stop(o)
  BY <1>3, StartKeeps, WatchdogKeeps, StopKeeps
<1>4. CASE UNCHANGED vars
  BY <1>4 DEF vars, IndInv, TypeOK, Links, Devices, Phases, Holders, NobodyOwes, FoundOwes
<1>5. QED
  BY <1>1, <1>2, <1>3, <1>4 DEF Next

\* The inductive invariant holds in every reachable state.
THEOREM Inductive == Spec => []IndInv
<1>1. QED
  BY InitInd, NextInd, PTL DEF Spec

\* Every variable keeps its type, and no two default routes share a metric.
THEOREM Typing == Spec => []TypeOK
<1>1. IndInv => TypeOK
  BY DEF IndInv
<1>2. QED
  BY Inductive, <1>1, PTL

\* A living process never forgets a route it has noted and replaced: memory or
\* the call under way has it, whatever updates do to config.json.
THEOREM Remembers == Spec => []NothingForgotten
<1>1. IndInv => NothingForgotten
  BY DEF IndInv, Holders, NobodyOwes, FoundOwes, NothingForgotten
<1>2. QED
  BY Inductive, <1>1, PTL

\* When a stop, or the cleanup after an exit, is over, no default route goes
\* through TUN, and every link that is up has its own again, unless it is missed.
THEOREM Restores == Spec => []StopRestores
<1>1. IndInv => StopRestores
  BY DEF IndInv, Links, Devices, Holders, NobodyOwes, StopRestores
<1>2. QED
  BY Inductive, <1>1, PTL
-----------------------------------------------------------------------------
(* The record over crashes.  From a death that leaves what is owed on      *)
(* record, RecordIsCopied holds until the next takeover replaces a route.  *)

\* The environment, updates of the config and crashes keep the record.
LEMMA RecordOutlivesEvents ==
  ASSUME IndInv, RecordIsCopied,
         \/ \E n \in Nets : LinkDown(n) \/ LinkUp(n)
         \/ DeviceUp \/ CoreExit \/ Crash \/ UpdateLoad \/ UpdateSave
  PROVE  RecordIsCopied'
<1> USE DEF RecordIsCopied
<1>1. ASSUME NEW n \in Nets, LinkDown(n) \/ LinkUp(n)
      PROVE  RecordIsCopied'
  BY <1>1 DEF LinkDown, LinkUp
<1>2. CASE DeviceUp \/ CoreExit
  BY <1>2 DEF DeviceUp, CoreExit
<1>3. CASE Crash
  BY <1>3 DEF Crash
<1>4. CASE UpdateLoad \/ UpdateSave
  BY <1>4 DEF UpdateLoad, UpdateSave
<1>5. QED
  BY <1>1, <1>2, <1>3, <1>4

\* So do calls that begin, and a start up to the point where it replaces a route.
LEMMA RecordOutlivesStarts ==
  ASSUME IndInv, RecordIsCopied,
         \/ Start \/ Watchdog \/ \E o \in {"stop", "shutdown", "restart"} : Stop(o)
         \/ Load \/ Read \/ Remember \/ Persist \/ Failed \/ Finish
         \/ \E ok \in BOOLEAN : Launch(ok) \/ Wait(ok) \/ Replace(ok) \/ ApplyProxy(ok)
  PROVE  RecordIsCopied'
<1> USE DEF RecordIsCopied
<1>1. CASE Start \/ Watchdog \/ \E o \in {"stop", "shutdown", "restart"} : Stop(o)
  BY <1>1 DEF Start, Watchdog, Stop, Begin
<1>2. CASE Load \/ Read \/ Remember \/ Persist
  BY <1>2 DEF Load, Read, Remember, Persist
<1>3. CASE Failed \/ Finish
  BY <1>3 DEF Failed, Finish, Done
<1>4. ASSUME NEW ok \in BOOLEAN, Launch(ok) \/ Wait(ok)
      PROVE  RecordIsCopied'
  BY <1>4 DEF Launch, Wait, Done
<1>5. ASSUME NEW ok \in BOOLEAN, Replace(ok)
      PROVE  RecordIsCopied'
  BY <1>5 DEF Replace
<1>6. ASSUME NEW ok \in BOOLEAN, ApplyProxy(ok)
      PROVE  RecordIsCopied'
  BY <1>6 DEF ApplyProxy
<1>7. QED
  BY <1>1, <1>2, <1>3, <1>4, <1>5, <1>6

\* A restore asks the file, since memory is empty, and wipes it once every route it
\* found there is back, or missed for good.
LEMMA RecordOutlivesRestore ==
  ASSUME IndInv, RecordIsCopied, Take \/ DelTun \/ \E r \in Nets, ok \in BOOLEAN : Restore(r, ok)
  PROVE  RecordIsCopied'
<1> USE DEF RecordIsCopied
<1>1. CASE Take
  BY <1>1 DEF Take
<1>2. CASE DelTun
  BY <1>2 DEF DelTun
<1>3. ASSUME NEW r \in Nets, NEW ok \in BOOLEAN, Restore(r, ok)
      PROVE  RecordIsCopied'
  <2>1. owed \subseteq up
    BY DEF IndInv, Links
  <2>2. QED
    BY <1>3, <2>1 DEF Restore
<1>4. QED
  BY <1>1, <1>2, <1>3

\* What was on record in config.json when the process died stays there until the
\* routes are back, or one more takeover has replaced a route: whatever updates,
\* failing starts, broken-off restores and further deaths come in between.
THEOREM RecordOutlivesCrashes == Spec => []RecordLasts
<1>1. Init => RecordIsCopied
  BY DEF Init, RecordIsCopied
<1>2. IndInv /\ RecordIsCopied /\ [Next]_vars => RecordIsCopied'
  <2> SUFFICES ASSUME IndInv, RecordIsCopied, [Next]_vars PROVE RecordIsCopied'
    OBVIOUS
  <2>1. CASE UNCHANGED vars
    BY <2>1 DEF vars, RecordIsCopied
  <2>2. CASE Step
    BY <2>2, RecordOutlivesStarts, RecordOutlivesRestore DEF Step
  <2>3. CASE ~Step /\ Next
    BY <2>3, RecordOutlivesEvents, RecordOutlivesStarts DEF Next
  <2>4. QED
    BY <2>1, <2>2, <2>3
<1>3. RecordIsCopied => RecordLasts
  BY DEF RecordIsCopied, RecordLasts
<1>4. QED
  BY Inductive, <1>1, <1>2, <1>3, PTL DEF Spec

=============================================================================
