------------------------ MODULE CoreLifecycleProofs ------------------------
(***************************************************************************)
(* What CoreLifecycle guarantees for any number of clients, sleeping       *)
(* goroutines, profiles and retries: its type invariant, the inductive     *)
(* invariant IndInv, and the safety properties that follow from it.        *)
(***************************************************************************)
EXTENDS CoreSwitch, TLAPS

\* The values of the frame a goroutine starts and ends with have their types.
LEMMA EmptyFrame == NoConfig \in Config /\ NoState \in State
  BY DataAssumption DEF NoConfig, Config, NoState, State

\* A write of state.json that goes wrong is one that may.
LEMMA StateIsSaved ==
  ASSUME NEW st, SavesState(st)
  PROVE  state' = st \/ (SavesMayFail /\ state' = state)
<1>1. PICK works \in SaveResults : state' = IF works THEN st ELSE state
  BY DEF SavesState
<1>2. CASE works = FALSE
  BY <1>1, <1>2 DEF SavesMayFail
<1>3. CASE works = TRUE
  BY <1>1, <1>3
<1>4. works \in BOOLEAN
  BY OutcomeAssumption
<1>5. QED
  BY <1>2, <1>3, <1>4

\* A return keeps the types of everything it touches.
LEMMA ReturnTyped ==
  ASSUME TypeOK, NEW p \in Proc, Return(p)
  PROVE  /\ pc' \in [Proc -> Labels] /\ op' \in [Proc -> Ops]
         /\ mine' \in [Proc -> {"none", "live", "dead"}]
         /\ cfgCopy' \in [Proc -> Config] /\ stCopy' \in [Proc -> State]
         /\ ready' \in [Proc -> BOOLEAN]
<1>1. pc' \in [Proc -> Labels]
  BY DEF TypeOK, Return, Goto, Labels, OtherLabels
<1>2. op' \in [Proc -> Ops] /\ mine' \in [Proc -> {"none", "live", "dead"}]
  BY DEF TypeOK, Return, Ops
<1>3. cfgCopy' \in [Proc -> Config] /\ stCopy' \in [Proc -> State]
  BY EmptyFrame DEF TypeOK, Return
<1>4. ready' \in [Proc -> BOOLEAN]
  BY DEF TypeOK, Return
<1>5. QED
  BY <1>1, <1>2, <1>3, <1>4


\* Every step of every goroutine keeps the types.
LEMMA TypeOKStep ==
  ASSUME TypeOK, [Next]_vars
  PROVE  TypeOK'
<1>1. CASE UNCHANGED vars
  BY <1>1 DEF TypeOK, vars, locks, core, dogFlags, disk, host, frame
<1>2. CASE CoreExit
  BY <1>2 DEF TypeOK, CoreExit, locks, dogFlags, disk, host, frame
<1>3. ASSUME NEW sl \in Sleepers, TickExit(sl)
      PROVE  TypeOK'
  <2>1. pc' \in [Proc -> Labels]
    BY <1>3 DEF TypeOK, TickExit, CoreExited, NonePlanned, MayRetry, DropCore,
       CountAttempt, Labels, HoldLabels, StopLabels, StartLabels,
       SharedLabels, WaitLabels, OtherLabels, Proc
  <2>2. xrayCore' \in {"none", "live", "dead"}
    BY <1>3 DEF TypeOK, TickExit, CoreExited, NonePlanned, MayRetry, DropCore,
       CountAttempt
  <2>3. watchdogRestartAttempts' \in 0..MaxRetries
    BY <1>3, DataAssumption DEF TypeOK, TickExit, CoreExited, NonePlanned,
       MayRetry, DropCore, CountAttempt
  <2>4. built' \in (Config \X (Profiles \cup {NoProfile})) \cup {NoBuild}
    BY <1>3 DEF TypeOK, TickExit, CoreExited, NonePlanned, MayRetry, DropCore,
       CountAttempt, Config, State
  <2>5. op' \in [Proc -> Ops]
    BY <1>3, DataAssumption DEF TypeOK, TickExit, CoreExited, NonePlanned,
       MayRetry, DropCore, CountAttempt, Ops, AllCalls, Proc
  <2>6. /\ running' \in BOOLEAN
        /\ degraded' \in BOOLEAN
        /\ stats' \in BOOLEAN
        /\ watchdogRestartScheduled' \in BOOLEAN
    BY <1>3 DEF TypeOK, TickExit, CoreExited, NonePlanned, MayRetry, DropCore,
       CountAttempt
  <2>7. QED
    BY <1>3, <2>1, <2>2, <2>3, <2>4, <2>5, <2>6 DEF TypeOK, TickExit, locks,
       disk, host
<1>4. ASSUME NEW sl \in Sleepers, TickDegraded(sl)
      PROVE  TypeOK'
  BY <1>4, DataAssumption DEF TypeOK, TickDegraded, CoreExited, NonePlanned,
     MayRetry, CountAttempt, locks, core, disk, host, Labels, HoldLabels,
     StopLabels, StartLabels, SharedLabels, WaitLabels, OtherLabels, Ops,
     AllCalls, Proc
<1>5. ASSUME NEW p \in Proc, NEW c \in AllCalls, Call(p, c)
      PROVE  TypeOK'
  BY <1>5, DataAssumption DEF TypeOK, Call, Goto, EntryLabel, locks, core,
     dogFlags, disk, host, Labels, HoldLabels, StopLabels, StartLabels,
     SharedLabels, WaitLabels, OtherLabels, Ops, AllCalls
<1>6. ASSUME NEW p \in Proc, CallRepair(p)
      PROVE  TypeOK'
  BY <1>6 DEF TypeOK, CallRepair, Goto, EntryLabel, locks, core, dogFlags,
     disk, host, Labels, HoldLabels, StopLabels, StartLabels, SharedLabels,
     WaitLabels, OtherLabels, Ops, AllCalls
<1>7. ASSUME NEW p \in Proc, NEW t \in Toggles, CallUpdate(p, t)
      PROVE  TypeOK'
  <2>1. pc' \in [Proc -> Labels]
    BY <1>7, DataAssumption DEF TypeOK, CallUpdate, Goto, Labels, HoldLabels,
       StopLabels, StartLabels, SharedLabels, WaitLabels, OtherLabels
  <2>2. op' \in [Proc -> Ops] /\ cfgCopy' \in [Proc -> Config]
    BY <1>7, DataAssumption DEF TypeOK, CallUpdate, Goto, Ops, AllCalls,
       Config
  <2>3. QED
    BY <1>7, <2>1, <2>2 DEF TypeOK, CallUpdate, locks, core, dogFlags, disk,
       host
<1>8. ASSUME NEW p \in Proc, NEW prof \in Profiles, CallSelect(p, prof)
      PROVE  TypeOK'
  BY <1>8, DataAssumption DEF TypeOK, CallSelect, Goto, locks, core, dogFlags,
     disk, host, Labels, HoldLabels, StopLabels, StartLabels, SharedLabels,
     WaitLabels, OtherLabels, Ops, AllCalls, State
<1>9. ASSUME NEW p \in Proc, UpdateSave(p)
      PROVE  TypeOK'
  BY <1>9 DEF TypeOK, UpdateSave, SavesConfig, Goto, locks, core, dogFlags, host, frame,
     Labels, HoldLabels, StopLabels, StartLabels, SharedLabels, WaitLabels,
     OtherLabels, Config
<1>10. ASSUME NEW p \in Proc, SelectSave(p)
      PROVE  TypeOK'
  <2>1. PICK works \in SaveResults :
            IF works THEN state' = stCopy[p] /\ Goto(p, "changeCheck") /\ UNCHANGED frame
                     ELSE UNCHANGED state /\ Return(p)
    BY <1>10 DEF SelectSave
  <2>2. UNCHANGED <<locks, core, starting, dogFlags, config, host>>
    BY <1>10 DEF SelectSave
  <2>3. CASE works
    BY <2>1, <2>2, <2>3 DEF TypeOK, Goto, locks, core, dogFlags, host, frame, Labels, OtherLabels
  <2>4. CASE ~works
    BY <2>1, <2>2, <2>4, ReturnTyped DEF TypeOK, Return, locks, core, dogFlags, host
  <2>5. QED
    BY <2>3, <2>4
<1>11. ASSUME NEW p \in Proc, ChangeCheck(p)
      PROVE  TypeOK'
  <2>1. pc' \in [Proc -> Labels]
    BY <1>11, ReturnTyped DEF TypeOK, ChangeCheck, Goto, Labels, HoldLabels,
       StopLabels, StartLabels, SharedLabels, WaitLabels, OtherLabels
  <2>2. op' \in [Proc -> Ops]
    BY <1>11, ReturnTyped, DataAssumption DEF TypeOK, ChangeCheck, Goto, Ops,
       AllCalls, frame
  <2>3. cfgCopy' \in [Proc -> Config]
    BY <1>11, ReturnTyped DEF TypeOK, ChangeCheck, Goto, Config, frame
  <2>4. stCopy' \in [Proc -> State]
    BY <1>11, ReturnTyped DEF TypeOK, ChangeCheck, Goto, State, frame
  <2>5. ready' \in [Proc -> BOOLEAN]
    BY <1>11, ReturnTyped DEF TypeOK, ChangeCheck, Goto, frame
  <2>6. mine' \in [Proc -> {"none", "live", "dead"}]
    BY <1>11, ReturnTyped DEF TypeOK, ChangeCheck, Goto, frame
  <2>7. QED
    BY <1>11, <2>1, <2>2, <2>3, <2>4, <2>5, <2>6 DEF TypeOK, ChangeCheck,
       frame, locks, core, dogFlags, disk, host
<1>12. ASSUME NEW p \in Proc, SwitchCheck(p)
      PROVE  TypeOK'
  BY <1>12 DEF TypeOK, SwitchCheck, Goto, locks, core, dogFlags, disk, host,
     Labels, HoldLabels, StopLabels, StartLabels, SharedLabels, WaitLabels,
     OtherLabels, Ops, AllCalls
<1>13. ASSUME NEW p \in Proc, SwitchUnlock(p)
      PROVE  TypeOK'
  <2>1. pc' \in [Proc -> Labels]
    BY <1>13, ReturnTyped DEF TypeOK, SwitchUnlock, Labels, HoldLabels,
       StopLabels, StartLabels, SharedLabels, WaitLabels, OtherLabels
  <2>2. op' \in [Proc -> Ops]
    BY <1>13, ReturnTyped, DataAssumption DEF TypeOK, SwitchUnlock, Ops,
       AllCalls
  <2>3. cfgCopy' \in [Proc -> Config]
    BY <1>13, ReturnTyped DEF TypeOK, SwitchUnlock, Config
  <2>4. stCopy' \in [Proc -> State]
    BY <1>13, ReturnTyped DEF TypeOK, SwitchUnlock, State
  <2>5. ready' \in [Proc -> BOOLEAN]
    BY <1>13, ReturnTyped DEF TypeOK, SwitchUnlock
  <2>6. mine' \in [Proc -> {"none", "live", "dead"}]
    BY <1>13, ReturnTyped DEF TypeOK, SwitchUnlock
  <2>7. switchMu' \in Proc \cup {NoProc}
    BY <1>13 DEF TypeOK, SwitchUnlock
  <2>8. QED
    BY <1>13, <2>1, <2>2, <2>3, <2>4, <2>5, <2>6, <2>7 DEF TypeOK,
       SwitchUnlock, core, dogFlags, disk, host
<1>14. ASSUME NEW p \in Proc, Unlock(p)
      PROVE  TypeOK'
  <2>1. pc' \in [Proc -> Labels]
    BY <1>14, ReturnTyped DEF TypeOK, Unlock, AutoOps, Goto, Labels,
       HoldLabels, StopLabels, StartLabels, SharedLabels, WaitLabels,
       OtherLabels
  <2>2. op' \in [Proc -> Ops]
    BY <1>14, ReturnTyped, DataAssumption DEF TypeOK, Unlock, AutoOps, Goto,
       Ops, AllCalls, frame
  <2>3. cfgCopy' \in [Proc -> Config]
    BY <1>14, ReturnTyped DEF TypeOK, Unlock, AutoOps, Goto, Config, frame
  <2>4. stCopy' \in [Proc -> State]
    BY <1>14, ReturnTyped DEF TypeOK, Unlock, AutoOps, Goto, State, frame
  <2>5. ready' \in [Proc -> BOOLEAN]
    BY <1>14, ReturnTyped DEF TypeOK, Unlock, AutoOps, Goto, frame
  <2>6. mine' \in [Proc -> {"none", "live", "dead"}]
    BY <1>14, ReturnTyped DEF TypeOK, Unlock, AutoOps, Goto, frame
  <2>7. coreOpMu' \in Proc \cup {NoProc}
    BY <1>14 DEF TypeOK, Unlock, AutoOps, Goto
  <2>8. QED
    BY <1>14, <2>1, <2>2, <2>3, <2>4, <2>5, <2>6, <2>7 DEF TypeOK, Unlock,
       frame, core, dogFlags, disk, host
<1>15. ASSUME NEW p \in Proc, TunOff(p)
      PROVE  TypeOK'
  <2>1. pc' \in [Proc -> Labels]
    BY <1>15, ReturnTyped DEF TypeOK, TunOff, Goto, Labels, HoldLabels,
       StopLabels, StartLabels, SharedLabels, WaitLabels, OtherLabels
  <2>2. op' \in [Proc -> Ops]
    BY <1>15, ReturnTyped, DataAssumption DEF TypeOK, TunOff, Goto, Ops,
       AllCalls, frame
  <2>3. cfgCopy' \in [Proc -> Config]
    BY <1>15, ReturnTyped DEF TypeOK, TunOff, Goto, Config, frame
  <2>4. stCopy' \in [Proc -> State]
    BY <1>15, ReturnTyped DEF TypeOK, TunOff, Goto, State, frame
  <2>5. ready' \in [Proc -> BOOLEAN]
    BY <1>15, ReturnTyped DEF TypeOK, TunOff, Goto, frame
  <2>6. mine' \in [Proc -> {"none", "live", "dead"}]
    BY <1>15, ReturnTyped DEF TypeOK, TunOff, Goto, frame
  <2>7. coreOpMu' \in Proc \cup {NoProc}
    BY <1>15 DEF TypeOK, TunOff, Goto
  <2>8. tunTakeover' \in BOOLEAN
    BY <1>15 DEF TypeOK, TunOff, Goto
  <2>9. QED
    BY <1>15, <2>1, <2>2, <2>3, <2>4, <2>5, <2>6, <2>7, <2>8 DEF TypeOK,
       TunOff, frame, core, dogFlags, disk
<1>16. ASSUME NEW p \in Proc, StopTake(p)
      PROVE  TypeOK'
  <2>1. pc' \in [Proc -> Labels]
    BY <1>16 DEF TypeOK, StopTake, DropCore, ResetsWatchdog, Goto, Labels,
       HoldLabels, StopLabels, StartLabels, SharedLabels, WaitLabels,
       OtherLabels
  <2>2. xrayCore' \in {"none", "live", "dead"}
    BY <1>16 DEF TypeOK, StopTake, DropCore, ResetsWatchdog, Goto
  <2>3. watchdogRestartAttempts' \in 0..MaxRetries
    BY <1>16, DataAssumption DEF TypeOK, StopTake, DropCore, ResetsWatchdog,
       Goto, dogFlags
  <2>4. built' \in (Config \X (Profiles \cup {NoProfile})) \cup {NoBuild}
    BY <1>16 DEF TypeOK, StopTake, DropCore, ResetsWatchdog, Goto, Config,
       State
  <2>5. mine' \in [Proc -> {"none", "live", "dead"}]
    BY <1>16 DEF TypeOK, StopTake, DropCore, ResetsWatchdog, Goto
  <2>6. /\ running' \in BOOLEAN
        /\ degraded' \in BOOLEAN
        /\ stats' \in BOOLEAN
        /\ watchdogRestartScheduled' \in BOOLEAN
        /\ watchdogRestarting' \in BOOLEAN
    BY <1>16 DEF TypeOK, StopTake, DropCore, ResetsWatchdog, Goto, dogFlags
  <2>7. QED
    BY <1>16, <2>1, <2>2, <2>3, <2>4, <2>5, <2>6 DEF TypeOK, StopTake,
       dogFlags, locks, disk, host
<1>17. ASSUME NEW p \in Proc, StopClose(p)
      PROVE  TypeOK'
  BY <1>17 DEF TypeOK, StopClose, Goto, locks, core, dogFlags, disk, host,
     Labels, HoldLabels, StopLabels, StartLabels, SharedLabels, WaitLabels,
     OtherLabels
<1>18. ASSUME NEW p \in Proc, StopTun(p)
      PROVE  TypeOK'
  <2>1. pc' \in [Proc -> Labels]
    BY <1>18 DEF TypeOK, StopTun, Goto, Labels, HoldLabels, StopLabels,
       StartLabels, SharedLabels, WaitLabels, OtherLabels
  <2>2. tunTakeover' \in BOOLEAN
    BY <1>18 DEF TypeOK, StopTun, Goto
  <2>3. QED
    BY <1>18, <2>1, <2>2 DEF TypeOK, StopTun, locks, core, dogFlags, disk,
       frame
<1>19. ASSUME NEW p \in Proc, StopProxy(p)
      PROVE  TypeOK'
  <2>1. pc' \in [Proc -> Labels]
    BY <1>19 DEF TypeOK, StopProxy, ProxyAfterStop, Goto, ClearsIntent,
       Labels, HoldLabels, StopLabels, StartLabels, SharedLabels, WaitLabels,
       OtherLabels
  <2>2. desktopProxy' \in BOOLEAN
    BY <1>19 DEF TypeOK, StopProxy, ProxyAfterStop, Goto, ClearsIntent
  <2>3. QED
    BY <1>19, <2>1, <2>2 DEF TypeOK, StopProxy, locks, core, dogFlags, disk,
       frame
<1>20. ASSUME NEW p \in Proc, Claim(p)
      PROVE  TypeOK'
  <2>1. pc' \in [Proc -> Labels]
    BY <1>20 DEF TypeOK, Claim, CoreExited, DropCore, Goto, IsReady, Labels,
       HoldLabels, StopLabels, StartLabels, SharedLabels, WaitLabels,
       OtherLabels
  <2>2. xrayCore' \in {"none", "live", "dead"}
    BY <1>20 DEF TypeOK, Claim, CoreExited, DropCore, Goto, IsReady, core
  <2>3. built' \in (Config \X (Profiles \cup {NoProfile})) \cup {NoBuild}
    BY <1>20 DEF TypeOK, Claim, CoreExited, DropCore, Goto, IsReady, Config,
       State, core
  <2>4. ready' \in [Proc -> BOOLEAN]
    BY <1>20 DEF TypeOK, Claim, CoreExited, DropCore, Goto, IsReady
  <2>5. /\ running' \in BOOLEAN
        /\ starting' \in BOOLEAN
        /\ degraded' \in BOOLEAN
        /\ stats' \in BOOLEAN
    BY <1>20 DEF TypeOK, Claim, CoreExited, DropCore, Goto, IsReady, core
  <2>6. QED
    BY <1>20, <2>1, <2>2, <2>3, <2>4, <2>5 DEF TypeOK, Claim, core, locks,
       dogFlags, disk, host
<1>21. ASSUME NEW p \in Proc, LoadConfig(p)
      PROVE  TypeOK'
  BY <1>21 DEF TypeOK, LoadConfig, Goto, locks, core, dogFlags, disk, host,
     Labels, HoldLabels, StopLabels, StartLabels, SharedLabels, WaitLabels,
     OtherLabels, Config
<1>22. ASSUME NEW p \in Proc, PickProfile(p)
      PROVE  TypeOK'
  <2>1. pc' \in [Proc -> Labels]
    BY <1>22, DataAssumption DEF TypeOK, PickProfile, Goto, Labels,
       HoldLabels, StopLabels, StartLabels, SharedLabels, WaitLabels,
       OtherLabels
  <2>2. stCopy' \in [Proc -> State]
    BY <1>22, DataAssumption DEF TypeOK, PickProfile, Goto, State
  <2>3. QED
    BY <1>22, <2>1, <2>2 DEF TypeOK, PickProfile, locks, core, dogFlags, disk,
       host
<1>23. ASSUME NEW p \in Proc, PickSave(p)
      PROVE  TypeOK'
  BY <1>23, DataAssumption DEF TypeOK, PickSave, SavesState, Goto, locks, core, dogFlags,
     host, frame, Labels, HoldLabels, StopLabels, StartLabels, SharedLabels,
     WaitLabels, OtherLabels, State
<1>24. ASSUME NEW p \in Proc, ClearStale(p)
      PROVE  TypeOK'
  <2>1. pc' \in [Proc -> Labels]
    BY <1>24 DEF TypeOK, ClearStale, Goto, Labels, HoldLabels, StopLabels,
       StartLabels, SharedLabels, WaitLabels, OtherLabels
  <2>2. tunTakeover' \in BOOLEAN
    BY <1>24 DEF TypeOK, ClearStale, Goto
  <2>3. QED
    BY <1>24, <2>1, <2>2 DEF TypeOK, ClearStale, locks, core, dogFlags, disk,
       frame
<1>25. ASSUME NEW p \in Proc, Launch(p)
      PROVE  TypeOK'
  BY <1>25 DEF TypeOK, Launch, Goto, locks, core, dogFlags, disk, host,
     Labels, HoldLabels, StopLabels, StartLabels, SharedLabels, WaitLabels,
     OtherLabels
<1>26. ASSUME NEW p \in Proc, Commit(p)
      PROVE  TypeOK'
  <2>1. pc' \in [Proc -> Labels]
    BY <1>26 DEF TypeOK, Commit, Goto, Labels, HoldLabels, StopLabels,
       StartLabels, SharedLabels, WaitLabels, OtherLabels
  <2>2. xrayCore' \in {"none", "live", "dead"}
    BY <1>26 DEF TypeOK, Commit, Goto
  <2>3. watchdogRestartAttempts' \in 0..MaxRetries
    BY <1>26, DataAssumption DEF TypeOK, Commit, Goto
  <2>4. built' \in (Config \X (Profiles \cup {NoProfile})) \cup {NoBuild}
    BY <1>26 DEF TypeOK, Commit, Goto, Config, State
  <2>5. mine' \in [Proc -> {"none", "live", "dead"}]
    BY <1>26 DEF TypeOK, Commit, Goto
  <2>6. /\ running' \in BOOLEAN
        /\ degraded' \in BOOLEAN
        /\ stats' \in BOOLEAN
        /\ watchdogRestartScheduled' \in BOOLEAN
        /\ watchdogRestarting' \in BOOLEAN
    BY <1>26 DEF TypeOK, Commit, Goto
  <2>7. QED
    BY <1>26, <2>1, <2>2, <2>3, <2>4, <2>5, <2>6 DEF TypeOK, Commit, locks,
       disk, host
<1>27. ASSUME NEW p \in Proc, SetupTun(p)
      PROVE  TypeOK'
  <2>1. pc' \in [Proc -> Labels]
    BY <1>27 DEF TypeOK, SetupTun, Goto, Labels, HoldLabels, StopLabels,
       StartLabels, SharedLabels, WaitLabels, OtherLabels
  <2>2. degraded' \in BOOLEAN /\ tunTakeover' \in BOOLEAN
    BY <1>27 DEF TypeOK, SetupTun, Goto
  <2>3. QED
    BY <1>27, <2>1, <2>2 DEF TypeOK, SetupTun, locks, dogFlags, disk, frame
<1>28. ASSUME NEW p \in Proc, ApplyProxy(p)
      PROVE  TypeOK'
  <2>1. pc' \in [Proc -> Labels]
    BY <1>28 DEF TypeOK, ApplyProxy, Goto, Labels, HoldLabels, StopLabels,
       StartLabels, SharedLabels, WaitLabels, OtherLabels
  <2>2. config' \in Config
    BY <1>28 DEF TypeOK, ApplyProxy, AppliesProxy, SavesConfig, Goto, Config
  <2>3. desktopProxy' \in BOOLEAN
    BY <1>28 DEF TypeOK, ApplyProxy, AppliesProxy, Goto
  <2>4. QED
    BY <1>28, <2>1, <2>2, <2>3 DEF TypeOK, ApplyProxy, locks, core, dogFlags,
       frame
<1>29. ASSUME NEW p \in Proc, Unstart(p)
      PROVE  TypeOK'
  <2>1. pc' \in [Proc -> Labels]
    BY <1>29 DEF TypeOK, Unstart, Goto, Labels, HoldLabels, StopLabels,
       StartLabels, SharedLabels, WaitLabels, OtherLabels
  <2>2. starting' \in BOOLEAN
    BY <1>29 DEF TypeOK, Unstart, Goto
  <2>3. QED
    BY <1>29, <2>1, <2>2 DEF TypeOK, Unstart, locks, core, dogFlags, disk,
       host, frame
<1>30. ASSUME NEW p \in Proc, SaveLoad(p)
      PROVE  TypeOK'
  BY <1>30, DataAssumption DEF TypeOK, SaveLoad, Goto, locks, core, dogFlags,
     disk, host, Labels, HoldLabels, StopLabels, StartLabels, SharedLabels,
     WaitLabels, OtherLabels, State
<1>31. ASSUME NEW p \in Proc, SaveWrite(p)
      PROVE  TypeOK'
  <2>1. state' = [stCopy[p] EXCEPT !.restore = starting] \/ state' = state
    BY <1>31, StateIsSaved DEF SaveWrite
  <2>2. state' \in State
    BY <2>1 DEF TypeOK, State
  <2>3. pc' \in [Proc -> Labels]
    BY <1>31 DEF TypeOK, SaveWrite, Goto, Labels, HoldLabels, StopLabels,
       StartLabels, SharedLabels, WaitLabels, OtherLabels
  <2>4. QED
    BY <1>31, <2>2, <2>3 DEF TypeOK, SaveWrite, locks, core, dogFlags, host, frame
<1>32. ASSUME NEW p \in Proc, OpCheck(p)
      PROVE  TypeOK'
  <2>1. pc' \in [Proc -> Labels]
    BY <1>32 DEF TypeOK, OpCheck, CoreExited, DropCore, Goto, AfterDeadCheck,
       Labels, HoldLabels, StopLabels, StartLabels, SharedLabels, WaitLabels,
       OtherLabels
  <2>2. xrayCore' \in {"none", "live", "dead"} /\ built' \in (Config \X (Profiles \cup {NoProfile})) \cup {NoBuild}
    BY <1>32 DEF TypeOK, OpCheck, CoreExited, DropCore, Goto, AfterDeadCheck,
       Config, State, core
  <2>3. /\ running' \in BOOLEAN
        /\ degraded' \in BOOLEAN
        /\ stats' \in BOOLEAN
    BY <1>32 DEF TypeOK, OpCheck, CoreExited, DropCore, Goto, AfterDeadCheck,
       core
  <2>4. QED
    BY <1>32, <2>1, <2>2, <2>3 DEF TypeOK, OpCheck, core, locks, dogFlags,
       disk, host, frame
<1>33. ASSUME NEW p \in Proc, OpBuild(p)
      PROVE  TypeOK'
  BY <1>33 DEF TypeOK, OpBuild, IsReady, Goto, AfterBuild, locks, core,
     dogFlags, disk, host, Labels, HoldLabels, StopLabels, StartLabels,
     SharedLabels, WaitLabels, OtherLabels
<1>34. ASSUME NEW p \in Proc, ExitCheck(p)
      PROVE  TypeOK'
  BY <1>34 DEF TypeOK, ExitCheck, Goto, SparesTheCore, AfterExit, locks, core,
     dogFlags, disk, host, frame, ExitOps, Labels, HoldLabels, StopLabels,
     StartLabels, SharedLabels, WaitLabels, OtherLabels
<1>35. ASSUME NEW p \in Proc, ExitClear(p)
      PROVE  TypeOK'
  <2>1. pc' \in [Proc -> Labels]
    BY <1>35 DEF TypeOK, ExitClear, ProxyAfterStop, Goto, AfterExit, ExitOps,
       Labels, HoldLabels, StopLabels, StartLabels, SharedLabels, WaitLabels,
       OtherLabels
  <2>2. tunTakeover' \in BOOLEAN /\ desktopProxy' \in BOOLEAN
    BY <1>35 DEF TypeOK, ExitClear, ProxyAfterStop, Goto, AfterExit, ExitOps
  <2>3. QED
    BY <1>35, <2>1, <2>2 DEF TypeOK, ExitClear, locks, core, dogFlags, disk,
       frame
<1>36. ASSUME NEW p \in Proc, Check(p)
      PROVE  TypeOK'
  <2>1. pc' \in [Proc -> Labels]
    BY <1>36, ReturnTyped DEF TypeOK, Check, CoreExited, DropCore, Goto,
       Labels, HoldLabels, StopLabels, StartLabels, SharedLabels, WaitLabels,
       OtherLabels
  <2>2. op' \in [Proc -> Ops]
    BY <1>36, ReturnTyped, DataAssumption DEF TypeOK, Check, CoreExited,
       DropCore, Goto, Ops, AllCalls, frame
  <2>3. cfgCopy' \in [Proc -> Config]
    BY <1>36, ReturnTyped DEF TypeOK, Check, CoreExited, DropCore, Goto,
       Config, frame
  <2>4. stCopy' \in [Proc -> State]
    BY <1>36, ReturnTyped DEF TypeOK, Check, CoreExited, DropCore, Goto,
       State, frame
  <2>5. ready' \in [Proc -> BOOLEAN]
    BY <1>36, ReturnTyped DEF TypeOK, Check, CoreExited, DropCore, Goto, frame
  <2>6. mine' \in [Proc -> {"none", "live", "dead"}]
    BY <1>36, ReturnTyped DEF TypeOK, Check, CoreExited, DropCore, Goto, frame
  <2>7. xrayCore' \in {"none", "live", "dead"} /\ built' \in (Config \X (Profiles \cup {NoProfile})) \cup {NoBuild}
    BY <1>36 DEF TypeOK, Check, CoreExited, DropCore, Goto, Config, State,
       core
  <2>8. /\ running' \in BOOLEAN
        /\ degraded' \in BOOLEAN
        /\ stats' \in BOOLEAN
    BY <1>36 DEF TypeOK, Check, CoreExited, DropCore, Goto, core
  <2>9. QED
    BY <1>36, <2>1, <2>2, <2>3, <2>4, <2>5, <2>6, <2>7, <2>8 DEF TypeOK,
       Check, frame, core, locks, dogFlags, disk, host
<1>37. ASSUME NEW p \in Proc, WasRunning(p)
      PROVE  TypeOK'
  BY <1>37 DEF TypeOK, WasRunning, Goto, locks, core, dogFlags, disk, host,
     Labels, HoldLabels, StopLabels, StartLabels, SharedLabels, WaitLabels,
     OtherLabels, Ops, AllCalls
<1>38. ASSUME NEW p \in Proc, Wake(p)
      PROVE  TypeOK'
  <2>1. pc' \in [Proc -> Labels]
    BY <1>38, ReturnTyped DEF TypeOK, Wake, SkipsWhenRunning, Goto, Labels,
       HoldLabels, StopLabels, StartLabels, SharedLabels, WaitLabels,
       OtherLabels
  <2>2. op' \in [Proc -> Ops]
    BY <1>38, ReturnTyped, DataAssumption DEF TypeOK, Wake, SkipsWhenRunning,
       Goto, Ops, AllCalls, frame
  <2>3. cfgCopy' \in [Proc -> Config]
    BY <1>38, ReturnTyped DEF TypeOK, Wake, SkipsWhenRunning, Goto, Config,
       frame
  <2>4. stCopy' \in [Proc -> State]
    BY <1>38, ReturnTyped DEF TypeOK, Wake, SkipsWhenRunning, Goto, State,
       frame
  <2>5. ready' \in [Proc -> BOOLEAN]
    BY <1>38, ReturnTyped DEF TypeOK, Wake, SkipsWhenRunning, Goto, frame
  <2>6. mine' \in [Proc -> {"none", "live", "dead"}]
    BY <1>38, ReturnTyped DEF TypeOK, Wake, SkipsWhenRunning, Goto, frame
  <2>7. watchdogRestartScheduled' \in BOOLEAN /\ watchdogRestarting' \in BOOLEAN
    BY <1>38 DEF TypeOK, Wake, SkipsWhenRunning, Goto
  <2>8. QED
    BY <1>38, <2>1, <2>2, <2>3, <2>4, <2>5, <2>6, <2>7 DEF TypeOK, Wake,
       frame, locks, core, disk, host
<1>39. ASSUME NEW p \in Proc, AutoDone(p)
      PROVE  TypeOK'
  <2>1. pc' \in [Proc -> Labels]
    BY <1>39, ReturnTyped DEF TypeOK, AutoDone, RetriesAfter, CountAttempt,
       Goto, MayRetry, Labels, HoldLabels, StopLabels, StartLabels,
       SharedLabels, WaitLabels, OtherLabels
  <2>2. op' \in [Proc -> Ops]
    BY <1>39, ReturnTyped, DataAssumption DEF TypeOK, AutoDone, RetriesAfter,
       CountAttempt, Goto, MayRetry, Ops, AllCalls
  <2>3. cfgCopy' \in [Proc -> Config]
    BY <1>39, ReturnTyped DEF TypeOK, AutoDone, RetriesAfter, CountAttempt,
       Goto, MayRetry, Config
  <2>4. stCopy' \in [Proc -> State]
    BY <1>39, ReturnTyped DEF TypeOK, AutoDone, RetriesAfter, CountAttempt,
       Goto, MayRetry, State
  <2>5. ready' \in [Proc -> BOOLEAN]
    BY <1>39, ReturnTyped DEF TypeOK, AutoDone, RetriesAfter, CountAttempt,
       Goto, MayRetry
  <2>6. mine' \in [Proc -> {"none", "live", "dead"}]
    BY <1>39, ReturnTyped DEF TypeOK, AutoDone, RetriesAfter, CountAttempt,
       Goto, MayRetry
  <2>7. watchdogRestartAttempts' \in 0..MaxRetries
    BY <1>39, DataAssumption DEF TypeOK, AutoDone, RetriesAfter, CountAttempt,
       Goto, MayRetry
  <2>8. watchdogRestartScheduled' \in BOOLEAN /\ watchdogRestarting' \in BOOLEAN
    BY <1>39 DEF TypeOK, AutoDone, RetriesAfter, CountAttempt, Goto, MayRetry
  <2>9. QED
    BY <1>39, <2>1, <2>2, <2>3, <2>4, <2>5, <2>6, <2>7, <2>8 DEF TypeOK,
       AutoDone, locks, core, disk, host
<1>40. ASSUME NEW p \in Proc, LockCoreOp(p)
      PROVE  TypeOK'
  BY <1>40 DEF TypeOK, LockCoreOp, Free, Goto, FirstLabel, core, dogFlags,
     disk, host, frame, ExitOps, Labels, HoldLabels, StopLabels, StartLabels,
     SharedLabels, WaitLabels, OtherLabels
<1>41. ASSUME NEW p \in Proc, LockSwitch(p)
      PROVE  TypeOK'
  BY <1>41 DEF TypeOK, LockSwitch, Goto, core, dogFlags, disk, host, frame,
     Labels, HoldLabels, StopLabels, StartLabels, SharedLabels, WaitLabels,
     OtherLabels
<1>42. QED
  BY <1>1, <1>2, <1>3, <1>4, <1>5, <1>6, <1>7, <1>8, <1>9, <1>10, <1>11,
     <1>12, <1>13, <1>14, <1>15, <1>16, <1>17, <1>18, <1>19, <1>20, <1>21,
     <1>22, <1>23, <1>24, <1>25, <1>26, <1>27, <1>28, <1>29, <1>30, <1>31,
     <1>32, <1>33, <1>34, <1>35, <1>36, <1>37, <1>38, <1>39, <1>40, <1>41 DEF
     Next, Tick, Arrive, Step, Acquire

\* A goroutine's label says whether it holds coreOpMu.
LEMMA HoldsCoreOpMuStep ==
  ASSUME TypeOK, HoldsCoreOpMu, [Next]_vars
  PROVE  HoldsCoreOpMu'
<1> USE ProcAssumption DEF TypeOK, HoldsCoreOpMu, HoldLabels, StopLabels,
        StartLabels, SharedLabels, locks, core, dogFlags, disk, host, frame, Goto,
        Return
<1>1. CASE UNCHANGED vars
  BY <1>1 DEF vars
<1>2. CASE CoreExit
  BY <1>2 DEF CoreExit
<1>3. ASSUME NEW sl \in Sleepers, TickExit(sl)
      PROVE  HoldsCoreOpMu'
  BY <1>3 DEF TickExit, CoreExited, NonePlanned, MayRetry, DropCore,
     CountAttempt, Proc
<1>4. ASSUME NEW sl \in Sleepers, TickDegraded(sl)
      PROVE  HoldsCoreOpMu'
  BY <1>4 DEF TickDegraded, CoreExited, NonePlanned, MayRetry, CountAttempt,
     Proc
<1>5. ASSUME NEW p \in Proc, NEW c \in AllCalls, Call(p, c)
      PROVE  HoldsCoreOpMu'
  BY <1>5 DEF Call, EntryLabel
<1>6. ASSUME NEW p \in Proc, CallRepair(p)
      PROVE  HoldsCoreOpMu'
  BY <1>6 DEF CallRepair, EntryLabel
<1>7. ASSUME NEW p \in Proc, NEW t \in Toggles, CallUpdate(p, t)
      PROVE  HoldsCoreOpMu'
  BY <1>7 DEF CallUpdate
<1>8. ASSUME NEW p \in Proc, NEW prof \in Profiles, CallSelect(p, prof)
      PROVE  HoldsCoreOpMu'
  BY <1>8 DEF CallSelect
<1>9. ASSUME NEW p \in Proc, UpdateSave(p)
      PROVE  HoldsCoreOpMu'
  BY <1>9 DEF UpdateSave
<1>10. ASSUME NEW p \in Proc, SelectSave(p)
      PROVE  HoldsCoreOpMu'
  BY <1>10 DEF SelectSave
<1>11. ASSUME NEW p \in Proc, ChangeCheck(p)
      PROVE  HoldsCoreOpMu'
  BY <1>11 DEF ChangeCheck
<1>12. ASSUME NEW p \in Proc, SwitchCheck(p)
      PROVE  HoldsCoreOpMu'
  BY <1>12 DEF SwitchCheck
<1>13. ASSUME NEW p \in Proc, SwitchUnlock(p)
      PROVE  HoldsCoreOpMu'
  BY <1>13 DEF SwitchUnlock
<1>14. ASSUME NEW p \in Proc, Unlock(p)
      PROVE  HoldsCoreOpMu'
  BY <1>14 DEF Unlock, AutoOps
<1>15. ASSUME NEW p \in Proc, TunOff(p)
      PROVE  HoldsCoreOpMu'
  BY <1>15 DEF TunOff
<1>16. ASSUME NEW p \in Proc, StopTake(p)
      PROVE  HoldsCoreOpMu'
  BY <1>16 DEF StopTake, DropCore, ResetsWatchdog
<1>17. ASSUME NEW p \in Proc, StopClose(p)
      PROVE  HoldsCoreOpMu'
  BY <1>17 DEF StopClose
<1>18. ASSUME NEW p \in Proc, StopTun(p)
      PROVE  HoldsCoreOpMu'
  BY <1>18 DEF StopTun
<1>19. ASSUME NEW p \in Proc, StopProxy(p)
      PROVE  HoldsCoreOpMu'
  BY <1>19 DEF StopProxy, ProxyAfterStop, ClearsIntent
<1>20. ASSUME NEW p \in Proc, Claim(p)
      PROVE  HoldsCoreOpMu'
  BY <1>20 DEF Claim, CoreExited, DropCore, IsReady
<1>21. ASSUME NEW p \in Proc, LoadConfig(p)
      PROVE  HoldsCoreOpMu'
  BY <1>21 DEF LoadConfig
<1>22. ASSUME NEW p \in Proc, PickProfile(p)
      PROVE  HoldsCoreOpMu'
  BY <1>22 DEF PickProfile
<1>23. ASSUME NEW p \in Proc, PickSave(p)
      PROVE  HoldsCoreOpMu'
  BY <1>23 DEF PickSave
<1>24. ASSUME NEW p \in Proc, ClearStale(p)
      PROVE  HoldsCoreOpMu'
  BY <1>24 DEF ClearStale
<1>25. ASSUME NEW p \in Proc, Launch(p)
      PROVE  HoldsCoreOpMu'
  BY <1>25 DEF Launch
<1>26. ASSUME NEW p \in Proc, Commit(p)
      PROVE  HoldsCoreOpMu'
  BY <1>26 DEF Commit
<1>27. ASSUME NEW p \in Proc, SetupTun(p)
      PROVE  HoldsCoreOpMu'
  BY <1>27 DEF SetupTun
<1>28. ASSUME NEW p \in Proc, ApplyProxy(p)
      PROVE  HoldsCoreOpMu'
  BY <1>28 DEF ApplyProxy
<1>29. ASSUME NEW p \in Proc, Unstart(p)
      PROVE  HoldsCoreOpMu'
  BY <1>29 DEF Unstart
<1>30. ASSUME NEW p \in Proc, SaveLoad(p)
      PROVE  HoldsCoreOpMu'
  BY <1>30 DEF SaveLoad
<1>31. ASSUME NEW p \in Proc, SaveWrite(p)
      PROVE  HoldsCoreOpMu'
  BY <1>31 DEF SaveWrite
<1>32. ASSUME NEW p \in Proc, OpCheck(p)
      PROVE  HoldsCoreOpMu'
  BY <1>32 DEF OpCheck, CoreExited, DropCore, AfterDeadCheck
<1>33. ASSUME NEW p \in Proc, OpBuild(p)
      PROVE  HoldsCoreOpMu'
  BY <1>33 DEF OpBuild, IsReady, AfterBuild
<1>34. ASSUME NEW p \in Proc, ExitCheck(p)
      PROVE  HoldsCoreOpMu'
  BY <1>34 DEF ExitCheck, SparesTheCore, AfterExit, ExitOps
<1>35. ASSUME NEW p \in Proc, ExitClear(p)
      PROVE  HoldsCoreOpMu'
  BY <1>35 DEF ExitClear, ProxyAfterStop, AfterExit, ExitOps
<1>36. ASSUME NEW p \in Proc, Check(p)
      PROVE  HoldsCoreOpMu'
  BY <1>36 DEF Check, CoreExited, DropCore
<1>37. ASSUME NEW p \in Proc, WasRunning(p)
      PROVE  HoldsCoreOpMu'
  BY <1>37 DEF WasRunning
<1>38. ASSUME NEW p \in Proc, Wake(p)
      PROVE  HoldsCoreOpMu'
  BY <1>38 DEF Wake, SkipsWhenRunning
<1>39. ASSUME NEW p \in Proc, AutoDone(p)
      PROVE  HoldsCoreOpMu'
  BY <1>39 DEF AutoDone, RetriesAfter, CountAttempt, MayRetry
<1>40. ASSUME NEW p \in Proc, LockCoreOp(p)
      PROVE  HoldsCoreOpMu'
  BY <1>40 DEF LockCoreOp, Free, FirstLabel, ExitOps
<1>41. ASSUME NEW p \in Proc, LockSwitch(p)
      PROVE  HoldsCoreOpMu'
  BY <1>41 DEF LockSwitch
<1>42. QED
  BY <1>1, <1>2, <1>3, <1>4, <1>5, <1>6, <1>7, <1>8, <1>9, <1>10, <1>11,
     <1>12, <1>13, <1>14, <1>15, <1>16, <1>17, <1>18, <1>19, <1>20, <1>21,
     <1>22, <1>23, <1>24, <1>25, <1>26, <1>27, <1>28, <1>29, <1>30, <1>31,
     <1>32, <1>33, <1>34, <1>35, <1>36, <1>37, <1>38, <1>39, <1>40, <1>41 DEF
     Next, Tick, Arrive, Step, Acquire

\* switchMu is kept only on the way through RestartCore.
LEMMA HoldsSwitchMuStep ==
  ASSUME TypeOK, HoldsCoreOpMu, HoldsSwitchMu, [Next]_vars
  PROVE  HoldsSwitchMu'
<1> USE ProcAssumption DEF TypeOK, HoldsSwitchMu, HoldLabels, StopLabels,
        StartLabels, SharedLabels, locks, core, dogFlags, disk, host, frame, Goto,
        Return
<1>1. CASE UNCHANGED vars
  BY <1>1 DEF vars
<1>2. CASE CoreExit
  BY <1>2 DEF CoreExit
<1>3. ASSUME NEW sl \in Sleepers, TickExit(sl)
      PROVE  HoldsSwitchMu'
  BY <1>3 DEF TickExit, CoreExited, NonePlanned, MayRetry, DropCore,
     CountAttempt, Proc, HoldsCoreOpMu
<1>4. ASSUME NEW sl \in Sleepers, TickDegraded(sl)
      PROVE  HoldsSwitchMu'
  BY <1>4 DEF TickDegraded, CoreExited, NonePlanned, MayRetry, CountAttempt,
     Proc
<1>5. ASSUME NEW p \in Proc, NEW c \in AllCalls, Call(p, c)
      PROVE  HoldsSwitchMu'
  BY <1>5 DEF Call, EntryLabel
<1>6. ASSUME NEW p \in Proc, CallRepair(p)
      PROVE  HoldsSwitchMu'
  BY <1>6 DEF CallRepair, EntryLabel
<1>7. ASSUME NEW p \in Proc, NEW t \in Toggles, CallUpdate(p, t)
      PROVE  HoldsSwitchMu'
  BY <1>7 DEF CallUpdate
<1>8. ASSUME NEW p \in Proc, NEW prof \in Profiles, CallSelect(p, prof)
      PROVE  HoldsSwitchMu'
  BY <1>8 DEF CallSelect
<1>9. ASSUME NEW p \in Proc, UpdateSave(p)
      PROVE  HoldsSwitchMu'
  BY <1>9 DEF UpdateSave
<1>10. ASSUME NEW p \in Proc, SelectSave(p)
      PROVE  HoldsSwitchMu'
  BY <1>10 DEF SelectSave
<1>11. ASSUME NEW p \in Proc, ChangeCheck(p)
      PROVE  HoldsSwitchMu'
  BY <1>11 DEF ChangeCheck
<1>12. ASSUME NEW p \in Proc, SwitchCheck(p)
      PROVE  HoldsSwitchMu'
  BY <1>12 DEF SwitchCheck
<1>13. ASSUME NEW p \in Proc, SwitchUnlock(p)
      PROVE  HoldsSwitchMu'
  BY <1>13 DEF SwitchUnlock
<1>14. ASSUME NEW p \in Proc, Unlock(p)
      PROVE  HoldsSwitchMu'
  BY <1>14 DEF Unlock, AutoOps
<1>15. ASSUME NEW p \in Proc, TunOff(p)
      PROVE  HoldsSwitchMu'
  BY <1>15 DEF TunOff
<1>16. ASSUME NEW p \in Proc, StopTake(p)
      PROVE  HoldsSwitchMu'
  BY <1>16 DEF StopTake, DropCore, ResetsWatchdog
<1>17. ASSUME NEW p \in Proc, StopClose(p)
      PROVE  HoldsSwitchMu'
  BY <1>17 DEF StopClose
<1>18. ASSUME NEW p \in Proc, StopTun(p)
      PROVE  HoldsSwitchMu'
  BY <1>18 DEF StopTun
<1>19. ASSUME NEW p \in Proc, StopProxy(p)
      PROVE  HoldsSwitchMu'
  BY <1>19 DEF StopProxy, ProxyAfterStop, ClearsIntent
<1>20. ASSUME NEW p \in Proc, Claim(p)
      PROVE  HoldsSwitchMu'
  BY <1>20 DEF Claim, CoreExited, DropCore, IsReady
<1>21. ASSUME NEW p \in Proc, LoadConfig(p)
      PROVE  HoldsSwitchMu'
  BY <1>21 DEF LoadConfig
<1>22. ASSUME NEW p \in Proc, PickProfile(p)
      PROVE  HoldsSwitchMu'
  BY <1>22 DEF PickProfile
<1>23. ASSUME NEW p \in Proc, PickSave(p)
      PROVE  HoldsSwitchMu'
  BY <1>23 DEF PickSave
<1>24. ASSUME NEW p \in Proc, ClearStale(p)
      PROVE  HoldsSwitchMu'
  BY <1>24 DEF ClearStale
<1>25. ASSUME NEW p \in Proc, Launch(p)
      PROVE  HoldsSwitchMu'
  BY <1>25 DEF Launch
<1>26. ASSUME NEW p \in Proc, Commit(p)
      PROVE  HoldsSwitchMu'
  BY <1>26 DEF Commit
<1>27. ASSUME NEW p \in Proc, SetupTun(p)
      PROVE  HoldsSwitchMu'
  BY <1>27 DEF SetupTun
<1>28. ASSUME NEW p \in Proc, ApplyProxy(p)
      PROVE  HoldsSwitchMu'
  BY <1>28 DEF ApplyProxy
<1>29. ASSUME NEW p \in Proc, Unstart(p)
      PROVE  HoldsSwitchMu'
  BY <1>29 DEF Unstart
<1>30. ASSUME NEW p \in Proc, SaveLoad(p)
      PROVE  HoldsSwitchMu'
  BY <1>30 DEF SaveLoad
<1>31. ASSUME NEW p \in Proc, SaveWrite(p)
      PROVE  HoldsSwitchMu'
  BY <1>31 DEF SaveWrite
<1>32. ASSUME NEW p \in Proc, OpCheck(p)
      PROVE  HoldsSwitchMu'
  BY <1>32 DEF OpCheck, CoreExited, DropCore, AfterDeadCheck
<1>33. ASSUME NEW p \in Proc, OpBuild(p)
      PROVE  HoldsSwitchMu'
  BY <1>33 DEF OpBuild, IsReady, AfterBuild
<1>34. ASSUME NEW p \in Proc, ExitCheck(p)
      PROVE  HoldsSwitchMu'
  BY <1>34 DEF ExitCheck, SparesTheCore, AfterExit, ExitOps
<1>35. ASSUME NEW p \in Proc, ExitClear(p)
      PROVE  HoldsSwitchMu'
  BY <1>35 DEF ExitClear, ProxyAfterStop, AfterExit, ExitOps
<1>36. ASSUME NEW p \in Proc, Check(p)
      PROVE  HoldsSwitchMu'
  BY <1>36 DEF Check, CoreExited, DropCore
<1>37. ASSUME NEW p \in Proc, WasRunning(p)
      PROVE  HoldsSwitchMu'
  BY <1>37 DEF WasRunning
<1>38. ASSUME NEW p \in Proc, Wake(p)
      PROVE  HoldsSwitchMu'
  BY <1>38 DEF Wake, SkipsWhenRunning
<1>39. ASSUME NEW p \in Proc, AutoDone(p)
      PROVE  HoldsSwitchMu'
  BY <1>39 DEF AutoDone, RetriesAfter, CountAttempt, MayRetry
<1>40. ASSUME NEW p \in Proc, LockCoreOp(p)
      PROVE  HoldsSwitchMu'
  BY <1>40 DEF LockCoreOp, Free, FirstLabel, ExitOps
<1>41. ASSUME NEW p \in Proc, LockSwitch(p)
      PROVE  HoldsSwitchMu'
  BY <1>41 DEF LockSwitch
<1>42. QED
  BY <1>1, <1>2, <1>3, <1>4, <1>5, <1>6, <1>7, <1>8, <1>9, <1>10, <1>11,
     <1>12, <1>13, <1>14, <1>15, <1>16, <1>17, <1>18, <1>19, <1>20, <1>21,
     <1>22, <1>23, <1>24, <1>25, <1>26, <1>27, <1>28, <1>29, <1>30, <1>31,
     <1>32, <1>33, <1>34, <1>35, <1>36, <1>37, <1>38, <1>39, <1>40, <1>41 DEF
     Next, Tick, Arrive, Step, Acquire

\* s.starting belongs to one goroutine inside startCore.
LEMMA HoldsStartSlotStep ==
  ASSUME TypeOK, HoldsCoreOpMu, HoldsStartSlot, [Next]_vars
  PROVE  HoldsStartSlot'
<1> USE ProcAssumption DEF TypeOK, HoldsCoreOpMu, HoldsStartSlot, InStart,
        HoldLabels, StopLabels, StartLabels, SharedLabels, ExitOps, locks, core,
        dogFlags, disk, host, frame, Goto, Return
<1>1. CASE UNCHANGED vars
  BY <1>1 DEF vars
<1>2. CASE CoreExit
  BY <1>2 DEF CoreExit
<1>3. ASSUME NEW sl \in Sleepers, TickExit(sl)
      PROVE  HoldsStartSlot'
  BY <1>3 DEF TickExit, CoreExited, NonePlanned, MayRetry, DropCore,
     CountAttempt, Proc
<1>4. ASSUME NEW sl \in Sleepers, TickDegraded(sl)
      PROVE  HoldsStartSlot'
  BY <1>4 DEF TickDegraded, CoreExited, NonePlanned, MayRetry, CountAttempt,
     Proc
<1>5. ASSUME NEW p \in Proc, NEW c \in AllCalls, Call(p, c)
      PROVE  HoldsStartSlot'
  BY <1>5 DEF Call, EntryLabel
<1>6. ASSUME NEW p \in Proc, CallRepair(p)
      PROVE  HoldsStartSlot'
  BY <1>6 DEF CallRepair, EntryLabel
<1>7. ASSUME NEW p \in Proc, NEW t \in Toggles, CallUpdate(p, t)
      PROVE  HoldsStartSlot'
  BY <1>7 DEF CallUpdate
<1>8. ASSUME NEW p \in Proc, NEW prof \in Profiles, CallSelect(p, prof)
      PROVE  HoldsStartSlot'
  BY <1>8 DEF CallSelect
<1>9. ASSUME NEW p \in Proc, UpdateSave(p)
      PROVE  HoldsStartSlot'
  BY <1>9 DEF UpdateSave
<1>10. ASSUME NEW p \in Proc, SelectSave(p)
      PROVE  HoldsStartSlot'
  BY <1>10 DEF SelectSave
<1>11. ASSUME NEW p \in Proc, ChangeCheck(p)
      PROVE  HoldsStartSlot'
  BY <1>11 DEF ChangeCheck
<1>12. ASSUME NEW p \in Proc, SwitchCheck(p)
      PROVE  HoldsStartSlot'
  BY <1>12 DEF SwitchCheck
<1>13. ASSUME NEW p \in Proc, SwitchUnlock(p)
      PROVE  HoldsStartSlot'
  BY <1>13 DEF SwitchUnlock
<1>14. ASSUME NEW p \in Proc, Unlock(p)
      PROVE  HoldsStartSlot'
  BY <1>14 DEF Unlock, AutoOps
<1>15. ASSUME NEW p \in Proc, TunOff(p)
      PROVE  HoldsStartSlot'
  BY <1>15 DEF TunOff
<1>16. ASSUME NEW p \in Proc, StopTake(p)
      PROVE  HoldsStartSlot'
  BY <1>16 DEF StopTake, DropCore, ResetsWatchdog
<1>17. ASSUME NEW p \in Proc, StopClose(p)
      PROVE  HoldsStartSlot'
  BY <1>17 DEF StopClose
<1>18. ASSUME NEW p \in Proc, StopTun(p)
      PROVE  HoldsStartSlot'
  BY <1>18 DEF StopTun
<1>19. ASSUME NEW p \in Proc, StopProxy(p)
      PROVE  HoldsStartSlot'
  BY <1>19 DEF StopProxy, ProxyAfterStop, ClearsIntent
<1>20. ASSUME NEW p \in Proc, Claim(p)
      PROVE  HoldsStartSlot'
  BY <1>20 DEF Claim, CoreExited, DropCore, IsReady
<1>21. ASSUME NEW p \in Proc, LoadConfig(p)
      PROVE  HoldsStartSlot'
  BY <1>21 DEF LoadConfig
<1>22. ASSUME NEW p \in Proc, PickProfile(p)
      PROVE  HoldsStartSlot'
  BY <1>22 DEF PickProfile
<1>23. ASSUME NEW p \in Proc, PickSave(p)
      PROVE  HoldsStartSlot'
  BY <1>23 DEF PickSave
<1>24. ASSUME NEW p \in Proc, ClearStale(p)
      PROVE  HoldsStartSlot'
  BY <1>24 DEF ClearStale
<1>25. ASSUME NEW p \in Proc, Launch(p)
      PROVE  HoldsStartSlot'
  BY <1>25 DEF Launch
<1>26. ASSUME NEW p \in Proc, Commit(p)
      PROVE  HoldsStartSlot'
  BY <1>26 DEF Commit
<1>27. ASSUME NEW p \in Proc, SetupTun(p)
      PROVE  HoldsStartSlot'
  BY <1>27 DEF SetupTun
<1>28. ASSUME NEW p \in Proc, ApplyProxy(p)
      PROVE  HoldsStartSlot'
  BY <1>28 DEF ApplyProxy
<1>29. ASSUME NEW p \in Proc, Unstart(p)
      PROVE  HoldsStartSlot'
  BY <1>29 DEF Unstart
<1>30. ASSUME NEW p \in Proc, SaveLoad(p)
      PROVE  HoldsStartSlot'
  BY <1>30 DEF SaveLoad
<1>31. ASSUME NEW p \in Proc, SaveWrite(p)
      PROVE  HoldsStartSlot'
  BY <1>31 DEF SaveWrite
<1>32. ASSUME NEW p \in Proc, OpCheck(p)
      PROVE  HoldsStartSlot'
  BY <1>32 DEF OpCheck, CoreExited, DropCore, AfterDeadCheck
<1>33. ASSUME NEW p \in Proc, OpBuild(p)
      PROVE  HoldsStartSlot'
  BY <1>33 DEF OpBuild, IsReady, AfterBuild
<1>34. ASSUME NEW p \in Proc, ExitCheck(p)
      PROVE  HoldsStartSlot'
  BY <1>34 DEF ExitCheck, SparesTheCore, AfterExit
<1>35. ASSUME NEW p \in Proc, ExitClear(p)
      PROVE  HoldsStartSlot'
  BY <1>35 DEF ExitClear, ProxyAfterStop, AfterExit
<1>36. ASSUME NEW p \in Proc, Check(p)
      PROVE  HoldsStartSlot'
  BY <1>36 DEF Check, CoreExited, DropCore
<1>37. ASSUME NEW p \in Proc, WasRunning(p)
      PROVE  HoldsStartSlot'
  BY <1>37 DEF WasRunning
<1>38. ASSUME NEW p \in Proc, Wake(p)
      PROVE  HoldsStartSlot'
  BY <1>38 DEF Wake, SkipsWhenRunning
<1>39. ASSUME NEW p \in Proc, AutoDone(p)
      PROVE  HoldsStartSlot'
  BY <1>39 DEF AutoDone, RetriesAfter, CountAttempt, MayRetry
<1>40. ASSUME NEW p \in Proc, LockCoreOp(p)
      PROVE  HoldsStartSlot'
  BY <1>40 DEF LockCoreOp, Free, FirstLabel
<1>41. ASSUME NEW p \in Proc, LockSwitch(p)
      PROVE  HoldsStartSlot'
  BY <1>41 DEF LockSwitch
<1>42. QED
  BY <1>1, <1>2, <1>3, <1>4, <1>5, <1>6, <1>7, <1>8, <1>9, <1>10, <1>11,
     <1>12, <1>13, <1>14, <1>15, <1>16, <1>17, <1>18, <1>19, <1>20, <1>21,
     <1>22, <1>23, <1>24, <1>25, <1>26, <1>27, <1>28, <1>29, <1>30, <1>31,
     <1>32, <1>33, <1>34, <1>35, <1>36, <1>37, <1>38, <1>39, <1>40, <1>41 DEF
     Next, Tick, Arrive, Step, Acquire

\* Core, flags, poller and build change together.
LEMMA StatsFollowTheCoreStep ==
  ASSUME TypeOK, StatsFollowTheCore, HoldsInstance, [Next]_vars
  PROVE  StatsFollowTheCore'
<1> USE DataAssumption DEF TypeOK, StatsFollowTheCore, HoldsInstance, locks, core,
        dogFlags, disk, host, frame, Goto, Return
<1>1. CASE UNCHANGED vars
  BY <1>1 DEF vars
<1>2. CASE CoreExit
  BY <1>2 DEF CoreExit
<1>3. ASSUME NEW sl \in Sleepers, TickExit(sl)
      PROVE  StatsFollowTheCore'
  BY <1>3 DEF TickExit, CoreExited, NonePlanned, MayRetry, DropCore,
     CountAttempt, Proc
<1>4. ASSUME NEW sl \in Sleepers, TickDegraded(sl)
      PROVE  StatsFollowTheCore'
  BY <1>4 DEF TickDegraded, CoreExited, NonePlanned, MayRetry, CountAttempt,
     Proc
<1>5. ASSUME NEW p \in Proc, NEW c \in AllCalls, Call(p, c)
      PROVE  StatsFollowTheCore'
  BY <1>5 DEF Call, EntryLabel
<1>6. ASSUME NEW p \in Proc, CallRepair(p)
      PROVE  StatsFollowTheCore'
  BY <1>6 DEF CallRepair, EntryLabel
<1>7. ASSUME NEW p \in Proc, NEW t \in Toggles, CallUpdate(p, t)
      PROVE  StatsFollowTheCore'
  BY <1>7 DEF CallUpdate
<1>8. ASSUME NEW p \in Proc, NEW prof \in Profiles, CallSelect(p, prof)
      PROVE  StatsFollowTheCore'
  BY <1>8 DEF CallSelect
<1>9. ASSUME NEW p \in Proc, UpdateSave(p)
      PROVE  StatsFollowTheCore'
  BY <1>9 DEF UpdateSave
<1>10. ASSUME NEW p \in Proc, SelectSave(p)
      PROVE  StatsFollowTheCore'
  BY <1>10 DEF SelectSave
<1>11. ASSUME NEW p \in Proc, ChangeCheck(p)
      PROVE  StatsFollowTheCore'
  BY <1>11 DEF ChangeCheck
<1>12. ASSUME NEW p \in Proc, SwitchCheck(p)
      PROVE  StatsFollowTheCore'
  BY <1>12 DEF SwitchCheck
<1>13. ASSUME NEW p \in Proc, SwitchUnlock(p)
      PROVE  StatsFollowTheCore'
  BY <1>13 DEF SwitchUnlock
<1>14. ASSUME NEW p \in Proc, Unlock(p)
      PROVE  StatsFollowTheCore'
  BY <1>14 DEF Unlock, AutoOps
<1>15. ASSUME NEW p \in Proc, TunOff(p)
      PROVE  StatsFollowTheCore'
  BY <1>15 DEF TunOff
<1>16. ASSUME NEW p \in Proc, StopTake(p)
      PROVE  StatsFollowTheCore'
  BY <1>16 DEF StopTake, DropCore, ResetsWatchdog
<1>17. ASSUME NEW p \in Proc, StopClose(p)
      PROVE  StatsFollowTheCore'
  BY <1>17 DEF StopClose
<1>18. ASSUME NEW p \in Proc, StopTun(p)
      PROVE  StatsFollowTheCore'
  BY <1>18 DEF StopTun
<1>19. ASSUME NEW p \in Proc, StopProxy(p)
      PROVE  StatsFollowTheCore'
  BY <1>19 DEF StopProxy, ProxyAfterStop, ClearsIntent
<1>20. ASSUME NEW p \in Proc, Claim(p)
      PROVE  StatsFollowTheCore'
  BY <1>20 DEF Claim, CoreExited, DropCore, IsReady
<1>21. ASSUME NEW p \in Proc, LoadConfig(p)
      PROVE  StatsFollowTheCore'
  BY <1>21 DEF LoadConfig
<1>22. ASSUME NEW p \in Proc, PickProfile(p)
      PROVE  StatsFollowTheCore'
  BY <1>22 DEF PickProfile
<1>23. ASSUME NEW p \in Proc, PickSave(p)
      PROVE  StatsFollowTheCore'
  BY <1>23 DEF PickSave
<1>24. ASSUME NEW p \in Proc, ClearStale(p)
      PROVE  StatsFollowTheCore'
  BY <1>24 DEF ClearStale
<1>25. ASSUME NEW p \in Proc, Launch(p)
      PROVE  StatsFollowTheCore'
  BY <1>25 DEF Launch
<1>26. ASSUME NEW p \in Proc, Commit(p)
      PROVE  StatsFollowTheCore'
  BY <1>26 DEF Commit, Config, State
<1>27. ASSUME NEW p \in Proc, SetupTun(p)
      PROVE  StatsFollowTheCore'
  BY <1>27 DEF SetupTun
<1>28. ASSUME NEW p \in Proc, ApplyProxy(p)
      PROVE  StatsFollowTheCore'
  BY <1>28 DEF ApplyProxy
<1>29. ASSUME NEW p \in Proc, Unstart(p)
      PROVE  StatsFollowTheCore'
  BY <1>29 DEF Unstart
<1>30. ASSUME NEW p \in Proc, SaveLoad(p)
      PROVE  StatsFollowTheCore'
  BY <1>30 DEF SaveLoad
<1>31. ASSUME NEW p \in Proc, SaveWrite(p)
      PROVE  StatsFollowTheCore'
  BY <1>31 DEF SaveWrite
<1>32. ASSUME NEW p \in Proc, OpCheck(p)
      PROVE  StatsFollowTheCore'
  BY <1>32 DEF OpCheck, CoreExited, DropCore, AfterDeadCheck
<1>33. ASSUME NEW p \in Proc, OpBuild(p)
      PROVE  StatsFollowTheCore'
  BY <1>33 DEF OpBuild, IsReady, AfterBuild
<1>34. ASSUME NEW p \in Proc, ExitCheck(p)
      PROVE  StatsFollowTheCore'
  BY <1>34 DEF ExitCheck, SparesTheCore, AfterExit, ExitOps
<1>35. ASSUME NEW p \in Proc, ExitClear(p)
      PROVE  StatsFollowTheCore'
  BY <1>35 DEF ExitClear, ProxyAfterStop, AfterExit, ExitOps
<1>36. ASSUME NEW p \in Proc, Check(p)
      PROVE  StatsFollowTheCore'
  BY <1>36 DEF Check, CoreExited, DropCore
<1>37. ASSUME NEW p \in Proc, WasRunning(p)
      PROVE  StatsFollowTheCore'
  BY <1>37 DEF WasRunning
<1>38. ASSUME NEW p \in Proc, Wake(p)
      PROVE  StatsFollowTheCore'
  BY <1>38 DEF Wake, SkipsWhenRunning
<1>39. ASSUME NEW p \in Proc, AutoDone(p)
      PROVE  StatsFollowTheCore'
  BY <1>39 DEF AutoDone, RetriesAfter, CountAttempt, MayRetry
<1>40. ASSUME NEW p \in Proc, LockCoreOp(p)
      PROVE  StatsFollowTheCore'
  BY <1>40 DEF LockCoreOp, Free, FirstLabel, ExitOps
<1>41. ASSUME NEW p \in Proc, LockSwitch(p)
      PROVE  StatsFollowTheCore'
  BY <1>41 DEF LockSwitch
<1>42. QED
  BY <1>1, <1>2, <1>3, <1>4, <1>5, <1>6, <1>7, <1>8, <1>9, <1>10, <1>11,
     <1>12, <1>13, <1>14, <1>15, <1>16, <1>17, <1>18, <1>19, <1>20, <1>21,
     <1>22, <1>23, <1>24, <1>25, <1>26, <1>27, <1>28, <1>29, <1>30, <1>31,
     <1>32, <1>33, <1>34, <1>35, <1>36, <1>37, <1>38, <1>39, <1>40, <1>41 DEF
     Next, Tick, Arrive, Step, Acquire

\* An instance outside s.xrayCore has one owner, and excludes one inside.
LEMMA HoldsInstanceStep ==
  ASSUME TypeOK, HoldsCoreOpMu, StatsFollowTheCore, HoldsInstance, [Next]_vars
  PROVE  HoldsInstance'
<1> USE ProcAssumption DEF TypeOK, HoldsCoreOpMu, HoldsInstance, Coreless,
        StatsFollowTheCore, HoldLabels, StopLabels, StartLabels, SharedLabels,
        locks, core, dogFlags, disk, host, frame, Goto, Return
<1>1. CASE UNCHANGED vars
  BY <1>1 DEF vars
<1>2. CASE CoreExit
  BY <1>2 DEF CoreExit
<1>3. ASSUME NEW sl \in Sleepers, TickExit(sl)
      PROVE  HoldsInstance'
  BY <1>3 DEF TickExit, CoreExited, NonePlanned, MayRetry, DropCore,
     CountAttempt, Proc
<1>4. ASSUME NEW sl \in Sleepers, TickDegraded(sl)
      PROVE  HoldsInstance'
  BY <1>4 DEF TickDegraded, CoreExited, NonePlanned, MayRetry, CountAttempt,
     Proc
<1>5. ASSUME NEW p \in Proc, NEW c \in AllCalls, Call(p, c)
      PROVE  HoldsInstance'
  BY <1>5 DEF Call, EntryLabel
<1>6. ASSUME NEW p \in Proc, CallRepair(p)
      PROVE  HoldsInstance'
  BY <1>6 DEF CallRepair, EntryLabel
<1>7. ASSUME NEW p \in Proc, NEW t \in Toggles, CallUpdate(p, t)
      PROVE  HoldsInstance'
  BY <1>7 DEF CallUpdate
<1>8. ASSUME NEW p \in Proc, NEW prof \in Profiles, CallSelect(p, prof)
      PROVE  HoldsInstance'
  BY <1>8 DEF CallSelect
<1>9. ASSUME NEW p \in Proc, UpdateSave(p)
      PROVE  HoldsInstance'
  BY <1>9 DEF UpdateSave
<1>10. ASSUME NEW p \in Proc, SelectSave(p)
      PROVE  HoldsInstance'
  BY <1>10 DEF SelectSave
<1>11. ASSUME NEW p \in Proc, ChangeCheck(p)
      PROVE  HoldsInstance'
  BY <1>11 DEF ChangeCheck
<1>12. ASSUME NEW p \in Proc, SwitchCheck(p)
      PROVE  HoldsInstance'
  BY <1>12 DEF SwitchCheck
<1>13. ASSUME NEW p \in Proc, SwitchUnlock(p)
      PROVE  HoldsInstance'
  BY <1>13 DEF SwitchUnlock
<1>14. ASSUME NEW p \in Proc, Unlock(p)
      PROVE  HoldsInstance'
  BY <1>14 DEF Unlock, AutoOps
<1>15. ASSUME NEW p \in Proc, TunOff(p)
      PROVE  HoldsInstance'
  BY <1>15 DEF TunOff
<1>16. ASSUME NEW p \in Proc, StopTake(p)
      PROVE  HoldsInstance'
  BY <1>16 DEF StopTake, DropCore, ResetsWatchdog
<1>17. ASSUME NEW p \in Proc, StopClose(p)
      PROVE  HoldsInstance'
  BY <1>17 DEF StopClose
<1>18. ASSUME NEW p \in Proc, StopTun(p)
      PROVE  HoldsInstance'
  BY <1>18 DEF StopTun
<1>19. ASSUME NEW p \in Proc, StopProxy(p)
      PROVE  HoldsInstance'
  BY <1>19 DEF StopProxy, ProxyAfterStop, ClearsIntent
<1>20. ASSUME NEW p \in Proc, Claim(p)
      PROVE  HoldsInstance'
  BY <1>20 DEF Claim, CoreExited, DropCore, IsReady
<1>21. ASSUME NEW p \in Proc, LoadConfig(p)
      PROVE  HoldsInstance'
  BY <1>21 DEF LoadConfig
<1>22. ASSUME NEW p \in Proc, PickProfile(p)
      PROVE  HoldsInstance'
  BY <1>22 DEF PickProfile
<1>23. ASSUME NEW p \in Proc, PickSave(p)
      PROVE  HoldsInstance'
  BY <1>23 DEF PickSave
<1>24. ASSUME NEW p \in Proc, ClearStale(p)
      PROVE  HoldsInstance'
  BY <1>24 DEF ClearStale
<1>25. ASSUME NEW p \in Proc, Launch(p)
      PROVE  HoldsInstance'
  BY <1>25 DEF Launch
<1>26. ASSUME NEW p \in Proc, Commit(p)
      PROVE  HoldsInstance'
  BY <1>26 DEF Commit
<1>27. ASSUME NEW p \in Proc, SetupTun(p)
      PROVE  HoldsInstance'
  BY <1>27 DEF SetupTun
<1>28. ASSUME NEW p \in Proc, ApplyProxy(p)
      PROVE  HoldsInstance'
  BY <1>28 DEF ApplyProxy
<1>29. ASSUME NEW p \in Proc, Unstart(p)
      PROVE  HoldsInstance'
  BY <1>29 DEF Unstart
<1>30. ASSUME NEW p \in Proc, SaveLoad(p)
      PROVE  HoldsInstance'
  BY <1>30 DEF SaveLoad
<1>31. ASSUME NEW p \in Proc, SaveWrite(p)
      PROVE  HoldsInstance'
  BY <1>31 DEF SaveWrite
<1>32. ASSUME NEW p \in Proc, OpCheck(p)
      PROVE  HoldsInstance'
  BY <1>32 DEF OpCheck, CoreExited, DropCore, AfterDeadCheck
<1>33. ASSUME NEW p \in Proc, OpBuild(p)
      PROVE  HoldsInstance'
  BY <1>33 DEF OpBuild, IsReady, AfterBuild
<1>34. ASSUME NEW p \in Proc, ExitCheck(p)
      PROVE  HoldsInstance'
  BY <1>34 DEF ExitCheck, SparesTheCore, AfterExit, ExitOps
<1>35. ASSUME NEW p \in Proc, ExitClear(p)
      PROVE  HoldsInstance'
  BY <1>35 DEF ExitClear, ProxyAfterStop, AfterExit, ExitOps
<1>36. ASSUME NEW p \in Proc, Check(p)
      PROVE  HoldsInstance'
  BY <1>36 DEF Check, CoreExited, DropCore
<1>37. ASSUME NEW p \in Proc, WasRunning(p)
      PROVE  HoldsInstance'
  BY <1>37 DEF WasRunning
<1>38. ASSUME NEW p \in Proc, Wake(p)
      PROVE  HoldsInstance'
  BY <1>38 DEF Wake, SkipsWhenRunning
<1>39. ASSUME NEW p \in Proc, AutoDone(p)
      PROVE  HoldsInstance'
  BY <1>39 DEF AutoDone, RetriesAfter, CountAttempt, MayRetry
<1>40. ASSUME NEW p \in Proc, LockCoreOp(p)
      PROVE  HoldsInstance'
  BY <1>40 DEF LockCoreOp, Free, FirstLabel, ExitOps
<1>41. ASSUME NEW p \in Proc, LockSwitch(p)
      PROVE  HoldsInstance'
  BY <1>41 DEF LockSwitch
<1>42. QED
  BY <1>1, <1>2, <1>3, <1>4, <1>5, <1>6, <1>7, <1>8, <1>9, <1>10, <1>11,
     <1>12, <1>13, <1>14, <1>15, <1>16, <1>17, <1>18, <1>19, <1>20, <1>21,
     <1>22, <1>23, <1>24, <1>25, <1>26, <1>27, <1>28, <1>29, <1>30, <1>31,
     <1>32, <1>33, <1>34, <1>35, <1>36, <1>37, <1>38, <1>39, <1>40, <1>41 DEF
     Next, Tick, Arrive, Step, Acquire

\* A takeover without a core has a goroutine about to undo it.
LEMMA CleanupIsPendingStep ==
  ASSUME TypeOK, HoldsCoreOpMu, HoldsStartSlot, CleanupIsPending, [Next]_vars
  PROVE  CleanupIsPending'
<1> USE ProcAssumption DEF TypeOK, HoldsCoreOpMu, HoldsStartSlot, CleanupIsPending,
        Cleans, ExitOps, HoldLabels, StopLabels, StartLabels, SharedLabels, locks,
        core, dogFlags, disk, host, frame, Goto, Return
<1>1. CASE UNCHANGED vars
  BY <1>1 DEF vars
<1>2. CASE CoreExit
  BY <1>2 DEF CoreExit
<1>3. ASSUME NEW sl \in Sleepers, TickExit(sl)
      PROVE  CleanupIsPending'
  BY <1>3 DEF TickExit, CoreExited, NonePlanned, MayRetry, DropCore,
     CountAttempt, Proc
<1>4. ASSUME NEW sl \in Sleepers, TickDegraded(sl)
      PROVE  CleanupIsPending'
  BY <1>4 DEF TickDegraded, CoreExited, NonePlanned, MayRetry, CountAttempt,
     Proc
<1>5. ASSUME NEW p \in Proc, NEW c \in AllCalls, Call(p, c)
      PROVE  CleanupIsPending'
  BY <1>5 DEF Call, EntryLabel
<1>6. ASSUME NEW p \in Proc, CallRepair(p)
      PROVE  CleanupIsPending'
  BY <1>6 DEF CallRepair, EntryLabel
<1>7. ASSUME NEW p \in Proc, NEW t \in Toggles, CallUpdate(p, t)
      PROVE  CleanupIsPending'
  BY <1>7 DEF CallUpdate
<1>8. ASSUME NEW p \in Proc, NEW prof \in Profiles, CallSelect(p, prof)
      PROVE  CleanupIsPending'
  BY <1>8 DEF CallSelect
<1>9. ASSUME NEW p \in Proc, UpdateSave(p)
      PROVE  CleanupIsPending'
  BY <1>9 DEF UpdateSave
<1>10. ASSUME NEW p \in Proc, SelectSave(p)
      PROVE  CleanupIsPending'
  BY <1>10 DEF SelectSave
<1>11. ASSUME NEW p \in Proc, ChangeCheck(p)
      PROVE  CleanupIsPending'
  BY <1>11 DEF ChangeCheck
<1>12. ASSUME NEW p \in Proc, SwitchCheck(p)
      PROVE  CleanupIsPending'
  BY <1>12 DEF SwitchCheck
<1>13. ASSUME NEW p \in Proc, SwitchUnlock(p)
      PROVE  CleanupIsPending'
  BY <1>13 DEF SwitchUnlock
<1>14. ASSUME NEW p \in Proc, Unlock(p)
      PROVE  CleanupIsPending'
  BY <1>14 DEF Unlock, AutoOps
<1>15. ASSUME NEW p \in Proc, TunOff(p)
      PROVE  CleanupIsPending'
  BY <1>15 DEF TunOff
<1>16. ASSUME NEW p \in Proc, StopTake(p)
      PROVE  CleanupIsPending'
  BY <1>16 DEF StopTake, DropCore, ResetsWatchdog
<1>17. ASSUME NEW p \in Proc, StopClose(p)
      PROVE  CleanupIsPending'
  BY <1>17 DEF StopClose
<1>18. ASSUME NEW p \in Proc, StopTun(p)
      PROVE  CleanupIsPending'
  BY <1>18 DEF StopTun
<1>19. ASSUME NEW p \in Proc, StopProxy(p)
      PROVE  CleanupIsPending'
  BY <1>19 DEF StopProxy, ProxyAfterStop, ClearsIntent
<1>20. ASSUME NEW p \in Proc, Claim(p)
      PROVE  CleanupIsPending'
  BY <1>20 DEF Claim, CoreExited, DropCore, IsReady
<1>21. ASSUME NEW p \in Proc, LoadConfig(p)
      PROVE  CleanupIsPending'
  BY <1>21 DEF LoadConfig
<1>22. ASSUME NEW p \in Proc, PickProfile(p)
      PROVE  CleanupIsPending'
  BY <1>22 DEF PickProfile
<1>23. ASSUME NEW p \in Proc, PickSave(p)
      PROVE  CleanupIsPending'
  BY <1>23 DEF PickSave
<1>24. ASSUME NEW p \in Proc, ClearStale(p)
      PROVE  CleanupIsPending'
  BY <1>24 DEF ClearStale
<1>25. ASSUME NEW p \in Proc, Launch(p)
      PROVE  CleanupIsPending'
  BY <1>25 DEF Launch
<1>26. ASSUME NEW p \in Proc, Commit(p)
      PROVE  CleanupIsPending'
  BY <1>26 DEF Commit
<1>27. ASSUME NEW p \in Proc, SetupTun(p)
      PROVE  CleanupIsPending'
  BY <1>27 DEF SetupTun
<1>28. ASSUME NEW p \in Proc, ApplyProxy(p)
      PROVE  CleanupIsPending'
  BY <1>28 DEF ApplyProxy
<1>29. ASSUME NEW p \in Proc, Unstart(p)
      PROVE  CleanupIsPending'
  BY <1>29 DEF Unstart
<1>30. ASSUME NEW p \in Proc, SaveLoad(p)
      PROVE  CleanupIsPending'
  BY <1>30 DEF SaveLoad
<1>31. ASSUME NEW p \in Proc, SaveWrite(p)
      PROVE  CleanupIsPending'
  BY <1>31 DEF SaveWrite
<1>32. ASSUME NEW p \in Proc, OpCheck(p)
      PROVE  CleanupIsPending'
  BY <1>32 DEF OpCheck, CoreExited, DropCore, AfterDeadCheck
<1>33. ASSUME NEW p \in Proc, OpBuild(p)
      PROVE  CleanupIsPending'
  BY <1>33 DEF OpBuild, IsReady, AfterBuild
<1>34. ASSUME NEW p \in Proc, ExitCheck(p)
      PROVE  CleanupIsPending'
  BY <1>34 DEF ExitCheck, SparesTheCore, AfterExit
<1>35. ASSUME NEW p \in Proc, ExitClear(p)
      PROVE  CleanupIsPending'
  BY <1>35 DEF ExitClear, ProxyAfterStop, AfterExit
<1>36. ASSUME NEW p \in Proc, Check(p)
      PROVE  CleanupIsPending'
  BY <1>36 DEF Check, CoreExited, DropCore
<1>37. ASSUME NEW p \in Proc, WasRunning(p)
      PROVE  CleanupIsPending'
  BY <1>37 DEF WasRunning
<1>38. ASSUME NEW p \in Proc, Wake(p)
      PROVE  CleanupIsPending'
  BY <1>38 DEF Wake, SkipsWhenRunning
<1>39. ASSUME NEW p \in Proc, AutoDone(p)
      PROVE  CleanupIsPending'
  BY <1>39 DEF AutoDone, RetriesAfter, CountAttempt, MayRetry
<1>40. ASSUME NEW p \in Proc, LockCoreOp(p)
      PROVE  CleanupIsPending'
  BY <1>40 DEF LockCoreOp, Free, FirstLabel
<1>41. ASSUME NEW p \in Proc, LockSwitch(p)
      PROVE  CleanupIsPending'
  BY <1>41 DEF LockSwitch
<1>42. QED
  BY <1>1, <1>2, <1>3, <1>4, <1>5, <1>6, <1>7, <1>8, <1>9, <1>10, <1>11,
     <1>12, <1>13, <1>14, <1>15, <1>16, <1>17, <1>18, <1>19, <1>20, <1>21,
     <1>22, <1>23, <1>24, <1>25, <1>26, <1>27, <1>28, <1>29, <1>30, <1>31,
     <1>32, <1>33, <1>34, <1>35, <1>36, <1>37, <1>38, <1>39, <1>40, <1>41 DEF
     Next, Tick, Arrive, Step, Acquire

-----------------------------------------------------------------------------
\* New() leaves the service in a state that satisfies every part of IndInv.
LEMMA IndInvInit == Init => IndInv
<1> SUFFICES ASSUME Init PROVE IndInv
  OBVIOUS
<1>1. TypeOK
  <2>1. pc \in [Proc -> Labels] /\ op \in [Proc -> Ops]
    BY DEF Init, Ops, Labels, OtherLabels
  <2>2. cfgCopy \in [Proc -> Config] /\ stCopy \in [Proc -> State] /\ state \in State
    BY EmptyFrame DEF Init
  <2>3. config \in Config /\ watchdogRestartAttempts \in 0..MaxRetries
    BY DataAssumption DEF Init
  <2>4. mine \in [Proc -> {"none", "live", "dead"}] /\ ready \in [Proc -> BOOLEAN]
    BY DEF Init
  <2>5. QED
    BY <2>1, <2>2, <2>3, <2>4 DEF Init, TypeOK
<1>2. HoldsCoreOpMu
  BY ProcAssumption DEF Init, HoldsCoreOpMu, HoldLabels, StopLabels, StartLabels, SharedLabels
<1>3. HoldsSwitchMu
  BY ProcAssumption DEF Init, HoldsSwitchMu
<1>4. HoldsStartSlot
  BY DEF Init, HoldsStartSlot, StartLabels
<1>5. StatsFollowTheCore /\ HoldsInstance
  BY DEF Init, StatsFollowTheCore, HoldsInstance, Coreless
<1>6. CleanupIsPending
  BY DEF Init, CleanupIsPending
<1>7. QED
  BY <1>1, <1>2, <1>3, <1>4, <1>5, <1>6 DEF IndInv

\* No step of any goroutine, nor an exit of the core, breaks IndInv.
LEMMA IndInvStep == IndInv /\ [Next]_vars => IndInv'
  BY TypeOKStep, HoldsCoreOpMuStep, HoldsSwitchMuStep, HoldsStartSlotStep,
     StatsFollowTheCoreStep, HoldsInstanceStep, CleanupIsPendingStep DEF IndInv

\* The inductive invariant: which labels, locks, flags and local instances of
\* StartCore, StopCore, RestartCore and the watchdog can occur together.
THEOREM Invariance == Spec => []IndInv
<1>1. Init => IndInv
  BY IndInvInit
<1>2. IndInv /\ [Next]_vars => IndInv'
  BY IndInvStep
<1>3. QED
  BY <1>1, <1>2, PTL DEF Spec

-----------------------------------------------------------------------------
\* Every variable keeps its type; the watchdog never counts more attempts than
\* coreAutoRestartMaxRetries.
THEOREM TypeCorrectness == Spec => []TypeOK
<1>1. IndInv => TypeOK
  BY DEF IndInv
<1>2. QED
  BY Invariance, <1>1, PTL

\* startCore and stopCore never have two xray instances alive at once.
THEOREM AtMostOneCore == Spec => []OneCore
<1>1. IndInv => OneCore
  <2> SUFFICES ASSUME IndInv PROVE OneCore
    OBVIOUS
  <2>1. \A p \in Proc : mine[p] # "none" => coreOpMu = p /\ xrayCore = "none"
    BY DEF IndInv, HoldsInstance, HoldsCoreOpMu, HoldLabels, StopLabels, StartLabels, Coreless
  <2>2. QED
    BY <2>1 DEF OneCore
<1>2. QED
  BY Invariance, <1>1, PTL

\* The claim of s.starting in startCore excludes every other start.
THEOREM ExclusiveStarts == Spec => []StartsAreExclusive
<1>1. IndInv => StartsAreExclusive
  BY ProcAssumption DEF IndInv, StartsAreExclusive, HoldsCoreOpMu, HoldsStartSlot, InStart,
     HoldLabels, StopLabels, StartLabels, SharedLabels
<1>2. QED
  BY Invariance, <1>1, PTL

\* s.running, s.xrayCore, s.stats and the build of the core agree.
THEOREM StatsAndCore == Spec => []StatsFollowTheCore
<1>1. IndInv => StatsFollowTheCore
  BY DEF IndInv
<1>2. QED
  BY Invariance, <1>1, PTL

\* switchMu before coreOpMu, and neither twice.
THEOREM LockOrder == Spec => []LocksAreOrdered
<1>1. IndInv => LocksAreOrdered
  BY DEF IndInv, LocksAreOrdered, HoldsCoreOpMu, HoldsSwitchMu, WaitLabels,
     HoldLabels, StopLabels, StartLabels, SharedLabels
<1>2. QED
  BY Invariance, <1>1, PTL

\* A TUN takeover that outlived its core has a goroutine bound to undo it.
THEOREM TakeoverOwned == Spec => []TakeoverHasOwner
<1>1. IndInv => TakeoverHasOwner
  BY DEF IndInv, TakeoverHasOwner, WillCleanUp, CleanupIsPending, Cleans, HoldsCoreOpMu,
     HoldLabels, StopLabels, SharedLabels
<1>2. QED
  BY Invariance, <1>1, PTL

\* cleanupAfterCoreExitLocked never strips a running core.
THEOREM ExitCleanupIsSafe == Spec => ExitCleanupSparesLiveCore
<1>1. IndInv => ((\E p \in Proc : ExitClear(p)) => ~running)
  BY DEF IndInv, CleanupIsPending, ExitClear
<1>2. QED
  BY Invariance, <1>1, PTL DEF ExitCleanupSparesLiveCore

\* The only steps of startCore, stopCore, the exit cleanup and the TUN repair
\* that touch the takeover.
LEMMA TakeoverChanges ==
  ASSUME [Next]_vars, tunTakeover' # tunTakeover
  PROVE  \E p \in Proc : \/ TunOff(p) \/ StopTun(p) \/ ClearStale(p)
                         \/ ExitClear(p) \/ SetupTun(p)
<1>1. CASE UNCHANGED vars
  BY <1>1 DEF vars, host
<1>2. CASE CoreExit
  BY <1>2 DEF CoreExit, host
<1>3. CASE Tick
  BY <1>3 DEF Tick, TickExit, TickDegraded, host
<1>4. ASSUME NEW p \in Proc, Arrive(p) PROVE FALSE
  BY <1>4 DEF Arrive, Call, CallRepair, CallUpdate, CallSelect, host
<1>5. ASSUME NEW p \in Proc, Acquire(p) PROVE FALSE
  BY <1>5 DEF Acquire, LockCoreOp, LockSwitch, host
<1>6. ASSUME NEW p \in Proc, Step(p)
      PROVE  TunOff(p) \/ StopTun(p) \/ ClearStale(p) \/ ExitClear(p) \/ SetupTun(p)
  BY <1>6 DEF Step, UpdateSave, SelectSave, ChangeCheck, SwitchCheck,
     SwitchUnlock, Unlock, StopTake, StopClose, StopProxy, Claim, LoadConfig,
     PickProfile, PickSave, Launch, Commit, ApplyProxy, Unstart, SaveLoad,
     SaveWrite, OpCheck, OpBuild, ExitCheck, Check, WasRunning, Wake,
     AutoDone, host
<1>7. QED
  BY <1>1, <1>2, <1>3, <1>4, <1>5, <1>6 DEF Next

\* Routes and rules are touched only under coreOpMu, and put in place only
\* right after the commit of the start that holds it.
THEOREM TakeoverUnderLock == Spec => TakeoverIsSerialized
<1>1. ASSUME IndInv, [Next]_vars, tunTakeover' # tunTakeover
      PROVE  \E p \in Proc : coreOpMu = p /\ (tunTakeover' => pc[p] = "setupTun")
  <2>1. PICK p \in Proc : \/ TunOff(p) \/ StopTun(p) \/ ClearStale(p)
                         \/ ExitClear(p) \/ SetupTun(p)
    BY <1>1, TakeoverChanges
  <2>2. coreOpMu = p
    BY <1>1, <2>1 DEF IndInv, HoldsCoreOpMu, HoldLabels, StopLabels, StartLabels,
       SharedLabels, TunOff, StopTun, ClearStale, ExitClear, SetupTun
  <2>3. tunTakeover' => pc[p] = "setupTun"
    BY <1>1, <2>1 DEF IndInv, TypeOK, TunOff, StopTun, ClearStale, ExitClear, SetupTun
  <2>4. QED
    BY <2>2, <2>3
<1>2. QED
  BY Invariance, <1>1, PTL DEF Spec, TakeoverIsSerialized

-----------------------------------------------------------------------------
\* A core that runs is recorded as one to restore, or its start will do it: no
\* SelectProfile that read state.json before writes it back.
LEMMA RestoreIsRecordedStep ==
  ASSUME "select" \notin Calls, ~SavesMayFail, IndInv, RestoreIsRecorded, [Next]_vars
  PROVE  RestoreIsRecorded'
<1> USE ProcAssumption DEF IndInv, TypeOK, HoldsCoreOpMu, HoldsStartSlot, StatsFollowTheCore,
        HoldsInstance, Coreless, RestoreIsRecorded, HoldLabels, StopLabels, StartLabels,
        SharedLabels, locks, core, dogFlags, disk, host, frame, Goto, Return
<1>1. CASE UNCHANGED vars
  BY <1>1 DEF vars
<1>2. CASE CoreExit
  BY <1>2 DEF CoreExit
<1>3. ASSUME NEW sl \in Sleepers, TickExit(sl)
      PROVE  RestoreIsRecorded'
  BY <1>3 DEF TickExit, CoreExited, NonePlanned, MayRetry, DropCore,
     CountAttempt, Proc
<1>4. ASSUME NEW sl \in Sleepers, TickDegraded(sl)
      PROVE  RestoreIsRecorded'
  BY <1>4 DEF TickDegraded, CoreExited, NonePlanned, MayRetry, CountAttempt,
     Proc
<1>5. ASSUME NEW p \in Proc, NEW c \in AllCalls, Call(p, c)
      PROVE  RestoreIsRecorded'
  BY <1>5 DEF Call, EntryLabel
<1>6. ASSUME NEW p \in Proc, CallRepair(p)
      PROVE  RestoreIsRecorded'
  BY <1>6 DEF CallRepair, EntryLabel
<1>7. ASSUME NEW p \in Proc, NEW t \in Toggles, CallUpdate(p, t)
      PROVE  RestoreIsRecorded'
  BY <1>7 DEF CallUpdate
<1>8. ASSUME NEW p \in Proc, NEW prof \in Profiles, CallSelect(p, prof)
      PROVE  RestoreIsRecorded'
  BY <1>8 DEF CallSelect
<1>9. ASSUME NEW p \in Proc, UpdateSave(p)
      PROVE  RestoreIsRecorded'
  BY <1>9 DEF UpdateSave
<1>10. ASSUME NEW p \in Proc, SelectSave(p)
      PROVE  RestoreIsRecorded'
  BY <1>10 DEF SelectSave
<1>11. ASSUME NEW p \in Proc, ChangeCheck(p)
      PROVE  RestoreIsRecorded'
  BY <1>11 DEF ChangeCheck
<1>12. ASSUME NEW p \in Proc, SwitchCheck(p)
      PROVE  RestoreIsRecorded'
  BY <1>12 DEF SwitchCheck
<1>13. ASSUME NEW p \in Proc, SwitchUnlock(p)
      PROVE  RestoreIsRecorded'
  BY <1>13 DEF SwitchUnlock
<1>14. ASSUME NEW p \in Proc, Unlock(p)
      PROVE  RestoreIsRecorded'
  BY <1>14 DEF Unlock, AutoOps
<1>15. ASSUME NEW p \in Proc, TunOff(p)
      PROVE  RestoreIsRecorded'
  BY <1>15 DEF TunOff
<1>16. ASSUME NEW p \in Proc, StopTake(p)
      PROVE  RestoreIsRecorded'
  BY <1>16 DEF StopTake, DropCore, ResetsWatchdog
<1>17. ASSUME NEW p \in Proc, StopClose(p)
      PROVE  RestoreIsRecorded'
  BY <1>17 DEF StopClose
<1>18. ASSUME NEW p \in Proc, StopTun(p)
      PROVE  RestoreIsRecorded'
  BY <1>18 DEF StopTun
<1>19. ASSUME NEW p \in Proc, StopProxy(p)
      PROVE  RestoreIsRecorded'
  BY <1>19 DEF StopProxy, ProxyAfterStop, ClearsIntent
<1>20. ASSUME NEW p \in Proc, Claim(p)
      PROVE  RestoreIsRecorded'
  BY <1>20 DEF Claim, CoreExited, DropCore, IsReady
<1>21. ASSUME NEW p \in Proc, LoadConfig(p)
      PROVE  RestoreIsRecorded'
  BY <1>21 DEF LoadConfig
<1>22. ASSUME NEW p \in Proc, PickProfile(p)
      PROVE  RestoreIsRecorded'
  BY <1>22 DEF PickProfile
<1>23. ASSUME NEW p \in Proc, PickSave(p)
      PROVE  RestoreIsRecorded'
  BY <1>23 DEF PickSave, SavesState
<1>24. ASSUME NEW p \in Proc, ClearStale(p)
      PROVE  RestoreIsRecorded'
  BY <1>24 DEF ClearStale
<1>25. ASSUME NEW p \in Proc, Launch(p)
      PROVE  RestoreIsRecorded'
  BY <1>25 DEF Launch
<1>26. ASSUME NEW p \in Proc, Commit(p)
      PROVE  RestoreIsRecorded'
  BY <1>26 DEF Commit
<1>27. ASSUME NEW p \in Proc, SetupTun(p)
      PROVE  RestoreIsRecorded'
  BY <1>27 DEF SetupTun
<1>28. ASSUME NEW p \in Proc, ApplyProxy(p)
      PROVE  RestoreIsRecorded'
  BY <1>28 DEF ApplyProxy
<1>29. ASSUME NEW p \in Proc, Unstart(p)
      PROVE  RestoreIsRecorded'
  BY <1>29 DEF Unstart
<1>30. ASSUME NEW p \in Proc, SaveLoad(p)
      PROVE  RestoreIsRecorded'
  BY <1>30 DEF SaveLoad
<1>31. ASSUME NEW p \in Proc, SaveWrite(p)
      PROVE  RestoreIsRecorded'
  <2>1. state' = [stCopy[p] EXCEPT !.restore = starting] \/ (SavesMayFail /\ state' = state)
    BY <1>31, StateIsSaved DEF SaveWrite
  <2>2. QED
    BY <1>31, <2>1 DEF SaveWrite, State
<1>32. ASSUME NEW p \in Proc, OpCheck(p)
      PROVE  RestoreIsRecorded'
  BY <1>32 DEF OpCheck, CoreExited, DropCore, AfterDeadCheck
<1>33. ASSUME NEW p \in Proc, OpBuild(p)
      PROVE  RestoreIsRecorded'
  BY <1>33 DEF OpBuild, IsReady, AfterBuild
<1>34. ASSUME NEW p \in Proc, ExitCheck(p)
      PROVE  RestoreIsRecorded'
  BY <1>34 DEF ExitCheck, SparesTheCore, AfterExit
<1>35. ASSUME NEW p \in Proc, ExitClear(p)
      PROVE  RestoreIsRecorded'
  BY <1>35 DEF ExitClear, ProxyAfterStop, AfterExit
<1>36. ASSUME NEW p \in Proc, Check(p)
      PROVE  RestoreIsRecorded'
  BY <1>36 DEF Check, CoreExited, DropCore
<1>37. ASSUME NEW p \in Proc, WasRunning(p)
      PROVE  RestoreIsRecorded'
  BY <1>37 DEF WasRunning
<1>38. ASSUME NEW p \in Proc, Wake(p)
      PROVE  RestoreIsRecorded'
  BY <1>38 DEF Wake, SkipsWhenRunning
<1>39. ASSUME NEW p \in Proc, AutoDone(p)
      PROVE  RestoreIsRecorded'
  BY <1>39 DEF AutoDone, RetriesAfter, CountAttempt, MayRetry
<1>40. ASSUME NEW p \in Proc, LockCoreOp(p)
      PROVE  RestoreIsRecorded'
  BY <1>40 DEF LockCoreOp, Free, FirstLabel
<1>41. ASSUME NEW p \in Proc, LockSwitch(p)
      PROVE  RestoreIsRecorded'
  BY <1>41 DEF LockSwitch
<1>42. QED
  BY <1>1, <1>2, <1>3, <1>4, <1>5, <1>6, <1>7, <1>8, <1>9, <1>10, <1>11,
     <1>12, <1>13, <1>14, <1>15, <1>16, <1>17, <1>18, <1>19, <1>20, <1>21,
     <1>22, <1>23, <1>24, <1>25, <1>26, <1>27, <1>28, <1>29, <1>30, <1>31,
     <1>32, <1>33, <1>34, <1>35, <1>36, <1>37, <1>38, <1>39, <1>40, <1>41 DEF
     Next, Tick, Arrive, Step, Acquire

\* A desktop proxy without a core has a goroutine about to take it down, when
\* no UpdateConfig changes the proxy mode.
LEMMA ProxyIsPendingStep ==
  ASSUME "proxy" \notin Toggles, IndInv, ProxyIsPending, [Next]_vars
  PROVE  ProxyIsPending'
<1> USE ProcAssumption DEF IndInv, TypeOK, HoldsCoreOpMu, HoldsStartSlot, ProxyIsPending,
        Cleans, CleansProxy, ExitOps, HoldLabels, StopLabels, StartLabels, SharedLabels, locks,
        core, dogFlags, disk, host, frame, Goto, Return
<1>1. CASE UNCHANGED vars
  BY <1>1 DEF vars
<1>2. CASE CoreExit
  BY <1>2 DEF CoreExit
<1>3. ASSUME NEW sl \in Sleepers, TickExit(sl)
      PROVE  ProxyIsPending'
  BY <1>3 DEF TickExit, CoreExited, NonePlanned, MayRetry, DropCore,
     CountAttempt, Proc
<1>4. ASSUME NEW sl \in Sleepers, TickDegraded(sl)
      PROVE  ProxyIsPending'
  BY <1>4 DEF TickDegraded, CoreExited, NonePlanned, MayRetry, CountAttempt,
     Proc
<1>5. ASSUME NEW p \in Proc, NEW c \in AllCalls, Call(p, c)
      PROVE  ProxyIsPending'
  BY <1>5 DEF Call, EntryLabel
<1>6. ASSUME NEW p \in Proc, CallRepair(p)
      PROVE  ProxyIsPending'
  BY <1>6 DEF CallRepair, EntryLabel
<1>7. ASSUME NEW p \in Proc, NEW t \in Toggles, CallUpdate(p, t)
      PROVE  ProxyIsPending'
  BY <1>7 DEF CallUpdate
<1>8. ASSUME NEW p \in Proc, NEW prof \in Profiles, CallSelect(p, prof)
      PROVE  ProxyIsPending'
  BY <1>8 DEF CallSelect
<1>9. ASSUME NEW p \in Proc, UpdateSave(p)
      PROVE  ProxyIsPending'
  BY <1>9 DEF UpdateSave, SavesConfig
<1>10. ASSUME NEW p \in Proc, SelectSave(p)
      PROVE  ProxyIsPending'
  BY <1>10 DEF SelectSave
<1>11. ASSUME NEW p \in Proc, ChangeCheck(p)
      PROVE  ProxyIsPending'
  BY <1>11 DEF ChangeCheck
<1>12. ASSUME NEW p \in Proc, SwitchCheck(p)
      PROVE  ProxyIsPending'
  BY <1>12 DEF SwitchCheck
<1>13. ASSUME NEW p \in Proc, SwitchUnlock(p)
      PROVE  ProxyIsPending'
  BY <1>13 DEF SwitchUnlock
<1>14. ASSUME NEW p \in Proc, Unlock(p)
      PROVE  ProxyIsPending'
  BY <1>14 DEF Unlock, AutoOps
<1>15. ASSUME NEW p \in Proc, TunOff(p)
      PROVE  ProxyIsPending'
  BY <1>15 DEF TunOff
<1>16. ASSUME NEW p \in Proc, StopTake(p)
      PROVE  ProxyIsPending'
  BY <1>16 DEF StopTake, DropCore, ResetsWatchdog
<1>17. ASSUME NEW p \in Proc, StopClose(p)
      PROVE  ProxyIsPending'
  BY <1>17 DEF StopClose
<1>18. ASSUME NEW p \in Proc, StopTun(p)
      PROVE  ProxyIsPending'
  BY <1>18 DEF StopTun
<1>19. ASSUME NEW p \in Proc, StopProxy(p)
      PROVE  ProxyIsPending'
  BY <1>19 DEF StopProxy, ProxyAfterStop, ClearsIntent
<1>20. ASSUME NEW p \in Proc, Claim(p)
      PROVE  ProxyIsPending'
  BY <1>20 DEF Claim, CoreExited, DropCore, IsReady
<1>21. ASSUME NEW p \in Proc, LoadConfig(p)
      PROVE  ProxyIsPending'
  BY <1>21 DEF LoadConfig
<1>22. ASSUME NEW p \in Proc, PickProfile(p)
      PROVE  ProxyIsPending'
  BY <1>22 DEF PickProfile
<1>23. ASSUME NEW p \in Proc, PickSave(p)
      PROVE  ProxyIsPending'
  BY <1>23 DEF PickSave
<1>24. ASSUME NEW p \in Proc, ClearStale(p)
      PROVE  ProxyIsPending'
  BY <1>24 DEF ClearStale
<1>25. ASSUME NEW p \in Proc, Launch(p)
      PROVE  ProxyIsPending'
  BY <1>25 DEF Launch
<1>26. ASSUME NEW p \in Proc, Commit(p)
      PROVE  ProxyIsPending'
  BY <1>26 DEF Commit
<1>27. ASSUME NEW p \in Proc, SetupTun(p)
      PROVE  ProxyIsPending'
  BY <1>27 DEF SetupTun
<1>28. ASSUME NEW p \in Proc, ApplyProxy(p)
      PROVE  ProxyIsPending'
  BY <1>28 DEF ApplyProxy, AppliesProxy, SavesConfig
<1>29. ASSUME NEW p \in Proc, Unstart(p)
      PROVE  ProxyIsPending'
  BY <1>29 DEF Unstart
<1>30. ASSUME NEW p \in Proc, SaveLoad(p)
      PROVE  ProxyIsPending'
  BY <1>30 DEF SaveLoad
<1>31. ASSUME NEW p \in Proc, SaveWrite(p)
      PROVE  ProxyIsPending'
  BY <1>31 DEF SaveWrite
<1>32. ASSUME NEW p \in Proc, OpCheck(p)
      PROVE  ProxyIsPending'
  BY <1>32 DEF OpCheck, CoreExited, DropCore, AfterDeadCheck
<1>33. ASSUME NEW p \in Proc, OpBuild(p)
      PROVE  ProxyIsPending'
  BY <1>33 DEF OpBuild, IsReady, AfterBuild
<1>34. ASSUME NEW p \in Proc, ExitCheck(p)
      PROVE  ProxyIsPending'
  BY <1>34 DEF ExitCheck, SparesTheCore, AfterExit
<1>35. ASSUME NEW p \in Proc, ExitClear(p)
      PROVE  ProxyIsPending'
  BY <1>35 DEF ExitClear, ProxyAfterStop, AfterExit
<1>36. ASSUME NEW p \in Proc, Check(p)
      PROVE  ProxyIsPending'
  BY <1>36 DEF Check, CoreExited, DropCore
<1>37. ASSUME NEW p \in Proc, WasRunning(p)
      PROVE  ProxyIsPending'
  BY <1>37 DEF WasRunning
<1>38. ASSUME NEW p \in Proc, Wake(p)
      PROVE  ProxyIsPending'
  BY <1>38 DEF Wake, SkipsWhenRunning
<1>39. ASSUME NEW p \in Proc, AutoDone(p)
      PROVE  ProxyIsPending'
  BY <1>39 DEF AutoDone, RetriesAfter, CountAttempt, MayRetry
<1>40. ASSUME NEW p \in Proc, LockCoreOp(p)
      PROVE  ProxyIsPending'
  BY <1>40 DEF LockCoreOp, Free, FirstLabel
<1>41. ASSUME NEW p \in Proc, LockSwitch(p)
      PROVE  ProxyIsPending'
  BY <1>41 DEF LockSwitch
<1>42. QED
  BY <1>1, <1>2, <1>3, <1>4, <1>5, <1>6, <1>7, <1>8, <1>9, <1>10, <1>11,
     <1>12, <1>13, <1>14, <1>15, <1>16, <1>17, <1>18, <1>19, <1>20, <1>21,
     <1>22, <1>23, <1>24, <1>25, <1>26, <1>27, <1>28, <1>29, <1>30, <1>31,
     <1>32, <1>33, <1>34, <1>35, <1>36, <1>37, <1>38, <1>39, <1>40, <1>41 DEF
     Next, Tick, Arrive, Step, Acquire

-----------------------------------------------------------------------------
\* What startCore publishes is what the next boot restores, once coreOpMu is
\* free: nobody but a stop takes the intent back.  The save whose error startCore
\* drops is assumed to work.
THEOREM RunningIsRecorded ==
  ASSUME "select" \notin Calls, ~SavesMayFail PROVE Spec => []RunningIsRestored
<1>1. Init => RestoreIsRecorded
  BY DEF Init, RestoreIsRecorded
<1>2. RestoreIsRecorded /\ IndInv /\ [Next]_vars => RestoreIsRecorded'
  BY RestoreIsRecordedStep
<1>3. IndInv /\ RestoreIsRecorded => RunningIsRestored
  BY ProcAssumption DEF IndInv, RestoreIsRecorded, RunningIsRestored, Free, HoldsCoreOpMu,
     HoldLabels, StartLabels, SharedLabels
<1>4. QED
  BY Invariance, <1>1, <1>2, <1>3, PTL DEF Spec

\* A desktop proxy that outlived its core has a goroutine bound to take it
\* down, as long as the proxy mode stays what it was.
THEOREM ProxyOwned ==
  ASSUME "proxy" \notin Toggles PROVE Spec => []ProxyHasOwner
<1>1. Init => ProxyIsPending
  BY DEF Init, ProxyIsPending, StartLabels
<1>2. ProxyIsPending /\ IndInv /\ [Next]_vars => ProxyIsPending'
  BY ProxyIsPendingStep
<1>3. IndInv /\ ProxyIsPending => ProxyHasOwner
  BY DEF IndInv, ProxyIsPending, ProxyHasOwner, CleansProxy, Cleans, WillCleanUp, HoldsCoreOpMu,
     HoldLabels, StopLabels, SharedLabels
<1>4. QED
  BY Invariance, <1>1, <1>2, <1>3, PTL DEF Spec
-----------------------------------------------------------------------------
\* Only the saveState of a stop lowers the intent, and only a start after the
\* stop has released coreOpMu can raise it again.
LEMMA IntentFollowsStopsStep ==
  ASSUME "select" \notin Calls, IndInv, IntentFollowsStops, [Next]_vars
  PROVE  IntentFollowsStops'
<1> USE ProcAssumption DEF IndInv, TypeOK, HoldsCoreOpMu, HoldsStartSlot, InStart, ExitOps,
        IntentFollowsStops, HoldLabels, StopLabels, StartLabels, SharedLabels,
        locks, core, dogFlags, disk, host, frame, Goto, Return
<1>1. CASE UNCHANGED vars
  BY <1>1 DEF vars
<1>2. CASE CoreExit
  BY <1>2 DEF CoreExit
<1>3. ASSUME NEW sl \in Sleepers, TickExit(sl)
      PROVE  IntentFollowsStops'
  BY <1>3 DEF TickExit, CoreExited, NonePlanned, MayRetry, DropCore,
     CountAttempt, Proc
<1>4. ASSUME NEW sl \in Sleepers, TickDegraded(sl)
      PROVE  IntentFollowsStops'
  BY <1>4 DEF TickDegraded, CoreExited, NonePlanned, MayRetry, CountAttempt,
     Proc
<1>5. ASSUME NEW p \in Proc, NEW c \in AllCalls, Call(p, c)
      PROVE  IntentFollowsStops'
  BY <1>5 DEF Call, EntryLabel
<1>6. ASSUME NEW p \in Proc, CallRepair(p)
      PROVE  IntentFollowsStops'
  BY <1>6 DEF CallRepair, EntryLabel
<1>7. ASSUME NEW p \in Proc, NEW t \in Toggles, CallUpdate(p, t)
      PROVE  IntentFollowsStops'
  BY <1>7 DEF CallUpdate
<1>8. ASSUME NEW p \in Proc, NEW prof \in Profiles, CallSelect(p, prof)
      PROVE  IntentFollowsStops'
  BY <1>8 DEF CallSelect
<1>9. ASSUME NEW p \in Proc, UpdateSave(p)
      PROVE  IntentFollowsStops'
  BY <1>9 DEF UpdateSave
<1>10. ASSUME NEW p \in Proc, SelectSave(p)
      PROVE  IntentFollowsStops'
  BY <1>10 DEF SelectSave
<1>11. ASSUME NEW p \in Proc, ChangeCheck(p)
      PROVE  IntentFollowsStops'
  BY <1>11 DEF ChangeCheck
<1>12. ASSUME NEW p \in Proc, SwitchCheck(p)
      PROVE  IntentFollowsStops'
  BY <1>12 DEF SwitchCheck
<1>13. ASSUME NEW p \in Proc, SwitchUnlock(p)
      PROVE  IntentFollowsStops'
  BY <1>13 DEF SwitchUnlock
<1>14. ASSUME NEW p \in Proc, Unlock(p)
      PROVE  IntentFollowsStops'
  BY <1>14 DEF Unlock, AutoOps
<1>15. ASSUME NEW p \in Proc, TunOff(p)
      PROVE  IntentFollowsStops'
  BY <1>15 DEF TunOff
<1>16. ASSUME NEW p \in Proc, StopTake(p)
      PROVE  IntentFollowsStops'
  BY <1>16 DEF StopTake, DropCore, ResetsWatchdog
<1>17. ASSUME NEW p \in Proc, StopClose(p)
      PROVE  IntentFollowsStops'
  BY <1>17 DEF StopClose
<1>18. ASSUME NEW p \in Proc, StopTun(p)
      PROVE  IntentFollowsStops'
  BY <1>18 DEF StopTun
<1>19. ASSUME NEW p \in Proc, StopProxy(p)
      PROVE  IntentFollowsStops'
  BY <1>19 DEF StopProxy, ProxyAfterStop, ClearsIntent
<1>20. ASSUME NEW p \in Proc, Claim(p)
      PROVE  IntentFollowsStops'
  BY <1>20 DEF Claim, CoreExited, DropCore, IsReady
<1>21. ASSUME NEW p \in Proc, LoadConfig(p)
      PROVE  IntentFollowsStops'
  BY <1>21 DEF LoadConfig
<1>22. ASSUME NEW p \in Proc, PickProfile(p)
      PROVE  IntentFollowsStops'
  <2>1. stCopy'[p].restore = state.restore
    BY <1>22 DEF PickProfile, State
  <2>2. \A q \in Proc \ {p} : stCopy'[q] = stCopy[q]
    BY <1>22 DEF PickProfile
  <2>3. UNCHANGED <<state, starting, xrayCore, op>>
    BY <1>22 DEF PickProfile
  <2>4. /\ pc[p] = "pickProfile" /\ pc'[p] \in {"pickSave", "clearStale"}
        /\ \A q \in Proc \ {p} : pc'[q] = pc[q]
    BY <1>22 DEF PickProfile
  <2>5. QED
    BY <2>1, <2>2, <2>3, <2>4
<1>23. ASSUME NEW p \in Proc, PickSave(p)
      PROVE  IntentFollowsStops'
  BY <1>23 DEF PickSave, SavesState
<1>24. ASSUME NEW p \in Proc, ClearStale(p)
      PROVE  IntentFollowsStops'
  BY <1>24 DEF ClearStale
<1>25. ASSUME NEW p \in Proc, Launch(p)
      PROVE  IntentFollowsStops'
  BY <1>25 DEF Launch
<1>26. ASSUME NEW p \in Proc, Commit(p)
      PROVE  IntentFollowsStops'
  BY <1>26 DEF Commit
<1>27. ASSUME NEW p \in Proc, SetupTun(p)
      PROVE  IntentFollowsStops'
  BY <1>27 DEF SetupTun
<1>28. ASSUME NEW p \in Proc, ApplyProxy(p)
      PROVE  IntentFollowsStops'
  BY <1>28 DEF ApplyProxy
<1>29. ASSUME NEW p \in Proc, Unstart(p)
      PROVE  IntentFollowsStops'
  BY <1>29 DEF Unstart
<1>30. ASSUME NEW p \in Proc, SaveLoad(p)
      PROVE  IntentFollowsStops'
  BY <1>30 DEF SaveLoad
<1>31. ASSUME NEW p \in Proc, SaveWrite(p)
      PROVE  IntentFollowsStops'
  <2>1. state' = [stCopy[p] EXCEPT !.restore = starting] \/ (SavesMayFail /\ state' = state)
    BY <1>31, StateIsSaved DEF SaveWrite
  <2>2. QED
    BY <1>31, <2>1 DEF SaveWrite, State
<1>32. ASSUME NEW p \in Proc, OpCheck(p)
      PROVE  IntentFollowsStops'
  BY <1>32 DEF OpCheck, CoreExited, DropCore, AfterDeadCheck
<1>33. ASSUME NEW p \in Proc, OpBuild(p)
      PROVE  IntentFollowsStops'
  BY <1>33 DEF OpBuild, IsReady, AfterBuild
<1>34. ASSUME NEW p \in Proc, ExitCheck(p)
      PROVE  IntentFollowsStops'
  BY <1>34 DEF ExitCheck, SparesTheCore, AfterExit
<1>35. ASSUME NEW p \in Proc, ExitClear(p)
      PROVE  IntentFollowsStops'
  BY <1>35 DEF ExitClear, ProxyAfterStop, AfterExit
<1>36. ASSUME NEW p \in Proc, Check(p)
      PROVE  IntentFollowsStops'
  BY <1>36 DEF Check, CoreExited, DropCore
<1>37. ASSUME NEW p \in Proc, WasRunning(p)
      PROVE  IntentFollowsStops'
  BY <1>37 DEF WasRunning
<1>38. ASSUME NEW p \in Proc, Wake(p)
      PROVE  IntentFollowsStops'
  BY <1>38 DEF Wake, SkipsWhenRunning
<1>39. ASSUME NEW p \in Proc, AutoDone(p)
      PROVE  IntentFollowsStops'
  BY <1>39 DEF AutoDone, RetriesAfter, CountAttempt, MayRetry
<1>40. ASSUME NEW p \in Proc, LockCoreOp(p)
      PROVE  IntentFollowsStops'
  BY <1>40 DEF LockCoreOp, Free, FirstLabel
<1>41. ASSUME NEW p \in Proc, LockSwitch(p)
      PROVE  IntentFollowsStops'
  BY <1>41 DEF LockSwitch
<1>42. QED
  BY <1>1, <1>2, <1>3, <1>4, <1>5, <1>6, <1>7, <1>8, <1>9, <1>10, <1>11,
     <1>12, <1>13, <1>14, <1>15, <1>16, <1>17, <1>18, <1>19, <1>20, <1>21,
     <1>22, <1>23, <1>24, <1>25, <1>26, <1>27, <1>28, <1>29, <1>30, <1>31,
     <1>32, <1>33, <1>34, <1>35, <1>36, <1>37, <1>38, <1>39, <1>40, <1>41 DEF
     Next, Tick, Arrive, Step, Acquire

-----------------------------------------------------------------------------
\* The restore intent at work: IntentFollowsStops, for every specification
\* without selections, holds together with IndInv.
LEMMA IntentInvariance ==
  ASSUME "select" \notin Calls PROVE Spec => [](IndInv /\ IntentFollowsStops)
<1>1. Init => IntentFollowsStops
  BY DEF Init, IntentFollowsStops, StartLabels
<1>2. IntentFollowsStops /\ IndInv /\ [Next]_vars => IntentFollowsStops'
  BY IntentFollowsStopsStep
<1>3. QED
  BY Invariance, <1>1, <1>2, PTL DEF Spec

\* When StopCore releases coreOpMu the intent is down, whatever it raced, if its
\* save (whose error it drops) works.
THEOREM StopIsRemembered ==
  ASSUME "select" \notin Calls, ~SavesMayFail PROVE Spec => StopClearsIntent
<1>1. IndInv /\ IntentFollowsStops =>
        \A p \in Clients : Unlock(p) /\ op[p] = "stop" => ~state.restore
  BY DEF IntentFollowsStops, Unlock, Proc
<1>2. QED
  BY IntentInvariance, <1>1, PTL DEF StopClearsIntent

\* The steps of startCore, stopCore and SelectProfile that write state.json.
LEMMA StateChanges ==
  ASSUME [Next]_vars, state' # state
  PROVE  \E p \in Proc : PickSave(p) \/ SaveWrite(p) \/ SelectSave(p)
<1>1. CASE UNCHANGED vars
  BY <1>1 DEF vars, disk
<1>2. CASE CoreExit
  BY <1>2 DEF CoreExit, disk
<1>3. CASE Tick
  BY <1>3 DEF Tick, TickExit, TickDegraded, disk
<1>4. ASSUME NEW p \in Proc, Arrive(p) PROVE FALSE
  BY <1>4 DEF Arrive, Call, CallRepair, CallUpdate, CallSelect, disk
<1>5. ASSUME NEW p \in Proc, Acquire(p) PROVE FALSE
  BY <1>5 DEF Acquire, LockCoreOp, LockSwitch, disk
<1>6. ASSUME NEW p \in Proc, Step(p)
      PROVE  PickSave(p) \/ SaveWrite(p) \/ SelectSave(p)
  BY <1>6 DEF Step, UpdateSave, ChangeCheck, SwitchCheck, SwitchUnlock, Unlock, TunOff,
     StopTake, StopClose, StopTun, StopProxy, Claim, LoadConfig, PickProfile, ClearStale,
     Launch, Commit, SetupTun, ApplyProxy, Unstart, SaveLoad, OpCheck, OpBuild,
     ExitCheck, ExitClear, Check, WasRunning, Wake, AutoDone, disk
<1>7. QED
  BY <1>1, <1>2, <1>3, <1>4, <1>5, <1>6 DEF Next

\* Shutdown, exit detection and automatic restarts keep the intent, also when
\* writing state.json fails.
THEOREM IntentOutlivesExits ==
  ASSUME "select" \notin Calls PROVE Spec => OnlyStopsDropIntent
<1>1. ASSUME IndInv, IntentFollowsStops, [Next]_vars, state.restore, ~state'.restore
      PROVE  \E p \in Proc : coreOpMu = p /\ op[p] \in {"stop", "restart"}
  <2>1. PICK p \in Proc : PickSave(p) \/ SaveWrite(p) \/ SelectSave(p)
    BY <1>1, StateChanges
  <2>2. SaveWrite(p) /\ ~starting
    BY <1>1, <2>1 DEF IndInv, TypeOK, State, IntentFollowsStops, PickSave, SavesState, SaveWrite, SelectSave
  <2>3. QED
    BY <1>1, <2>2 DEF IndInv, HoldsCoreOpMu, HoldLabels, SharedLabels, IntentFollowsStops, SaveWrite
<1>2. QED
  BY IntentInvariance, <1>1, PTL DEF Spec, OnlyStopsDropIntent
-----------------------------------------------------------------------------
\* Each operation keeps to what its kind may do.
LEMMA OpsKeepKindStep ==
  ASSUME IndInv, OpsKeepKind, [Next]_vars
  PROVE  OpsKeepKind'
<1> USE ProcAssumption DEF Proc, IndInv, TypeOK, HoldsCoreOpMu, HoldsStartSlot, InStart,
        StatsFollowTheCore, HoldsInstance, Coreless, OpsKeepKind, HoldLabels, StopLabels,
        StartLabels, SharedLabels, AutoOps, ExitOps, locks, core, dogFlags, disk, host, frame, Goto, Return
<1>1. CASE UNCHANGED vars
  BY <1>1 DEF vars
<1>2. CASE CoreExit
  BY <1>2 DEF CoreExit
<1>3. ASSUME NEW sl \in Sleepers, TickExit(sl)
      PROVE  OpsKeepKind'
  BY <1>3 DEF TickExit, CoreExited, NonePlanned, MayRetry, DropCore,
     CountAttempt
<1>4. ASSUME NEW sl \in Sleepers, TickDegraded(sl)
      PROVE  OpsKeepKind'
  BY <1>4 DEF TickDegraded, CoreExited, NonePlanned, MayRetry, CountAttempt
<1>5. ASSUME NEW p \in Proc, NEW c \in AllCalls, Call(p, c)
      PROVE  OpsKeepKind'
  BY <1>5 DEF Call, EntryLabel, AllCalls
<1>6. ASSUME NEW p \in Proc, CallRepair(p)
      PROVE  OpsKeepKind'
  BY <1>6 DEF CallRepair, EntryLabel
<1>7. ASSUME NEW p \in Proc, NEW t \in Toggles, CallUpdate(p, t)
      PROVE  OpsKeepKind'
  BY <1>7 DEF CallUpdate
<1>8. ASSUME NEW p \in Proc, NEW prof \in Profiles, CallSelect(p, prof)
      PROVE  OpsKeepKind'
  BY <1>8 DEF CallSelect
<1>9. ASSUME NEW p \in Proc, UpdateSave(p)
      PROVE  OpsKeepKind'
  BY <1>9 DEF UpdateSave
<1>10. ASSUME NEW p \in Proc, SelectSave(p)
      PROVE  OpsKeepKind'
  BY <1>10 DEF SelectSave
<1>11. ASSUME NEW p \in Proc, ChangeCheck(p)
      PROVE  OpsKeepKind'
  BY <1>11 DEF ChangeCheck
<1>12. ASSUME NEW p \in Proc, SwitchCheck(p)
      PROVE  OpsKeepKind'
  BY <1>12 DEF SwitchCheck
<1>13. ASSUME NEW p \in Proc, SwitchUnlock(p)
      PROVE  OpsKeepKind'
  BY <1>13 DEF SwitchUnlock
<1>14. ASSUME NEW p \in Proc, Unlock(p)
      PROVE  OpsKeepKind'
  BY <1>14 DEF Unlock, AutoOps
<1>15. ASSUME NEW p \in Proc, TunOff(p)
      PROVE  OpsKeepKind'
  BY <1>15 DEF TunOff
<1>16. ASSUME NEW p \in Proc, StopTake(p)
      PROVE  OpsKeepKind'
  BY <1>16 DEF StopTake, DropCore, ResetsWatchdog
<1>17. ASSUME NEW p \in Proc, StopClose(p)
      PROVE  OpsKeepKind'
  BY <1>17 DEF StopClose
<1>18. ASSUME NEW p \in Proc, StopTun(p)
      PROVE  OpsKeepKind'
  BY <1>18 DEF StopTun
<1>19. ASSUME NEW p \in Proc, StopProxy(p)
      PROVE  OpsKeepKind'
  BY <1>19 DEF StopProxy, ProxyAfterStop, ClearsIntent
<1>20. ASSUME NEW p \in Proc, Claim(p)
      PROVE  OpsKeepKind'
  BY <1>20 DEF Claim, CoreExited, DropCore, IsReady
<1>21. ASSUME NEW p \in Proc, LoadConfig(p)
      PROVE  OpsKeepKind'
  BY <1>21 DEF LoadConfig
<1>22. ASSUME NEW p \in Proc, PickProfile(p)
      PROVE  OpsKeepKind'
  BY <1>22 DEF PickProfile
<1>23. ASSUME NEW p \in Proc, PickSave(p)
      PROVE  OpsKeepKind'
  BY <1>23 DEF PickSave
<1>24. ASSUME NEW p \in Proc, ClearStale(p)
      PROVE  OpsKeepKind'
  BY <1>24 DEF ClearStale
<1>25. ASSUME NEW p \in Proc, Launch(p)
      PROVE  OpsKeepKind'
  BY <1>25 DEF Launch
<1>26. ASSUME NEW p \in Proc, Commit(p)
      PROVE  OpsKeepKind'
  BY <1>26 DEF Commit
<1>27. ASSUME NEW p \in Proc, SetupTun(p)
      PROVE  OpsKeepKind'
  BY <1>27 DEF SetupTun
<1>28. ASSUME NEW p \in Proc, ApplyProxy(p)
      PROVE  OpsKeepKind'
  BY <1>28 DEF ApplyProxy
<1>29. ASSUME NEW p \in Proc, Unstart(p)
      PROVE  OpsKeepKind'
  BY <1>29 DEF Unstart
<1>30. ASSUME NEW p \in Proc, SaveLoad(p)
      PROVE  OpsKeepKind'
  BY <1>30 DEF SaveLoad
<1>31. ASSUME NEW p \in Proc, SaveWrite(p)
      PROVE  OpsKeepKind'
  BY <1>31 DEF SaveWrite
<1>32. ASSUME NEW p \in Proc, OpCheck(p)
      PROVE  OpsKeepKind'
  BY <1>32 DEF OpCheck, CoreExited, DropCore, AfterDeadCheck
<1>33. ASSUME NEW p \in Proc, OpBuild(p)
      PROVE  OpsKeepKind'
  BY <1>33 DEF OpBuild, IsReady, AfterBuild
<1>34. ASSUME NEW p \in Proc, ExitCheck(p)
      PROVE  OpsKeepKind'
  BY <1>34 DEF ExitCheck, SparesTheCore, AfterExit
<1>35. ASSUME NEW p \in Proc, ExitClear(p)
      PROVE  OpsKeepKind'
  BY <1>35 DEF ExitClear, ProxyAfterStop, AfterExit
<1>36. ASSUME NEW p \in Proc, Check(p)
      PROVE  OpsKeepKind'
  BY <1>36 DEF Check, CoreExited, DropCore
<1>37. ASSUME NEW p \in Proc, WasRunning(p)
      PROVE  OpsKeepKind'
  BY <1>37 DEF WasRunning
<1>38. ASSUME NEW p \in Proc, Wake(p)
      PROVE  OpsKeepKind'
  BY <1>38 DEF Wake, SkipsWhenRunning
<1>39. ASSUME NEW p \in Proc, AutoDone(p)
      PROVE  OpsKeepKind'
  BY <1>39 DEF AutoDone, RetriesAfter, CountAttempt, MayRetry
<1>40. ASSUME NEW p \in Proc, LockCoreOp(p)
      PROVE  OpsKeepKind'
  BY <1>40 DEF LockCoreOp, Free, FirstLabel
<1>41. ASSUME NEW p \in Proc, LockSwitch(p)
      PROVE  OpsKeepKind'
  BY <1>41 DEF LockSwitch
<1> HIDE DEF OpsKeepKind, IndInv, TypeOK
<1>42. QED
  BY <1>1, <1>2, <1>3, <1>4, <1>5, <1>6, <1>7, <1>8, <1>9, <1>10, <1>11,
     <1>12, <1>13, <1>14, <1>15, <1>16, <1>17, <1>18, <1>19, <1>20, <1>21,
     <1>22, <1>23, <1>24, <1>25, <1>26, <1>27, <1>28, <1>29, <1>30, <1>31,
     <1>32, <1>33, <1>34, <1>35, <1>36, <1>37, <1>38, <1>39, <1>40, <1>41 DEF
     Next, Tick, Arrive, Step, Acquire

-----------------------------------------------------------------------------
(* The lifecycle keeps CoreContract.  The contract is about the holder of  *)
(* coreOpMu alone: Seen says what it sees of the core, of the section and  *)
(* of a pending decision.  A step is then compared with the contract in    *)
(* the two cases that the lock is free and that somebody holds it.         *)

\* What the variables of the contract are, from the holder of coreOpMu.
Seen ==
  /\ coreOpMu = NoProc => SectionKind = "none" /\ Instance = xrayCore /\ ~Deciding
  /\ \A p \in Proc : coreOpMu = p =>
       /\ SectionKind = Kind(p)
       /\ Deciding <=> pc[p] = "setupTun"
       /\ Instance = (IF pc[p] = "commit" THEN "new"
                      ELSE IF mine[p] # "none" THEN "old" ELSE xrayCore)

LEMMA HolderSees == IndInv => Seen
<1> SUFFICES ASSUME IndInv PROVE Seen
  OBVIOUS
<1> USE DEF IndInv, HoldsCoreOpMu, HoldsInstance, HoldLabels, StopLabels, StartLabels
<1>1. ASSUME coreOpMu = NoProc
      PROVE  SectionKind = "none" /\ Instance = xrayCore /\ ~Deciding
  BY <1>1, ProcAssumption DEF SectionKind, Free, Instance, Deciding
<1>2. ASSUME NEW p \in Proc, coreOpMu = p
      PROVE  SectionKind = Kind(p)
  BY <1>2, ProcAssumption DEF SectionKind, Free
<1>3. ASSUME NEW p \in Proc, coreOpMu = p
      PROVE  Deciding <=> pc[p] = "setupTun"
  BY <1>3 DEF Deciding
<1>4. ASSUME NEW p \in Proc, coreOpMu = p
      PROVE  Instance = (IF pc[p] = "commit" THEN "new"
                         ELSE IF mine[p] # "none" THEN "old" ELSE xrayCore)
  BY <1>4 DEF Instance
<1>5. QED
  BY <1>1, <1>2, <1>3, <1>4 DEF Seen

\* The other goroutines stay where they are.
OnlyMoves(p) ==
  \A q \in Proc \ {p} : pc'[q] = pc[q] /\ op'[q] = op[q] /\ mine'[q] = mine[q]

\* A goroutine that has booked a clean-up, and waits for its turn.
Books(p) == pc[p] = "opLock" /\ op[p] \in ExitOps

\* Bookings change only with the goroutine that moves.
LEMMA BookedStays ==
  ASSUME NEW p \in Proc, OnlyMoves(p), ~Books(p), ~Books(p)'
  PROVE  Booked' = Booked
  BY DEF OnlyMoves, Books, Booked

\* The contract does not see a step that leaves the core, the takeover and coreOpMu
\* alone, unless the goroutine that takes it holds coreOpMu.
LEMMA OutsideIsUnseen ==
  ASSUME IndInv, Seen, Seen', NEW p \in Proc, OnlyMoves(p), ~Books(p), ~Books(p)',
         coreOpMu # p, UNCHANGED <<coreOpMu, xrayCore, tunTakeover>>
  PROVE  UNCHANGED Contract!contractVars
<1>1. Booked' = Booked
  BY BookedStays
<1>2. CASE coreOpMu = NoProc
  <2>1. SectionKind' = SectionKind /\ Instance' = Instance /\ (Deciding' <=> Deciding)
    BY <1>2 DEF Seen
  <2>2. Deciding' = Deciding
    BY <2>1 DEF Deciding
  <2>3. QED
    BY <1>1, <2>1, <2>2 DEF Contract!contractVars
<1>3. CASE coreOpMu \in Proc
  <2>1. pc'[coreOpMu] = pc[coreOpMu] /\ op'[coreOpMu] = op[coreOpMu] /\ mine'[coreOpMu] = mine[coreOpMu]
    BY <1>3 DEF OnlyMoves
  <2>2. SectionKind' = SectionKind
    BY <1>3, <2>1 DEF Seen, Kind
  <2>3. Instance' = Instance
    BY <1>3, <2>1 DEF Seen
  <2>4. Deciding' <=> Deciding
    BY <1>3, <2>1 DEF Seen
  <2>5. Deciding' = Deciding
    BY <2>4 DEF Deciding
  <2>6. QED
    BY <1>1, <2>2, <2>3, <2>5 DEF Contract!contractVars
<1>4. QED
  BY <1>2, <1>3 DEF IndInv, TypeOK

\* Nor does it see a step of the holder between two labels of its section, neither
\* of which has an instance in hand or a decision open.
LEMMA InsideIsUnseen ==
  ASSUME IndInv, Seen, Seen', NEW p \in Proc, OnlyMoves(p), ~Books(p), ~Books(p)',
         coreOpMu = p, UNCHANGED <<coreOpMu, xrayCore, tunTakeover>>,
         pc[p] \notin {"commit", "setupTun", "tunOff"},
         pc'[p] \notin {"commit", "setupTun", "tunOff"},
         op'[p] = op[p], mine'[p] = mine[p]
  PROVE  UNCHANGED Contract!contractVars
<1>1. Booked' = Booked
  BY BookedStays
<1>2. SectionKind' = SectionKind
  BY DEF Seen, Kind
<1>3. Instance' = Instance /\ Deciding' = Deciding
  BY DEF Seen, Deciding
<1>4. QED
  BY <1>1, <1>2, <1>3 DEF Contract!contractVars

\* A goroutine moves nobody but itself; only the ticks of the watchdog start another.
LEMMA StepsAlone ==
  ASSUME TypeOK, NEW p \in Proc, Arrive(p) \/ Step(p) \/ Acquire(p)
  PROVE  OnlyMoves(p)
<1> USE DEF TypeOK, OnlyMoves, Goto, Return, frame
<1>1. CASE Arrive(p)
  BY <1>1 DEF Arrive, Call, CallRepair, CallUpdate, CallSelect
<1>2. CASE Acquire(p)
  BY <1>2 DEF Acquire, LockCoreOp, LockSwitch
<1>3. CASE Step(p)
  <2>1. CASE \/ UpdateSave(p) \/ SelectSave(p) \/ ChangeCheck(p) \/ SwitchCheck(p)
            \/ SwitchUnlock(p) \/ Unlock(p) \/ TunOff(p)
            \/ StopTake(p) \/ StopClose(p) \/ StopTun(p) \/ StopProxy(p)
    BY <2>1 DEF UpdateSave, SelectSave, ChangeCheck, SwitchCheck, SwitchUnlock, Unlock, TunOff,
       StopTake, StopClose, StopTun, StopProxy
  <2>2. CASE \/ Claim(p) \/ LoadConfig(p) \/ PickProfile(p) \/ PickSave(p) \/ ClearStale(p)
            \/ Launch(p) \/ Commit(p) \/ SetupTun(p) \/ ApplyProxy(p) \/ Unstart(p)
    BY <2>2 DEF Claim, LoadConfig, PickProfile, PickSave, ClearStale, Launch, Commit, SetupTun,
       ApplyProxy, Unstart
  <2>3. CASE \/ SaveLoad(p) \/ SaveWrite(p) \/ OpCheck(p) \/ OpBuild(p)
            \/ ExitCheck(p) \/ ExitClear(p) \/ Check(p) \/ WasRunning(p) \/ Wake(p) \/ AutoDone(p)
    BY <2>3 DEF SaveLoad, SaveWrite, OpCheck, OpBuild, ExitCheck, ExitClear, Check, WasRunning,
       Wake, AutoDone, CountAttempt
  <2>4. QED
    BY <1>3, <2>1, <2>2, <2>3 DEF Step
<1>4. QED
  BY <1>1, <1>2, <1>3

\* The steps outside a section of coreOpMu, and the steps inside one that change
\* nothing the contract speaks of.
LEMMA UnseenSteps ==
  ASSUME IndInv, OpsKeepKind, Seen, Seen', NEW p \in Proc, OnlyMoves(p),
         \/ Arrive(p) \/ LockSwitch(p)
         \/ UpdateSave(p) \/ SelectSave(p) \/ ChangeCheck(p) \/ SwitchCheck(p)
         \/ SwitchUnlock(p) \/ WasRunning(p) \/ Wake(p) \/ AutoDone(p)
         \/ StopProxy(p) \/ LoadConfig(p) \/ PickProfile(p) \/ PickSave(p) \/ ApplyProxy(p)
         \/ Unstart(p) \/ SaveLoad(p) \/ SaveWrite(p) \/ OpBuild(p) \/ ExitCheck(p)
  PROVE  UNCHANGED Contract!contractVars
<1>1. CASE \/ Arrive(p) \/ LockSwitch(p)
          \/ UpdateSave(p) \/ SelectSave(p) \/ ChangeCheck(p) \/ SwitchCheck(p)
          \/ SwitchUnlock(p) \/ WasRunning(p) \/ Wake(p) \/ AutoDone(p)
  <2>1. pc[p] \notin HoldLabels \cup {"opLock"}
    BY <1>1 DEF Arrive, Call, CallRepair, CallUpdate, CallSelect, LockSwitch, UpdateSave,
       SelectSave, ChangeCheck, SwitchCheck, SwitchUnlock, WasRunning, Wake, AutoDone,
       HoldLabels, StopLabels, StartLabels, SharedLabels
  <2>2. coreOpMu # p /\ ~Books(p)
    BY <2>1 DEF IndInv, HoldsCoreOpMu, Books
  <2>3. UNCHANGED <<coreOpMu, xrayCore, tunTakeover>>
    BY <1>1 DEF Arrive, Call, CallRepair, CallUpdate, CallSelect, LockSwitch, UpdateSave,
       SelectSave, ChangeCheck, SwitchCheck, SwitchUnlock, WasRunning, Wake, AutoDone,
       locks, core, host
  <2>4. ~Books(p)'
    <3> USE DEF Books, ExitOps, IndInv, TypeOK, Goto, Return
    <3>1. CASE Arrive(p)
      BY <3>1 DEF Arrive, Call, CallRepair, CallUpdate, CallSelect, EntryLabel, AllCalls
    <3>2. CASE \/ LockSwitch(p) \/ UpdateSave(p) \/ SelectSave(p) \/ ChangeCheck(p)
              \/ SwitchUnlock(p) \/ WasRunning(p) \/ AutoDone(p)
      BY <3>2 DEF LockSwitch, UpdateSave, SelectSave, ChangeCheck, SwitchUnlock, WasRunning, AutoDone
    <3>3. CASE SwitchCheck(p)
      BY <3>3 DEF SwitchCheck
    <3>4. CASE Wake(p)
      BY <3>4 DEF Wake, OpsKeepKind, AutoOps, frame
    <3>5. QED
      BY <1>1, <3>1, <3>2, <3>3, <3>4
  <2>5. QED
    BY <2>2, <2>3, <2>4, OutsideIsUnseen
<1>2. CASE \/ StopProxy(p) \/ LoadConfig(p) \/ PickProfile(p) \/ PickSave(p) \/ ApplyProxy(p)
          \/ Unstart(p) \/ SaveLoad(p) \/ SaveWrite(p) \/ OpBuild(p) \/ ExitCheck(p)
  <2>1. pc[p] \in HoldLabels \ {"commit", "setupTun", "tunOff"}
    BY <1>2 DEF StopProxy, LoadConfig, PickProfile, PickSave, ApplyProxy, Unstart, SaveLoad,
       SaveWrite, OpBuild, ExitCheck, HoldLabels, StopLabels, StartLabels, SharedLabels
  <2>2. coreOpMu = p /\ ~Books(p)
    BY <2>1 DEF IndInv, HoldsCoreOpMu, Books, HoldLabels, StopLabels, StartLabels, SharedLabels
  <2>3. UNCHANGED <<coreOpMu, xrayCore, tunTakeover>> /\ op'[p] = op[p] /\ mine'[p] = mine[p]
    BY <1>2 DEF StopProxy, LoadConfig, PickProfile, PickSave, ApplyProxy, Unstart, SaveLoad,
       SaveWrite, OpBuild, ExitCheck, locks, core, host, frame
  <2>4. pc'[p] \notin {"commit", "setupTun", "tunOff", "opLock"}
    BY <1>2 DEF IndInv, TypeOK, Goto, StopProxy, LoadConfig, PickProfile, PickSave, ApplyProxy,
       Unstart, SaveLoad, SaveWrite, OpBuild, ExitCheck, AfterBuild, AfterExit
  <2>5. ~Books(p)'
    BY <2>4 DEF Books
  <2>6. QED
    BY <2>1, <2>2, <2>3, <2>4, <2>5, InsideIsUnseen
<1>3. QED
  BY <1>1, <1>2

\* A step of the holder keeps the kind of its section and the bookings.
LEMMA InsideKeeps ==
  ASSUME Seen, Seen', NEW p \in Proc, OnlyMoves(p), coreOpMu = p, coreOpMu' = p,
         pc[p] \notin {"tunOff", "opLock"}, pc'[p] \notin {"tunOff", "opLock"}, op'[p] = op[p]
  PROVE  SectionKind' = SectionKind /\ Booked' = Booked
<1>1. Booked' = Booked
  BY BookedStays DEF Books
<1>2. QED
  BY <1>1 DEF Seen, Kind

\* Sections: LockCoreOp enters one, Unlock and TunOff leave it.  At the unlock a
\* takeover without a core has its clean-up booked, as CleanupIsPending says.
LEMMA SectionSteps ==
  ASSUME IndInv, OpsKeepKind, Seen, Seen', NEW p \in Proc, OnlyMoves(p),
         LockCoreOp(p) \/ Unlock(p) \/ TunOff(p)
  PROVE  Contract!ContractNext
<1> USE DEF Goto, Return, locks, core, host, frame
<1>1. CASE LockCoreOp(p)
  <2>1. coreOpMu = NoProc /\ coreOpMu' = p
    BY <1>1 DEF LockCoreOp, Free
  <2>2. UNCHANGED <<xrayCore, tunTakeover, op, mine>> /\ pc[p] \in {"opLock", "offLock"}
    BY <1>1 DEF LockCoreOp
  <2>3. pc'[p] = IF pc[p] = "offLock" THEN "tunOff" ELSE FirstLabel(op[p])
    BY <1>1 DEF LockCoreOp, IndInv, TypeOK
  <2>4. pc'[p] \in {"tunOff", "exitCheck", "stopTake", "claim"}
    BY <2>3 DEF FirstLabel
  <2>5. mine[p] = "none"
    BY <2>2 DEF IndInv, HoldsInstance
  <2>6. SectionKind = "none" /\ SectionKind' = Kind(p)'
    BY <2>1 DEF Seen
  <2>7. Instance' = Instance /\ (Deciding' <=> Deciding)
    BY <2>1, <2>2, <2>4, <2>5 DEF Seen
  <2>8. Deciding' = Deciding
    BY <2>7 DEF Deciding
  <2>9. SectionKind' \in Contract!Sections
    BY <2>6 DEF Kind, Contract!Sections, Contract!Starting, Contract!Stopping
  <2>10. Booked' \in BOOLEAN
    BY DEF Booked
  <2>11. CASE SectionKind' = "cleanup"
    <3>1. op[p] \in ExitOps /\ pc'[p] # "tunOff"
      BY <2>2, <2>6, <2>11 DEF Kind
    <3>2. pc[p] = "opLock"
      BY <2>2, <2>3, <3>1
    <3>3. Booked
      BY <3>1, <3>2 DEF Booked
    <3>4. Contract!Enter("cleanup")
      BY <2>2, <2>6, <2>7, <2>8, <2>10, <2>11, <3>3 DEF Contract!Enter
    <3>5. QED
      BY <2>9, <2>11, <3>4 DEF Contract!ContractNext
  <2>12. CASE SectionKind' # "cleanup"
    <3>1. ~Books(p)
      <4>1. CASE pc'[p] = "tunOff"
        BY <2>2, <2>3, <4>1 DEF Books, FirstLabel
      <4>2. CASE pc'[p] # "tunOff"
        BY <2>2, <2>6, <2>12, <4>2 DEF Books, Kind
      <4>3. QED
        BY <4>1, <4>2
    <3>2. Booked' = Booked
      BY <2>4, <3>1, BookedStays DEF Books
    <3>3. Contract!Enter(SectionKind')
      BY <2>2, <2>6, <2>7, <2>8, <2>12, <3>2 DEF Contract!Enter
    <3>4. QED
      BY <2>9, <3>3 DEF Contract!ContractNext
  <2>13. QED
    BY <2>11, <2>12
<1>2. CASE Unlock(p)
  <2>1. pc[p] = "unlock" /\ coreOpMu' = NoProc /\ UNCHANGED <<xrayCore, tunTakeover>>
    BY <1>2 DEF Unlock
  <2>2. coreOpMu = p /\ mine[p] = "none"
    BY <2>1 DEF IndInv, HoldsCoreOpMu, HoldLabels, HoldsInstance
  <2>3. pc'[p] # "opLock"
    BY <1>2 DEF Unlock, IndInv, TypeOK
  <2>4. Booked' = Booked
    BY <2>1, <2>3, BookedStays DEF Books
  <2>5. SectionKind = Kind(p) /\ SectionKind' = "none" /\ Instance = xrayCore /\ Instance' = xrayCore
        /\ ~Deciding /\ ~Deciding'
    BY <2>1, <2>2 DEF Seen
  <2>6. Deciding' = Deciding
    BY <2>5 DEF Deciding
  <2>7. SectionKind \in Contract!Sections \ {"tunOff"}
    BY <2>1, <2>5 DEF Kind, Contract!Sections, Contract!Starting, Contract!Stopping
  <2>8. tunTakeover /\ xrayCore = "none" => Booked
    <3> SUFFICES ASSUME tunTakeover, xrayCore = "none" PROVE Booked
      OBVIOUS
    <3>1. PICK q \in Proc : Cleans(q)
      BY DEF IndInv, CleanupIsPending, StatsFollowTheCore
    <3>2. pc[q] \notin {"exitCheck", "exitClear", "stopClose", "stopTun"}
      BY <2>1, <2>2 DEF IndInv, HoldsCoreOpMu, HoldLabels, StopLabels, SharedLabels
    <3>3. QED
      BY <3>1, <3>2 DEF Cleans, Booked
  <2>9. Contract!Leave
    BY <2>1, <2>4, <2>5, <2>6, <2>7, <2>8, ProcAssumption DEF Contract!Leave, IndInv, TypeOK
  <2>10. QED
    BY <2>9 DEF Contract!ContractNext
<1>3. CASE TunOff(p)
  <2>1. pc[p] = "tunOff" /\ coreOpMu' = NoProc /\ xrayCore' = xrayCore /\ tunTakeover' = FALSE
    BY <1>3 DEF TunOff
  <2>2. coreOpMu = p /\ mine[p] = "none"
    BY <2>1 DEF IndInv, HoldsCoreOpMu, HoldLabels, HoldsInstance
  <2>3. ~Books(p) /\ ~Books(p)'
    <3>1. op[p] \in {"updateOff", "start", "restart"}
      BY <2>1 DEF OpsKeepKind
    <3>2. op'[p] \notin ExitOps
      BY <1>3, <3>1 DEF TunOff, IndInv, TypeOK, ExitOps
    <3>3. QED
      BY <2>1, <3>2 DEF Books
  <2>4. Booked' = Booked
    BY <2>3, BookedStays
  <2>5. SectionKind = "tunOff" /\ SectionKind' = "none" /\ Instance = xrayCore /\ Instance' = xrayCore
        /\ ~Deciding /\ ~Deciding'
    BY <2>1, <2>2 DEF Seen, Kind
  <2>6. Deciding' = Deciding
    BY <2>5 DEF Deciding
  <2>7. Contract!TurnOff
    BY <2>1, <2>4, <2>5, <2>6 DEF Contract!TurnOff
  <2>8. QED
    BY <2>7 DEF Contract!ContractNext
<1>4. QED
  BY <1>1, <1>2, <1>3

\* The instance: what a stop takes and closes, a start launches and publishes.
LEMMA InstanceSteps ==
  ASSUME IndInv, OpsKeepKind, Seen, Seen', NEW p \in Proc, OnlyMoves(p),
         StopTake(p) \/ StopClose(p) \/ Launch(p) \/ Commit(p)
  PROVE  [Contract!ContractNext]_(Contract!contractVars)
<1> USE DEF Goto, locks, core, host, frame
<1>1. pc[p] \in {"stopTake", "stopClose", "launch", "commit"}
  BY DEF StopTake, StopClose, Launch, Commit
<1>2. coreOpMu = p /\ coreOpMu' = p /\ tunTakeover' = tunTakeover /\ op'[p] = op[p]
  BY <1>1 DEF IndInv, HoldsCoreOpMu, HoldLabels, StopLabels, StartLabels,
     StopTake, StopClose, Launch, Commit
<1>3. pc'[p] \in {"stopClose", "stopTun", "commit", "unstart", "setupTun"}
  BY DEF IndInv, TypeOK, StopTake, StopClose, Launch, Commit
<1>4. SectionKind' = SectionKind /\ Booked' = Booked
  BY <1>1, <1>2, <1>3, InsideKeeps
<1>5. SectionKind = Kind(p)
  BY <1>2 DEF Seen
<1>6. ASSUME pc[p] \in {"stopTake", "stopClose"} PROVE SectionKind \in Contract!Stopping
  BY <1>5, <1>6 DEF OpsKeepKind, StopLabels, Kind, ExitOps, Contract!Stopping
<1>7. ASSUME pc[p] \in {"launch", "commit"} PROVE SectionKind \in Contract!Starting
  <2>1. op[p] \notin {"stop", "shutdown"}
    BY <1>2, <1>7 DEF OpsKeepKind, StartLabels
  <2>2. op[p] \notin ExitOps
    BY <1>2, <1>7 DEF IndInv, HoldsStartSlot, InStart, StartLabels
  <2>3. QED
    BY <1>5, <1>7, <2>1, <2>2 DEF Kind, Contract!Starting
<1>8. CASE StopTake(p)
  <2>1. pc[p] = "stopTake" /\ pc'[p] = "stopClose" /\ mine'[p] = xrayCore /\ xrayCore' = "none"
        /\ mine[p] = "none"
    BY <1>8 DEF StopTake, DropCore, IndInv, TypeOK, HoldsInstance
  <2>2. Instance = xrayCore /\ Instance' = (IF xrayCore = "none" THEN "none" ELSE "old")
        /\ ~Deciding /\ ~Deciding'
    BY <1>2, <2>1 DEF Seen
  <2>3. Deciding' = Deciding
    BY <2>2 DEF Deciding
  <2>4. CASE xrayCore = "none"
    BY <1>2, <1>4, <2>2, <2>3, <2>4 DEF Contract!contractVars
  <2>5. CASE xrayCore \in {"live", "dead"}
    <3>1. Contract!Withdraw
      BY <1>2, <1>4, <1>6, <2>1, <2>2, <2>3, <2>5 DEF Contract!Withdraw
    <3>2. QED
      BY <3>1 DEF Contract!ContractNext
  <2>6. QED
    BY <2>4, <2>5 DEF IndInv, TypeOK
<1>9. CASE StopClose(p)
  <2>1. pc[p] = "stopClose" /\ pc'[p] = "stopTun" /\ mine'[p] = "none" /\ UNCHANGED xrayCore
        /\ xrayCore = "none"
    BY <1>9 DEF StopClose, IndInv, TypeOK, HoldsInstance, Coreless
  <2>2. Instance = (IF mine[p] = "none" THEN "none" ELSE "old") /\ Instance' = "none"
        /\ ~Deciding /\ ~Deciding'
    BY <1>2, <2>1 DEF Seen
  <2>3. Deciding' = Deciding
    BY <2>2 DEF Deciding
  <2>4. CASE mine[p] = "none"
    BY <1>2, <1>4, <2>2, <2>3, <2>4 DEF Contract!contractVars
  <2>5. CASE mine[p] # "none"
    <3>1. Contract!Close
      BY <1>2, <1>4, <1>6, <2>1, <2>2, <2>3, <2>5 DEF Contract!Close
    <3>2. QED
      BY <3>1 DEF Contract!ContractNext
  <2>6. QED
    BY <2>4, <2>5
<1>10. CASE Launch(p)
  <2>1. pc[p] = "launch" /\ UNCHANGED xrayCore /\ xrayCore = "none" /\ mine[p] = "none"
    BY <1>10 DEF Launch, IndInv, HoldsInstance, Coreless
  <2>2. \/ pc'[p] = "commit"
        \/ pc'[p] = "unstart" /\ mine'[p] = "none"
    BY <1>10, <2>1 DEF Launch, IndInv, TypeOK
  <2>3. Instance = "none" /\ Instance' = (IF pc'[p] = "commit" THEN "new" ELSE "none")
        /\ ~Deciding /\ ~Deciding'
    BY <1>2, <2>1, <2>2 DEF Seen
  <2>4. Deciding' = Deciding
    BY <2>3 DEF Deciding
  <2>5. CASE pc'[p] = "commit"
    <3>1. Contract!Launch
      BY <1>2, <1>4, <1>7, <2>1, <2>3, <2>4, <2>5 DEF Contract!Launch
    <3>2. QED
      BY <3>1 DEF Contract!ContractNext
  <2>6. CASE pc'[p] # "commit"
    BY <1>2, <1>4, <2>3, <2>4, <2>6 DEF Contract!contractVars
  <2>7. QED
    BY <2>5, <2>6
<1>11. CASE Commit(p)
  <2>1. pc[p] = "commit" /\ pc'[p] = "setupTun" /\ xrayCore' = "live" /\ mine'[p] = "none"
    BY <1>11 DEF Commit, IndInv, TypeOK, HoldsInstance
  <2>2. Instance = "new" /\ Instance' = "live" /\ Deciding'
    BY <1>2, <2>1 DEF Seen
  <2>3. Deciding' = TRUE
    BY <2>2 DEF Deciding
  <2>4. Contract!Publish
    BY <1>2, <1>4, <1>7, <2>1, <2>2, <2>3 DEF Contract!Publish
  <2>5. QED
    BY <2>4 DEF Contract!ContractNext
<1>12. QED
  BY <1>8, <1>9, <1>10, <1>11

\* The host: taken over once per start, given back only while no core is there.
LEMMA HostSteps ==
  ASSUME IndInv, OpsKeepKind, Seen, Seen', NEW p \in Proc, OnlyMoves(p),
         SetupTun(p) \/ StopTun(p) \/ ClearStale(p) \/ ExitClear(p)
  PROVE  [Contract!ContractNext]_(Contract!contractVars)
<1> USE DEF Goto, locks, core, host, frame
<1>1. pc[p] \in {"setupTun", "stopTun", "clearStale", "exitClear"}
  BY DEF SetupTun, StopTun, ClearStale, ExitClear
<1>2. coreOpMu = p /\ coreOpMu' = p /\ xrayCore' = xrayCore /\ op'[p] = op[p]
      /\ mine[p] = "none" /\ mine'[p] = "none"
  BY <1>1 DEF IndInv, HoldsCoreOpMu, HoldLabels, StopLabels, StartLabels, SharedLabels,
     HoldsInstance, SetupTun, StopTun, ClearStale, ExitClear
<1>3. pc'[p] \notin {"tunOff", "opLock", "commit", "setupTun"}
  BY DEF IndInv, TypeOK, SetupTun, StopTun, ClearStale, ExitClear, AfterExit
<1>4. SectionKind' = SectionKind /\ Booked' = Booked
  BY <1>1, <1>2, <1>3, InsideKeeps
<1>5. SectionKind = Kind(p)
  BY <1>2 DEF Seen
<1>6. SectionKind \in Contract!Sections \ {"tunOff"}
  BY <1>1, <1>5 DEF Kind, Contract!Sections, Contract!Starting, Contract!Stopping
<1>7. Instance = xrayCore /\ Instance' = Instance /\ ~Deciding' /\ (Deciding <=> pc[p] = "setupTun")
  BY <1>1, <1>2, <1>3 DEF Seen
<1>8. Deciding' = FALSE
  BY <1>7 DEF Deciding
<1>9. CASE SetupTun(p)
  <2>1. pc[p] = "setupTun" /\ tunTakeover' \in BOOLEAN
    BY <1>9 DEF SetupTun, IndInv, TypeOK
  <2>2. SectionKind \in Contract!Starting
    <3>1. op[p] \notin {"stop", "shutdown"}
      BY <1>2, <2>1 DEF OpsKeepKind, StartLabels
    <3>2. op[p] \notin ExitOps
      BY <1>2, <2>1 DEF IndInv, HoldsStartSlot, InStart, StartLabels
    <3>3. QED
      BY <1>5, <2>1, <3>1, <3>2 DEF Kind, Contract!Starting
  <2>3. Instance \in {"live", "dead"} \/ Booked
    <3> SUFFICES ASSUME xrayCore = "none" PROVE Booked
      BY <1>7 DEF IndInv, TypeOK
    <3>1. PICK q \in Proc : Cleans(q)
      BY <2>1 DEF IndInv, CleanupIsPending, StatsFollowTheCore
    <3>2. pc[q] \notin {"exitCheck", "exitClear", "stopClose", "stopTun"}
      BY <1>2, <2>1 DEF IndInv, HoldsCoreOpMu, HoldLabels, StopLabels, SharedLabels
    <3>3. QED
      BY <3>1, <3>2 DEF Cleans, Booked
  <2>4. Contract!Decide
    BY <1>4, <1>7, <1>8, <2>1, <2>2, <2>3 DEF Contract!Decide
  <2>5. QED
    BY <2>4 DEF Contract!ContractNext
<1>10. ASSUME pc[p] # "setupTun", tunTakeover' = FALSE, xrayCore = "none"
       PROVE  Contract!ContractNext
  <2>1. Deciding' = Deciding
    BY <1>7, <1>8, <1>10 DEF Deciding
  <2>2. Contract!GiveBack
    BY <1>4, <1>6, <1>7, <1>10, <2>1 DEF Contract!GiveBack
  <2>3. QED
    BY <2>2 DEF Contract!ContractNext
<1>11. CASE StopTun(p) \/ ExitClear(p)
  BY <1>10, <1>11 DEF StopTun, ExitClear, IndInv, TypeOK, HoldsInstance, Coreless, CleanupIsPending,
     StatsFollowTheCore
<1>12. CASE ClearStale(p)
  <2>1. pc[p] = "clearStale" /\ xrayCore = "none"
    BY <1>12 DEF ClearStale, IndInv, HoldsInstance, Coreless
  <2>2. CASE cfgCopy[p].tun
    BY <1>10, <1>12, <2>1, <2>2 DEF ClearStale
  <2>3. CASE ~cfgCopy[p].tun
    <3>1. Deciding' = Deciding
      BY <1>7, <1>8, <2>1 DEF Deciding
    <3>2. tunTakeover' = tunTakeover
      BY <1>12, <2>3 DEF ClearStale
    <3>3. QED
      BY <1>4, <1>7, <3>1, <3>2 DEF Contract!contractVars
  <2>4. QED
    BY <2>2, <2>3
<1>13. QED
  BY <1>9, <1>11, <1>12

\* A section that finds the core dead drops it; what it owes then is its own affair
\* until it unlocks.
LEMMA InsideNotices ==
  ASSUME IndInv, Seen, Seen', NEW p \in Proc, OnlyMoves(p), Claim(p) \/ OpCheck(p)
  PROVE  [Contract!ContractNext]_(Contract!contractVars)
<1> USE DEF Goto, locks, core, host, frame
<1>1. pc[p] \in {"claim", "opCheck"}
  BY DEF Claim, OpCheck
<1>2. coreOpMu = p /\ coreOpMu' = p /\ tunTakeover' = tunTakeover /\ op'[p] = op[p]
      /\ mine[p] = "none" /\ mine'[p] = "none"
  BY <1>1 DEF IndInv, HoldsCoreOpMu, HoldLabels, SharedLabels, HoldsInstance, Claim, OpCheck
<1>3. pc'[p] \in {"exitCheck", "unlock", "loadConfig", "opBuild"}
  BY DEF IndInv, TypeOK, Claim, OpCheck, AfterDeadCheck
<1>4. SectionKind' = SectionKind /\ Booked' = Booked
  BY <1>1, <1>2, <1>3, InsideKeeps
<1>5. Instance = xrayCore /\ Instance' = xrayCore' /\ ~Deciding /\ ~Deciding' /\ SectionKind = Kind(p)
  BY <1>1, <1>2, <1>3 DEF Seen
<1>6. Deciding' = Deciding
  BY <1>5 DEF Deciding
<1>7. CASE xrayCore = "dead"
  <2>1. xrayCore' = "none"
    BY <1>7 DEF Claim, OpCheck, CoreExited, DropCore
  <2>2. SectionKind \in Contract!Sections \ {"tunOff"}
    BY <1>1, <1>5 DEF Kind, Contract!Sections, Contract!Starting, Contract!Stopping
  <2>3. Contract!NoticeInside
    BY <1>2, <1>4, <1>5, <1>6, <1>7, <2>1, <2>2 DEF Contract!NoticeInside
  <2>4. QED
    BY <2>3 DEF Contract!ContractNext
<1>8. CASE xrayCore # "dead"
  <2>1. xrayCore' = xrayCore
    BY <1>8 DEF Claim, OpCheck, CoreExited
  <2>2. QED
    BY <1>2, <1>4, <1>5, <1>6, <2>1 DEF Contract!contractVars
<1>9. QED
  BY <1>7, <1>8


\* A status poll, a repair or the watchdog that finds the core dead books the
\* clean-up in the same step.
LEMMA OutsideNotices ==
  ASSUME IndInv, Seen, Seen', NEW p \in Proc,
         (Check(p) /\ OnlyMoves(p)) \/ \E sl \in Sleepers : p = Dog /\ TickExit(sl)
  PROVE  [Contract!ContractNext]_(Contract!contractVars)
<1> USE DEF Goto, Return, locks, core, host, frame
<1>1. CASE Check(p) /\ OnlyMoves(p) /\ ~CoreExited
  <2>1. pc[p] = "check" /\ UNCHANGED <<coreOpMu, xrayCore, tunTakeover>>
    BY <1>1 DEF Check
  <2>2. coreOpMu # p /\ ~Books(p)
    BY <2>1 DEF IndInv, HoldsCoreOpMu, HoldLabels, StopLabels, StartLabels, SharedLabels, Books
  <2>3. ~Books(p)'
    BY <1>1 DEF Check, IndInv, TypeOK, Books
  <2>4. UNCHANGED Contract!contractVars
    BY <1>1, <2>1, <2>2, <2>3, OutsideIsUnseen
  <2>5. QED
    BY <2>4
<1>2. ASSUME UNCHANGED <<coreOpMu, tunTakeover, mine>>, xrayCore = "dead", xrayCore' = "none",
             coreOpMu \in Proc => /\ pc'[coreOpMu] = pc[coreOpMu]
                                  /\ op'[coreOpMu] = op[coreOpMu],
             Books(p)'
      PROVE  Contract!ContractNext
  <2>1. Booked' = TRUE
    BY <1>2 DEF Books, Booked
  <2>2. Instance = "dead" /\ Instance' = "none" /\ SectionKind' = SectionKind /\ (Deciding' <=> Deciding)
    <3>1. CASE coreOpMu = NoProc
      BY <1>2, <3>1 DEF Seen
    <3>2. CASE coreOpMu \in Proc
      <4>1. mine[coreOpMu] = "none" /\ pc[coreOpMu] # "commit"
        BY <1>2, <3>2 DEF IndInv, HoldsInstance, Coreless
      <4>2. QED
        BY <1>2, <3>2, <4>1 DEF Seen, Kind
    <3>3. QED
      BY <3>1, <3>2 DEF IndInv, TypeOK
  <2>3. Deciding' = Deciding
    BY <2>2 DEF Deciding
  <2>4. Contract!NoticeFromOutside
    BY <1>2, <2>1, <2>2, <2>3 DEF Contract!NoticeFromOutside
  <2>5. QED
    BY <2>4 DEF Contract!ContractNext
<1>3. CASE Check(p) /\ OnlyMoves(p) /\ CoreExited
  <2>1. pc[p] = "check" /\ pc'[p] = "opLock" /\ UNCHANGED <<coreOpMu, tunTakeover, mine, op>>
        /\ xrayCore = "dead" /\ xrayCore' = "none"
    BY <1>3 DEF Check, CoreExited, DropCore, IndInv, TypeOK
  <2>2. Books(p)'
    BY <2>1 DEF Books, IndInv, HoldsStartSlot
  <2>3. coreOpMu # p
    BY <2>1 DEF IndInv, HoldsCoreOpMu, HoldLabels, StopLabels, StartLabels, SharedLabels
  <2>4. QED
    BY <1>2, <1>3, <2>1, <2>2, <2>3 DEF OnlyMoves
<1>4. ASSUME NEW sl \in Sleepers, p = Dog, TickExit(sl)
      PROVE  Contract!ContractNext
  <2>1. UNCHANGED <<coreOpMu, tunTakeover, mine>> /\ xrayCore = "dead" /\ xrayCore' = "none"
    BY <1>4 DEF TickExit, CoreExited, DropCore
  <2>2. Books(p)' /\ sl # p
    BY <1>4, ProcAssumption DEF TickExit, Books, ExitOps, IndInv, TypeOK, Proc
  <2>3. ASSUME coreOpMu \in Proc
        PROVE  pc'[coreOpMu] = pc[coreOpMu] /\ op'[coreOpMu] = op[coreOpMu]
    <3>1. pc[coreOpMu] # "idle"
      BY <2>3 DEF IndInv, HoldsCoreOpMu, HoldLabels, StopLabels, StartLabels, SharedLabels
    <3>2. QED
      BY <1>4, <2>3, <3>1 DEF TickExit, IndInv, TypeOK
  <2>4. QED
    BY <1>2, <2>1, <2>2, <2>3
<1>5. QED
  BY <1>1, <1>3, <1>4

\* An exit of the core, whoever holds coreOpMu.
LEMMA ExitIsAllowed ==
  ASSUME IndInv, Seen, Seen', CoreExit
  PROVE  Contract!ContractNext
<1> USE DEF CoreExit, locks, host, frame
<1>1. SectionKind' = SectionKind /\ Booked' = Booked /\ Deciding' = Deciding
  BY DEF SectionKind, Kind, Booked, Deciding
<1>2. Instance = "live" /\ Instance' = "dead"
  <2>1. CASE coreOpMu = NoProc
    BY <2>1 DEF Seen
  <2>2. CASE coreOpMu \in Proc
    <3>1. mine[coreOpMu] = "none" /\ pc[coreOpMu] # "commit"
      BY <2>2 DEF IndInv, HoldsInstance, Coreless
    <3>2. QED
      BY <2>2, <3>1 DEF Seen
  <2>3. QED
    BY <2>1, <2>2 DEF IndInv, TypeOK
<1>3. Contract!Exit
  BY <1>1, <1>2 DEF Contract!Exit
<1>4. QED
  BY <1>3 DEF Contract!ContractNext

\* The watchdog planning a restart of a degraded core is no business of the contract.
LEMMA PlanIsUnseen ==
  ASSUME IndInv, Seen, Seen', NEW sl \in Sleepers, TickDegraded(sl)
  PROVE  UNCHANGED Contract!contractVars
<1>1. sl \in Proc /\ pc[sl] = "idle" /\ UNCHANGED <<coreOpMu, xrayCore, tunTakeover, mine>>
  BY DEF TickDegraded, Proc, locks, core, host
<1>2. OnlyMoves(sl) /\ pc'[sl] = "asleep"
  BY <1>1 DEF TickDegraded, OnlyMoves, IndInv, TypeOK
<1>3. coreOpMu # sl /\ ~Books(sl) /\ ~Books(sl)'
  BY <1>1, <1>2 DEF IndInv, HoldsCoreOpMu, HoldLabels, StopLabels, StartLabels, SharedLabels, Books
<1>4. QED
  BY <1>1, <1>2, <1>3, OutsideIsUnseen

\* Every step of the lifecycle is one of the contract, or none.
LEMMA StepKeepsContract ==
  ASSUME IndInv, OpsKeepKind, Seen, Seen', [Next]_vars
  PROVE  [Contract!ContractNext]_(Contract!contractVars)
<1>1. CASE UNCHANGED vars
  BY <1>1 DEF vars, locks, core, host, frame, Contract!contractVars, Instance, SectionKind, Kind,
     Booked, Deciding
<1>2. CASE CoreExit
  BY <1>2, ExitIsAllowed
<1>3. CASE Tick
  <2>1. PICK sl \in Sleepers : TickExit(sl) \/ TickDegraded(sl)
    BY <1>3 DEF Tick
  <2>2. Dog \in Proc
    BY DEF Proc
  <2>3. QED
    BY <2>1, <2>2, OutsideNotices, PlanIsUnseen
<1>4. ASSUME NEW p \in Proc, Arrive(p) \/ Step(p) \/ Acquire(p)
      PROVE  [Contract!ContractNext]_(Contract!contractVars)
  <2>1. OnlyMoves(p)
    BY <1>4, StepsAlone DEF IndInv
  <2>2. CASE Arrive(p)
    BY <2>1, <2>2, UnseenSteps
  <2>3. CASE Acquire(p)
    BY <2>1, <2>3, UnseenSteps, SectionSteps DEF Acquire
  <2>4. CASE Step(p)
    BY <2>1, <2>4, UnseenSteps, SectionSteps, InstanceSteps, HostSteps, InsideNotices, OutsideNotices
       DEF Step
  <2>5. QED
    BY <1>4, <2>2, <2>3, <2>4
<1>5. QED
  BY <1>1, <1>2, <1>3, <1>4 DEF Next

\* At the start there is no core, no takeover and nobody at work.
LEMMA InitKeepsContract == Init => Contract!ContractInit
<1> SUFFICES ASSUME Init PROVE Contract!ContractInit
  OBVIOUS
<1>1. SectionKind = "none"
  BY DEF Init, SectionKind, Free
<1>2. Instance = "none"
  BY DEF Init, Instance
<1>3. ~Deciding /\ ~Booked
  BY DEF Init, Deciding, Booked
<1>4. QED
  BY <1>1, <1>2, <1>3 DEF Init, Contract!ContractInit

\* Operations keep to their kind in every reachable state.
LEMMA KindInvariance == Spec => []OpsKeepKind
<1>1. Init => OpsKeepKind
  BY ProcAssumption DEF Init, OpsKeepKind, StopLabels
<1>2. IndInv /\ OpsKeepKind /\ [Next]_vars => OpsKeepKind'
  BY OpsKeepKindStep
<1>3. QED
  BY Invariance, <1>1, <1>2, PTL DEF Spec

\* The lifecycle implements the contract of the core: for any number of clients and
\* sleeping goroutines, whatever the launches and the set-ups of TUN come to.
THEOREM LifecycleKeepsContract == Spec => KeepsContract
<1>1. IndInv /\ OpsKeepKind /\ Seen /\ Seen' /\ [Next]_vars
        => [Contract!ContractNext]_(Contract!contractVars)
  BY StepKeepsContract
<1>2. QED
  BY Invariance, KindInvariance, HolderSees, InitKeepsContract, <1>1, PTL
     DEF Spec, KeepsContract, Contract!ContractSpec

\* What the contract is good for: a host taken over without a core has somebody at
\* work on it, or a clean-up booked.
THEOREM ContractNeverAbandons == Contract!ContractSpec => []Contract!NeverAbandoned
<1>1. Contract!ContractInit => Contract!NeverAbandoned
  BY DEF Contract!ContractInit, Contract!NeverAbandoned
<1>2. Contract!NeverAbandoned /\ [Contract!ContractNext]_(Contract!contractVars)
        => Contract!NeverAbandoned'
  BY DEF Contract!NeverAbandoned, Contract!ContractNext, Contract!contractVars, Contract!Enter,
     Contract!Leave, Contract!TurnOff, Contract!Launch, Contract!Publish, Contract!Withdraw,
     Contract!Close, Contract!Exit, Contract!NoticeFromOutside, Contract!NoticeInside,
     Contract!Decide, Contract!GiveBack, Contract!Sections, Contract!Starting, Contract!Stopping
<1>3. QED
  BY <1>1, <1>2, PTL DEF Contract!ContractSpec

-----------------------------------------------------------------------------
(* A change reaches the core: CoreSwitch.                                  *)

\* A step is calm when it leaves the files alone, makes no core, and nobody on the
\* way to a restart turns back.
Calm ==
  /\ UNCHANGED <<config, state>> /\ (running' => running /\ built' = built)
  /\ overlooked => overlooked'
  /\ \A q \in Proc :
       /\ Behind(q) => Behind(q)'
       /\ Outdated(q)' => Outdated(q)
       /\ running' /\ pc'[q] \in {"setupTun", "applyProxy"} =>
            pc[q] \in {"setupTun", "applyProxy"} /\ cfgCopy'[q] = cfgCopy[q]
       /\ pc'[q] = "saveWrite" =>
            \/ stCopy'[q].prof = state.prof
            \/ pc[q] = "saveWrite" /\ stCopy'[q] = stCopy[q]

\* Calm steps keep the restart pending.
LEMMA CalmKeeps ==
  ASSUME SwitchIsPending, Calm
  PROVE  SwitchIsPending'
<1>1. Excused => Excused'
  BY DEF Calm, Excused
<1>2. running' => Agrees' \/ Excused'
  BY <1>1 DEF Calm, SwitchIsPending, Agrees, Selected
<1>3. ASSUME NEW q \in Proc
      PROVE  /\ Outdated(q)' => Excused'
             /\ running' /\ pc'[q] \in {"setupTun", "applyProxy"} => built'[1] = cfgCopy'[q]
             /\ running' /\ pc'[q] = "saveWrite" => stCopy'[q].prof = state'.prof \/ Excused'
  BY <1>1 DEF Calm, SwitchIsPending
<1>4. QED
  BY <1>2, <1>3 DEF SwitchIsPending

\* A step of p leaves the frames of the others alone.
OnlyFrameOf(p) ==
  \A q \in Proc \ {p} : pc'[q] = pc[q] /\ op'[q] = op[q]
                        /\ cfgCopy'[q] = cfgCopy[q] /\ stCopy'[q] = stCopy[q]

LEMMA FramesAlone ==
  ASSUME TypeOK, NEW p \in Proc, Arrive(p) \/ Step(p) \/ Acquire(p)
  PROVE  OnlyFrameOf(p)
<1> USE DEF TypeOK, OnlyFrameOf, Goto, Return, frame
<1>1. CASE Arrive(p)
  BY <1>1 DEF Arrive, Call, CallRepair, CallUpdate, CallSelect
<1>2. CASE Acquire(p)
  BY <1>2 DEF Acquire, LockCoreOp, LockSwitch
<1>3. CASE Step(p)
  <2>1. CASE \/ UpdateSave(p) \/ SelectSave(p) \/ ChangeCheck(p) \/ SwitchCheck(p)
            \/ SwitchUnlock(p) \/ Unlock(p) \/ TunOff(p)
            \/ StopTake(p) \/ StopClose(p) \/ StopTun(p) \/ StopProxy(p)
    BY <2>1 DEF UpdateSave, SelectSave, ChangeCheck, SwitchCheck, SwitchUnlock, Unlock, TunOff,
       StopTake, StopClose, StopTun, StopProxy
  <2>2. CASE \/ Claim(p) \/ LoadConfig(p) \/ PickProfile(p) \/ PickSave(p) \/ ClearStale(p)
            \/ Launch(p) \/ Commit(p) \/ SetupTun(p) \/ ApplyProxy(p) \/ Unstart(p)
    BY <2>2 DEF Claim, LoadConfig, PickProfile, PickSave, ClearStale, Launch, Commit, SetupTun,
       ApplyProxy, Unstart
  <2>3. CASE \/ SaveLoad(p) \/ SaveWrite(p) \/ OpCheck(p) \/ OpBuild(p)
            \/ ExitCheck(p) \/ ExitClear(p) \/ Check(p) \/ WasRunning(p) \/ Wake(p) \/ AutoDone(p)
    BY <2>3 DEF SaveLoad, SaveWrite, OpCheck, OpBuild, ExitCheck, ExitClear, Check, WasRunning,
       Wake, AutoDone, CountAttempt
  <2>4. QED
    BY <1>3, <2>1, <2>2, <2>3 DEF Step
<1>4. QED
  BY <1>1, <1>2, <1>3

\* What a calm step of p has to say of p.
CalmOf(p) ==
  /\ UNCHANGED <<config, state>> /\ (running' => running /\ built' = built)
  /\ Behind(p) => Behind(p)'
  /\ Outdated(p)' => Outdated(p)
  /\ running' /\ pc'[p] \in {"setupTun", "applyProxy"} =>
       pc[p] \in {"setupTun", "applyProxy"} /\ cfgCopy'[p] = cfgCopy[p]
  /\ pc'[p] = "saveWrite" =>
       \/ stCopy'[p].prof = state.prof
       \/ pc[p] = "saveWrite" /\ stCopy'[p] = stCopy[p]

LEMMA CalmAlone ==
  ASSUME NEW p \in Proc, OnlyFrameOf(p), CalmOf(p), overlooked => overlooked'
  PROVE  Calm
<1>1. ASSUME NEW q \in Proc \ {p}
      PROVE  /\ Behind(q) => Behind(q)'
             /\ Outdated(q)' => Outdated(q)
             /\ running' /\ pc'[q] \in {"setupTun", "applyProxy"} =>
                  pc[q] \in {"setupTun", "applyProxy"} /\ cfgCopy'[q] = cfgCopy[q]
             /\ pc'[q] = "saveWrite" => pc[q] = "saveWrite" /\ stCopy'[q] = stCopy[q]
  <2>1. pc'[q] = pc[q] /\ op'[q] = op[q] /\ cfgCopy'[q] = cfgCopy[q] /\ stCopy'[q] = stCopy[q]
    BY DEF OnlyFrameOf
  <2>2. QED
    BY <2>1 DEF CalmOf, Behind, Outdated, Selected
<1>2. QED
  BY <1>1 DEF Calm, CalmOf

\* The steps outside a section of coreOpMu that are calm.
LEMMA CalmOutside ==
  ASSUME TypeOK, NEW p \in Proc,
         \/ Arrive(p) \/ Acquire(p) \/ SwitchUnlock(p) \/ Unlock(p) \/ TunOff(p)
         \/ Check(p) \/ WasRunning(p) \/ Wake(p) \/ AutoDone(p)
         \/ (ChangeCheck(p) \/ SwitchCheck(p)) /\ running
         \/ SelectSave(p) /\ ~Behind(p)'
  PROVE  CalmOf(p)
<1> USE DEF TypeOK, CalmOf, Behind, Outdated, Selected, Goto, Return, core, disk, host, frame
<1>1. CASE Arrive(p)
  BY <1>1 DEF Arrive, Call, CallRepair, CallUpdate, CallSelect, EntryLabel
<1>2. CASE Acquire(p)
  BY <1>2 DEF Acquire, LockCoreOp, LockSwitch, FirstLabel, ExitOps
<1>3. CASE SwitchUnlock(p) \/ Unlock(p)
  BY <1>3 DEF SwitchUnlock, Unlock
<1>4. CASE TunOff(p)
  BY <1>4 DEF TunOff
<1>5. CASE Check(p)
  BY <1>5 DEF Check, DropCore
<1>6. CASE WasRunning(p) \/ Wake(p) \/ AutoDone(p)
  BY <1>6 DEF WasRunning, Wake, AutoDone
<1>7. CASE (ChangeCheck(p) \/ SwitchCheck(p)) /\ running
  BY <1>7 DEF ChangeCheck, SwitchCheck
<1>8. CASE SelectSave(p) /\ ~Behind(p)'
  BY <1>8 DEF SelectSave
<1>9. QED
  BY <1>1, <1>2, <1>3, <1>4, <1>5, <1>6, <1>7, <1>8

\* The steps inside a section that are calm.
LEMMA CalmInside ==
  ASSUME TypeOK, NEW p \in Proc,
         \/ StopClose(p) \/ StopTun(p) \/ StopProxy(p) \/ Claim(p) \/ PickProfile(p)
         \/ ClearStale(p) \/ Launch(p) \/ SetupTun(p) \/ Unstart(p) \/ SaveLoad(p)
         \/ OpCheck(p) \/ OpBuild(p) \/ ExitCheck(p) \/ ExitClear(p)
  PROVE  CalmOf(p)
<1> USE DEF TypeOK, CalmOf, Behind, Outdated, Goto, core, disk, host, frame
<1>1. CASE StopClose(p) \/ StopTun(p) \/ StopProxy(p)
  BY <1>1 DEF StopClose, StopTun, StopProxy
<1>2. CASE Claim(p)
  BY <1>2 DEF Claim, DropCore
<1>3. CASE PickProfile(p)
  BY <1>3, DataAssumption DEF PickProfile, State, Selected
<1>4. CASE ClearStale(p) \/ Launch(p)
  BY <1>4 DEF ClearStale, Launch, Selected
<1>5. CASE SetupTun(p) \/ Unstart(p) \/ SaveLoad(p)
  BY <1>5 DEF SetupTun, Unstart, SaveLoad
<1>6. CASE OpCheck(p) \/ OpBuild(p)
  BY <1>6 DEF OpCheck, OpBuild, DropCore, AfterDeadCheck, AfterBuild
<1>7. CASE ExitCheck(p) \/ ExitClear(p)
  BY <1>7 DEF ExitCheck, ExitClear, AfterExit
<1>8. QED
  BY <1>1, <1>2, <1>3, <1>4, <1>5, <1>6, <1>7

\* A step of the holder of coreOpMu: nobody else is in a section.
LEMMA OthersOutside ==
  ASSUME IndInv, NEW p \in Proc, pc[p] \in HoldLabels, OnlyFrameOf(p), NEW q \in Proc \ {p}
  PROVE  /\ ~Outdated(q) /\ ~Outdated(q)'
         /\ pc'[q] \notin {"setupTun", "applyProxy", "saveWrite"}
         /\ Behind(q) => Behind(q)'
<1>1. pc[q] \notin HoldLabels
  BY DEF IndInv, HoldsCoreOpMu
<1>2. pc[q] \notin {"pickProfile", "pickSave", "clearStale", "launch", "commit",
                    "setupTun", "applyProxy", "saveWrite"}
  BY <1>1 DEF HoldLabels, StartLabels, SharedLabels
<1>3. pc'[q] = pc[q] /\ op'[q] = op[q]
  BY DEF OnlyFrameOf
<1>4. QED
  BY <1>2, <1>3 DEF Outdated, Behind

\* A stop takes the core away: there is nothing left that could be outdated.
LEMMA StopTakeKeeps ==
  ASSUME IndInv, SwitchIsPending, NEW p \in Proc, OnlyFrameOf(p), StopTake(p)
  PROVE  SwitchIsPending'
<1>1. ~running' /\ pc'[p] = "stopClose" /\ pc[p] \in HoldLabels
  BY DEF IndInv, TypeOK, StopTake, DropCore, Goto, HoldLabels, StopLabels
<1>2. ~Outdated(p)'
  BY <1>1 DEF Outdated
<1>3. QED
  BY <1>1, <1>2, OthersOutside DEF SwitchIsPending

\* The selection that is saved is the one the start goes on with.
LEMMA PickSaveKeeps ==
  ASSUME IndInv, SwitchIsPending, NEW p \in Proc, OnlyFrameOf(p), PickSave(p),
         overlooked => overlooked'
  PROVE  SwitchIsPending'
<1>1. pc[p] \in HoldLabels /\ pc[p] = "pickSave" /\ pc'[p] = "clearStale"
  BY DEF IndInv, TypeOK, PickSave, Goto, HoldLabels, StartLabels
<1>2. ~running'
  BY <1>1 DEF IndInv, HoldsInstance, StatsFollowTheCore, Coreless, PickSave, core
<1>3. Excused => Excused'
  <2>1. ~Behind(p)
    BY <1>1 DEF Behind
  <2>2. QED
    BY <1>1, <2>1, OthersOutside DEF Excused
<1>4. Outdated(p)' => Outdated(p)
  <2>1. UNCHANGED <<cfgCopy, stCopy, config>> /\ (state' = stCopy[p] \/ state' = state)
    BY DEF PickSave, SavesState, frame
  <2>2. Selected(state) # NoProfile
    BY DataAssumption DEF IndInv, TypeOK, State, Selected
  <2>3. QED
    BY <1>1, <2>1, <2>2 DEF Outdated, Selected
<1>5. QED
  BY <1>1, <1>2, <1>3, <1>4, OthersOutside DEF SwitchIsPending

\* saveState saves the selection it has loaded, and nobody else restarts meanwhile.
LEMMA SaveWriteKeeps ==
  ASSUME IndInv, SwitchIsPending, NEW p \in Proc, OnlyFrameOf(p), SaveWrite(p),
         overlooked => overlooked'
  PROVE  SwitchIsPending'
<1>1. pc[p] \in HoldLabels /\ pc[p] = "saveWrite" /\ pc'[p] = "opCheck"
  BY DEF IndInv, TypeOK, SaveWrite, Goto, HoldLabels, SharedLabels
<1>2. UNCHANGED <<running, built, config>>
  BY DEF SaveWrite, core
<1>3. Excused => Excused'
  <2>1. ~Behind(p)
    BY <1>1 DEF Behind
  <2>2. QED
    BY <1>1, <2>1, OthersOutside DEF Excused
<1>4. running /\ ~Excused => state'.prof = state.prof
  BY <1>1 DEF SaveWrite, SavesState, SwitchIsPending, IndInv, TypeOK, State
<1>5. running' => Agrees' \/ Excused'
  BY <1>2, <1>3, <1>4 DEF SwitchIsPending, Agrees, Selected
<1>6. ~Outdated(p)'
  BY <1>1 DEF Outdated
<1>7. QED
  BY <1>1, <1>5, <1>6, OthersOutside DEF SwitchIsPending

\* The config saved with the proxy is the one the core was built from.
LEMMA ApplyProxyKeeps ==
  ASSUME IndInv, SwitchIsPending, NEW p \in Proc, OnlyFrameOf(p), ApplyProxy(p),
         overlooked => overlooked'
  PROVE  SwitchIsPending'
<1>1. pc[p] \in HoldLabels /\ pc[p] = "applyProxy" /\ pc'[p] = "saveLoad"
  BY DEF IndInv, TypeOK, ApplyProxy, Goto, HoldLabels, StartLabels
<1>2. UNCHANGED <<running, built, state>> /\ (config' = config \/ config' = cfgCopy[p])
  BY DEF ApplyProxy, AppliesProxy, SavesConfig, core
<1>3. Excused => Excused'
  <2>1. ~Behind(p)
    BY <1>1 DEF Behind
  <2>2. QED
    BY <1>1, <2>1, OthersOutside DEF Excused
<1>4. running' => Agrees' \/ Excused'
  BY <1>1, <1>2, <1>3 DEF SwitchIsPending, Agrees
<1>5. ~Outdated(p)'
  BY <1>1 DEF Outdated
<1>6. QED
  BY <1>1, <1>4, <1>5, OthersOutside DEF SwitchIsPending

\* A start that commits goes by the files, or somebody is on the way, or the change
\* has overlooked it.
LEMMA CommitKeeps ==
  ASSUME IndInv, SwitchIsPending, NEW p \in Proc, OnlyFrameOf(p), Commit(p),
         overlooked => overlooked'
  PROVE  SwitchIsPending'
<1>1. pc[p] \in HoldLabels /\ pc[p] = "commit" /\ pc'[p] = "setupTun"
  BY DEF IndInv, TypeOK, Commit, Goto, HoldLabels, StartLabels
<1>2. /\ UNCHANGED <<config, state, cfgCopy, stCopy>>
      /\ built' = <<cfgCopy[p], stCopy[p].prof>>
  BY DEF Commit, disk
<1>3. Excused => Excused'
  <2>1. ~Behind(p)
    BY <1>1 DEF Behind
  <2>2. QED
    BY <1>1, <2>1, OthersOutside DEF Excused
<1>4. Outdated(p) \/ built' = <<config, Selected(state)>>
  BY <1>1, <1>2 DEF Outdated
<1>5. Agrees' \/ Excused'
  BY <1>2, <1>3, <1>4 DEF SwitchIsPending, Agrees, Selected
<1>6. ~Outdated(p)' /\ built'[1] = cfgCopy'[p]
  BY <1>1, <1>2 DEF Outdated
<1>7. QED
  BY <1>1, <1>5, <1>6, OthersOutside DEF SwitchIsPending

\* Who has saved is on the way to the restart.
LEMMA SaveSetsOff ==
  ASSUME TypeOK, SwitchIsPending, NEW p \in Proc, OnlyFrameOf(p),
         UpdateSave(p) \/ (SelectSave(p) /\ Behind(p)')
  PROVE  SwitchIsPending'
<1>1. Behind(p)'
  BY DEF TypeOK, UpdateSave, Behind, Goto, frame
<1>2. UNCHANGED <<running, built, cfgCopy>> /\ pc'[p] \notin {"setupTun", "applyProxy"}
  BY <1>1 DEF TypeOK, UpdateSave, SelectSave, Behind, Goto, Return, core, frame
<1>3. \A q \in Proc : pc'[q] \in {"setupTun", "applyProxy"} => pc'[q] = pc[q]
  BY <1>2 DEF OnlyFrameOf
<1>4. QED
  BY <1>1, <1>2, <1>3 DEF SwitchIsPending, Excused

\* A change that finds no core has nothing to restart, or overlooks a start.
LEMMA LookKeeps ==
  ASSUME TypeOK, NEW p \in Proc, OnlyFrameOf(p), ChangeCheck(p) \/ SwitchCheck(p), ~running, Note
  PROVE  SwitchIsPending'
<1>1. ~running' /\ UNCHANGED <<config, state>>
  BY DEF ChangeCheck, SwitchCheck, core, disk
<1>2. pc'[p] \in {"idle", "switchUnlock"}
  BY DEF TypeOK, ChangeCheck, SwitchCheck, Goto, Return
<1>3. \A q \in Proc : Outdated(q)' => Outdated(q)
  BY <1>1, <1>2 DEF OnlyFrameOf, Outdated, Selected
<1>4. (\E q \in Proc : Outdated(q)) => overlooked'
  BY DEF Note, Overlooks
<1>5. QED
  BY <1>1, <1>3, <1>4 DEF SwitchIsPending, Excused

\* A start that has yet to read works on what it will find, and no core runs.
LEMMA ReadsEverything ==
  ASSUME IndInv, IndInv', Next, NEW p \in Proc, pc[p] = "loadConfig"
  PROVE  SwitchIsPending'
<1>1. pc'[p] = "loadConfig" \/ (pc'[p] = "pickProfile" /\ cfgCopy'[p] = config')
  <2>1. ASSUME NEW q \in Proc, Arrive(q) \/ Step(q) \/ Acquire(q), q # p
        PROVE  pc'[p] = pc[p]
    BY <2>1, FramesAlone DEF IndInv, OnlyFrameOf
  <2>2. CASE Arrive(p) \/ Acquire(p)
    BY <2>2 DEF Arrive, Call, CallRepair, CallUpdate, CallSelect, Acquire, LockCoreOp, LockSwitch
  <2>3. CASE Step(p)
    <3>1. LoadConfig(p)
      BY <2>3 DEF Step, UpdateSave, SelectSave, ChangeCheck, SwitchCheck, SwitchUnlock, Unlock,
         TunOff, StopTake, StopClose, StopTun, StopProxy, Claim, PickProfile, PickSave, ClearStale,
         Launch, Commit, SetupTun, ApplyProxy, Unstart, SaveLoad, SaveWrite, OpCheck, OpBuild,
         ExitCheck, ExitClear, Check, WasRunning, Wake, AutoDone
    <3>2. QED
      BY <3>1 DEF LoadConfig, IndInv, TypeOK, Goto, disk
  <2>4. CASE CoreExit \/ Tick
    BY <2>4 DEF CoreExit, Tick, TickExit, TickDegraded, IndInv, TypeOK
  <2>5. QED
    BY <2>1, <2>2, <2>3, <2>4 DEF Next
<1>2. pc'[p] \in HoldLabels /\ pc'[p] \in Coreless
  BY <1>1 DEF HoldLabels, StartLabels, Coreless
<1>3. ~running'
  BY <1>2 DEF IndInv, HoldsInstance, StatsFollowTheCore
<1>4. ASSUME NEW q \in Proc, q # p
      PROVE  ~Outdated(q)'
  <2>1. pc'[q] \notin HoldLabels
    BY <1>2, <1>4 DEF IndInv, HoldsCoreOpMu
  <2>2. QED
    BY <2>1 DEF Outdated, HoldLabels, StartLabels
<1>5. ~Outdated(p)'
  BY <1>1 DEF Outdated
<1>6. QED
  BY <1>3, <1>4, <1>5 DEF SwitchIsPending

\* A restart for a change stays on its way, whoever else calls, restarts or fails.
LEMMA SwitchIsPendingStep ==
  ASSUME IndInv, IndInv', SwitchIsPending, [SwitchNext]_switchVars
  PROVE  SwitchIsPending'
<1>1. CASE UNCHANGED switchVars
  BY <1>1 DEF switchVars, vars, SwitchIsPending, Agrees, Excused, Behind, Outdated, Selected,
     core, disk, frame
<1>2. CASE Next /\ \E p \in Proc : pc[p] = "loadConfig"
  BY <1>2, ReadsEverything
<1>3. ASSUME Next, Note, \A p \in Proc : pc[p] # "loadConfig"
      PROVE  SwitchIsPending'
  <2>1. overlooked => overlooked'
    BY <1>3 DEF Note
  <2>2. ASSUME NEW p \in Proc, Arrive(p) \/ Step(p) \/ Acquire(p)
        PROVE  SwitchIsPending'
    <3>1. OnlyFrameOf(p) /\ TypeOK
      BY <2>2, FramesAlone DEF IndInv
    <3>2. CASE CalmOf(p)
      BY <2>1, <3>1, <3>2, CalmAlone, CalmKeeps
    <3>3. CASE ChangeCheck(p) \/ SwitchCheck(p)
      BY <1>3, <3>1, <3>2, <3>3, CalmOutside, LookKeeps
    <3>4. CASE UpdateSave(p) \/ SelectSave(p)
      BY <3>1, <3>2, <3>4, CalmOutside, SaveSetsOff
    <3>5. CASE StopTake(p) \/ PickSave(p) \/ SaveWrite(p) \/ ApplyProxy(p) \/ Commit(p)
      BY <2>1, <3>1, <3>5, StopTakeKeeps, PickSaveKeeps, SaveWriteKeeps, ApplyProxyKeeps,
         CommitKeeps
    <3>6. ~LoadConfig(p)
      BY <1>3 DEF LoadConfig
    <3>7. QED
      BY <2>2, <3>1, <3>2, <3>3, <3>4, <3>5, <3>6, CalmOutside, CalmInside DEF Step
  <2>3. CASE CoreExit \/ Tick
    <3>1. UNCHANGED <<config, state, cfgCopy, stCopy>> /\ (running' => running /\ built' = built)
      BY <2>3 DEF CoreExit, Tick, TickExit, TickDegraded, DropCore, core, disk, frame
    <3>2. ASSUME NEW q \in Proc
          PROVE  \/ pc'[q] = pc[q] /\ op'[q] = op[q]
                 \/ pc[q] = "idle" /\ pc'[q] \in {"opLock", "asleep"}
      <4>1. CASE CoreExit
        BY <4>1 DEF CoreExit, frame
      <4>2. ASSUME NEW sl \in Sleepers, TickExit(sl)
            PROVE  \/ pc'[q] = pc[q] /\ op'[q] = op[q]
                   \/ pc[q] = "idle" /\ pc'[q] \in {"opLock", "asleep"}
        BY <4>2, ProcAssumption DEF TickExit, IndInv, TypeOK, Proc
      <4>3. ASSUME NEW sl \in Sleepers, TickDegraded(sl)
            PROVE  \/ pc'[q] = pc[q] /\ op'[q] = op[q]
                   \/ pc[q] = "idle" /\ pc'[q] \in {"opLock", "asleep"}
        BY <4>3, ProcAssumption DEF TickDegraded, IndInv, TypeOK, Proc
      <4>4. QED
        BY <2>3, <4>1, <4>2, <4>3 DEF Tick
    <3>3. Calm
      BY <2>1, <3>1, <3>2 DEF Calm, Behind, Outdated, Selected
    <3>4. QED
      BY <3>3, CalmKeeps
  <2>4. QED
    BY <1>3, <2>2, <2>3 DEF Next
<1>4. QED
  BY <1>1, <1>2, <1>3 DEF SwitchNext

\* A change of the config or of the selection is not lost: when all calls and automatic
\* restarts are over, the core that runs is the one the files ask for, for any number
\* of clients and restarts and whatever saves fail, unless a change has overlooked a
\* start that had already read the files.
THEOREM ChangesTakeEffect == SwitchSpec => []SwitchTakesEffect
<1>1. SwitchInit => IndInv /\ SwitchIsPending
  <2>1. ASSUME SwitchInit PROVE SwitchIsPending
    BY <2>1 DEF SwitchInit, Init, SwitchIsPending, Outdated
  <2>2. QED
    BY <2>1, IndInvInit DEF SwitchInit
<1>2. IndInv /\ SwitchIsPending /\ [SwitchNext]_switchVars => IndInv' /\ SwitchIsPending'
  BY IndInvStep, SwitchIsPendingStep DEF SwitchNext, switchVars
<1>3. IndInv /\ SwitchIsPending => SwitchTakesEffect
  BY DEF IndInv, StatsFollowTheCore, SwitchIsPending, SwitchTakesEffect, Quiet, Excused, Behind
<1>4. QED
  BY <1>1, <1>2, <1>3, PTL DEF SwitchSpec
=============================================================================
