----------------------------- MODULE CoreSwitch -----------------------------
(***************************************************************************)
(* restartCoreForRuntimeChange (internal/service/native/service.go,        *)
(* 360-371) among the other operations of CoreLifecycle: UpdateConfig and  *)
(* SelectProfile save first and then restart a core that runs.  A start    *)
(* that has read config and selection and not committed yet is no running  *)
(* core: a change that looks at that moment returns without a restart, and *)
(* the start goes on with what it has read.  A history variable marks just *)
(* that; everything else must end with the core running what is on disk.   *)
(***************************************************************************)
EXTENDS CoreLifecycle

VARIABLE overlooked   \* history: the last start was taken for no core by a change
                      \* it had read too early to see
switchVars == <<vars, overlooked>>

\* The selection the next start would use: the first profile stands for none.
Selected(st) == IF st.prof = NoProfile THEN DefaultProfile ELSE st.prof

\* The start under way works on a config or a selection that is not on disk.
Outdated(p) ==
  \/ /\ pc[p] \in {"pickProfile", "pickSave", "clearStale", "launch", "commit"}
     /\ cfgCopy[p] # config
  \/ /\ pc[p] \in {"pickSave", "clearStale", "launch", "commit"}
     /\ stCopy[p].prof # Selected(state)

Overlooks(p) ==
  (ChangeCheck(p) \/ SwitchCheck(p)) /\ ~running /\ \E q \in Proc : Outdated(q)

\* A start that has yet to read sees every change.
Note ==
  overlooked' = \/ overlooked /\ \A p \in Proc : pc[p] # "loadConfig"
                \/ \E p \in Proc : Overlooks(p)

SwitchInit == Init /\ overlooked = FALSE
SwitchNext == Next /\ Note
SwitchSpec == SwitchInit /\ [][SwitchNext]_switchVars

-----------------------------------------------------------------------------
Quiet == \A p \in Proc : pc[p] = "idle"
Agrees == built = <<config, Selected(state)>>

\* A restart for a config or profile change is not lost: once every call and every
\* automatic restart is over, the core that runs is the one the files ask for,
\* whatever calls, automatic restarts, stale copies of the files and failing saves
\* there have been.  The exception is a start that a change has overlooked.
SwitchTakesEffect == Quiet /\ xrayCore = "live" /\ ~overlooked => Agrees

\* Somebody is on the way to a restart, having saved before.
Behind(p) ==
  \/ pc[p] \in {"changeCheck", "switchLock", "switchCheck"}
  \/ pc[p] \in {"offLock", "tunOff"} /\ op[p] = "updateOff"
  \/ pc[p] \in {"opLock", "stopTake"} /\ op[p] = "restart"
Excused == overlooked \/ \E p \in Proc : Behind(p)
\* What makes SwitchTakesEffect inductive: a core, or a start under way, that does
\* not go by the files has somebody on the way to the restart; what a start saves at
\* its end is what its core was built from, or what is on disk anyway.
SwitchIsPending ==
  /\ running => Agrees \/ Excused
  /\ \A p \in Proc :
       /\ Outdated(p) => Excused
       /\ running /\ pc[p] \in {"setupTun", "applyProxy"} => built[1] = cfgCopy[p]
       /\ running /\ pc[p] = "saveWrite" => stCopy[p].prof = state.prof \/ Excused
=============================================================================
