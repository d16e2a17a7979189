----------------------------- MODULE TunPolicy -----------------------------
(***************************************************************************)
(* Policy routing for the TUN device: the rules setupTunPolicyRouting puts *)
(* into the kernel, the cleanup that takes them out again, and the loop    *)
(* that rebuilds them when they no longer match the main routing table     *)
(* (internal/service/native/service.go, 2392-2462 and 2883-3240).          *)
(*                                                                         *)
(* Two goroutines work on the rules, both under coreOpMu: a lifecycle call *)
(* (User: start, stop, restart, a mode or profile change, the cleanup      *)
(* after an exit; CoreLifecycle has these in full) and the reconciliation  *)
(* loop (Rec).  One action is one ip command, one lookup or one critical   *)
(* section, so that a command can fail, the core can exit and the process  *)
(* can die between any two of them.                                        *)
(*                                                                         *)
(* One address family is modelled.  The code does the same for IPv4 and,   *)
(* when there is an IPv6 default route, for IPv6.                          *)
(***************************************************************************)
EXTENDS Naturals, Sequences, SequencesExt, Picks

CONSTANTS
  User, Rec,      \* the goroutines
  NoProc,         \* an unlocked mutex
  Profiles,
  Server,         \* [Profiles -> Targets]: the address a profile resolves to
  Dns,            \* dnsList and dnsServers of the config, in order
  RouteOrder,     \* the prefixes the main table may hold, in its order
  Moving,         \* those of them that come and go
  PrioMin, PrioMax,   \* tunPolicyRulePriorityMin and Max
  ForeignPrios,   \* priorities other tools put rules at
  Modes,          \* the modes the user switches between
  MaxEvents       \* bound: faults, exits, crashes and changes of the network

Proc == {User, Rec}
Targets == {Server[p] : p \in Profiles} \cup ToSet(Dns) \cup ToSet(RouteOrder)
AllModes == {"off", "policy", "other"}  \* other: TUN on, without policy rules

ASSUME PolicyAssumption ==
  /\ User # Rec /\ NoProc \notin Proc
  /\ Profiles # {} /\ Dns \in Seq(ToSet(Dns)) /\ RouteOrder \in Seq(ToSet(RouteOrder))
  /\ PrioMin \in Nat /\ PrioMax \in Nat /\ PrioMin + 1 < PrioMax
  /\ ForeignPrios \subseteq PrioMin..PrioMax
  /\ Modes \subseteq AllModes /\ Moving \subseteq ToSet(RouteOrder)
  /\ {"mark", "catch", "foreign"} \cap Targets = {}
  /\ MaxEvents \in Nat

VARIABLES
  coreOpMu,
  core,        \* the xray instance: "none", "live" or "dead"
  running, starting, degraded,      \* the flags of Service
  mode, prof,  \* config.json and state.json
  main,        \* the non-default prefixes of the main table
  rules,       \* ip rule, inside the priority window, in evaluation order
  tableRoute,  \* table 20230 has its default route through the device
  device,      \* the TUN device: "none", "due" (xray is creating it) or "up"
  pc, op,      \* where each goroutine is; the call User works for
  picked,      \* the profile Rec picked
  job,         \* the config and profile the holder of coreOpMu loaded
  bypass,      \* its bypassRules
  dels,        \* what it has still to read of its listing of the rules
  next,        \* how many bypass rules it has added
  after,       \* where clearManagedTunPolicyRouting returns to
  second,      \* startCore is at its second try
  built,       \* history: the list last installed to the end
  left,        \* history: a crash, a failed listing, a failed deletion or one
               \* that met the rule of another tool left rules of ours behind
  events       \* how much of MaxEvents is used up

service == <<core, running, starting, degraded>>
files == <<mode, prof>>
kernel == <<rules, tableRoute>>
work == <<picked, job, bypass, dels, next, after, second>>
history == <<built, left>>
vars == <<coreOpMu, service, files, main, kernel, device, pc, op, work, history, events>>

-----------------------------------------------------------------------------
(* The kernel's rule list: ordered by priority, and by age within one.     *)

Rule(prio, what) == [prio |-> prio, what |-> what]
\* ip rule add: behind every rule of the same or a smaller priority.
WithRule(list, r) ==
  InsertAt(list, Min({i \in 1..Len(list) + 1 : i \in DOMAIN list => list[i].prio > r.prio}), r)
\* ip rule del priority n: the first rule of that priority, if there is one.
WithoutPrio(list, n) ==
  LET found == {i \in DOMAIN list : list[i].prio = n}
  IN IF found = {} THEN list ELSE RemoveAt(list, Min(found))

\* Mutant: everything in the priority window counts as managed.
IsManagedAll(r) == r.prio \in PrioMin..PrioMax
\* isManagedTunPolicyRuleLine: mark, bypass and catch-all rules are ours.
IsManaged(r) == r.prio \in PrioMin..PrioMax /\ r.what # "foreign"
Has(what) == \E i \in DOMAIN rules : rules[i].what = what
\* installedTunPolicyBypassTargets.
Installed == {rules[i].what : i \in DOMAIN rules} \cap Targets

\* The positions an element stands at for the first time.
Firsts(list, E) == {i \in E : \A j \in E : list[j] = list[i] => i <= j}
\* Mutant: the targets that matter most come last.
BypassRulesServerLast(p, resolves) ==
  LET order == RouteOrder \o Dns \o <<Server[p]>>
      wanted == {i \in DOMAIN order :
                  /\ i = Len(order) => resolves
                  /\ i \in DOMAIN RouteOrder => order[i] \in main}
  IN Picked(order, Firsts(order, wanted))
\* buildTunPolicyBypassRulesForFamily: the profile's server, when its name
\* resolves, then the DNS servers, then the main table; each target once.
BypassRules(p, resolves) ==
  LET order == <<Server[p]>> \o Dns \o RouteOrder
      wanted == {i \in DOMAIN order :
                  /\ i = 1 => resolves
                  /\ i > 1 + Len(Dns) => order[i] \in main}
  IN Picked(order, Firsts(order, wanted))

Capacity == PrioMax - PrioMin - 1
Fitting(list) == SubSeq(list, 1, IF Len(list) < Capacity THEN Len(list) ELSE Capacity)

-----------------------------------------------------------------------------
\* Locals of a goroutine that has returned: any value will do.
SomeProfile == CHOOSE p \in Profiles : TRUE
NoJob == [mode |-> "off", prof |-> SomeProfile]
FramesGone ==
  /\ job' = NoJob /\ picked' = SomeProfile
  /\ bypass' = <<>> /\ dels' = <<>> /\ next' = 0
  /\ after' = "unlock" /\ second' = FALSE

Init ==
  /\ coreOpMu = NoProc
  /\ core = "none" /\ running = FALSE /\ starting = FALSE /\ degraded = FALSE
  /\ mode \in Modes
  /\ prof \in Profiles
  /\ main = ToSet(RouteOrder)
  /\ rules = <<>> /\ tableRoute = FALSE /\ device = "none"
  /\ pc = [p \in Proc |-> "idle"] /\ op = "none"
  /\ picked = SomeProfile /\ job = NoJob
  /\ bypass = <<>> /\ dels = <<>> /\ next = 0
  /\ after = "unlock" /\ second = FALSE
  /\ built = <<>> /\ left = FALSE
  /\ events = 0

Goto(p, l) == pc' = [pc EXCEPT ![p] = l]
Fault == events < MaxEvents /\ events' = events + 1
\* A step that works, or else uses up one event and fails.
Works(ok) == IF ok THEN UNCHANGED events ELSE Fault

-----------------------------------------------------------------------------
(* The environment.                                                        *)

\* The instance stops by itself; its device goes with it.
CoreExit ==
  /\ core = "live" /\ Fault
  /\ core' = "dead"
  /\ device' = "none" /\ tableRoute' = FALSE
  /\ UNCHANGED <<coreOpMu, running, starting, degraded, files, main, rules,
                 pc, op, work, history>>

DeviceUp ==
  /\ device = "due" /\ core = "live"
  /\ device' = "up"
  /\ UNCHANGED <<coreOpMu, service, files, main, kernel, pc, op, work, history, events>>

\* DHCP, docker, a VPN: a prefix enters or leaves the main table.
RouteChange(r) ==
  /\ Fault
  /\ main' = IF r \in main THEN main \ {r} ELSE main \cup {r}
  /\ UNCHANGED <<coreOpMu, service, files, kernel, device, pc, op, work, history>>

\* Another tool adds a rule of its own.
ForeignRule(n) ==
  /\ Fault
  /\ ~\E i \in DOMAIN rules : rules[i] = Rule(n, "foreign")
  /\ rules' = WithRule(rules, Rule(n, "foreign"))
  /\ UNCHANGED <<coreOpMu, service, files, main, tableRoute, device, pc, op, work, history>>

\* The process dies and comes up again: files and kernel rules survive.
Crash ==
  /\ Fault
  /\ core' = "none" /\ running' = FALSE /\ starting' = FALSE /\ degraded' = FALSE
  /\ device' = "none" /\ tableRoute' = FALSE
  /\ coreOpMu' = NoProc
  /\ pc' = [p \in Proc |-> "idle"] /\ op' = "none"
  /\ FramesGone
  /\ left' = TRUE
  /\ UNCHANGED <<files, main, rules, built>>

-----------------------------------------------------------------------------
(* Calls.                                                                  *)

Call(o) ==
  /\ pc[User] = "idle" /\ o \in {"start", "stop", "restart"}
  /\ op' = o
  /\ Goto(User, "lock")
  /\ UNCHANGED <<coreOpMu, service, files, main, kernel, device, work, history, events>>

\* The watchdog or a status poll finds the core dead.
CallExit ==
  /\ pc[User] = "idle" /\ core = "dead"
  /\ core' = "none" /\ running' = FALSE /\ degraded' = FALSE
  /\ op' = "exit"
  /\ Goto(User, "lock")
  /\ UNCHANGED <<coreOpMu, starting, files, main, kernel, device, work, history, events>>

\* SelectProfile saves, then restarts a running core.
CallSelect(p) ==
  /\ pc[User] = "idle" /\ p # prof
  /\ prof' = p
  /\ IF running THEN op' = "restart" /\ Goto(User, "lock") ELSE UNCHANGED <<op, pc>>
  /\ UNCHANGED <<coreOpMu, service, mode, main, kernel, device, work, history, events>>

\* UpdateConfig saves; switching TUN off cleans up under coreOpMu; then a
\* running core is restarted.
CallMode(m) ==
  /\ pc[User] = "idle" /\ m # mode
  /\ mode' = m
  /\ IF m = "off" THEN op' = "off" /\ Goto(User, "lock")
     ELSE IF running THEN op' = "restart" /\ Goto(User, "lock")
     ELSE UNCHANGED <<op, pc>>
  /\ UNCHANGED <<coreOpMu, service, prof, main, kernel, device, work, history, events>>

Entry(p) ==
  IF p = Rec THEN "recCheck"
  ELSE CASE op = "start" -> "claim"
         [] op \in {"stop", "restart"} -> "stop"
         [] op = "off" -> "list"
         [] op = "exit" -> "exitCheck"

Lock(p) ==
  /\ pc[p] = "lock" /\ coreOpMu = NoProc
  /\ coreOpMu' = p
  /\ Goto(p, Entry(p))
  /\ after' = IF p = User /\ op = "off" THEN "unlock" ELSE after
  /\ UNCHANGED <<service, files, main, kernel, device, op,
                 picked, job, bypass, dels, next, second, history, events>>

\* The end of the section; after "off" comes restartCoreForRuntimeChange.
Unlock(p) ==
  /\ pc[p] = "unlock"
  /\ coreOpMu' = NoProc
  /\ IF p = User /\ op = "off" /\ running
     THEN op' = "restart" /\ Goto(p, "lock")
     ELSE op' = (IF p = User THEN "none" ELSE op) /\ Goto(p, "idle")
  /\ starting' = IF p = User THEN FALSE ELSE starting
  /\ IF p = Rec
     THEN FramesGone
     ELSE /\ job' = NoJob /\ bypass' = <<>> /\ dels' = <<>> /\ next' = 0
          /\ after' = "unlock" /\ second' = FALSE /\ UNCHANGED picked
  /\ UNCHANGED <<core, running, degraded, files, main, kernel, device, history, events>>

-----------------------------------------------------------------------------
(* The lifecycle under coreOpMu, as far as it matters here.                *)

StopCore ==
  /\ pc[User] = "stop"
  /\ core' = "none" /\ running' = FALSE /\ degraded' = FALSE
  /\ device' = "none" /\ tableRoute' = FALSE
  /\ Goto(User, "list") /\ after' = "linkDel"
  /\ UNCHANGED <<coreOpMu, starting, files, main, rules, op,
                 picked, job, bypass, dels, next, second, history, events>>

\* cleanupAfterCoreExitLocked.
ExitCheck ==
  /\ pc[User] = "exitCheck"
  /\ IF running THEN Goto(User, "unlock") /\ UNCHANGED after
                ELSE Goto(User, "list") /\ after' = "linkDel"
  /\ UNCHANGED <<coreOpMu, service, files, main, kernel, device, op,
                 picked, job, bypass, dels, next, second, history, events>>

\* The start slot; a core found dead is cleaned up first.
Claim ==
  /\ pc[User] = "claim"
  /\ IF core = "dead"
     THEN /\ core' = "none" /\ running' = FALSE /\ degraded' = FALSE
          /\ Goto(User, "list") /\ after' = "linkDel"
          /\ UNCHANGED <<starting, job>>
     ELSE IF running
     THEN Goto(User, "unlock") /\ UNCHANGED <<core, running, degraded, starting, job, after>>
     ELSE /\ starting' = TRUE
          /\ job' = [mode |-> mode, prof |-> prof]
          /\ IF mode = "off" THEN Goto(User, "launch") /\ UNCHANGED after
                             ELSE Goto(User, "list") /\ after' = "launch"
          /\ UNCHANGED <<core, running, degraded>>
  /\ UNCHANGED <<coreOpMu, files, main, kernel, device, op,
                 picked, bypass, dels, next, second, history, events>>

\* Launch and commit; xray creates the device in its own time.
Launch(ok) ==
  /\ pc[User] = "launch" /\ Works(ok)
  /\ IF ok
     THEN /\ core' = "live" /\ running' = TRUE /\ degraded' = FALSE
          /\ device' = IF job.mode = "off" THEN "none" ELSE "due"
          /\ Goto(User, IF job.mode = "policy" THEN "wait" ELSE "unlock")
     ELSE Goto(User, "unlock") /\ UNCHANGED <<core, running, degraded, device>>
  /\ UNCHANGED <<coreOpMu, starting, files, main, kernel, op, work, history>>

\* What follows a failed setupTunPolicyRouting: the reconciler warns; startCore
\* deletes the interface and tries again, and then declares the core degraded.
Failed(p) ==
  /\ pc[p] = "failed"
  /\ IF p = User /\ ~second
     THEN /\ device' = (IF device = "up" THEN "none" ELSE device)
          /\ tableRoute' = FALSE
          /\ second' = TRUE /\ Goto(p, "wait") /\ UNCHANGED degraded
     ELSE /\ degraded' = (degraded \/ p = User)
          /\ Goto(p, "unlock")
          /\ UNCHANGED <<device, tableRoute, second>>
  /\ UNCHANGED <<coreOpMu, core, running, starting, files, main, rules, op,
                 picked, job, bypass, dels, next, after, history, events>>

-----------------------------------------------------------------------------
(* setupTunPolicyRouting.                                                  *)

\* waitForNetworkInterface: the device is there, or 5 seconds are over.
Wait(p) ==
  /\ pc[p] = "wait"
  /\ Goto(p, IF device = "up" THEN "build" ELSE "failed")
  /\ UNCHANGED <<coreOpMu, service, files, main, kernel, device, op, work, history, events>>

\* Read the main table, look the server up, collect the bypass targets.  A
\* failed lookup leaves the server out; a failed reading is an error.
Build(p, ok) ==
  /\ pc[p] = "build" /\ Works(ok)
  /\ \/ /\ bypass' = BypassRules(job.prof, ok)
        /\ after' = "addRoute"
        /\ Goto(p, "list")
     \/ ~ok /\ Goto(p, "failed") /\ UNCHANGED <<bypass, after>>
  /\ UNCHANGED <<coreOpMu, service, files, main, kernel, device, op,
                 picked, job, dels, next, second, history>>

\* clearManagedTunPolicyRoutingForFamily lists the rules once; a failed
\* listing only shows in the log.
ListRules(p, ok) ==
  /\ pc[p] = "list" /\ Works(ok)
  /\ dels' = IF ok THEN rules ELSE <<>>
  /\ left' = ~ok
  /\ Goto(p, "del")
  /\ UNCHANGED <<coreOpMu, service, files, main, kernel, device, op,
                 picked, job, bypass, next, after, second, built>>

\* Delete the next rule of ours in the listing, by its priority; a deletion that
\* fails is passed over.  In the end delete the route in table 20230.
Delete(p, ok) ==
  LET ours == {k \in DOMAIN dels : IsManaged(dels[k])}
      first == Min(ours)
  IN /\ pc[p] = "del" /\ Works(ok)
     /\ IF ours = {}
        THEN /\ tableRoute' = (tableRoute /\ ~ok) /\ Goto(p, after)
             /\ dels' = <<>> /\ UNCHANGED <<rules, left>>
        ELSE /\ rules' = IF ok THEN WithoutPrio(rules, dels[first].prio) ELSE rules
             /\ dels' = SubSeq(dels, first + 1, Len(dels))
             /\ left' = (left \/ ~ok \/ \E i \in DOMAIN rules :
                          rules[i].what = "foreign" /\ ~Contains(rules', rules[i]))
             /\ UNCHANGED <<tableRoute, pc>>
     /\ UNCHANGED <<coreOpMu, service, files, main, device, op,
                    picked, job, bypass, next, after, second, built>>

\* The rest of clearTunRouting: the interface goes.
LinkDel ==
  /\ pc[User] = "linkDel"
  /\ device' = "none" /\ tableRoute' = FALSE
  /\ Goto(User, IF op \in {"start", "restart"} THEN "claim" ELSE "unlock")
  /\ UNCHANGED <<coreOpMu, service, files, main, rules, op, work, history, events>>

\* ip route replace table 20230 default dev <tun>.
AddRoute(p, ok) ==
  /\ pc[p] = "addRoute"
  /\ IF device = "up"
     THEN /\ Works(ok)
          /\ tableRoute' = (ok \/ tableRoute)
          /\ Goto(p, IF ok THEN "addMark" ELSE "failed")
     ELSE ok /\ Goto(p, "failed") /\ UNCHANGED <<tableRoute, events>>
  /\ next' = 0
  /\ UNCHANGED <<coreOpMu, service, files, main, rules, device, op,
                 picked, job, bypass, dels, after, second, history>>

\* Mutant: a rule that cannot be added is skipped.
AddGoingOn(p, r, ok, then) ==
  /\ rules' = IF ok THEN WithRule(rules, r) ELSE rules
  /\ Works(ok) /\ Goto(p, then)
\* ip rule add refuses a rule that is already there.
Add(p, r, ok, then) ==
  IF \E i \in DOMAIN rules : rules[i] = r
  THEN ok /\ Goto(p, "failed") /\ UNCHANGED <<rules, events>>
  ELSE /\ Works(ok)
       /\ rules' = IF ok THEN WithRule(rules, r) ELSE rules
       /\ Goto(p, IF ok THEN then ELSE "failed")

AddMark(p, ok) ==
  /\ pc[p] = "addMark"
  /\ Add(p, Rule(PrioMin, "mark"), ok, "addBypass")
  /\ UNCHANGED <<coreOpMu, service, files, main, tableRoute, device, op, work, history>>

\* Mutant: the last priority, which the catch-all needs, is used as well.
AddBypassOneMore(p, ok) ==
  LET prio == PrioMin + 1 + next
  IN /\ pc[p] = "addBypass"
     /\ IF next < Len(bypass) /\ prio <= PrioMax
        THEN /\ Add(p, Rule(prio, bypass[next + 1]), ok, "addBypass")
             /\ next' = next + 1
        ELSE ok /\ Goto(p, "addCatch") /\ UNCHANGED <<rules, next, events>>
     /\ UNCHANGED <<coreOpMu, service, files, main, tableRoute, device, op,
                    picked, job, bypass, dels, after, second, history>>

\* One bypass rule after the other, while there are priorities left.
AddBypass(p, ok) ==
  LET prio == PrioMin + 1 + next
  IN /\ pc[p] = "addBypass"
     /\ IF next < Len(bypass) /\ prio < PrioMax
        THEN /\ Add(p, Rule(prio, bypass[next + 1]), ok, "addBypass")
             /\ next' = next + 1
        ELSE ok /\ Goto(p, "addCatch") /\ UNCHANGED <<rules, next, events>>
     /\ UNCHANGED <<coreOpMu, service, files, main, tableRoute, device, op,
                    picked, job, bypass, dels, after, second, history>>

AddCatch(p, ok) ==
  /\ pc[p] = "addCatch"
  /\ Add(p, Rule(PrioMin + 1 + next, "catch"), ok, "unlock")
  /\ built' = IF pc'[p] = "unlock" THEN bypass ELSE built
  /\ UNCHANGED <<coreOpMu, service, files, main, tableRoute, device, op, work, left>>

-----------------------------------------------------------------------------
(* reconcileTunPolicyRouting.                                              *)

\* The checks before the lock; the profile is read after them.
RecTick ==
  /\ pc[Rec] = "idle" /\ mode = "policy"
  /\ running /\ ~starting
  /\ Goto(Rec, "pick")
  /\ UNCHANGED <<coreOpMu, service, files, main, kernel, device, op, work, history, events>>

RecPick ==
  /\ pc[Rec] = "pick"
  /\ picked' = prof
  /\ Goto(Rec, "lock")
  /\ UNCHANGED <<coreOpMu, service, files, main, kernel, device, op,
                 job, bypass, dels, next, after, second, history, events>>

\* Mutant: what was checked before the lock is not checked again.
RecCheckNothing ==
  /\ pc[Rec] = "recCheck"
  /\ job' = [mode |-> mode, prof |-> picked]
  /\ Goto(Rec, "drift")
  /\ UNCHANGED <<coreOpMu, service, files, main, kernel, device, op,
                 picked, bypass, dels, next, after, second, history, events>>

\* Under the lock: is the core still running, is the mode still policy.
RecCheck ==
  /\ pc[Rec] = "recCheck"
  /\ job' = [mode |-> mode, prof |-> picked]
  /\ Goto(Rec, IF running /\ mode = "policy" THEN "drift" ELSE "unlock")
  /\ UNCHANGED <<coreOpMu, service, files, main, kernel, device, op,
                 picked, bypass, dels, next, after, second, history, events>>

\* Mutant: targets that are missing do not count as drift.
HasDriftStale(desired) == ~(Installed \subseteq desired)
\* diffTunPolicyPrefixSets finds something.
HasDrift(desired) == desired # Installed

\* A failed reading of the tables ends the tick.
Drift(ok) ==
  /\ pc[Rec] = "drift" /\ Works(ok)
  /\ \/ Goto(Rec, IF HasDrift(ToSet(BypassRules(job.prof, ok))) THEN "wait" ELSE "unlock")
     \/ ~ok /\ Goto(Rec, "unlock")
  /\ UNCHANGED <<coreOpMu, service, files, main, kernel, device, op, work, history>>

-----------------------------------------------------------------------------
Environment ==
  \/ CoreExit \/ Crash
  \/ \E r \in Moving : RouteChange(r)
  \/ \E n \in ForeignPrios : ForeignRule(n)
Arrive ==
  \/ \E o \in {"start", "stop", "restart"} : Call(o)
  \/ CallExit
  \/ \E p \in Profiles : CallSelect(p)
  \/ \E m \in Modes : CallMode(m)
Command(p, ok) ==
  \/ Build(p, ok) \/ ListRules(p, ok) \/ Delete(p, ok) \/ AddRoute(p, ok) \/ AddMark(p, ok)
  \/ AddBypass(p, ok) \/ AddCatch(p, ok)
Step(p) ==
  \/ Unlock(p) \/ Failed(p) \/ Wait(p)
  \/ \E ok \in BOOLEAN : Command(p, ok)
UserStep ==
  StopCore \/ ExitCheck \/ Claim \/ LinkDel \/ \E ok \in BOOLEAN : Launch(ok)
RecStep == RecPick \/ RecCheck \/ \E ok \in BOOLEAN : Drift(ok)

Next ==
  \/ Environment \/ DeviceUp \/ Arrive \/ RecTick \/ UserStep \/ RecStep
  \/ \E p \in Proc : Step(p) \/ Lock(p)

Spec == Init /\ [][Next]_vars

\* Goroutines that can run do, a waiter gets coreOpMu, the ticker ticks and
\* xray creates its device.
Fairness ==
  /\ WF_vars(UserStep) /\ WF_vars(RecStep) /\ WF_vars(RecTick) /\ WF_vars(DeviceUp)
  /\ \A p \in Proc : WF_vars(Step(p)) /\ SF_vars(Lock(p))
FairSpec == Spec /\ Fairness

-----------------------------------------------------------------------------
(* Properties.                                                             *)

Free == coreOpMu = NoProc
IsOurs(r) == r.what # "foreign"
Labels == {"idle", "pick", "lock", "claim", "stop", "list", "exitCheck", "recCheck",
           "unlock", "launch", "failed", "wait", "build", "del", "linkDel", "addRoute",
           "addMark", "addBypass", "addCatch", "drift"}

KernelRules ==
  [prio : PrioMin..PrioMax, what : Targets \cup {"mark", "catch", "foreign"}]

\* Every variable keeps its type.  Above all, no rule gets a priority outside the
\* window, where the next cleanup would not take it for one of ours.
TypeOK ==
  /\ coreOpMu \in Proc \cup {NoProc}
  /\ core \in {"none", "live", "dead"} /\ device \in {"none", "due", "up"}
  /\ running \in BOOLEAN /\ starting \in BOOLEAN /\ degraded \in BOOLEAN
  /\ mode \in AllModes /\ prof \in Profiles /\ picked \in Profiles
  /\ job \in [mode: AllModes, prof: Profiles]
  /\ main \subseteq ToSet(RouteOrder)
  /\ tableRoute \in BOOLEAN /\ second \in BOOLEAN /\ left \in BOOLEAN
  /\ pc \in [Proc -> Labels]
  /\ op \in {"none", "start", "stop", "restart", "off", "exit"}
  /\ after \in {"unlock", "linkDel", "launch", "addRoute"}
  /\ next \in 0..Capacity /\ events \in 0..MaxEvents
  /\ bypass \in Seq(Targets) /\ built \in Seq(Targets)
  /\ rules \in Seq(KernelRules) /\ dels \in Seq(KernelRules)

\* Whenever nobody works on the rules and there is a catch-all, xray's own
\* traffic escapes it: the mark rule stands before it.  (It is the other way
\* round for a moment inside a cleanup, which deletes in ascending order, and
\* for longer when the deletion of the catch-all and then a command of the
\* rebuild fail.)
EscapeFirst ==
  Free /\ Has("catch") /\ ~left =>
    \E i, j \in DOMAIN rules : i < j /\ rules[i].what = "mark" /\ rules[j].what = "catch"

\* Whenever nobody works on the rules and a catch-all is in force, the bypass
\* rules are those of one build, from its first entry on: neither a failed nor
\* an interrupted rebuild leaves a mixture of two builds behind a catch-all.
NoMixture ==
  Free /\ Has("catch") /\ ~left => Installed = ToSet(Fitting(built))

\* However tight the window, a server that was looked up and the DNS servers are
\* bypassed: what is cut off is the end of the main table (service.go:2791).
\* The server of another profile may stand there.
CriticalFirst ==
  Free /\ Has("catch") /\ ~left =>
    ToSet(built) \cap (({Server[p] : p \in Profiles} \ ToSet(RouteOrder)) \cup ToSet(Dns))
      \subseteq Installed

\* After a stop, an exit or a switch away from policy routing, and whatever the
\* reconciliation had under way meanwhile, no rule of ours is left.
NoStrayRules ==
  Free /\ pc[User] = "idle" /\ ~left /\ core # "dead" /\ (~running \/ mode # "policy")
    => ~\E i \in DOMAIN rules : IsOurs(rules[i])

\* Rules other tools keep in the same window are left untouched
\* (service.go:3183).
ForeignRulesSurvive ==
  [][\A i \in DOMAIN rules : rules[i].what = "foreign" => Contains(rules', rules[i])]_vars

\* A rule of another tool disappears only when one of ours has its priority: the
\* rules are listed by owner, and then deleted by priority.
ForeignLossNeedsSharedPrio ==
  [][\A i \in DOMAIN rules : rules[i].what = "foreign" =>
       \/ Contains(rules', rules[i])
       \/ \E j \in DOMAIN rules : IsOurs(rules[j]) /\ rules[j].prio = rules[i].prio]_vars

\* While the core keeps running with its device and the faults end, the bypass
\* rules end up as the routing table and the profile in use call for: nothing
\* the window has room for is missing, and nothing is stale.
Steady == core = "live" /\ device = "up" /\ mode = "policy"
InSync ==
  LET wanted == BypassRules(prof, TRUE)
  IN ToSet(Fitting(wanted)) \subseteq Installed /\ Installed \subseteq ToSet(wanted)
Repaired == <>[]Steady => <>[](Free => InSync)
=============================================================================
