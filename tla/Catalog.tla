------------------------------ MODULE Catalog ------------------------------
(***************************************************************************)
(* Profiles, subscriptions and the persisted state: the operations of      *)
(* internal/service/native/service.go on the three JSON files that         *)
(* internal/storage/store.go keeps.                                        *)
(*                                                                         *)
(* The store takes its lock for one load or one save at a time, so an      *)
(* operation is a sequence of store calls (its todo list) with those of    *)
(* other goroutines in between: each works on the copy it loaded.  Only    *)
(* UpdateProfileDelay(s) load and save under one lock.                     *)
(*                                                                         *)
(* LoadProfiles and LoadSubscriptions copy their slices.  LoadState copies *)
(* a struct, so the map LastAutoUpdateAttempts is shared by the cache and  *)
(* every copy: maps[n] is the n-th map ever made, 0 is the nil map.  A     *)
(* write to it outside the lock can meet the iteration of a save, and the  *)
(* runtime then ends the process: Crash is that as well.                   *)
(*                                                                         *)
(* Time is counted in back-off windows of ten minutes; a pass of the       *)
(* auto-update loop falls into one of them.  Files are readable.           *)
(***************************************************************************)
EXTENDS Naturals, Sequences, SequencesExt, Picks

CONSTANTS Callers,    \* request goroutines that may be under way at a time
          Loop,       \* the goroutine of autoUpdateLoop
          Bodies,     \* what a profile says: address, port, protocol, ...
          Offers,     \* what a fetch can return: sequences of bodies
          MaxCalls,   \* bound: operations begun by callers and passes of the loop
          MaxWindows, \* bound: back-off windows that end
          MaxFaults   \* bound: crashes, failed saves and failed fetches

ASSUME CatalogAssumption ==
  /\ Loop \notin Callers /\ Bodies # {} /\ Offers \subseteq Seq(Bodies) \ {<<>>}

VARIABLES profiles, \* profiles.json: a sequence of [id, sub, body, ms]
          subs,     \* subscriptions.json: a sequence of [id, on]
          state,    \* the cached state.json: [cur, restore, marks]
          disk,     \* the attempts in the file: [nil, set]
          maps,     \* the attempt maps, each the ids tried in this window
          tried,    \* s.autoUpdateAttempts, likewise
          task,     \* what each goroutine is doing
          nextId, calls, windows, faults,
          \* history
          overtaken, \* files others have written since a goroutine's work on them began
          fetched,   \* subscriptions the loop has fetched in this window
          refetched, \* the loop fetched one twice in a window
          markLost   \* a save of the state failed or was itself out of date

catVars == <<profiles, subs, state, disk, maps, tried, task, nextId, calls,
             windows, faults, overtaken, fetched, refetched, markLost>>

None == 0

Files == {"profiles", "subs", "state"}

Workers == Callers \cup {Loop}

NoTask == [op |-> "none", ids |-> {}, arg |-> None, todo |-> <<>>, list |-> <<>>,
           ps |-> <<>>, ss |-> <<>>, st |-> None]

IdsOf(seq) == {seq[i].id : i \in DOMAIN seq}

CatInit ==
  /\ profiles = <<[id |-> 1, sub |-> 3, body |-> CHOOSE b \in Bodies : TRUE, ms |-> 0],
                  [id |-> 2, sub |-> None, body |-> CHOOSE b \in Bodies : TRUE, ms |-> 0]>>
  /\ subs = <<[id |-> 3, on |-> TRUE]>>
  /\ state = [cur |-> 1, restore |-> FALSE, marks |-> 0]
  /\ disk = [nil |-> TRUE, set |-> {}]
  /\ maps = <<>>
  /\ tried = {}
  /\ task = [c \in Workers |-> NoTask]
  /\ nextId = 4
  /\ calls = 0 /\ windows = 0 /\ faults = 0
  /\ overtaken = [c \in Workers |-> {}]
  /\ fetched = {} /\ refetched = FALSE /\ markLost = FALSE

Idle(c) == task[c].op = "none"

-----------------------------------------------------------------------------
(* The operations: each begins a task with the store calls it will make.   *)
BeginTask(c, op, ids, arg, todo) ==
  /\ Idle(c)
  /\ task' = [task EXCEPT ![c] =
       [NoTask EXCEPT !.op = op, !.ids = ids, !.arg = arg, !.todo = todo]]
  /\ overtaken' = [overtaken EXCEPT ![c] = {}]
  /\ UNCHANGED <<profiles, subs, state, disk, maps, tried, nextId, windows,
                 faults, fetched, refetched, markLost>>

Rewrite == <<"LoadProfiles", "SaveProfiles">>
RewriteState == <<"LoadState", "SaveState">>
RewriteSubs == <<"LoadSubs", "SaveSubs">>

(* A refresh that loads the profiles first; the one of the code; a loop    *)
(* that keeps its attempts in memory only; the one of the code.            *)
RefreshOfOldCopy == <<"LoadSubs", "LoadProfiles", "Fetch", "SaveProfiles", "SaveSubs">>
Refresh == <<"LoadSubs", "Fetch">> \o Rewrite \o <<"SaveSubs">>
LoopStepsUnsaved == Refresh
LoopSteps == RewriteState \o Refresh


CreateProfile(c, b) == BeginTask(c, "create", {}, b, Rewrite)
UpdateProfile(c, id, b) == BeginTask(c, "update", {id}, b, Rewrite)
DeleteProfiles(c, ids) == BeginTask(c, "delete", ids, None, Rewrite \o RewriteState)
SelectProfile(c, id) == BeginTask(c, "select", {id}, None, <<"LoadProfiles">> \o RewriteState)
TestProfileDelays(c, ids) == BeginTask(c, "delay", ids, None, <<"LoadProfiles", "SaveDelays">>)
ImportProfileFromURI(c, b) == BeginTask(c, "import", {}, b, <<"LoadProfiles">> \o Rewrite)
CreateSubscription(c) == BeginTask(c, "createSub", {}, None, RewriteSubs)
UpdateSubscription(c, id, on) == BeginTask(c, "editSub", {id}, on, RewriteSubs)
DeleteSubscription(c, id) == BeginTask(c, "deleteSub", {id}, None, RewriteSubs \o Rewrite)
UpdateSubscriptionByID(c, id) == BeginTask(c, "refresh", {id}, None, Refresh)
UpdateSubscriptions(c) == BeginTask(c, "refreshAll", {}, None, <<"ListSubs">>)
SaveRestoreFlag(c, on) == BeginTask(c, "restore", {}, on, RewriteState)

RunDueAutoUpdates ==
  /\ calls < MaxCalls
  /\ calls' = calls + 1
  /\ BeginTask(Loop, "auto", {}, None, <<"ListSubs">>)

CatalogRequest(c) ==
  /\ calls < MaxCalls
  /\ calls' = calls + 1
  /\ \/ \E b \in Bodies : CreateProfile(c, b) \/ ImportProfileFromURI(c, b)
     \/ \E p \in IdsOf(profiles) :
          \/ SelectProfile(c, p)
          \/ \E b \in Bodies : UpdateProfile(c, p, b)
     \/ \E ps \in (SUBSET IdsOf(profiles)) \ {{}} :
          DeleteProfiles(c, ps) \/ TestProfileDelays(c, ps)
     \/ \E s \in IdsOf(subs) :
          \/ DeleteSubscription(c, s) \/ UpdateSubscriptionByID(c, s)
          \/ \E on \in BOOLEAN : UpdateSubscription(c, s, on)
     \/ CreateSubscription(c) \/ UpdateSubscriptions(c)
     \/ \E on \in BOOLEAN : SaveRestoreFlag(c, on)

-----------------------------------------------------------------------------
(* A task in the state t goes on; one with nothing left to do is over, and *)
(* one that gives up a subscription still has the rest of its list.        *)
Set(c, t) ==
  task' = [task EXCEPT ![c] = IF t.todo = <<>> /\ t.list = <<>> THEN NoTask ELSE t]

Next1(t) == [t EXCEPT !.todo = Tail(@)]

GiveUp(t) == [t EXCEPT !.todo = <<>>]

At(c, step) == task[c].todo # <<>> /\ Head(task[c].todo) = step

Wrote(c, f) ==
  overtaken' = [d \in Workers |->
    IF d # c /\ ~Idle(d) THEN overtaken[d] \cup {f} ELSE overtaken[d]]

(* A load: what others wrote before it is not behind the loader's back.    *)
Reads(c, f) == overtaken' = [overtaken EXCEPT ![c] = @ \ {f}]

Fault == faults < MaxFaults /\ faults' = faults + 1

Fail(c) ==
  /\ Fault
  /\ Set(c, GiveUp(task[c]))
  /\ UNCHANGED <<profiles, subs, state, disk, overtaken>>

Counters == <<nextId, calls, windows>>

(* LoadProfiles, and the search each operation does in what it got.        *)
Equivalent(ps, b) == \E i \in DOMAIN ps : ps[i].body = b

AfterLoad(t) ==
  LET u == [Next1(t) EXCEPT !.ps = profiles,
                            !.ids = IF t.op = "delete" THEN @ \cap IdsOf(profiles) ELSE @]
  IN  CASE t.op \in {"update", "delete", "select", "delay"} ->
             IF t.ids \cap IdsOf(profiles) = {} THEN GiveUp(t) ELSE
             IF t.op = "select" THEN Next1(t) ELSE u
        [] t.op = "import" ->
             IF Equivalent(profiles, t.arg)
             THEN [u EXCEPT !.todo = <<"SaveProfiles">>]
             ELSE [Next1(t) EXCEPT !.op = "create"]
        [] OTHER -> u

LoadProfiles(c) ==
  /\ At(c, "LoadProfiles")
  /\ Set(c, AfterLoad(task[c]))
  /\ Reads(c, "profiles")
  /\ UNCHANGED <<profiles, subs, state, disk, maps, tried, faults, fetched,
                 refetched, markLost, Counters>>

(* The list each operation writes, from the one it loaded.  A client that  *)
(* updates a profile sends back what it does not change.                   *)
Entry(id, sub, b) == [id |-> id, sub |-> sub, body |-> b, ms |-> 0]

Without(seq, Drop(_)) == Picked(seq, {i \in DOMAIN seq : ~Drop(seq[i])})

Edited(t) ==
  CASE t.op = "create" -> Append(t.ps, Entry(nextId, None, t.arg))
    [] t.op = "update" ->
         LET i == CHOOSE i \in DOMAIN t.ps : t.ps[i].id \in t.ids
         IN  [t.ps EXCEPT ![i].body = t.arg]
    [] t.op = "import" ->
         LET i == CHOOSE i \in DOMAIN t.ps : t.ps[i].body = t.arg /\
                    \A j \in 1 .. i - 1 : t.ps[j].body # t.arg
         IN  [t.ps EXCEPT ![i].ms = 0]
    [] t.op = "delete" -> Without(t.ps, LAMBDA p : p.id \in t.ids)
    [] t.op = "deleteSub" -> Without(t.ps, LAMBDA p : p.sub \in t.ids)
    [] OTHER -> Without(t.ps, LAMBDA p : p.sub \in t.ids) \o t.arg

SaveProfiles(c) ==
  /\ At(c, "SaveProfiles")
  /\ \/ LET new == Edited(task[c])
        IN  /\ profiles' = new
            /\ Set(c, [Next1(task[c]) EXCEPT
                 !.ps = IF task[c].op = "delete" THEN new ELSE <<>>,
                 !.arg = None])
            /\ nextId' = IF task[c].op = "create" THEN nextId + 1 ELSE nextId
            /\ Wrote(c, "profiles")
            /\ UNCHANGED <<subs, state, disk, faults>>
     \/ Fail(c) /\ UNCHANGED nextId
  /\ UNCHANGED <<maps, tried, fetched, refetched, markLost, calls, windows>>

(* UpdateProfileDelay(s): load, change and save under one lock, of the     *)
(* profiles that answered; nothing is saved if none of them is there.      *)
WithDelays(ps, ids) ==
  [i \in DOMAIN ps |-> IF ps[i].id \in ids THEN [ps[i] EXCEPT !.ms = 1] ELSE ps[i]]

SaveDelays(c) ==
  /\ At(c, "SaveDelays")
  /\ \/ \E ids \in SUBSET (task[c].ids \cap IdsOf(task[c].ps)) :
          /\ IF ids \cap IdsOf(profiles) # {}
             THEN profiles' = WithDelays(profiles, ids) /\ Wrote(c, "profiles")
             ELSE UNCHANGED <<profiles, overtaken>>
          /\ Set(c, Next1(task[c]))
          /\ UNCHANGED <<subs, state, disk, faults>>
     \/ Fail(c)
  /\ UNCHANGED <<maps, tried, fetched, refetched, markLost, Counters>>

LoadSubs(c) ==
  /\ At(c, "LoadSubs")
  /\ Set(c, IF task[c].op # "createSub" /\ task[c].ids \cap IdsOf(subs) = {}
            THEN GiveUp(task[c])
            ELSE [Next1(task[c]) EXCEPT !.ss = subs])
  /\ Reads(c, "subs")
  /\ UNCHANGED <<profiles, subs, state, disk, maps, tried, faults, fetched,
                 refetched, markLost, Counters>>

EditedSubs(t) ==
  CASE t.op = "createSub" -> Append(t.ss, [id |-> nextId, on |-> TRUE])
    [] t.op = "editSub" ->
         [i \in DOMAIN t.ss |-> IF t.ss[i].id \in t.ids THEN [t.ss[i] EXCEPT !.on = t.arg]
                                                        ELSE t.ss[i]]
    [] t.op = "deleteSub" -> Without(t.ss, LAMBDA e : e.id \in t.ids)
    [] OTHER -> t.ss

SaveSubs(c) ==
  /\ At(c, "SaveSubs")
  /\ \/ /\ subs' = EditedSubs(task[c])
        /\ Set(c, [Next1(task[c]) EXCEPT !.ss = <<>>])
        /\ nextId' = IF task[c].op = "createSub" THEN nextId + 1 ELSE nextId
        /\ Wrote(c, "subs")
        /\ UNCHANGED <<profiles, state, disk, faults>>
     \/ Fail(c) /\ UNCHANGED nextId
  /\ UNCHANGED <<maps, tried, fetched, refetched, markLost, calls, windows>>

-----------------------------------------------------------------------------
(* The lists of UpdateSubscriptions (what is enabled) and of the loop      *)
(* (what is enabled and due: an interval may be shorter than the window).  *)
ListSubs(c) ==
  /\ At(c, "ListSubs")
  /\ LET on == Without(subs, LAMBDA s : ~s.on)
     IN  IF task[c].op = "auto"
         THEN \E due \in SUBSET IdsOf(on) :
                Set(c, [Next1(task[c]) EXCEPT !.list =
                  [i \in DOMAIN Without(on, LAMBDA s : s.id \notin due) |->
                     Without(on, LAMBDA s : s.id \notin due)[i].id]])
         ELSE Set(c, [Next1(task[c]) EXCEPT !.list = [i \in DOMAIN on |-> on[i].id]])
  /\ UNCHANGED <<profiles, subs, state, disk, maps, tried, faults, overtaken,
                 fetched, refetched, markLost, Counters>>

(* lastAutoUpdateAttempt: memory first, then the cached state.             *)
Persisted == IF state.marks = 0 THEN {} ELSE maps[state.marks]

Attempted(id) == id \in tried \cup Persisted

(* The next subscription of the list.  The loop leaves out one it has      *)
(* tried in this window, and notes the attempt before it makes it.         *)
NextOfList(c) ==
  /\ task[c].todo = <<>> /\ task[c].list # <<>>
  /\ LET id == Head(task[c].list)
         t == [NoTask EXCEPT !.op = task[c].op, !.ids = {id}, !.list = Tail(task[c].list)]
     IN  IF task[c].op = "auto"
         THEN /\ tried' = tried \cup {id}
              /\ Set(c, IF Attempted(id) THEN t
                        ELSE [t EXCEPT !.todo = LoopSteps])
         ELSE /\ Set(c, [t EXCEPT !.todo = Refresh])
              /\ UNCHANGED tried
  /\ overtaken' = [overtaken EXCEPT ![c] = {}]
  /\ UNCHANGED <<profiles, subs, state, disk, maps, faults, fetched, refetched,
                 markLost, Counters>>

(* ParseSubscriptionURL and dedupeImportedProfiles: no list at all, or one *)
(* profile for each body offered, in the place of the first and with the   *)
(* id of the last.                                                         *)
Deduped(offer, sub) ==
  LET firsts == {i \in DOMAIN offer : \A j \in 1 .. i - 1 : offer[j] # offer[i]}
      kept == Picked(offer, firsts)
      last(b) == Max({j \in DOMAIN offer : offer[j] = b})
  IN  [n \in DOMAIN kept |-> Entry(nextId + last(kept[n]) - 1, sub, kept[n])]

Fetch(c) ==
  /\ At(c, "Fetch")
  /\ \/ \E offer \in Offers, sub \in task[c].ids :
          /\ Set(c, [Next1(task[c]) EXCEPT !.arg = Deduped(offer, sub)])
          /\ nextId' = nextId + Len(offer)
          /\ UNCHANGED faults
     \/ Fault /\ Set(c, GiveUp(task[c])) /\ UNCHANGED nextId
  /\ overtaken' = [overtaken EXCEPT ![c] = @ \ {"profiles"}]
  /\ IF c = Loop
     THEN /\ refetched' = (refetched \/ task[c].ids \cap fetched # {})
          /\ fetched' = fetched \cup task[c].ids
     ELSE UNCHANGED <<fetched, refetched>>
  /\ UNCHANGED <<profiles, subs, state, disk, maps, tried, markLost, calls, windows>>

-----------------------------------------------------------------------------
(* loadState and what the operation does to its copy: the loop's mark goes *)
(* into the map, which the cache shares unless it was nil.                 *)
LoadState(c) ==
  /\ At(c, "LoadState")
  /\ LET t == task[c]
         mine == IF state.marks = 0 THEN Len(maps) + 1 ELSE state.marks
     IN  CASE t.op = "auto" ->
                /\ maps' = IF state.marks = 0 THEN Append(maps, t.ids)
                           ELSE [maps EXCEPT ![mine] = @ \cup t.ids]
                /\ Set(c, [Next1(t) EXCEPT !.st = [state EXCEPT !.marks = mine]])
           [] t.op = "delete" ->
                /\ Set(c, IF state.cur \notin t.ids THEN GiveUp(t) ELSE
                     [Next1(t) EXCEPT !.ps = <<>>, !.st = [state EXCEPT !.cur =
                        IF t.ps = <<>> THEN None ELSE Head(t.ps).id]])
                /\ UNCHANGED maps
           [] t.op = "select" ->
                /\ \E p \in t.ids : Set(c, [Next1(t) EXCEPT !.st = [state EXCEPT !.cur = p]])
                /\ UNCHANGED maps
           [] t.op = "restore" ->
                /\ Set(c, [Next1(t) EXCEPT !.st = [state EXCEPT !.restore = t.arg]])
                /\ UNCHANGED maps
  /\ Reads(c, "state")
  /\ UNCHANGED <<profiles, subs, state, disk, tried, faults, fetched, refetched,
                 markLost, Counters>>

(* SaveState.  The loop does not mind a failure: it goes on.               *)
SaveState(c) ==
  /\ At(c, "SaveState")
  /\ LET st == task[c].st
         t == [Next1(task[c]) EXCEPT !.st = None]
     IN  \/ /\ state' = st
            /\ disk' = IF st.marks = 0 THEN [nil |-> TRUE, set |-> {}]
                       ELSE [nil |-> FALSE, set |-> maps[st.marks]]
            /\ Set(c, t)
            /\ Wrote(c, "state")
            /\ markLost' = (markLost \/ "state" \in overtaken[c])
            /\ UNCHANGED <<profiles, subs, faults>>
         \/ /\ IF c = Loop
               THEN Fault /\ Set(c, t) /\ UNCHANGED <<profiles, subs, state, disk, overtaken>>
               ELSE Fail(c)
            /\ markLost' = TRUE
  /\ UNCHANGED <<maps, tried, fetched, refetched, Counters>>

-----------------------------------------------------------------------------
(* The ten minutes of every attempt so far are over.                       *)
WindowEnds ==
  /\ windows < MaxWindows
  /\ Idle(Loop)
  /\ tried \cup fetched \cup Persisted # {}
  /\ windows' = windows + 1
  /\ tried' = {} /\ fetched' = {}
  /\ maps' = [n \in DOMAIN maps |-> {}]
  /\ disk' = [disk EXCEPT !.set = {}]
  /\ UNCHANGED <<profiles, subs, state, task, nextId, calls, faults,
                 overtaken, refetched, markLost>>

(* The process ends and is started again: caches come from the files.      *)
Crash ==
  /\ Fault
  /\ task' = [c \in Workers |-> NoTask]
  /\ tried' = {}
  /\ maps' = IF disk.nil THEN <<>> ELSE <<disk.set>>
  /\ state' = [state EXCEPT !.marks = IF disk.nil THEN 0 ELSE 1]
  /\ overtaken' = [c \in Workers |-> {}]
  /\ UNCHANGED <<profiles, subs, disk, fetched, refetched, markLost, Counters>>

StoreCall(c) ==
  \/ LoadProfiles(c) \/ SaveProfiles(c) \/ SaveDelays(c)
  \/ LoadSubs(c) \/ SaveSubs(c) \/ ListSubs(c) \/ NextOfList(c) \/ Fetch(c)
  \/ LoadState(c) \/ SaveState(c)

CatNext ==
  \/ \E c \in Callers : CatalogRequest(c)
  \/ RunDueAutoUpdates
  \/ \E c \in Workers : StoreCall(c)
  \/ WindowEnds
  \/ Crash

CatSpec == CatInit /\ [][CatNext]_catVars

-----------------------------------------------------------------------------
CatTypeOK ==
  /\ profiles \in Seq([id : 1 .. nextId - 1, sub : 0 .. nextId - 1, body : Bodies, ms : 0 .. 1])
  /\ subs \in Seq([id : 1 .. nextId - 1, on : BOOLEAN])
  /\ state \in [cur : 0 .. nextId - 1, restore : BOOLEAN, marks : 0 .. Len(maps)]
  /\ overtaken \in [Workers -> SUBSET Files]

(* A save changes what its operation is about and nothing else, as long as *)
(* nobody wrote the file between the load and the save.  For a refresh of  *)
(* a subscription the time of the fetch does not count as far as profiles  *)
(* go: what others do to them while it waits for the network survives      *)
(* (service.go:830-838 loads them after it).  And a delay test, however    *)
(* long it took and whatever happened meanwhile, touches delays only       *)
(* (store.go:108-111).                                                     *)
Acted(c, step) == At(c, step) /\ task'[c].todo # task[c].todo /\ faults' = faults

SavesUndisturbed(c, step, f) == Acted(c, step) /\ f \notin overtaken[c]

About(t, p) == p.id \in t.ids \/ p.sub \in t.ids \/ (t.op = "import" /\ p.body = t.arg)

KeepsOthersWork(c) ==
  LET t == task[c]
  IN  /\ SavesUndisturbed(c, "SaveProfiles", "profiles") =>
           \A p \in Range(profiles) : p \in Range(profiles') \/ About(t, p)
      /\ Acted(c, "SaveDelays") =>
           /\ DOMAIN profiles' = DOMAIN profiles
           /\ \A i \in DOMAIN profiles : profiles'[i] \in
                {profiles[i]} \cup {[profiles[i] EXCEPT !.ms = 1] : n \in t.ids \cap {profiles[i].id}}
      /\ SavesUndisturbed(c, "SaveSubs", "subs") =>
           \A s \in Range(subs) : s \in Range(subs') \/ s.id \in t.ids
      /\ SavesUndisturbed(c, "SaveState", "state") =>
           /\ state'.cur # state.cur => t.op \in {"select", "delete"}
           /\ state'.restore # state.restore => t.op = "restore"
           /\ Persisted \subseteq Persisted'

SavesKeepOthersWork == [][\A c \in Workers : KeepsOthersWork(c)]_catVars

(* The loop fetches a subscription at most once in a window of the         *)
(* back-off, also when the process ends and is started again in between,   *)
(* as long as the note of the attempt was written (service.go:1872-1875    *)
(* and 1912-1919: noted before it is made, in memory and on disk).         *)
BackoffSurvives == refetched => markLost
=============================================================================
