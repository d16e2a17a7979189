--------------------------- MODULE CatalogProofs ---------------------------
(***************************************************************************)
(* Proofs about Catalog.tla, for any number of requests under way, any     *)
(* profiles and subscriptions, crashes and failures.  What holds of the    *)
(* files is a matter of what each goroutine holds of them meanwhile: its   *)
(* copy is what the file says unless others wrote the file since, and the  *)
(* loop's mark is on disk before it fetches.                               *)
(***************************************************************************)
EXTENDS Catalog, SeqLemmas

StepNames == {"LoadProfiles", "SaveProfiles", "SaveDelays", "LoadSubs", "SaveSubs", "ListSubs",
          "Fetch", "LoadState", "SaveState"}
AtMostOnce == {"LoadSubs", "SaveSubs", "Fetch", "SaveProfiles", "SaveState"}
Refreshes == {"refresh", "refreshAll", "auto"}

ProfilesOf(n) == [id : 1 .. n - 1, sub : 0 .. n - 1, body : Bodies, ms : 0 .. 1]
SubsOf(n) == [id : 1 .. n - 1, on : BOOLEAN]
StatesOf(n, m) == [cur : 0 .. n - 1, restore : BOOLEAN, marks : 0 .. m]

\* The order of the steps that a task has still to take: what is saved was loaded
\* just before, subscriptions earlier; and an attempt is noted before it is made.
Ordered(todo) ==
  /\ todo \in Seq(StepNames)
  /\ \A i \in DOMAIN todo : i > 1 =>
       /\ todo[i] = "SaveProfiles" => todo[i - 1] = "LoadProfiles"
       /\ todo[i] = "SaveState" => todo[i - 1] = "LoadState"
  /\ \A i, j \in DOMAIN todo :
       /\ todo[i] = todo[j] /\ todo[i] \in AtMostOnce => i = j
       /\ todo[i] = "LoadSubs" /\ todo[j] = "SaveSubs" => i < j
       /\ todo[i] = "Fetch" /\ todo[j] = "SaveProfiles" => i < j
       /\ todo[i] = "SaveState" /\ todo[j] = "Fetch" => i < j

Left(t, step) == step \in Range(t.todo)
Ahead(t, step) == t.todo # <<>> /\ t.todo[1] = step

\* What the steps of a task rely on, with ids below n and m maps.
IsTask(t) == t = [f \in {"op", "ids", "arg", "todo", "list", "ps", "ss", "st"} |-> t[f]]

TaskFits(c, t, n, m) ==
  /\ IsTask(t)
  /\ t.op = "none" => t = NoTask
  /\ t.ids \in SUBSET (1 .. n - 1) /\ t.list \in Seq(1 .. n - 1)
  /\ t.ps \in Seq(ProfilesOf(n)) /\ t.ss \in Seq(SubsOf(n))
  /\ Ordered(t.todo)
  /\ t.op = "auto" => c = Loop
  /\ c = Loop => t.op \in {"none", "auto"}
  /\ Left(t, "ListSubs") \/ t.list # <<>> => t.op \in {"refreshAll", "auto"}
  /\ Left(t, "Fetch") => t.op \in Refreshes
  /\ t.op = "import" =>
       t.todo \in {<<>>, <<"SaveProfiles">>, <<"LoadProfiles">> \o Rewrite}
  /\ Left(t, "SaveProfiles") =>
       /\ t.op \in {"create", "update", "import", "delete", "deleteSub"} \cup Refreshes
       /\ t.op \in {"create", "update", "import"} => t.arg \in Bodies
       /\ t.op \in Refreshes /\ ~Left(t, "Fetch") => t.arg \in Seq(ProfilesOf(n))
  /\ Ahead(t, "SaveProfiles") =>
       /\ t.op = "update" => t.ids \cap IdsOf(t.ps) # {}
       /\ t.op = "import" => Equivalent(t.ps, t.arg)
  /\ Left(t, "SaveSubs") /\ t.op = "editSub" => t.arg \in BOOLEAN
  /\ Left(t, "LoadState") \/ Left(t, "SaveState") =>
       /\ t.op \in {"delete", "select", "restore", "auto"}
       /\ t.op = "restore" => t.arg \in BOOLEAN
  /\ Ahead(t, "SaveState") => t.st \in StatesOf(n, m)

\* The copies a task works on are what the files say, except for files in seen,
\* which others have written since.
Copied(t, seen, ps, ss, st) ==
  /\ Ahead(t, "SaveProfiles") /\ "profiles" \notin seen => t.ps = ps
  /\ Left(t, "SaveSubs") /\ ~Left(t, "LoadSubs") /\ "subs" \notin seen => t.ss = ss
  /\ Ahead(t, "SaveState") /\ "state" \notin seen =>
       /\ t.op \notin {"select", "delete"} => t.st.cur = st.cur
       /\ t.op # "restore" => t.st.restore = st.restore
       /\ st.marks # 0 => t.st.marks = st.marks

\* The loop has put its mark into the map it is about to save.
Marked(t, ms) ==
  Ahead(t, "SaveState") => t.st.marks \in DOMAIN ms /\ t.ids \subseteq ms[t.st.marks]

\* What is about to be fetched has not been, and is noted unless that comes next.
Due(t, got, noted) ==
  Left(t, "Fetch") => /\ t.ids \cap got = {}
                      /\ ~Left(t, "SaveState") => t.ids \subseteq noted

FilesFit ==
  /\ CatTypeOK /\ nextId \in Nat \ {0} /\ faults \in Nat /\ maps \in Seq(SUBSET Nat)
  /\ disk \in [nil : BOOLEAN, set : SUBSET Nat] /\ (disk.nil => disk.set = {})

TasksFit ==
  /\ task = [c \in Workers |-> task[c]]
  /\ \A c \in Workers :
       /\ TaskFits(c, task[c], nextId, Len(maps))
       /\ Copied(task[c], overtaken[c], profiles, subs, state)
  /\ Marked(task[Loop], maps)

\* Every subscription fetched in this window is noted in the file.
Noted ==
  /\ ~refetched
  /\ fetched \subseteq disk.set /\ disk.set \subseteq Persisted
  /\ Due(task[Loop], fetched, disk.set)

CatInv == FilesFit /\ TasksFit /\ (~markLost => Noted)

-----------------------------------------------------------------------------
(* The steps that a task has still to take.                                *)

\* Once a step is taken those after it are left, in the same order.
LEMMA RestOfTodo ==
  ASSUME NEW todo, Ordered(todo), todo # <<>>
  PROVE  /\ Ordered(Tail(todo)) /\ Head(todo) = todo[1]
         /\ Range(todo) = {todo[1]} \cup Range(Tail(todo))
         /\ todo[1] \in AtMostOnce => todo[1] \notin Range(Tail(todo))
         /\ todo[1] = "SaveSubs" => "LoadSubs" \notin Range(todo)
         /\ todo[1] = "SaveProfiles" => "Fetch" \notin Range(todo)
         /\ todo[1] = "Fetch" => "SaveState" \notin Range(todo)
         /\ Tail(todo) # <<>> => /\ Tail(todo)[1] = "SaveProfiles" => todo[1] = "LoadProfiles"
                                 /\ Tail(todo)[1] = "SaveState" => todo[1] = "LoadState"
<1> DEFINE rest == Tail(todo)
<1>1. todo \in Seq(StepNames) /\ Len(todo) \in Nat \ {0} /\ DOMAIN todo = 1 .. Len(todo)
  BY DEF Ordered
<1>2. rest \in Seq(StepNames) /\ Len(rest) = Len(todo) - 1 /\ Head(todo) = todo[1]
      /\ DOMAIN rest = 1 .. Len(todo) - 1
  BY <1>1
<1>3. \A i \in DOMAIN rest : rest[i] = todo[i + 1] /\ i + 1 \in DOMAIN todo /\ i \in Nat /\ i + 1 > 1
  BY <1>1, <1>2
<1>4. 1 \in DOMAIN todo /\ \A i \in DOMAIN todo : i = 1 \/ (i - 1 \in DOMAIN rest /\ (i - 1) + 1 = i)
  BY <1>1, <1>2
<1>5. rest # <<>> => 1 \in DOMAIN rest
  BY <1>2
<1> HIDE DEF rest
<1>6. Range(todo) = {todo[1]} \cup Range(rest)
  BY <1>3, <1>4 DEF Range
<1>7. /\ \A i \in DOMAIN todo : i > 1 =>
           /\ todo[i] = "SaveProfiles" => todo[i - 1] = "LoadProfiles"
           /\ todo[i] = "SaveState" => todo[i - 1] = "LoadState"
      /\ \A i, j \in DOMAIN todo :
           /\ todo[i] = todo[j] /\ todo[i] \in AtMostOnce => i = j
           /\ todo[i] = "LoadSubs" /\ todo[j] = "SaveSubs" => i < j
           /\ todo[i] = "Fetch" /\ todo[j] = "SaveProfiles" => i < j
           /\ todo[i] = "SaveState" /\ todo[j] = "Fetch" => i < j
  BY DEF Ordered
<1>8. Ordered(rest)
  <2>1. ASSUME NEW i \in DOMAIN rest, i > 1
        PROVE  /\ rest[i] = "SaveProfiles" => rest[i - 1] = "LoadProfiles"
               /\ rest[i] = "SaveState" => rest[i - 1] = "LoadState"
    <3>1. i - 1 \in DOMAIN rest /\ (i - 1) + 1 = i /\ (i + 1) - 1 = i
      BY <1>2, <1>1, <2>1
    <3>2. QED
      BY <1>3, <1>7, <3>1
  <2>2. ASSUME NEW i \in DOMAIN rest, NEW j \in DOMAIN rest
        PROVE  /\ rest[i] = rest[j] /\ rest[i] \in AtMostOnce => i = j
               /\ rest[i] = "LoadSubs" /\ rest[j] = "SaveSubs" => i < j
               /\ rest[i] = "Fetch" /\ rest[j] = "SaveProfiles" => i < j
               /\ rest[i] = "SaveState" /\ rest[j] = "Fetch" => i < j
    <3>1. i \in Nat /\ j \in Nat /\ (i + 1 = j + 1 => i = j) /\ (i + 1 < j + 1 => i < j)
      BY <1>3
    <3>2. QED
      BY <1>3, <1>7, <3>1
  <2>3. QED
    BY <1>2, <2>1, <2>2 DEF Ordered
<1>9. todo[1] \in AtMostOnce => todo[1] \notin Range(rest)
  <2>1. \A i \in DOMAIN rest : i + 1 # 1
    BY <1>3
  <2>2. QED
    BY <1>3, <1>4, <1>7, <2>1 DEF Range
<1>10. /\ todo[1] = "SaveSubs" => "LoadSubs" \notin Range(todo)
       /\ todo[1] = "SaveProfiles" => "Fetch" \notin Range(todo)
       /\ todo[1] = "Fetch" => "SaveState" \notin Range(todo)
  <2>1. \A i \in DOMAIN todo : ~(i < 1)
    BY <1>1
  <2>2. QED
    BY <1>4, <1>7, <2>1 DEF Range
<1>11. rest # <<>> => /\ rest[1] = "SaveProfiles" => todo[1] = "LoadProfiles"
                      /\ rest[1] = "SaveState" => todo[1] = "LoadState"
  <2>1. rest # <<>> => 1 + 1 \in DOMAIN todo /\ rest[1] = todo[1 + 1] /\ 1 + 1 > 1 /\ (1 + 1) - 1 = 1
    BY <1>3, <1>5
  <2>2. QED
    BY <1>7, <2>1
<1>12. QED
  BY <1>2, <1>6, <1>8, <1>9, <1>10, <1>11 DEF rest

\* Short lists put end to end.
LEMMA OneAndTwo ==
  ASSUME NEW a \in StepNames, NEW b \in StepNames, NEW c \in StepNames
  PROVE  <<a>> \o <<b, c>> = <<a, b, c>>
<1> DEFINE l == <<a>> \o <<b, c>>
           r == <<a, b, c>>
<1>1. Len(l) = 3 /\ Len(r) = 3 /\ l \in Seq(StepNames) /\ r \in Seq(StepNames)
  OBVIOUS
<1>2. l[1] = a /\ l[2] = b /\ l[3] = c
  OBVIOUS
<1>3. r[1] = a /\ r[2] = b /\ r[3] = c
  OBVIOUS
<1> HIDE DEF l, r
<1>4. \A i \in 1 .. Len(l) : l[i] = r[i]
  BY <1>1, <1>2, <1>3
<1>5. l = r
  BY <1>1, <1>4
<1>6. QED
  BY <1>5 DEF l, r

LEMMA TwoAndTwo ==
  ASSUME NEW a \in StepNames, NEW b \in StepNames, NEW c \in StepNames, NEW d \in StepNames
  PROVE  <<a, b>> \o <<c, d>> = <<a, b, c, d>>
<1> DEFINE l == <<a, b>> \o <<c, d>>
           r == <<a, b, c, d>>
<1>1. Len(l) = 4 /\ Len(r) = 4 /\ l \in Seq(StepNames) /\ r \in Seq(StepNames)
  OBVIOUS
<1>2. l[1] = a /\ l[2] = b /\ l[3] = c /\ l[4] = d
  OBVIOUS
<1>3. r[1] = a /\ r[2] = b /\ r[3] = c /\ r[4] = d
  OBVIOUS
<1> HIDE DEF l, r
<1>4. \A i \in 1 .. Len(l) : l[i] = r[i]
  BY <1>1, <1>2, <1>3
<1>5. l = r
  BY <1>1, <1>4
<1>6. QED
  BY <1>5 DEF l, r

LEMMA FourAndOne ==
  ASSUME NEW a \in StepNames, NEW b \in StepNames, NEW c \in StepNames, NEW d \in StepNames, NEW e \in StepNames
  PROVE  <<a, b, c, d>> \o <<e>> = <<a, b, c, d, e>>
<1> DEFINE l == <<a, b, c, d>> \o <<e>>
           r == <<a, b, c, d, e>>
<1>1. Len(l) = 5 /\ Len(r) = 5 /\ l \in Seq(StepNames) /\ r \in Seq(StepNames)
  OBVIOUS
<1>2. l[1] = a /\ l[2] = b /\ l[3] = c /\ l[4] = d /\ l[5] = e
  OBVIOUS
<1>3. r[1] = a /\ r[2] = b /\ r[3] = c /\ r[4] = d /\ r[5] = e
  OBVIOUS
<1> HIDE DEF l, r
<1>4. \A i \in 1 .. Len(l) : l[i] = r[i]
  BY <1>1, <1>2, <1>3
<1>5. l = r
  BY <1>1, <1>4
<1>6. QED
  BY <1>5 DEF l, r

LEMMA TwoAndFive ==
  ASSUME NEW a \in StepNames, NEW b \in StepNames, NEW c \in StepNames, NEW d \in StepNames, NEW e \in StepNames, NEW f \in StepNames, NEW g \in StepNames
  PROVE  <<a, b>> \o <<c, d, e, f, g>> = <<a, b, c, d, e, f, g>>
<1> DEFINE l == <<a, b>> \o <<c, d, e, f, g>>
           r == <<a, b, c, d, e, f, g>>
<1>1. Len(l) = 7 /\ Len(r) = 7 /\ l \in Seq(StepNames) /\ r \in Seq(StepNames)
  OBVIOUS
<1>2. l[1] = a /\ l[2] = b /\ l[3] = c /\ l[4] = d /\ l[5] = e /\ l[6] = f /\ l[7] = g
  OBVIOUS
<1>3. r[1] = a /\ r[2] = b /\ r[3] = c /\ r[4] = d /\ r[5] = e /\ r[6] = f /\ r[7] = g
  OBVIOUS
<1> HIDE DEF l, r
<1>4. \A i \in 1 .. Len(l) : l[i] = r[i]
  BY <1>1, <1>2, <1>3
<1>5. l = r
  BY <1>1, <1>4
<1>6. QED
  BY <1>5 DEF l, r

\* The steps of each operation are in order.
LEMMA PlansAreOrdered ==
  /\ Ordered(<<>>) /\ Range(<<>>) = {}
  /\ \A todo \in {Rewrite, Rewrite \o RewriteState, <<"LoadProfiles">> \o RewriteState,
                  <<"LoadProfiles", "SaveDelays">>, <<"LoadProfiles">> \o Rewrite, RewriteSubs,
                  RewriteSubs \o Rewrite, Refresh, <<"ListSubs">>, RewriteState, LoopSteps,
                  <<"SaveProfiles">>} :
       Ordered(todo) /\ todo # <<>>
  /\ Rewrite = <<"LoadProfiles", "SaveProfiles">>
  /\ Rewrite \o RewriteState = <<"LoadProfiles", "SaveProfiles", "LoadState", "SaveState">>
  /\ <<"LoadProfiles">> \o RewriteState = <<"LoadProfiles", "LoadState", "SaveState">>
  /\ <<"LoadProfiles">> \o Rewrite = <<"LoadProfiles", "LoadProfiles", "SaveProfiles">>
  /\ RewriteSubs \o Rewrite = <<"LoadSubs", "SaveSubs", "LoadProfiles", "SaveProfiles">>
  /\ Refresh = <<"LoadSubs", "Fetch", "LoadProfiles", "SaveProfiles", "SaveSubs">>
  /\ LoopSteps = <<"LoadState", "SaveState", "LoadSubs", "Fetch", "LoadProfiles", "SaveProfiles", "SaveSubs">>
<1>0. /\ "LoadProfiles" \in StepNames /\ "SaveProfiles" \in StepNames /\ "LoadSubs" \in StepNames
      /\ "SaveSubs" \in StepNames /\ "Fetch" \in StepNames /\ "LoadState" \in StepNames /\ "SaveState" \in StepNames
  BY DEF StepNames
<1>1. /\ Rewrite = <<"LoadProfiles", "SaveProfiles">> /\ RewriteState = <<"LoadState", "SaveState">>
      /\ RewriteSubs = <<"LoadSubs", "SaveSubs">>
  BY DEF Rewrite, RewriteState, RewriteSubs
<1>18. Rewrite \o RewriteState = <<"LoadProfiles", "SaveProfiles", "LoadState", "SaveState">>
  BY <1>0, <1>1, TwoAndTwo
<1>19. <<"LoadProfiles">> \o RewriteState = <<"LoadProfiles", "LoadState", "SaveState">>
  BY <1>0, <1>1, OneAndTwo
<1>20. <<"LoadProfiles">> \o Rewrite = <<"LoadProfiles", "LoadProfiles", "SaveProfiles">>
  BY <1>0, <1>1, OneAndTwo
<1>21. RewriteSubs \o Rewrite = <<"LoadSubs", "SaveSubs", "LoadProfiles", "SaveProfiles">>
  BY <1>0, <1>1, TwoAndTwo
<1>22. <<"LoadSubs", "Fetch">> \o Rewrite = <<"LoadSubs", "Fetch", "LoadProfiles", "SaveProfiles">>
  BY <1>0, <1>1, TwoAndTwo
<1>16. Refresh = <<"LoadSubs", "Fetch", "LoadProfiles", "SaveProfiles", "SaveSubs">>
  <2>1. <<"LoadSubs", "Fetch", "LoadProfiles", "SaveProfiles">> \o <<"SaveSubs">>
        = <<"LoadSubs", "Fetch", "LoadProfiles", "SaveProfiles", "SaveSubs">>
    BY <1>0, FourAndOne
  <2>2. QED
    BY <1>22, <2>1 DEF Refresh
<1>2. LoopSteps = <<"LoadState", "SaveState", "LoadSubs", "Fetch", "LoadProfiles", "SaveProfiles", "SaveSubs">>
  <2>1. <<"LoadState", "SaveState">> \o <<"LoadSubs", "Fetch", "LoadProfiles", "SaveProfiles", "SaveSubs">>
        = <<"LoadState", "SaveState", "LoadSubs", "Fetch", "LoadProfiles", "SaveProfiles", "SaveSubs">>
    BY <1>0, TwoAndFive
  <2>2. QED
    BY <1>1, <1>16, <2>1 DEF LoopSteps
<1>3. Ordered(<<>>) /\ Range(<<>>) = {}
  BY DEF Ordered, Range
<1>4. Ordered(<<"LoadProfiles", "SaveProfiles">>)
  BY DEF Ordered, StepNames, AtMostOnce
<1>5. Ordered(<<"LoadProfiles", "SaveProfiles", "LoadState", "SaveState">>)
  BY DEF Ordered, StepNames, AtMostOnce
<1>6. Ordered(<<"LoadProfiles", "LoadState", "SaveState">>)
  BY DEF Ordered, StepNames, AtMostOnce
<1>7. Ordered(<<"LoadProfiles", "SaveDelays">>)
  BY DEF Ordered, StepNames, AtMostOnce
<1>8. Ordered(<<"LoadProfiles", "LoadProfiles", "SaveProfiles">>)
  BY DEF Ordered, StepNames, AtMostOnce
<1>9. Ordered(<<"LoadSubs", "SaveSubs">>)
  BY DEF Ordered, StepNames, AtMostOnce
<1>10. Ordered(<<"LoadSubs", "SaveSubs", "LoadProfiles", "SaveProfiles">>)
  BY DEF Ordered, StepNames, AtMostOnce
<1>11. Ordered(<<"LoadSubs", "Fetch", "LoadProfiles", "SaveProfiles", "SaveSubs">>)
  BY DEF Ordered, StepNames, AtMostOnce
<1>12. Ordered(<<"ListSubs">>) /\ Ordered(<<"SaveProfiles">>)
  BY DEF Ordered, StepNames, AtMostOnce
<1>13. Ordered(<<"LoadState", "SaveState">>)
  BY DEF Ordered, StepNames, AtMostOnce
<1>14. Ordered(<<"LoadState", "SaveState", "LoadSubs", "Fetch", "LoadProfiles", "SaveProfiles", "SaveSubs">>)
  BY DEF Ordered, StepNames, AtMostOnce
<1>17. ASSUME NEW s \in {Rewrite, Rewrite \o RewriteState, <<"LoadProfiles">> \o RewriteState,
                  <<"LoadProfiles", "SaveDelays">>, <<"LoadProfiles">> \o Rewrite, RewriteSubs,
                  RewriteSubs \o Rewrite, Refresh, <<"ListSubs">>, RewriteState, LoopSteps,
                  <<"SaveProfiles">>}
       PROVE  s # <<>>
  BY <1>1, <1>2, <1>16, <1>18, <1>19, <1>20, <1>21
<1>23. ASSUME NEW s \in {Rewrite, Rewrite \o RewriteState, <<"LoadProfiles">> \o RewriteState,
                  <<"LoadProfiles", "SaveDelays">>, <<"LoadProfiles">> \o Rewrite, RewriteSubs,
                  RewriteSubs \o Rewrite, Refresh, <<"ListSubs">>, RewriteState, LoopSteps,
                  <<"SaveProfiles">>}
       PROVE  Ordered(s)
  BY <1>1, <1>2, <1>4, <1>5, <1>6, <1>7, <1>8, <1>9, <1>10, <1>11, <1>12, <1>13, <1>14,
     <1>16, <1>18, <1>19, <1>20, <1>21
<1>15. QED
  BY <1>1, <1>2, <1>3, <1>16, <1>17, <1>18, <1>19, <1>20, <1>21, <1>23

-----------------------------------------------------------------------------
(* What one step of a task leaves of it, and of the tasks of the others.   *)

\* Once a task has taken a step: what is still left of it.
LEMMA StepTaken ==
  ASSUME NEW t, Ordered(t.todo), t.todo # <<>>, NEW u, u.todo = Tail(t.todo)
  PROVE  /\ Ordered(u.todo) /\ \E s \in StepNames : Ahead(t, s) /\ Left(t, s)
         /\ \A s : /\ Left(u, s) => Left(t, s)
                   /\ Left(t, s) => Ahead(t, s) \/ Left(u, s)
                   /\ Ahead(t, s) => Left(t, s)
                   /\ Ahead(u, s) => Left(u, s)
                   /\ Ahead(t, s) /\ s \in AtMostOnce => ~Left(u, s)
         /\ Ahead(u, "SaveProfiles") => Ahead(t, "LoadProfiles")
         /\ Ahead(u, "SaveState") => Ahead(t, "LoadState")
         /\ Ahead(t, "SaveSubs") => ~Left(t, "LoadSubs")
         /\ Ahead(t, "SaveProfiles") => ~Left(t, "Fetch")
         /\ Ahead(t, "Fetch") => ~Left(t, "SaveState")
<1>1. /\ Ordered(Tail(t.todo)) /\ Head(t.todo) = t.todo[1]
      /\ Range(t.todo) = {t.todo[1]} \cup Range(Tail(t.todo))
      /\ t.todo[1] \in AtMostOnce => t.todo[1] \notin Range(Tail(t.todo))
      /\ t.todo[1] = "SaveSubs" => "LoadSubs" \notin Range(t.todo)
      /\ t.todo[1] = "SaveProfiles" => "Fetch" \notin Range(t.todo)
      /\ t.todo[1] = "Fetch" => "SaveState" \notin Range(t.todo)
      /\ Tail(t.todo) # <<>> => /\ Tail(t.todo)[1] = "SaveProfiles" => t.todo[1] = "LoadProfiles"
                                /\ Tail(t.todo)[1] = "SaveState" => t.todo[1] = "LoadState"
  BY RestOfTodo
<1>2. t.todo[1] \in StepNames
  BY DEF Ordered
<1>3. u.todo # <<>> => u.todo[1] \in Range(u.todo)
  <2>1. u.todo \in Seq(StepNames)
    BY <1>1 DEF Ordered
  <2>2. u.todo # <<>> => 1 \in DOMAIN u.todo
    BY <2>1
  <2>3. QED
    BY <2>2 DEF Range
<1>4. QED
  BY <1>1, <1>2, <1>3 DEF Left, Ahead

\* Of a task that is over or gives up nothing is left.
LEMMA NothingLeft ==
  ASSUME NEW t, t.todo = <<>>
  PROVE  \A s : ~Left(t, s) /\ ~Ahead(t, s)
  BY PlansAreOrdered DEF Left, Ahead

\* No task at all fits in anywhere.
LEMMA NoTaskFits ==
  ASSUME NEW c \in Workers, NEW n \in Nat \ {0}, NEW m \in Nat
  PROVE  /\ TaskFits(c, NoTask, n, m)
         /\ \A seen, ps, ss, st : Copied(NoTask, seen, ps, ss, st)
         /\ \A ms, got, noted : Marked(NoTask, ms) /\ Due(NoTask, got, noted)
<1>1. NoTask.todo = <<>> /\ NoTask.op = "none" /\ NoTask.ids = {} /\ NoTask.list = <<>>
      /\ NoTask.ps = <<>> /\ NoTask.ss = <<>>
  BY DEF NoTask
<1>2. \A s : ~Left(NoTask, s) /\ ~Ahead(NoTask, s)
  BY <1>1, NothingLeft
<1>3. IsTask(NoTask)
  BY DEF IsTask, NoTask
<1>4. <<>> \in Seq(1 .. n - 1) /\ <<>> \in Seq(ProfilesOf(n)) /\ <<>> \in Seq(SubsOf(n))
  OBVIOUS
<1>5. Ordered(<<>>)
  BY PlansAreOrdered
<1>6. QED
  BY <1>1, <1>2, <1>3, <1>4, <1>5 DEF TaskFits, Copied, Marked, Due

\* New ids and new maps do not disturb a task.
LEMMA TaskStillFits ==
  ASSUME NEW c, NEW t, NEW n \in Nat \ {0}, NEW m \in Nat, NEW n1 \in Nat \ {0}, NEW m1 \in Nat,
         n <= n1, m <= m1, TaskFits(c, t, n, m)
  PROVE  TaskFits(c, t, n1, m1)
<1>1. 1 .. n - 1 \subseteq 1 .. n1 - 1 /\ 0 .. n - 1 \subseteq 0 .. n1 - 1 /\ 0 .. m \subseteq 0 .. m1
  OBVIOUS
<1>2. ProfilesOf(n) \subseteq ProfilesOf(n1) /\ SubsOf(n) \subseteq SubsOf(n1)
      /\ StatesOf(n, m) \subseteq StatesOf(n1, m1)
  BY <1>1 DEF ProfilesOf, SubsOf, StatesOf
<1>3. /\ \A s \in Seq(ProfilesOf(n)) : s \in Seq(ProfilesOf(n1))
      /\ \A s \in Seq(SubsOf(n)) : s \in Seq(SubsOf(n1))
      /\ \A s \in Seq(1 .. n - 1) : s \in Seq(1 .. n1 - 1)
  BY <1>1, <1>2
<1>4. QED
  BY <1>1, <1>2, <1>3 DEF TaskFits

\* A task that gives up what it was about is one that fits.
LEMMA GivenUp ==
  ASSUME NEW c, NEW t, NEW n, NEW m, TaskFits(c, t, n, m)
  PROVE  /\ TaskFits(c, GiveUp(t), n, m)
         /\ \A seen, ps, ss, st : Copied(GiveUp(t), seen, ps, ss, st)
         /\ \A ms, got, noted : Marked(GiveUp(t), ms) /\ Due(GiveUp(t), got, noted)
<1> DEFINE u == GiveUp(t)
<1>0. IsTask(t)
  BY DEF TaskFits
<1>1. /\ IsTask(u) /\ u.todo = <<>> /\ u.op = t.op /\ u.ids = t.ids /\ u.arg = t.arg
      /\ u.list = t.list /\ u.ps = t.ps /\ u.ss = t.ss /\ u.st = t.st
  BY <1>0 DEF IsTask, GiveUp
<1> HIDE DEF u
<1>2. t.op = "none" => u = t
  <2>1. t.op = "none" => t.todo = <<>>
    BY DEF TaskFits, NoTask
  <2>2. ASSUME t.todo = <<>> PROVE u = t
    <3>1. \A f \in {"op", "ids", "arg", "todo", "list", "ps", "ss", "st"} : u[f] = t[f]
      BY <1>1, <2>2
    <3>2. QED
      BY <1>0, <1>1, <3>1 DEF IsTask
  <2>3. QED
    BY <2>1, <2>2
<1>3. \A s : ~Left(u, s) /\ ~Ahead(u, s)
  BY <1>1, NothingLeft
<1>4. Ordered(u.todo)
  BY <1>1, PlansAreOrdered
<1>5. TaskFits(c, u, n, m)
  BY <1>1, <1>2, <1>3, <1>4 DEF TaskFits
<1>6. QED
  BY <1>3, <1>5 DEF Copied, Marked, Due, u

\* When the task of c goes on as t, and everybody whose copy is out of date
\* is known to have been overtaken, all tasks are as they should be.
LEMMA OneGoesOn ==
  ASSUME TasksFit, NEW c \in Workers, NEW t, Set(c, t),
         nextId \in Nat \ {0}, nextId' \in Nat \ {0}, nextId <= nextId',
         maps \in Seq(SUBSET Nat), maps' \in Seq(SUBSET Nat), Len(maps) <= Len(maps'),
         c = Loop \/ maps' = maps,
         \A d \in Workers \ {c} :
           /\ overtaken[d] \subseteq overtaken'[d]
           /\ Idle(d) \/ profiles' = profiles \/ "profiles" \in overtaken'[d]
           /\ Idle(d) \/ subs' = subs \/ "subs" \in overtaken'[d]
           /\ Idle(d) \/ state' = state \/ "state" \in overtaken'[d],
         TaskFits(c, t, nextId', Len(maps')),
         Copied(t, overtaken'[c], profiles', subs', state'),
         c = Loop => Marked(t, maps')
  PROVE  /\ TasksFit' /\ \A d \in Workers \ {c} : task'[d] = task[d]
         /\ \A got, noted : Due(t, got, noted) => Due(task'[c], got, noted)
<1> DEFINE u == IF t.todo = <<>> /\ t.list = <<>> THEN NoTask ELSE t
<1>1. task' = [task EXCEPT ![c] = u]
  BY DEF Set
<1>2. Len(maps) \in Nat /\ Len(maps') \in Nat
  OBVIOUS
<1>3. /\ TaskFits(c, NoTask, nextId', Len(maps'))
      /\ Copied(NoTask, overtaken'[c], profiles', subs', state')
      /\ Marked(NoTask, maps') /\ \A got, noted : Due(NoTask, got, noted)
  BY <1>2, NoTaskFits
<1>4. /\ TaskFits(c, u, nextId', Len(maps'))
      /\ Copied(u, overtaken'[c], profiles', subs', state')
      /\ c = Loop => Marked(u, maps')
      /\ \A got, noted : Due(t, got, noted) => Due(u, got, noted)
  BY <1>3
<1> HIDE DEF u
<1>5. task'[c] = u /\ \A d \in Workers \ {c} : task'[d] = task[d]
  BY <1>1 DEF TasksFit
<1>6. task' = [d \in Workers |-> task'[d]]
  BY <1>1 DEF TasksFit
<1>7. ASSUME NEW d \in Workers \ {c}
      PROVE  /\ TaskFits(d, task'[d], nextId', Len(maps'))
             /\ Copied(task'[d], overtaken'[d], profiles', subs', state')
  <2>1. task'[d] = task[d] /\ TaskFits(d, task[d], nextId, Len(maps))
        /\ Copied(task[d], overtaken[d], profiles, subs, state)
    BY <1>5 DEF TasksFit
  <2>2. TaskFits(d, task'[d], nextId', Len(maps'))
    BY <1>2, <2>1, TaskStillFits
  <2>3. Idle(d) => task[d] = NoTask
    BY <2>1 DEF TaskFits, Idle
  <2>4. CASE Idle(d)
    BY <1>2, <2>1, <2>2, <2>3, <2>4, NoTaskFits
  <2>5. CASE ~Idle(d)
    BY <2>1, <2>2, <2>5 DEF Copied
  <2>6. QED
    BY <2>4, <2>5
<1>8. Marked(task'[Loop], maps')
  BY <1>4, <1>5 DEF TasksFit, Workers
<1>9. TasksFit'
  BY <1>4, <1>5, <1>6, <1>7, <1>8 DEF TasksFit
<1>10. QED
  BY <1>4, <1>5, <1>9

\* The steps that are left of an operation that has just begun.
LEMMA PlansAre ==
  /\ Range(Rewrite) = {"LoadProfiles", "SaveProfiles"} /\ Rewrite[1] = "LoadProfiles"
  /\ Range(Rewrite \o RewriteState) = {"LoadProfiles", "SaveProfiles", "LoadState", "SaveState"}
  /\ (Rewrite \o RewriteState)[1] = "LoadProfiles"
  /\ Range(<<"LoadProfiles">> \o RewriteState) = {"LoadProfiles", "LoadState", "SaveState"}
  /\ (<<"LoadProfiles">> \o RewriteState)[1] = "LoadProfiles"
  /\ Range(<<"LoadProfiles", "SaveDelays">>) = {"LoadProfiles", "SaveDelays"}
  /\ Range(<<"LoadProfiles">> \o Rewrite) = {"LoadProfiles", "SaveProfiles"}
  /\ (<<"LoadProfiles">> \o Rewrite)[1] = "LoadProfiles"
  /\ Range(RewriteSubs) = {"LoadSubs", "SaveSubs"} /\ RewriteSubs[1] = "LoadSubs"
  /\ Range(RewriteSubs \o Rewrite) = {"LoadSubs", "SaveSubs", "LoadProfiles", "SaveProfiles"}
  /\ (RewriteSubs \o Rewrite)[1] = "LoadSubs"
  /\ Range(Refresh) = {"LoadSubs", "Fetch", "LoadProfiles", "SaveProfiles", "SaveSubs"}
  /\ Refresh[1] = "LoadSubs"
  /\ Range(<<"ListSubs">>) = {"ListSubs"}
  /\ Range(RewriteState) = {"LoadState", "SaveState"} /\ RewriteState[1] = "LoadState"
  /\ Range(LoopSteps) = {"LoadState", "SaveState", "LoadSubs", "Fetch", "LoadProfiles",
                         "SaveProfiles", "SaveSubs"} /\ LoopSteps[1] = "LoadState"
<1>1. \A a, b : Range(<<a, b>>) = {a, b} /\ Range(<<a>>) = {a}
  BY DEF Range
<1>2. \A a, b, c : Range(<<a, b, c>>) = {a, b, c}
  BY DEF Range
<1>3. \A a, b, c, d : Range(<<a, b, c, d>>) = {a, b, c, d}
  BY DEF Range
<1>4. \A a, b, c, d, e : Range(<<a, b, c, d, e>>) = {a, b, c, d, e}
  BY DEF Range
<1>5. \A a, b, c, d, e, f, g : Range(<<a, b, c, d, e, f, g>>) = {a, b, c, d, e, f, g}
  BY DEF Range
<1>6. /\ Rewrite = <<"LoadProfiles", "SaveProfiles">>
      /\ Rewrite \o RewriteState = <<"LoadProfiles", "SaveProfiles", "LoadState", "SaveState">>
      /\ <<"LoadProfiles">> \o RewriteState = <<"LoadProfiles", "LoadState", "SaveState">>
      /\ <<"LoadProfiles">> \o Rewrite = <<"LoadProfiles", "LoadProfiles", "SaveProfiles">>
      /\ RewriteSubs \o Rewrite = <<"LoadSubs", "SaveSubs", "LoadProfiles", "SaveProfiles">>
      /\ Refresh = <<"LoadSubs", "Fetch", "LoadProfiles", "SaveProfiles", "SaveSubs">>
      /\ LoopSteps = <<"LoadState", "SaveState", "LoadSubs", "Fetch", "LoadProfiles",
                       "SaveProfiles", "SaveSubs">>
      /\ RewriteState = <<"LoadState", "SaveState">> /\ RewriteSubs = <<"LoadSubs", "SaveSubs">>
  BY PlansAreOrdered DEF RewriteState, RewriteSubs
<1>7. Range(Rewrite) = {"LoadProfiles", "SaveProfiles"} /\ Rewrite[1] = "LoadProfiles"
  BY <1>1, <1>6
<1>8. /\ Range(Rewrite \o RewriteState) = {"LoadProfiles", "SaveProfiles", "LoadState", "SaveState"}
      /\ (Rewrite \o RewriteState)[1] = "LoadProfiles"
  <2> DEFINE s == Rewrite \o RewriteState
  <2>1. s = <<"LoadProfiles", "SaveProfiles", "LoadState", "SaveState">>
    BY <1>6
  <2> HIDE DEF s
  <2>2. Range(s) = {"LoadProfiles", "SaveProfiles", "LoadState", "SaveState"} /\ s[1] = "LoadProfiles"
    BY <1>3, <2>1
  <2>3. QED
    BY <2>2 DEF s
<1>9. /\ Range(<<"LoadProfiles">> \o RewriteState) = {"LoadProfiles", "LoadState", "SaveState"}
      /\ (<<"LoadProfiles">> \o RewriteState)[1] = "LoadProfiles"
  <2> DEFINE s == <<"LoadProfiles">> \o RewriteState
  <2>1. s = <<"LoadProfiles", "LoadState", "SaveState">>
    BY <1>6
  <2> HIDE DEF s
  <2>2. Range(s) = {"LoadProfiles", "LoadState", "SaveState"} /\ s[1] = "LoadProfiles"
    BY <1>2, <2>1
  <2>3. QED
    BY <2>2 DEF s
<1>10. /\ Range(<<"LoadProfiles", "SaveDelays">>) = {"LoadProfiles", "SaveDelays"}
      /\ <<"LoadProfiles", "SaveDelays">>[1] = "LoadProfiles"
  BY <1>1, <1>6
<1>11. /\ Range(<<"LoadProfiles">> \o Rewrite) = {"LoadProfiles", "SaveProfiles"}
      /\ (<<"LoadProfiles">> \o Rewrite)[1] = "LoadProfiles"
  <2> DEFINE s == <<"LoadProfiles">> \o Rewrite
  <2>1. s = <<"LoadProfiles", "LoadProfiles", "SaveProfiles">>
    BY <1>6
  <2> HIDE DEF s
  <2>2. Range(s) = {"LoadProfiles", "SaveProfiles"} /\ s[1] = "LoadProfiles"
    BY <1>2, <2>1
  <2>3. QED
    BY <2>2 DEF s
<1>12. Range(RewriteSubs) = {"LoadSubs", "SaveSubs"} /\ RewriteSubs[1] = "LoadSubs"
  BY <1>1, <1>6
<1>13. /\ Range(RewriteSubs \o Rewrite) = {"LoadSubs", "SaveSubs", "LoadProfiles", "SaveProfiles"}
      /\ (RewriteSubs \o Rewrite)[1] = "LoadSubs"
  <2> DEFINE s == RewriteSubs \o Rewrite
  <2>1. s = <<"LoadSubs", "SaveSubs", "LoadProfiles", "SaveProfiles">>
    BY <1>6
  <2> HIDE DEF s
  <2>2. Range(s) = {"LoadSubs", "SaveSubs", "LoadProfiles", "SaveProfiles"} /\ s[1] = "LoadSubs"
    BY <1>3, <2>1
  <2>3. QED
    BY <2>2 DEF s
<1>14. /\ Range(Refresh) = {"LoadSubs", "Fetch", "LoadProfiles", "SaveProfiles", "SaveSubs"}
      /\ Refresh[1] = "LoadSubs"
  BY <1>4, <1>6
<1>15. Range(<<"ListSubs">>) = {"ListSubs"} /\ <<"ListSubs">>[1] = "ListSubs"
  BY <1>1, <1>6
<1>16. Range(RewriteState) = {"LoadState", "SaveState"} /\ RewriteState[1] = "LoadState"
  BY <1>1, <1>6
<1>17. /\ Range(LoopSteps) = {"LoadState", "SaveState", "LoadSubs", "Fetch", "LoadProfiles", "SaveProfiles", "SaveSubs"}
      /\ LoopSteps[1] = "LoadState"
  BY <1>5, <1>6
<1>18. QED
  BY <1>7, <1>8, <1>9, <1>10, <1>11, <1>12, <1>13, <1>14, <1>15, <1>16, <1>17

-----------------------------------------------------------------------------
(* Operations begin.                                                       *)

\* A task that has just begun: it has no copies, and loads before it saves.
Begun(c, t, n) ==
  /\ IsTask(t) /\ t.op # "none" /\ t.ps = <<>> /\ t.ss = <<>>
  /\ t.ids \in SUBSET (1 .. n - 1) /\ t.list \in Seq(1 .. n - 1)
  /\ Ordered(t.todo) /\ ~Ahead(t, "SaveProfiles") /\ ~Ahead(t, "SaveState")
  /\ (t.op = "auto" <=> c = Loop)
  /\ Left(t, "ListSubs") \/ t.list # <<>> => t.op \in {"refreshAll", "auto"}
  /\ Left(t, "Fetch") => t.op \in Refreshes
  /\ t.op = "import" => t.todo = <<"LoadProfiles">> \o Rewrite
  /\ Left(t, "SaveProfiles") =>
       /\ t.op \in {"create", "update", "import", "delete", "deleteSub"} \cup Refreshes
       /\ t.op \in {"create", "update", "import"} => t.arg \in Bodies
       /\ t.op \in Refreshes => Left(t, "Fetch")
  /\ Left(t, "SaveSubs") => Left(t, "LoadSubs") /\ (t.op = "editSub" => t.arg \in BOOLEAN)
  /\ Left(t, "LoadState") \/ Left(t, "SaveState") =>
       /\ t.op \in {"delete", "select", "restore", "auto"}
       /\ t.op = "restore" => t.arg \in BOOLEAN

LEMMA FreshFits ==
  ASSUME NEW c, NEW t, NEW n \in Nat \ {0}, NEW m \in Nat, Begun(c, t, n)
  PROVE  /\ TaskFits(c, t, n, m)
         /\ \A seen, ps, ss, st : Copied(t, seen, ps, ss, st)
         /\ \A ms : Marked(t, ms)
<1>1. <<>> \in Seq(ProfilesOf(n)) /\ <<>> \in Seq(SubsOf(n))
  OBVIOUS
<1>2. TaskFits(c, t, n, m)
  BY <1>1 DEF Begun, TaskFits
<1>3. QED
  BY <1>2 DEF Begun, Copied, Marked

LEMMA Begins ==
  ASSUME CatInv, NEW c \in Workers, NEW op, NEW ids, NEW arg, NEW todo,
         BeginTask(c, op, ids, arg, todo), todo # <<>>,
         \A t : /\ t.op = op /\ t.ids = ids /\ t.arg = arg /\ t.todo = todo
                /\ IsTask(t) /\ t.ps = <<>> /\ t.ss = <<>> /\ t.list = <<>>
                => Begun(c, t, nextId) /\ (c = Loop => ~Left(t, "Fetch"))
  PROVE  CatInv'
<1> DEFINE t == [NoTask EXCEPT !.op = op, !.ids = ids, !.arg = arg, !.todo = todo]
<1>1. /\ t.op = op /\ t.ids = ids /\ t.arg = arg /\ t.todo = todo
      /\ IsTask(t) /\ t.ps = <<>> /\ t.ss = <<>> /\ t.list = <<>>
  BY DEF NoTask, IsTask
<1>2. Set(c, t)
  <2>1. task' = [task EXCEPT ![c] = t]
    BY DEF BeginTask
  <2> HIDE DEF t
  <2>2. t = IF t.todo = <<>> /\ t.list = <<>> THEN NoTask ELSE t
    BY <1>1
  <2>3. QED
    BY <2>1, <2>2 DEF Set
<1> HIDE DEF t
<1>3. Begun(c, t, nextId) /\ (c = Loop => ~Left(t, "Fetch"))
  BY <1>1
<1>4. /\ UNCHANGED <<profiles, subs, state, disk, maps, nextId, faults, fetched, refetched, markLost>>
      /\ overtaken' = [overtaken EXCEPT ![c] = {}]
  BY DEF BeginTask
<1>5. nextId \in Nat \ {0} /\ maps \in Seq(SUBSET Nat) /\ Len(maps) \in Nat
      /\ overtaken \in [Workers -> SUBSET Files]
  BY DEF CatInv, FilesFit, CatTypeOK
<1>6. /\ TaskFits(c, t, nextId, Len(maps)) /\ Marked(t, maps)
      /\ Copied(t, overtaken'[c], profiles, subs, state)
  BY <1>3, <1>5, FreshFits
<1>7. overtaken' \in [Workers -> SUBSET Files] /\ \A d \in Workers \ {c} : overtaken'[d] = overtaken[d]
  BY <1>4, <1>5
<1>8. /\ TasksFit' /\ \A d \in Workers \ {c} : task'[d] = task[d]
      /\ \A got, noted : Due(t, got, noted) => Due(task'[c], got, noted)
  BY <1>2, <1>4, <1>5, <1>6, <1>7, OneGoesOn DEF CatInv
<1>9. FilesFit'
  BY <1>4, <1>7 DEF CatInv, FilesFit, CatTypeOK
<1>10. ~markLost' => Noted'
  <2>1. Due(task[Loop], fetched, disk.set) => Due(task'[Loop], fetched, disk.set)
    BY <1>3, <1>8 DEF Due, Workers
  <2>2. QED
    BY <1>4, <2>1 DEF CatInv, Noted, Persisted
<1>11. QED
  BY <1>8, <1>9, <1>10 DEF CatInv

\* The ids in the files have all been given out.
LEMMA KnownIds ==
  ASSUME FilesFit
  PROVE  IdsOf(profiles) \subseteq 1 .. nextId - 1 /\ IdsOf(subs) \subseteq 1 .. nextId - 1
<1>1. profiles \in Seq(ProfilesOf(nextId)) /\ subs \in Seq(SubsOf(nextId))
  BY DEF FilesFit, CatTypeOK, ProfilesOf, SubsOf
<1>3. /\ \A i \in DOMAIN profiles : profiles[i] \in ProfilesOf(nextId)
      /\ \A i \in DOMAIN subs : subs[i] \in SubsOf(nextId)
  BY <1>1
<1>4. /\ \A p \in ProfilesOf(nextId) : p.id \in 1 .. nextId - 1
      /\ \A s \in SubsOf(nextId) : s.id \in 1 .. nextId - 1
  BY DEF ProfilesOf, SubsOf
<1>2. QED
  BY <1>3, <1>4 DEF IdsOf

\* What an operation of a caller may have to do, by its name and argument.
Suits(op, arg, todo, steps) ==
  /\ op \notin {"none", "auto"}
  /\ "ListSubs" \in steps => op = "refreshAll"
  /\ "Fetch" \in steps => op \in Refreshes
  /\ op = "import" => todo = <<"LoadProfiles">> \o Rewrite
  /\ "SaveProfiles" \in steps =>
       /\ op \in {"create", "update", "import", "delete", "deleteSub"} \cup Refreshes
       /\ op \in {"create", "update", "import"} => arg \in Bodies
       /\ op \in Refreshes => "Fetch" \in steps
  /\ "SaveSubs" \in steps => "LoadSubs" \in steps /\ (op = "editSub" => arg \in BOOLEAN)
  /\ "LoadState" \in steps \/ "SaveState" \in steps =>
       op \in {"delete", "select", "restore"} /\ (op = "restore" => arg \in BOOLEAN)

\* A plan that a request can start.
Plan(todo) == Ordered(todo) /\ todo # <<>> /\ todo[1] \notin {"SaveProfiles", "SaveState"}

LEMMA PlansStart ==
  /\ Plan(Rewrite) /\ Plan(Rewrite \o RewriteState) /\ Plan(<<"LoadProfiles">> \o RewriteState)
  /\ Plan(<<"LoadProfiles", "SaveDelays">>) /\ Plan(<<"LoadProfiles">> \o Rewrite)
  /\ Plan(RewriteSubs) /\ Plan(RewriteSubs \o Rewrite) /\ Plan(Refresh)
  /\ Plan(<<"ListSubs">>) /\ Plan(RewriteState)
<1>1. <<"LoadProfiles", "SaveDelays">>[1] = "LoadProfiles" /\ <<"ListSubs">>[1] = "ListSubs"
  OBVIOUS
<1>2. ASSUME NEW first, first \in {"LoadProfiles", "LoadSubs", "LoadState", "ListSubs"}
      PROVE  first \notin {"SaveProfiles", "SaveState"}
  BY <1>2
<1>3. Plan(Rewrite)
  BY <1>1, <1>2, PlansAre, PlansAreOrdered DEF Plan
<1>4. Plan(Rewrite \o RewriteState)
  BY <1>1, <1>2, PlansAre, PlansAreOrdered DEF Plan
<1>5. Plan(<<"LoadProfiles">> \o RewriteState)
  BY <1>1, <1>2, PlansAre, PlansAreOrdered DEF Plan
<1>6. Plan(<<"LoadProfiles", "SaveDelays">>)
  BY <1>1, <1>2, PlansAre, PlansAreOrdered DEF Plan
<1>7. Plan(<<"LoadProfiles">> \o Rewrite)
  BY <1>1, <1>2, PlansAre, PlansAreOrdered DEF Plan
<1>8. Plan(RewriteSubs)
  BY <1>1, <1>2, PlansAre, PlansAreOrdered DEF Plan
<1>9. Plan(RewriteSubs \o Rewrite)
  BY <1>1, <1>2, PlansAre, PlansAreOrdered DEF Plan
<1>10. Plan(Refresh)
  BY <1>1, <1>2, PlansAre, PlansAreOrdered DEF Plan
<1>11. Plan(<<"ListSubs">>)
  BY <1>1, <1>2, PlansAre, PlansAreOrdered DEF Plan
<1>12. Plan(RewriteState)
  BY <1>1, <1>2, PlansAre, PlansAreOrdered DEF Plan
<1>20. QED
  BY <1>3, <1>4, <1>5, <1>6, <1>7, <1>8, <1>9, <1>10, <1>11, <1>12

LEMMA OnItsWay ==
  ASSUME CatInv, NEW c \in Callers, NEW op, NEW ids, NEW arg, NEW todo,
         BeginTask(c, op, ids, arg, todo), ids \in SUBSET (1 .. nextId - 1),
         Plan(todo), Suits(op, arg, todo, Range(todo))
  PROVE  CatInv'
<1>1. c \in Workers /\ c # Loop
  BY CatalogAssumption DEF Workers
<1>2. <<>> \in Seq(1 .. nextId - 1)
  OBVIOUS
<1>3. ASSUME NEW t, t.op = op, t.ids = ids, t.arg = arg, t.todo = todo, IsTask(t),
             t.ps = <<>>, t.ss = <<>>, t.list = <<>>
      PROVE  Begun(c, t, nextId)
  <2>1. /\ \A s : Left(t, s) <=> s \in Range(todo)
        /\ \A s : Ahead(t, s) <=> todo # <<>> /\ todo[1] = s
    BY <1>3 DEF Left, Ahead
  <2> HIDE DEF Left, Ahead
  <2>2. QED
    BY <1>1, <1>2, <1>3, <2>1 DEF Begun, Suits, Plan
<1>4. todo # <<>>
  BY DEF Plan
<1>5. QED
  BY <1>1, <1>3, <1>4, Begins

LEMMA RequestBegins ==
  ASSUME CatInv, NEW c \in Callers, CatalogRequest(c)
  PROVE  CatInv'
<1>1. IdsOf(profiles) \subseteq 1 .. nextId - 1 /\ IdsOf(subs) \subseteq 1 .. nextId - 1
  BY KnownIds DEF CatInv
<1>2. {} \in SUBSET (1 .. nextId - 1)
  OBVIOUS
<1>3. CASE \E b \in Bodies : CreateProfile(c, b)
  <2>1. PICK b \in Bodies : BeginTask(c, "create", {}, b, Rewrite)
    BY <1>3 DEF CreateProfile
  <2>2. {} \in SUBSET (1 .. nextId - 1)
    BY <1>2
  <2>3. Suits("create", b, Rewrite, Range(Rewrite))
    BY PlansAre DEF Suits, Refreshes
  <2>4. QED
    BY <2>1, <2>2, <2>3, OnItsWay, PlansStart, Zenon
<1>4. CASE \E b \in Bodies : ImportProfileFromURI(c, b)
  <2>1. PICK b \in Bodies : BeginTask(c, "import", {}, b, <<"LoadProfiles">> \o Rewrite)
    BY <1>4 DEF ImportProfileFromURI
  <2>2. {} \in SUBSET (1 .. nextId - 1)
    BY <1>2
  <2>3. Suits("import", b, <<"LoadProfiles">> \o Rewrite, Range(<<"LoadProfiles">> \o Rewrite))
    BY PlansAre DEF Suits, Refreshes
  <2>4. QED
    BY <2>1, <2>2, <2>3, OnItsWay, PlansStart, Zenon
<1>5. CASE \E p \in IdsOf(profiles) : SelectProfile(c, p)
  <2>1. PICK p \in IdsOf(profiles) : BeginTask(c, "select", {p}, None, <<"LoadProfiles">> \o RewriteState)
    BY <1>5 DEF SelectProfile
  <2>2. {p} \in SUBSET (1 .. nextId - 1)
    BY <1>1
  <2>3. Suits("select", None, <<"LoadProfiles">> \o RewriteState, Range(<<"LoadProfiles">> \o RewriteState))
    BY PlansAre DEF Suits, Refreshes
  <2>4. QED
    BY <2>1, <2>2, <2>3, OnItsWay, PlansStart, Zenon
<1>6. CASE \E p \in IdsOf(profiles), b \in Bodies : UpdateProfile(c, p, b)
  <2>1. PICK p \in IdsOf(profiles), b \in Bodies : BeginTask(c, "update", {p}, b, Rewrite)
    BY <1>6 DEF UpdateProfile
  <2>2. {p} \in SUBSET (1 .. nextId - 1)
    BY <1>1
  <2>3. Suits("update", b, Rewrite, Range(Rewrite))
    BY PlansAre DEF Suits, Refreshes
  <2>4. QED
    BY <2>1, <2>2, <2>3, OnItsWay, PlansStart, Zenon
<1>7. CASE \E ps \in (SUBSET IdsOf(profiles)) \ {{}} : DeleteProfiles(c, ps)
  <2>1. PICK ps \in (SUBSET IdsOf(profiles)) \ {{}} : BeginTask(c, "delete", ps, None, Rewrite \o RewriteState)
    BY <1>7 DEF DeleteProfiles
  <2>2. ps \in SUBSET (1 .. nextId - 1)
    BY <1>1
  <2>3. Suits("delete", None, Rewrite \o RewriteState, Range(Rewrite \o RewriteState))
    BY PlansAre DEF Suits, Refreshes
  <2>4. QED
    BY <2>1, <2>2, <2>3, OnItsWay, PlansStart, Zenon
<1>8. CASE \E ps \in (SUBSET IdsOf(profiles)) \ {{}} : TestProfileDelays(c, ps)
  <2>1. PICK ps \in (SUBSET IdsOf(profiles)) \ {{}} : BeginTask(c, "delay", ps, None, <<"LoadProfiles", "SaveDelays">>)
    BY <1>8 DEF TestProfileDelays
  <2>2. ps \in SUBSET (1 .. nextId - 1)
    BY <1>1
  <2>3. Suits("delay", None, <<"LoadProfiles", "SaveDelays">>, Range(<<"LoadProfiles", "SaveDelays">>))
    BY PlansAre DEF Suits, Refreshes
  <2>4. QED
    BY <2>1, <2>2, <2>3, OnItsWay, PlansStart, Zenon
<1>9. CASE \E s \in IdsOf(subs) : DeleteSubscription(c, s)
  <2>1. PICK s \in IdsOf(subs) : BeginTask(c, "deleteSub", {s}, None, RewriteSubs \o Rewrite)
    BY <1>9 DEF DeleteSubscription
  <2>2. {s} \in SUBSET (1 .. nextId - 1)
    BY <1>1
  <2>3. Suits("deleteSub", None, RewriteSubs \o Rewrite, Range(RewriteSubs \o Rewrite))
    BY PlansAre DEF Suits, Refreshes
  <2>4. QED
    BY <2>1, <2>2, <2>3, OnItsWay, PlansStart, Zenon
<1>10. CASE \E s \in IdsOf(subs) : UpdateSubscriptionByID(c, s)
  <2>1. PICK s \in IdsOf(subs) : BeginTask(c, "refresh", {s}, None, Refresh)
    BY <1>10 DEF UpdateSubscriptionByID
  <2>2. {s} \in SUBSET (1 .. nextId - 1)
    BY <1>1
  <2>3. Suits("refresh", None, Refresh, Range(Refresh))
    BY PlansAre DEF Suits, Refreshes
  <2>4. QED
    BY <2>1, <2>2, <2>3, OnItsWay, PlansStart, Zenon
<1>11. CASE \E s \in IdsOf(subs), on \in BOOLEAN : UpdateSubscription(c, s, on)
  <2>1. PICK s \in IdsOf(subs), on \in BOOLEAN : BeginTask(c, "editSub", {s}, on, RewriteSubs)
    BY <1>11 DEF UpdateSubscription
  <2>2. {s} \in SUBSET (1 .. nextId - 1)
    BY <1>1
  <2>3. Suits("editSub", on, RewriteSubs, Range(RewriteSubs))
    BY PlansAre DEF Suits, Refreshes
  <2>4. QED
    BY <2>1, <2>2, <2>3, OnItsWay, PlansStart, Zenon
<1>12. CASE CreateSubscription(c)
  <2>1. BeginTask(c, "createSub", {}, None, RewriteSubs)
    BY <1>12 DEF CreateSubscription
  <2>2. {} \in SUBSET (1 .. nextId - 1)
    BY <1>2
  <2>3. Suits("createSub", None, RewriteSubs, Range(RewriteSubs))
    BY PlansAre DEF Suits, Refreshes
  <2>4. QED
    BY <2>1, <2>2, <2>3, OnItsWay, PlansStart, Zenon
<1>13. CASE UpdateSubscriptions(c)
  <2>1. BeginTask(c, "refreshAll", {}, None, <<"ListSubs">>)
    BY <1>13 DEF UpdateSubscriptions
  <2>2. {} \in SUBSET (1 .. nextId - 1)
    BY <1>2
  <2>3. Suits("refreshAll", None, <<"ListSubs">>, Range(<<"ListSubs">>))
    BY PlansAre DEF Suits, Refreshes
  <2>4. QED
    BY <2>1, <2>2, <2>3, OnItsWay, PlansStart, Zenon
<1>14. CASE \E on \in BOOLEAN : SaveRestoreFlag(c, on)
  <2>1. PICK on \in BOOLEAN : BeginTask(c, "restore", {}, on, RewriteState)
    BY <1>14 DEF SaveRestoreFlag
  <2>2. {} \in SUBSET (1 .. nextId - 1)
    BY <1>2
  <2>3. Suits("restore", on, RewriteState, Range(RewriteState))
    BY PlansAre DEF Suits, Refreshes
  <2>4. QED
    BY <2>1, <2>2, <2>3, OnItsWay, PlansStart, Zenon
<1>15. QED
  BY <1>3, <1>4, <1>5, <1>6, <1>7, <1>8, <1>9, <1>10, <1>11, <1>12, <1>13, <1>14
     DEF CatalogRequest

LEMMA PassBegins ==
  ASSUME CatInv, RunDueAutoUpdates
  PROVE  CatInv'
<1>1. Loop \in Workers
  BY DEF Workers
<1>2. <<>> \in Seq(1 .. nextId - 1) /\ {} \in SUBSET (1 .. nextId - 1)
  OBVIOUS
<1> DEFINE plan == <<"ListSubs">>
<1>3. BeginTask(Loop, "auto", {}, None, plan)
  BY DEF RunDueAutoUpdates
<1>4. Ordered(plan) /\ plan # <<>> /\ Range(plan) = {"ListSubs"} /\ plan[1] = "ListSubs"
  BY PlansAreOrdered, PlansAre
<1> HIDE DEF plan
<1>5. ASSUME NEW t, t.op = "auto", t.ids = {}, t.todo = plan, IsTask(t),
             t.ps = <<>>, t.ss = <<>>, t.list = <<>>
      PROVE  Begun(Loop, t, nextId) /\ ~Left(t, "Fetch")
  BY <1>2, <1>4, <1>5 DEF Begun, Left, Ahead
<1>6. QED
  BY <1>1, <1>3, <1>4, <1>5, Begins

-----------------------------------------------------------------------------
(* Loads.                                                                  *)

\* At a step of a task: the task, and what is left once the step is taken.
LEMMA AtStep ==
  ASSUME TasksFit, NEW c \in Workers, NEW step, At(c, step)
  PROVE  /\ TaskFits(c, task[c], nextId, Len(maps))
         /\ Copied(task[c], overtaken[c], profiles, subs, state)
         /\ IsTask(task[c]) /\ Ordered(task[c].todo) /\ task[c].todo # <<>>
         /\ task[c].op # "none" /\ (c = Loop <=> task[c].op = "auto")
         /\ Ahead(task[c], step) /\ \A s : Ahead(task[c], s) => s = step
<1>1. TaskFits(c, task[c], nextId, Len(maps)) /\ Copied(task[c], overtaken[c], profiles, subs, state)
  BY DEF TasksFit
<1>2. IsTask(task[c]) /\ Ordered(task[c].todo) /\ task[c].todo # <<>>
  BY <1>1 DEF TaskFits, At
<1>3. task[c].op # "none"
  BY <1>1, <1>2 DEF TaskFits, NoTask
<1>4. Head(task[c].todo) = task[c].todo[1]
  BY <1>2, RestOfTodo
<1>5. QED
  BY <1>1, <1>2, <1>3, <1>4 DEF At, Ahead, TaskFits

\* After a load a task has what the file says.
LEMMA AfterLoadFits ==
  ASSUME NEW c, NEW t, NEW n, NEW m, TaskFits(c, t, n, m), t.op # "none",
         Ahead(t, "LoadProfiles"), profiles \in Seq(ProfilesOf(n)),
         NEW seen, NEW old, NEW ss, NEW st, Copied(t, seen, old, ss, st)
  PROVE  /\ TaskFits(c, AfterLoad(t), n, m)
         /\ Copied(AfterLoad(t), seen \ {"profiles"}, profiles, ss, st)
         /\ \A ms : Marked(AfterLoad(t), ms)
         /\ \A got, noted : Due(t, got, noted) => Due(AfterLoad(t), got, noted)
<1>1. IsTask(t) /\ Ordered(t.todo) /\ t.todo # <<>> /\ \A s : Ahead(t, s) => s = "LoadProfiles"
  BY DEF TaskFits, Ahead
<1>2. CASE AfterLoad(t) = GiveUp(t)
  BY <1>2, GivenUp
<1>3. CASE t.op = "select" /\ AfterLoad(t) = Next1(t)
  <2> DEFINE u == Next1(t)
  <2>1. /\ IsTask(u) /\ u.todo = Tail(t.todo) /\ u.op = t.op /\ u.ids = t.ids /\ u.arg = t.arg
        /\ u.list = t.list /\ u.ps = t.ps /\ u.ss = t.ss /\ u.st = t.st
    BY <1>1 DEF IsTask, Next1
  <2> HIDE DEF u
  <2>2. /\ Ordered(u.todo)
        /\ \A s : Left(u, s) => Left(t, s)
        /\ \A s : Left(t, s) => Ahead(t, s) \/ Left(u, s)
        /\ \A s : Ahead(u, s) => Left(u, s)
        /\ ~Ahead(u, "SaveState")
    BY <1>1, <2>1, StepTaken
  <2>3. ~Left(u, "SaveProfiles") /\ ~Ahead(u, "SaveProfiles")
    <3>1. ~Left(t, "SaveProfiles")
      BY <1>3 DEF TaskFits, Refreshes
    <3>2. QED
      BY <2>2, <3>1
  <2>4. TaskFits(c, u, n, m)
    BY <1>3, <2>1, <2>2, <2>3 DEF TaskFits
  <2>5. Copied(u, seen \ {"profiles"}, profiles, ss, st)
    BY <1>1, <2>1, <2>2, <2>3 DEF Copied
  <2>6. QED
    BY <1>1, <1>3, <2>1, <2>2, <2>4, <2>5 DEF Marked, Due, u
<1>4. CASE /\ t.op = "import" /\ Equivalent(profiles, t.arg)
           /\ AfterLoad(t).todo = <<"SaveProfiles">>
  <2> DEFINE u == AfterLoad(t)
  <2>1. /\ IsTask(u) /\ u.todo = <<"SaveProfiles">> /\ u.op = t.op /\ u.ids = t.ids /\ u.arg = t.arg
        /\ u.list = t.list /\ u.ps = profiles /\ u.ss = t.ss /\ u.st = t.st
    BY <1>1, <1>4 DEF IsTask, Next1, AfterLoad
  <2> HIDE DEF u
  <2>2. Ordered(u.todo) /\ \A s : (Left(u, s) => s = "SaveProfiles") /\ (Ahead(u, s) => s = "SaveProfiles")
    BY <2>1, PlansAreOrdered DEF Left, Ahead, Range
  <2>3. t.todo = <<"LoadProfiles">> \o Rewrite /\ Left(t, "SaveProfiles") /\ c # Loop
    <3>1. t.todo \in {<<>>, <<"SaveProfiles">>, <<"LoadProfiles">> \o Rewrite} /\ c # Loop
      BY <1>4 DEF TaskFits
    <3>2. t.todo # <<>> /\ t.todo[1] = "LoadProfiles" /\ <<"SaveProfiles">>[1] = "SaveProfiles"
      BY DEF Ahead
    <3>3. t.todo = <<"LoadProfiles">> \o Rewrite
      BY <3>1, <3>2
    <3>4. "SaveProfiles" \in Range(<<"LoadProfiles">> \o Rewrite)
      BY PlansAre
    <3>5. QED
      BY <3>1, <3>3, <3>4 DEF Left
  <2>4. TaskFits(c, u, n, m)
    BY <1>4, <2>1, <2>2, <2>3 DEF TaskFits, Refreshes
  <2>5. QED
    BY <2>1, <2>2, <2>4 DEF Copied, Marked, Due, u
<1>5. CASE t.op = "import" /\ ~Equivalent(profiles, t.arg)
  <2> DEFINE u == AfterLoad(t)
  <2>1. /\ IsTask(u) /\ u.todo = Tail(t.todo) /\ u.op = "create" /\ u.ids = t.ids /\ u.arg = t.arg
        /\ u.list = t.list /\ u.ps = t.ps /\ u.ss = t.ss /\ u.st = t.st
    BY <1>1, <1>5 DEF IsTask, Next1, AfterLoad
  <2> HIDE DEF u
  <2>2. t.todo = <<"LoadProfiles">> \o Rewrite /\ Left(t, "SaveProfiles") /\ c # Loop
    <3>1. t.todo \in {<<>>, <<"SaveProfiles">>, <<"LoadProfiles">> \o Rewrite} /\ c # Loop
      BY <1>5 DEF TaskFits
    <3>2. t.todo # <<>> /\ t.todo[1] = "LoadProfiles" /\ <<"SaveProfiles">>[1] = "SaveProfiles"
      BY DEF Ahead
    <3>3. t.todo = <<"LoadProfiles">> \o Rewrite
      BY <3>1, <3>2
    <3>4. "SaveProfiles" \in Range(<<"LoadProfiles">> \o Rewrite)
      BY PlansAre
    <3>5. QED
      BY <3>1, <3>3, <3>4 DEF Left
  <2>3. Tail(<<"LoadProfiles", "LoadProfiles", "SaveProfiles">>) = <<"LoadProfiles", "SaveProfiles">>
    OBVIOUS
  <2>8. <<"LoadProfiles">> \o Rewrite = <<"LoadProfiles", "LoadProfiles", "SaveProfiles">>
    BY PlansAreOrdered
  <2>4. u.todo = Rewrite
    BY <2>1, <2>2, <2>3, <2>8 DEF Rewrite
  <2>5. Ordered(u.todo) /\ ~Ahead(u, "SaveProfiles") /\ ~Ahead(u, "SaveState")
        /\ \A s : Left(u, s) => s \in {"LoadProfiles", "SaveProfiles"}
    BY <2>4, PlansAreOrdered, PlansAre DEF Left, Ahead
  <2>6. TaskFits(c, u, n, m)
    BY <1>5, <2>1, <2>2, <2>5 DEF TaskFits, Refreshes
  <2>7. QED
    BY <2>1, <2>5, <2>6 DEF Copied, Marked, Due, u
<1>6. CASE /\ t.op \notin {"select", "import"}
           /\ t.op = "update" => t.ids \cap IdsOf(profiles) # {}
           /\ AfterLoad(t) = [Next1(t) EXCEPT !.ps = profiles,
                !.ids = IF t.op = "delete" THEN @ \cap IdsOf(profiles) ELSE @]
  <2> DEFINE u == AfterLoad(t)
  <2>1. /\ IsTask(u) /\ u.todo = Tail(t.todo) /\ u.op = t.op /\ u.arg = t.arg /\ u.list = t.list
        /\ u.ids = IF t.op = "delete" THEN t.ids \cap IdsOf(profiles) ELSE t.ids
        /\ u.ps = profiles /\ u.ss = t.ss /\ u.st = t.st
    BY <1>1, <1>6 DEF IsTask, Next1
  <2> HIDE DEF u
  <2>2. /\ Ordered(u.todo)
        /\ \A s : Left(u, s) => Left(t, s)
        /\ \A s : Left(t, s) => Ahead(t, s) \/ Left(u, s)
        /\ ~Ahead(u, "SaveState")
    BY <1>1, <2>1, StepTaken
  <2>3. TaskFits(c, u, n, m)
    BY <1>1, <1>6, <2>1, <2>2 DEF TaskFits
  <2>4. Copied(u, seen \ {"profiles"}, profiles, ss, st)
    BY <1>1, <2>1, <2>2 DEF Copied
  <2>5. \A got, noted : Due(t, got, noted) => Due(u, got, noted)
    BY <1>1, <2>1, <2>2 DEF Due
  <2>6. QED
    BY <2>2, <2>3, <2>4, <2>5 DEF Marked, u
<1>7. QED
  <2>1. t.op = "select" => AfterLoad(t) \in {GiveUp(t), Next1(t)}
    BY DEF AfterLoad
  <2>2. t.op = "import" /\ Equivalent(profiles, t.arg) => AfterLoad(t).todo = <<"SaveProfiles">>
    BY <1>1 DEF AfterLoad, Next1, IsTask
  <2>3. t.op \notin {"select", "import"} =>
          \/ AfterLoad(t) = GiveUp(t)
          \/ /\ t.op = "update" => t.ids \cap IdsOf(profiles) # {}
             /\ AfterLoad(t) = [Next1(t) EXCEPT !.ps = profiles,
                  !.ids = IF t.op = "delete" THEN @ \cap IdsOf(profiles) ELSE @]
    BY DEF AfterLoad
  <2>4. QED
    BY <1>2, <1>3, <1>4, <1>5, <1>6, <2>1, <2>2, <2>3

\* A step that changes no file: its task must fit again.
LEMMA GoesOn ==
  ASSUME CatInv, NEW c \in Workers, NEW t, Set(c, t),
         UNCHANGED <<profiles, subs, state, disk, maps, nextId, fetched, refetched>>,
         faults' \in Nat, ~markLost' => ~markLost,
         overtaken' \in [Workers -> SUBSET Files],
         \A d \in Workers \ {c} : overtaken'[d] = overtaken[d],
         TaskFits(c, t, nextId, Len(maps)),
         Copied(t, overtaken'[c], profiles, subs, state),
         c = Loop => Marked(t, maps),
         c = Loop /\ ~markLost' => Due(t, fetched, disk.set)
  PROVE  CatInv'
<1>1. nextId \in Nat \ {0} /\ maps \in Seq(SUBSET Nat) /\ nextId <= nextId /\ Len(maps) <= Len(maps)
  BY DEF CatInv, FilesFit
<1>2. /\ TasksFit' /\ \A d \in Workers \ {c} : task'[d] = task[d]
      /\ \A got, noted : Due(t, got, noted) => Due(task'[c], got, noted)
  BY <1>1, OneGoesOn DEF CatInv
<1>3. FilesFit'
  BY DEF CatInv, FilesFit, CatTypeOK
<1>4. ~markLost' => Noted'
  <2>1. ~markLost' /\ c = Loop => Due(task'[Loop], fetched, disk.set)
    BY <1>2
  <2>2. c # Loop => task'[Loop] = task[Loop]
    BY <1>2 DEF Workers
  <2>3. QED
    BY <2>1, <2>2 DEF CatInv, Noted, Persisted
<1>5. QED
  BY <1>2, <1>3, <1>4 DEF CatInv

\* A step that fails, and what the task was about is given up.
LEMMA FailedStep ==
  ASSUME CatInv, NEW c \in Workers, Fault, Set(c, GiveUp(task[c])),
         UNCHANGED <<profiles, subs, state, disk, maps, nextId, fetched, refetched, overtaken>>,
         ~markLost' => ~markLost
  PROVE  CatInv'
<1>1. faults' \in Nat /\ overtaken \in [Workers -> SUBSET Files]
  BY DEF CatInv, FilesFit, CatTypeOK, Fault
<1>2. TaskFits(c, task[c], nextId, Len(maps))
  BY DEF CatInv, TasksFit
<1>3. /\ TaskFits(c, GiveUp(task[c]), nextId, Len(maps))
      /\ Copied(GiveUp(task[c]), overtaken'[c], profiles, subs, state)
      /\ Marked(GiveUp(task[c]), maps) /\ Due(GiveUp(task[c]), fetched, disk.set)
  BY <1>2, GivenUp
<1>4. QED
  BY <1>1, <1>3, GoesOn

LEMMA LoadProfilesStep ==
  ASSUME CatInv, NEW c \in Workers, LoadProfiles(c)
  PROVE  CatInv'
<1>1. At(c, "LoadProfiles") /\ TasksFit /\ FilesFit
  BY DEF LoadProfiles, CatInv
<1>2. /\ TaskFits(c, task[c], nextId, Len(maps)) /\ task[c].op # "none"
      /\ Copied(task[c], overtaken[c], profiles, subs, state) /\ Ahead(task[c], "LoadProfiles")
  BY <1>1, AtStep
<1>3. profiles \in Seq(ProfilesOf(nextId)) /\ overtaken \in [Workers -> SUBSET Files]
  BY <1>1 DEF FilesFit, CatTypeOK, ProfilesOf
<1>4. /\ TaskFits(c, AfterLoad(task[c]), nextId, Len(maps))
      /\ Copied(AfterLoad(task[c]), overtaken[c] \ {"profiles"}, profiles, subs, state)
      /\ Marked(AfterLoad(task[c]), maps)
      /\ Due(task[c], fetched, disk.set) => Due(AfterLoad(task[c]), fetched, disk.set)
  BY <1>2, <1>3, AfterLoadFits
<1>5. /\ Set(c, AfterLoad(task[c])) /\ overtaken' = [overtaken EXCEPT ![c] = @ \ {"profiles"}]
      /\ UNCHANGED <<profiles, subs, state, disk, maps, nextId, fetched, refetched, markLost, faults>>
  BY DEF LoadProfiles, Reads, Counters
<1>6. /\ overtaken' \in [Workers -> SUBSET Files] /\ overtaken'[c] = overtaken[c] \ {"profiles"}
      /\ \A d \in Workers \ {c} : overtaken'[d] = overtaken[d]
  BY <1>3, <1>5
<1>7. faults' \in Nat /\ (~markLost /\ c = Loop => Due(task[c], fetched, disk.set))
  BY <1>1, <1>5 DEF FilesFit, CatInv, Noted
<1>8. QED
  BY <1>4, <1>5, <1>6, <1>7, GoesOn

LEMMA LoadSubsStep ==
  ASSUME CatInv, NEW c \in Workers, LoadSubs(c)
  PROVE  CatInv'
<1> DEFINE t == task[c]
           u == [Next1(t) EXCEPT !.ss = subs]
<1>1. At(c, "LoadSubs") /\ TasksFit /\ FilesFit
  BY DEF LoadSubs, CatInv
<1>2. /\ TaskFits(c, t, nextId, Len(maps)) /\ Copied(t, overtaken[c], profiles, subs, state)
      /\ IsTask(t) /\ Ordered(t.todo) /\ t.todo # <<>> /\ t.op # "none"
      /\ Ahead(t, "LoadSubs") /\ \A s : Ahead(t, s) => s = "LoadSubs"
  BY <1>1, AtStep
<1>3. subs \in Seq(SubsOf(nextId)) /\ overtaken \in [Workers -> SUBSET Files] /\ faults \in Nat
  BY <1>1 DEF FilesFit, CatTypeOK, SubsOf
<1>4. /\ overtaken' = [overtaken EXCEPT ![c] = @ \ {"subs"}]
      /\ UNCHANGED <<profiles, subs, state, disk, maps, nextId, fetched, refetched, markLost, faults>>
      /\ Set(c, u) \/ Set(c, GiveUp(t))
  BY DEF LoadSubs, Reads, Counters
<1>5. /\ overtaken' \in [Workers -> SUBSET Files] /\ overtaken'[c] = overtaken[c] \ {"subs"}
      /\ \A d \in Workers \ {c} : overtaken'[d] = overtaken[d]
  BY <1>3, <1>4
<1>6. CASE Set(c, GiveUp(t))
  <2>1. /\ TaskFits(c, GiveUp(t), nextId, Len(maps))
        /\ Copied(GiveUp(t), overtaken'[c], profiles, subs, state)
        /\ Marked(GiveUp(t), maps) /\ Due(GiveUp(t), fetched, disk.set)
    BY <1>2, GivenUp
  <2>2. QED
    BY <1>3, <1>4, <1>5, <1>6, <2>1, GoesOn
<1>7. CASE Set(c, u)
  <2>1. /\ IsTask(u) /\ u.todo = Tail(t.todo) /\ u.op = t.op /\ u.ids = t.ids /\ u.arg = t.arg
        /\ u.list = t.list /\ u.ps = t.ps /\ u.ss = subs /\ u.st = t.st
    BY <1>2 DEF IsTask, Next1
  <2> HIDE DEF u, t
  <2>2. /\ Ordered(u.todo)
        /\ \A s : Left(u, s) => Left(t, s)
        /\ \A s : Left(t, s) => Ahead(t, s) \/ Left(u, s)
        /\ ~Ahead(u, "SaveProfiles") /\ ~Ahead(u, "SaveState")
    BY <1>2, <2>1, StepTaken
  <2>3. TaskFits(c, u, nextId, Len(maps))
    <3>1. t.op # "import"
      BY <1>2, PlansAre DEF TaskFits, Ahead
    <3>2. QED
      BY <1>2, <1>3, <2>1, <2>2, <3>1 DEF TaskFits
  <2>4. Copied(u, overtaken'[c], profiles, subs, state) /\ Marked(u, maps)
    BY <2>1, <2>2 DEF Copied, Marked
  <2>5. Due(t, fetched, disk.set) => Due(u, fetched, disk.set)
    BY <1>2, <2>1, <2>2 DEF Due
  <2>6. ~markLost /\ c = Loop => Due(t, fetched, disk.set)
    BY DEF CatInv, Noted, t
  <2>7. QED
    BY <1>3, <1>4, <1>5, <1>7, <2>3, <2>4, <2>5, <2>6, GoesOn
<1>8. QED
  BY <1>4, <1>6, <1>7

-----------------------------------------------------------------------------
(* Lists, and what the network says.                                       *)

\* Whatever is picked of the subscriptions, its ids are ids that were given out.
LEMMA IdsInOrder ==
  ASSUME NEW n, NEW ss \in Seq(SubsOf(n))
  PROVE  [i \in DOMAIN ss |-> ss[i].id] \in Seq(1 .. n - 1)
<1>1. \A s \in SubsOf(n) : s.id \in 1 .. n - 1
  BY DEF SubsOf
<1>2. \A i \in DOMAIN ss : ss[i] \in SubsOf(n)
  OBVIOUS
<1>3. DOMAIN ss = 1 .. Len(ss) /\ Len(ss) \in Nat
  OBVIOUS
<1>4. QED
  BY <1>1, <1>2, <1>3

LEMMA ListSubsStep ==
  ASSUME CatInv, NEW c \in Workers, ListSubs(c)
  PROVE  CatInv'
<1> DEFINE t == task[c]
           on == Without(subs, LAMBDA s : ~s.on)
<1>1. At(c, "ListSubs") /\ TasksFit /\ FilesFit
  BY DEF ListSubs, CatInv
<1>2. /\ TaskFits(c, t, nextId, Len(maps)) /\ Copied(t, overtaken[c], profiles, subs, state)
      /\ IsTask(t) /\ Ordered(t.todo) /\ t.todo # <<>> /\ t.op # "none"
      /\ Ahead(t, "ListSubs") /\ \A s : Ahead(t, s) => s = "ListSubs"
  BY <1>1, AtStep
<1>3. subs \in Seq(SubsOf(nextId)) /\ overtaken \in [Workers -> SUBSET Files] /\ faults \in Nat
  BY <1>1 DEF FilesFit, CatTypeOK, SubsOf
<1>4. on \in Seq(SubsOf(nextId))
  <2>1. on = Picked(subs, {i \in DOMAIN subs : ~~subs[i].on})
    BY DEF Without
  <2>2. {i \in DOMAIN subs : ~~subs[i].on} \subseteq DOMAIN subs
    OBVIOUS
  <2> HIDE DEF on
  <2>3. QED
    BY <1>3, <2>1, <2>2, PickedIs
<1>5. PICK list \in Seq(1 .. nextId - 1) : Set(c, [Next1(t) EXCEPT !.list = list])
  <2>1. CASE t.op = "auto"
    <3> DEFINE dueOf(due) == Without(on, LAMBDA s : s.id \notin due)
    <3>1. PICK due \in SUBSET IdsOf(on) :
            Set(c, [Next1(t) EXCEPT !.list = [i \in DOMAIN dueOf(due) |-> dueOf(due)[i].id]])
      BY <2>1 DEF ListSubs
    <3>2. dueOf(due) = Picked(on, {i \in DOMAIN on : ~(on[i].id \notin due)})
      BY DEF Without
    <3>3. {i \in DOMAIN on : ~(on[i].id \notin due)} \subseteq DOMAIN on
      OBVIOUS
    <3> DEFINE ss == dueOf(due)
    <3> HIDE DEF on, dueOf
    <3>4. ss \in Seq(SubsOf(nextId))
      BY <1>4, <3>2, <3>3, PickedIs
    <3> HIDE DEF ss
    <3>5. [i \in DOMAIN ss |-> ss[i].id] \in Seq(1 .. nextId - 1)
      BY <3>4, IdsInOrder
    <3>6. QED
      BY <3>1, <3>5 DEF ss
  <2>2. CASE t.op # "auto"
    <3>1. Set(c, [Next1(t) EXCEPT !.list = [i \in DOMAIN on |-> on[i].id]])
      BY <2>2 DEF ListSubs
    <3> HIDE DEF on
    <3>2. [i \in DOMAIN on |-> on[i].id] \in Seq(1 .. nextId - 1)
      BY <1>4, IdsInOrder
    <3>3. QED
      BY <3>1, <3>2
  <2>3. QED
    BY <2>1, <2>2
<1> DEFINE u == [Next1(t) EXCEPT !.list = list]
<1>6. /\ IsTask(u) /\ u.todo = Tail(t.todo) /\ u.op = t.op /\ u.ids = t.ids /\ u.arg = t.arg
      /\ u.list = list /\ u.ps = t.ps /\ u.ss = t.ss /\ u.st = t.st
  BY <1>2 DEF IsTask, Next1
<1>7. Set(c, u)
  BY <1>5
<1> HIDE DEF on, u, t
<1>8. /\ Ordered(u.todo)
      /\ \A s : Left(u, s) => Left(t, s)
      /\ \A s : Left(t, s) => Ahead(t, s) \/ Left(u, s)
      /\ ~Ahead(u, "SaveProfiles") /\ ~Ahead(u, "SaveState") /\ Left(t, "ListSubs")
  BY <1>2, <1>6, StepTaken
<1>9. TaskFits(c, u, nextId, Len(maps))
  <2>1. t.op # "import"
    BY <1>2, PlansAre DEF TaskFits, Ahead
  <2>2. t.op \in {"refreshAll", "auto"}
    BY <1>2, <1>8 DEF TaskFits
  <2>3. QED
    BY <1>2, <1>6, <1>8, <2>1, <2>2 DEF TaskFits
<1>10. Copied(u, overtaken[c], profiles, subs, state) /\ Marked(u, maps)
  BY <1>2, <1>6, <1>8 DEF Copied, Marked
<1>11. Due(t, fetched, disk.set) => Due(u, fetched, disk.set)
  BY <1>2, <1>6, <1>8 DEF Due
<1>12. ~markLost /\ c = Loop => Due(t, fetched, disk.set)
  BY DEF CatInv, Noted, t
<1>13. UNCHANGED <<profiles, subs, state, disk, maps, nextId, fetched, refetched, markLost, faults, overtaken>>
  BY DEF ListSubs, Counters
<1>14. QED
  BY <1>3, <1>7, <1>9, <1>10, <1>11, <1>12, <1>13, GoesOn

LEMMA NextOfListStep ==
  ASSUME CatInv, NEW c \in Workers, NextOfList(c)
  PROVE  CatInv'
<1> DEFINE t == task[c]
           id == Head(t.list)
           u == [NoTask EXCEPT !.op = t.op, !.ids = {id}, !.list = Tail(t.list)]
<1>1. /\ TaskFits(c, t, nextId, Len(maps)) /\ t.todo = <<>> /\ t.list # <<>>
      /\ nextId \in Nat \ {0} /\ Len(maps) \in Nat /\ faults \in Nat
      /\ overtaken \in [Workers -> SUBSET Files]
  BY DEF NextOfList, CatInv, TasksFit, FilesFit, CatTypeOK
<1>2. id \in 1 .. nextId - 1 /\ Tail(t.list) \in Seq(1 .. nextId - 1)
  <2>1. t.list \in Seq(1 .. nextId - 1) /\ t.list # <<>>
    BY <1>1 DEF TaskFits
  <2>2. QED
    BY <2>1, MoveHead
<1>3. t.op # "none" /\ (c = Loop <=> t.op = "auto")
  BY <1>1 DEF TaskFits, NoTask
<1>4. /\ UNCHANGED <<profiles, subs, state, disk, maps, nextId, fetched, refetched, markLost, faults>>
      /\ overtaken' = [overtaken EXCEPT ![c] = {}]
  BY DEF NextOfList, Counters
<1>5. /\ overtaken' \in [Workers -> SUBSET Files]
      /\ \A d \in Workers \ {c} : overtaken'[d] = overtaken[d]
  BY <1>1, <1>4
<1>6. PICK todo \in {<<>>, LoopSteps, Refresh} :
        /\ Set(c, [u EXCEPT !.todo = todo])
        /\ c = Loop => todo # Refresh /\ (todo # <<>> => ~Attempted(id))
        /\ c # Loop => todo = Refresh
  <2>1. CASE t.op = "auto" /\ Attempted(id)
    <3>1. Set(c, u)
      BY <2>1 DEF NextOfList
    <3>2. u = [u EXCEPT !.todo = <<>>]
      <4>1. /\ IsTask(u) /\ u.todo = <<>>
        BY DEF NoTask, IsTask
      <4> HIDE DEF u
      <4>2. QED
        BY <4>1 DEF IsTask
    <3>3. <<>> # Refresh
      BY PlansAreOrdered
    <3> HIDE DEF u, id, t
    <3>4. QED
      BY <1>3, <2>1, <3>1, <3>2, <3>3
  <2>2. CASE t.op = "auto" /\ ~Attempted(id)
    <3>1. Set(c, [u EXCEPT !.todo = LoopSteps])
      BY <2>2 DEF NextOfList
    <3>2. LoopSteps # Refresh
      BY PlansAre
    <3>3. QED
      BY <1>3, <2>2, <3>1, <3>2
  <2>3. CASE t.op # "auto"
    BY <1>3, <2>3 DEF NextOfList
  <2>4. QED
    BY <2>1, <2>2, <2>3
<1> DEFINE v == [u EXCEPT !.todo = todo]
<1>7. /\ IsTask(v) /\ v.op = t.op /\ v.ids = {id} /\ v.list = Tail(t.list) /\ v.todo = todo
      /\ v.ps = <<>> /\ v.ss = <<>>
  BY DEF NoTask, IsTask
<1>8. Set(c, v)
  BY <1>6
<1> HIDE DEF u, v, id, t
<1>9. Ordered(v.todo) /\ ~Ahead(v, "SaveProfiles") /\ ~Ahead(v, "SaveState")
      /\ (v.todo = <<>> => \A s : ~Left(v, s))
      /\ (v.todo # <<>> => Left(v, "Fetch") /\ Left(v, "LoadSubs"))
      /\ (v.todo = Refresh => ~Left(v, "LoadState") /\ ~Left(v, "SaveState"))
      /\ (v.todo = LoopSteps => Left(v, "SaveState"))
  BY <1>6, <1>7, PlansAreOrdered, PlansAre DEF Left, Ahead
<1>10. Begun(c, v, nextId)
  <2>1. t.op \in {"refreshAll", "auto"}
    BY <1>1 DEF TaskFits
  <2>2. QED
    BY <1>1, <1>2, <1>3, <1>6, <1>7, <1>9, <2>1 DEF Begun, Refreshes
<1>11. TaskFits(c, v, nextId, Len(maps)) /\ Marked(v, maps)
       /\ Copied(v, overtaken'[c], profiles, subs, state)
  BY <1>1, <1>10, FreshFits
<1>12. c = Loop /\ ~markLost => Due(v, fetched, disk.set)
  <2>1. c = Loop /\ Left(v, "Fetch") => v.todo = LoopSteps /\ id \notin Persisted
    BY <1>6, <1>7, <1>9 DEF Attempted
  <2>2. ~markLost => fetched \subseteq Persisted
    BY DEF CatInv, Noted
  <2>3. QED
    BY <1>7, <1>9, <2>1, <2>2 DEF Due
<1>13. QED
  BY <1>1, <1>4, <1>5, <1>8, <1>11, <1>12, GoesOn

\* What a fetch brings: profiles of that subscription, with new ids.
LEMMA DedupedFits ==
  ASSUME nextId \in Nat \ {0}, NEW offer \in Offers, NEW sub \in 1 .. nextId - 1
  PROVE  /\ Deduped(offer, sub) \in Seq(ProfilesOf(nextId + Len(offer)))
         /\ nextId + Len(offer) \in Nat \ {0} /\ nextId <= nextId + Len(offer)
<1>1. offer \in Seq(Bodies) /\ Len(offer) \in Nat /\ DOMAIN offer = 1 .. Len(offer)
  BY CatalogAssumption
<1> DEFINE n == nextId + Len(offer)
           firsts == {i \in DOMAIN offer : \A j \in 1 .. i - 1 : offer[j] # offer[i]}
           kept == Picked(offer, firsts)
           last(b) == Max({j \in DOMAIN offer : offer[j] = b})
<1>2. firsts \subseteq DOMAIN offer
  OBVIOUS
<1>3. n \in Nat \ {0} /\ nextId <= n
  BY <1>1
<1>4. Deduped(offer, sub) = [k \in DOMAIN kept |-> Entry(nextId + last(kept[k]) - 1, sub, kept[k])]
  BY DEF Deduped
<1> HIDE DEF firsts
<1>5. /\ kept \in Seq(Bodies) /\ Len(kept) = Cardinality(firsts)
      /\ \A k \in 1 .. Cardinality(firsts) : Nth(firsts, k) \in firsts /\ kept[k] = offer[Nth(firsts, k)]
  BY <1>1, <1>2, PickedIs
<1> HIDE DEF kept
<1>6. DOMAIN kept = 1 .. Len(kept) /\ Len(kept) \in Nat /\ \A k \in DOMAIN kept : kept[k] \in Bodies
  BY <1>5
<1>7. ASSUME NEW k \in DOMAIN kept PROVE last(kept[k]) \in 1 .. Len(offer)
  <2> DEFINE T == {j \in DOMAIN offer : offer[j] = kept[k]}
  <2>1. Nth(firsts, k) \in T
    BY <1>2, <1>5, <1>6
  <2>2. T \in SUBSET (0 .. Len(offer)) /\ T # {} /\ T \subseteq 1 .. Len(offer)
    BY <1>1, <2>1
  <2>3. Max(T) \in T
    BY <1>1, <2>2, MaxOf
  <2>4. QED
    BY <2>2, <2>3
<1>8. ASSUME NEW k \in DOMAIN kept
      PROVE  Entry(nextId + last(kept[k]) - 1, sub, kept[k]) \in ProfilesOf(n)
  <2> DEFINE j == last(kept[k])
  <2>1. j \in 1 .. Len(offer) /\ kept[k] \in Bodies
    BY <1>6, <1>7
  <2> HIDE DEF j
  <2>2. nextId + j - 1 \in 1 .. n - 1 /\ sub \in 0 .. n - 1
    BY <1>1, <2>1
  <2> HIDE DEF n
  <2>3. Entry(nextId + j - 1, sub, kept[k]) \in ProfilesOf(n)
    BY <2>1, <2>2 DEF Entry, ProfilesOf
  <2>4. QED
    BY <2>3 DEF j
<1> HIDE DEF n, last
<1>9. Deduped(offer, sub) \in Seq(ProfilesOf(n))
  BY <1>4, <1>6, <1>8
<1>10. QED
  BY <1>3, <1>9 DEF n

\* What fits stays in place when ids have been given out.
LEMMA FilesGrow ==
  ASSUME NEW n \in Nat \ {0}, NEW n1 \in Nat \ {0}, n <= n1, NEW m \in Nat, NEW m1 \in Nat, m <= m1
  PROVE  /\ \A ps \in Seq(ProfilesOf(n)) : ps \in Seq(ProfilesOf(n1))
         /\ \A ss \in Seq(SubsOf(n)) : ss \in Seq(SubsOf(n1))
         /\ \A st \in StatesOf(n, m) : st \in StatesOf(n1, m1)
<1>1. 1 .. n - 1 \subseteq 1 .. n1 - 1 /\ 0 .. n - 1 \subseteq 0 .. n1 - 1 /\ 0 .. m \subseteq 0 .. m1
  OBVIOUS
<1>2. ProfilesOf(n) \subseteq ProfilesOf(n1) /\ SubsOf(n) \subseteq SubsOf(n1)
      /\ StatesOf(n, m) \subseteq StatesOf(n1, m1)
  BY <1>1 DEF ProfilesOf, SubsOf, StatesOf
<1>3. QED
  BY <1>2

LEMMA FetchStep ==
  ASSUME CatInv, NEW c \in Workers, Fetch(c)
  PROVE  CatInv'
<1> DEFINE t == task[c]
<1>1. At(c, "Fetch") /\ TasksFit /\ FilesFit
  BY DEF Fetch, CatInv
<1>2. /\ TaskFits(c, t, nextId, Len(maps)) /\ Copied(t, overtaken[c], profiles, subs, state)
      /\ IsTask(t) /\ Ordered(t.todo) /\ t.todo # <<>> /\ t.op # "none"
      /\ (c = Loop <=> t.op = "auto")
      /\ Ahead(t, "Fetch") /\ \A s : Ahead(t, s) => s = "Fetch"
  BY <1>1, AtStep
<1>3. /\ overtaken \in [Workers -> SUBSET Files] /\ faults \in Nat /\ nextId \in Nat \ {0}
      /\ maps \in Seq(SUBSET Nat) /\ Len(maps) \in Nat
      /\ profiles \in Seq(ProfilesOf(nextId)) /\ subs \in Seq(SubsOf(nextId))
      /\ state \in StatesOf(nextId, Len(maps))
  BY <1>1 DEF FilesFit, CatTypeOK, ProfilesOf, SubsOf, StatesOf
<1>4. /\ UNCHANGED <<profiles, subs, state, disk, maps, markLost>>
      /\ overtaken' = [overtaken EXCEPT ![c] = @ \ {"profiles"}]
      /\ c # Loop => fetched' = fetched /\ refetched' = refetched
      /\ c = Loop => /\ refetched' = (refetched \/ t.ids \cap fetched # {})
                     /\ fetched' = fetched \cup t.ids
  BY DEF Fetch
<1>5. /\ overtaken' \in [Workers -> SUBSET Files] /\ overtaken'[c] = overtaken[c] \ {"profiles"}
      /\ \A d \in Workers \ {c} : overtaken'[d] = overtaken[d]
  BY <1>3, <1>4
<1>6. PICK v : /\ Set(c, v) /\ nextId' \in Nat \ {0} /\ nextId <= nextId' /\ faults' \in Nat
               /\ TaskFits(c, v, nextId', Len(maps))
               /\ Copied(v, overtaken'[c], profiles, subs, state) /\ Marked(v, maps)
               /\ ~Left(v, "Fetch")
  <2>1. CASE faults' = faults /\
             \E offer \in Offers, sub \in t.ids :
               /\ Set(c, [Next1(t) EXCEPT !.arg = Deduped(offer, sub)])
               /\ nextId' = nextId + Len(offer)
    <3>1. PICK offer \in Offers, sub \in t.ids :
               /\ Set(c, [Next1(t) EXCEPT !.arg = Deduped(offer, sub)])
               /\ nextId' = nextId + Len(offer)
      BY <2>1
    <3>2. sub \in 1 .. nextId - 1
      BY <1>2 DEF TaskFits
    <3>3. Deduped(offer, sub) \in Seq(ProfilesOf(nextId')) /\ nextId' \in Nat \ {0} /\ nextId <= nextId'
      BY <1>3, <3>1, <3>2, DedupedFits
    <3> DEFINE new == Deduped(offer, sub)
               u == [Next1(t) EXCEPT !.arg = new]
    <3>4. /\ IsTask(u) /\ u.todo = Tail(t.todo) /\ u.op = t.op /\ u.ids = t.ids /\ u.arg = new
          /\ u.list = t.list /\ u.ps = t.ps /\ u.ss = t.ss /\ u.st = t.st
      BY <1>2 DEF IsTask, Next1
    <3>5. Set(c, u)
      BY <3>1
    <3> HIDE DEF u, t, new
    <3>6. /\ Ordered(u.todo)
          /\ \A s : Left(u, s) => Left(t, s)
          /\ \A s : Left(t, s) => Ahead(t, s) \/ Left(u, s)
          /\ ~Ahead(u, "SaveProfiles") /\ ~Ahead(u, "SaveState")
          /\ ~Left(u, "Fetch") /\ Left(t, "Fetch")
      BY <1>2, <3>4, StepTaken DEF AtMostOnce
    <3>7. TaskFits(c, t, nextId', Len(maps))
      BY <1>2, <1>3, <3>3, TaskStillFits DEF t
    <3>8. TaskFits(c, u, nextId', Len(maps))
      <4>1. t.op \in Refreshes
        BY <3>6, <3>7 DEF TaskFits
      <4>2. QED
        BY <1>2, <3>3, <3>4, <3>6, <3>7, <4>1 DEF TaskFits, Refreshes, new
    <3>9. Copied(u, overtaken'[c], profiles, subs, state) /\ Marked(u, maps)
      BY <1>2, <1>5, <3>4, <3>6 DEF Copied, Marked
    <3>10. QED
      BY <1>3, <2>1, <3>3, <3>5, <3>6, <3>8, <3>9
  <2>2. CASE Fault /\ Set(c, GiveUp(t)) /\ nextId' = nextId
    <3>1. /\ TaskFits(c, GiveUp(t), nextId, Len(maps))
          /\ Copied(GiveUp(t), overtaken'[c], profiles, subs, state) /\ Marked(GiveUp(t), maps)
      BY <1>2, GivenUp
    <3>2. GiveUp(t).todo = <<>>
      BY <1>2 DEF GiveUp, IsTask
    <3>3. ~Left(GiveUp(t), "Fetch")
      BY <3>2, NothingLeft
    <3>4. faults' \in Nat
      BY <1>3, <2>2 DEF Fault
    <3>5. QED
      BY <1>3, <2>2, <3>1, <3>3, <3>4
  <2>3. QED
    BY <2>1, <2>2 DEF Fetch
<1> HIDE DEF t
<1>7. /\ TasksFit' /\ \A d \in Workers \ {c} : task'[d] = task[d]
      /\ \A got, noted : Due(v, got, noted) => Due(task'[c], got, noted)
  <2>1. /\ TaskFits(c, v, nextId', Len(maps')) /\ Marked(v, maps')
        /\ Copied(v, overtaken'[c], profiles', subs', state')
        /\ maps' \in Seq(SUBSET Nat) /\ Len(maps) <= Len(maps') /\ maps' = maps
    BY <1>3, <1>4, <1>6
  <2>2. QED
    BY <1>1, <1>3, <1>4, <1>5, <1>6, <2>1, OneGoesOn
<1>8. FilesFit'
  <2>1. /\ profiles' \in Seq(ProfilesOf(nextId')) /\ subs' \in Seq(SubsOf(nextId'))
        /\ state' \in StatesOf(nextId', Len(maps'))
    BY <1>3, <1>4, <1>6, FilesGrow
  <2>2. QED
    BY <1>1, <1>4, <1>5, <1>6, <2>1 DEF FilesFit, CatTypeOK, ProfilesOf, SubsOf, StatesOf
<1>9. ~markLost' => Noted'
  <2>1. CASE c # Loop
    <3>1. task'[Loop] = task[Loop]
      BY <1>7, <2>1 DEF Workers
    <3>2. QED
      BY <1>4, <2>1, <3>1 DEF CatInv, Noted, Persisted
  <2>2. CASE c = Loop
    <3>1. Left(t, "Fetch") /\ ~Left(t, "SaveState")
      <4> DEFINE u == Next1(t)
      <4>1. u.todo = Tail(t.todo)
        BY <1>2 DEF Next1, IsTask
      <4> HIDE DEF u
      <4>2. QED
        BY <1>2, <4>1, StepTaken
    <3>2. Due(task'[Loop], fetched', disk'.set)
      BY <1>6, <1>7, <2>2 DEF Due
    <3>3. QED
      BY <1>4, <2>2, <3>1, <3>2 DEF CatInv, Noted, Due, Persisted, t
  <2>3. QED
    BY <2>1, <2>2
<1>10. QED
  BY <1>7, <1>8, <1>9 DEF CatInv

-----------------------------------------------------------------------------
(* The state.                                                              *)

\* A task has loaded the state and changed what it is about in its copy.
LEMMA LoadedStateFits ==
  ASSUME NEW c, NEW t, NEW n \in Nat \ {0}, NEW m, TaskFits(c, t, n, m), Ahead(t, "LoadState"),
         NEW v, IsTask(v), v.todo = Tail(t.todo), v.op = t.op, v.ids = t.ids, v.arg = t.arg,
         v.list = t.list, v.ps \in {t.ps, <<>>}, v.ss = t.ss, v.st \in StatesOf(n, m),
         NEW seen, NEW ps, NEW ss, NEW st, Copied(t, seen, ps, ss, st),
         t.op \notin {"select", "delete"} => v.st.cur = st.cur,
         t.op # "restore" => v.st.restore = st.restore,
         st.marks # 0 => v.st.marks = st.marks
  PROVE  /\ TaskFits(c, v, n, m) /\ Copied(v, seen \ {"state"}, ps, ss, st)
         /\ \A got, noted : Due(t, got, noted) => Due(v, got, noted)
<1>1. IsTask(t) /\ Ordered(t.todo) /\ t.todo # <<>> /\ \A s : Ahead(t, s) => s = "LoadState"
  BY DEF TaskFits, Ahead
<1>2. /\ Ordered(v.todo)
      /\ \A s : Left(v, s) => Left(t, s)
      /\ \A s : Left(t, s) => Ahead(t, s) \/ Left(v, s)
      /\ ~Ahead(v, "SaveProfiles")
  BY <1>1, StepTaken
<1>3. t.op \notin {"import", "none"}
  <2>1. t.todo[1] = "LoadState" /\ t.todo # <<>>
    BY DEF Ahead
  <2>2. t.op # "import"
    BY <2>1, PlansAre DEF TaskFits
  <2>3. t.op # "none"
    BY <2>1 DEF TaskFits, NoTask
  <2>4. QED
    BY <2>2, <2>3
<1>4. v.ps \in Seq(ProfilesOf(n))
  <2>1. <<>> \in Seq(ProfilesOf(n))
    OBVIOUS
  <2>2. QED
    BY <2>1 DEF TaskFits
<1>5. TaskFits(c, v, n, m)
  BY <1>1, <1>2, <1>3, <1>4 DEF TaskFits
<1>6. Copied(v, seen \ {"state"}, ps, ss, st)
  BY <1>1, <1>2 DEF Copied
<1>7. \A got, noted : Due(t, got, noted) => Due(v, got, noted)
  BY <1>1, <1>2 DEF Due
<1>8. QED
  BY <1>5, <1>6, <1>7

\* Which operations load the state.
LEMMA StateOperation ==
  ASSUME TasksFit, NEW c \in Workers, At(c, "LoadState")
  PROVE  /\ task[c].op \in {"delete", "select", "restore", "auto"}
         /\ task[c].op = "restore" => task[c].arg \in BOOLEAN
<1> DEFINE t == task[c]
           u == Next1(t)
<1>1. /\ TaskFits(c, t, nextId, Len(maps)) /\ IsTask(t) /\ Ordered(t.todo) /\ t.todo # <<>>
      /\ Ahead(t, "LoadState")
  BY AtStep
<1>2. u.todo = Tail(t.todo)
  BY <1>1 DEF Next1, IsTask
<1> HIDE DEF u
<1>3. Left(t, "LoadState")
  BY <1>1, <1>2, StepTaken
<1>4. QED
  BY <1>1, <1>3 DEF TaskFits

LEMMA LoadStateStep ==
  ASSUME CatInv, NEW c \in Workers, LoadState(c)
  PROVE  CatInv'
<1> DEFINE t == task[c]
<1>1. At(c, "LoadState") /\ TasksFit /\ FilesFit
  BY DEF LoadState, CatInv
<1>2. /\ TaskFits(c, t, nextId, Len(maps)) /\ Copied(t, overtaken[c], profiles, subs, state)
      /\ IsTask(t) /\ Ordered(t.todo) /\ t.todo # <<>> /\ t.op # "none"
      /\ (c = Loop <=> t.op = "auto") /\ Ahead(t, "LoadState")
  BY <1>1, AtStep
<1>3. /\ overtaken \in [Workers -> SUBSET Files] /\ faults \in Nat /\ nextId \in Nat \ {0}
      /\ maps \in Seq(SUBSET Nat) /\ Len(maps) \in Nat /\ state \in StatesOf(nextId, Len(maps))
  BY <1>1 DEF FilesFit, CatTypeOK, StatesOf
<1>4. /\ UNCHANGED <<profiles, subs, state, disk, nextId, fetched, refetched, markLost, faults>>
      /\ overtaken' = [overtaken EXCEPT ![c] = @ \ {"state"}]
  BY DEF LoadState, Reads, Counters
<1>5. /\ overtaken' \in [Workers -> SUBSET Files] /\ overtaken'[c] = overtaken[c] \ {"state"}
      /\ \A d \in Workers \ {c} : overtaken'[d] = overtaken[d]
  BY <1>3, <1>4
<1>6. t.op \in {"delete", "select", "restore", "auto"} /\ (t.op = "restore" => t.arg \in BOOLEAN)
  BY <1>1, StateOperation
<1>7. ~markLost /\ c = Loop => Due(t, fetched, disk.set)
  BY DEF CatInv, Noted
<1>8. state.marks \in 0 .. Len(maps) /\ state.cur \in 0 .. nextId - 1 /\ state.restore \in BOOLEAN
      /\ state = [cur |-> state.cur, restore |-> state.restore, marks |-> state.marks]
  BY <1>3 DEF StatesOf
<1>9. CASE t.op = "auto"
  <2> DEFINE mine == IF state.marks = 0 THEN Len(maps) + 1 ELSE state.marks
             st == [state EXCEPT !.marks = mine]
             v == [Next1(t) EXCEPT !.st = st]
  <2>1. /\ maps' = IF state.marks = 0 THEN Append(maps, t.ids) ELSE [maps EXCEPT ![mine] = @ \cup t.ids]
        /\ Set(c, v)
    BY <1>9 DEF LoadState
  <2>2. /\ IsTask(v) /\ v.todo = Tail(t.todo) /\ v.op = t.op /\ v.ids = t.ids /\ v.arg = t.arg
        /\ v.list = t.list /\ v.ps = t.ps /\ v.ss = t.ss /\ v.st = st
    BY <1>2 DEF IsTask, Next1
  <2>3. t.ids \in SUBSET (1 .. nextId - 1) /\ t.ids \in SUBSET Nat
    BY <1>2 DEF TaskFits
  <2>4. /\ maps' \in Seq(SUBSET Nat) /\ Len(maps) <= Len(maps') /\ Len(maps') \in Nat
        /\ mine \in DOMAIN maps' /\ t.ids \subseteq maps'[mine] /\ mine \in 0 .. Len(maps')
        /\ \A k \in DOMAIN maps : maps[k] \subseteq maps'[k]
    <3>1. CASE state.marks = 0
      BY <1>3, <2>1, <2>3, <3>1
    <3>2. CASE state.marks # 0
      <4>1. mine = state.marks /\ mine \in DOMAIN maps
        BY <1>3, <1>8, <3>2
      <4> HIDE DEF mine
      <4>2. maps' = [maps EXCEPT ![mine] = maps[mine] \cup t.ids]
        BY <2>1, <3>2, <4>1
      <4>3. maps[mine] \cup t.ids \in SUBSET Nat
        BY <1>3, <2>3, <4>1
      <4>4. maps' \in Seq(SUBSET Nat) /\ Len(maps') = Len(maps)
        BY <1>3, <4>1, <4>2, <4>3
      <4>5. QED
        BY <1>3, <4>1, <4>2, <4>4
    <3>3. QED
      BY <3>1, <3>2
  <2>5. /\ st.cur = state.cur /\ st.restore = state.restore /\ st.marks = mine
        /\ (state.marks # 0 => st.marks = state.marks) /\ st \in StatesOf(nextId, Len(maps'))
    <3>1. st = [cur |-> state.cur, restore |-> state.restore, marks |-> mine]
      BY <1>8
    <3> HIDE DEF mine
    <3>2. st \in StatesOf(nextId, Len(maps'))
      BY <1>8, <2>4, <3>1 DEF StatesOf
    <3> HIDE DEF st
    <3>3. QED
      BY <3>1, <3>2 DEF mine
  <2> HIDE DEF mine, st, v, t
  <2>6. TaskFits(c, t, nextId, Len(maps'))
    BY <1>2, <1>3, <2>4, TaskStillFits
  <2>7. /\ TaskFits(c, v, nextId, Len(maps')) /\ Copied(v, overtaken'[c], profiles, subs, state)
        /\ \A got, noted : Due(t, got, noted) => Due(v, got, noted)
    <3>1. /\ v.st.cur = state.cur /\ v.st.restore = state.restore
          /\ (state.marks # 0 => v.st.marks = state.marks) /\ v.st \in StatesOf(nextId, Len(maps'))
      BY <2>2, <2>5
    <3>2. v.ps \in {t.ps, <<>>}
      BY <2>2
    <3>3. /\ TaskFits(c, v, nextId, Len(maps'))
          /\ Copied(v, overtaken[c] \ {"state"}, profiles, subs, state)
          /\ \A got, noted : Due(t, got, noted) => Due(v, got, noted)
      BY <1>2, <1>3, <2>2, <2>6, <3>1, <3>2, LoadedStateFits
    <3>4. QED
      BY <1>5, <3>3
  <2>8. Marked(v, maps')
    BY <2>2, <2>4, <2>5 DEF Marked
  <2>9. /\ TaskFits(c, v, nextId', Len(maps')) /\ nextId' \in Nat \ {0} /\ nextId <= nextId'
        /\ Copied(v, overtaken'[c], profiles', subs', state') /\ c = Loop
    BY <1>2, <1>3, <1>4, <1>9, <2>7
  <2>10. /\ TasksFit' /\ \A d \in Workers \ {c} : task'[d] = task[d]
         /\ \A got, noted : Due(v, got, noted) => Due(task'[c], got, noted)
    BY <1>1, <1>3, <1>4, <1>5, <2>1, <2>4, <2>8, <2>9, OneGoesOn
  <2>11. FilesFit'
    <3>1. state' \in StatesOf(nextId', Len(maps'))
      <4>1. state.marks \in 0 .. Len(maps')
        BY <1>3, <1>8, <2>4
      <4>2. QED
        BY <1>4, <1>8, <4>1 DEF StatesOf
    <3>2. QED
      BY <1>1, <1>3, <1>4, <1>5, <2>4, <3>1 DEF FilesFit, CatTypeOK, StatesOf
  <2>12. ~markLost' => Noted'
    <3>1. Persisted \subseteq Persisted'
      <4>1. state.marks # 0 => state.marks \in DOMAIN maps
        BY <1>3, <1>8
      <4>2. QED
        BY <1>4, <2>4, <4>1 DEF Persisted
    <3>2. ~markLost => Due(task'[Loop], fetched, disk.set)
      BY <1>7, <2>7, <2>9, <2>10
    <3>3. QED
      BY <1>4, <3>1, <3>2 DEF CatInv, Noted
  <2>13. QED
    BY <2>10, <2>11, <2>12 DEF CatInv
<1>10. CASE t.op # "auto" /\ Set(c, GiveUp(t)) /\ UNCHANGED maps
  <2>1. /\ TaskFits(c, GiveUp(t), nextId, Len(maps))
        /\ Copied(GiveUp(t), overtaken'[c], profiles, subs, state)
        /\ Marked(GiveUp(t), maps) /\ Due(GiveUp(t), fetched, disk.set)
    BY <1>2, GivenUp
  <2>2. QED
    BY <1>3, <1>4, <1>5, <1>10, <2>1, GoesOn
<1>11. CASE /\ t.op # "auto" /\ UNCHANGED maps
            /\ \E st \in StatesOf(nextId, Len(maps)) :
                 /\ \/ Set(c, [Next1(t) EXCEPT !.st = st])
                    \/ Set(c, [Next1(t) EXCEPT !.ps = <<>>, !.st = st])
                 /\ t.op \notin {"select", "delete"} => st.cur = state.cur
                 /\ t.op # "restore" => st.restore = state.restore
                 /\ st.marks = state.marks
  <2>1. PICK st \in StatesOf(nextId, Len(maps)) :
                 /\ \/ Set(c, [Next1(t) EXCEPT !.st = st])
                    \/ Set(c, [Next1(t) EXCEPT !.ps = <<>>, !.st = st])
                 /\ t.op \notin {"select", "delete"} => st.cur = state.cur
                 /\ t.op # "restore" => st.restore = state.restore
                 /\ st.marks = state.marks
    BY <1>11
  <2>2. PICK v : /\ Set(c, v) /\ IsTask(v) /\ v.todo = Tail(t.todo) /\ v.op = t.op /\ v.ids = t.ids
                 /\ v.arg = t.arg /\ v.list = t.list /\ v.ps \in {t.ps, <<>>} /\ v.ss = t.ss /\ v.st = st
    <3> DEFINE u == [Next1(t) EXCEPT !.st = st]
               w == [Next1(t) EXCEPT !.ps = <<>>, !.st = st]
    <3>1. /\ IsTask(u) /\ u.todo = Tail(t.todo) /\ u.op = t.op /\ u.ids = t.ids
          /\ u.arg = t.arg /\ u.list = t.list /\ u.ps = t.ps /\ u.ss = t.ss /\ u.st = st
      BY <1>2 DEF IsTask, Next1
    <3>2. /\ IsTask(w) /\ w.todo = Tail(t.todo) /\ w.op = t.op /\ w.ids = t.ids
          /\ w.arg = t.arg /\ w.list = t.list /\ w.ps = <<>> /\ w.ss = t.ss /\ w.st = st
      BY <1>2 DEF IsTask, Next1
    <3>3. Set(c, u) \/ Set(c, w)
      BY <2>1
    <3> HIDE DEF u, w
    <3>4. QED
      BY <3>1, <3>2, <3>3
  <2> HIDE DEF t
  <2>3. TaskFits(c, v, nextId, Len(maps)) /\ Copied(v, overtaken'[c], profiles, subs, state)
    <3>1. /\ t.op \notin {"select", "delete"} => v.st.cur = state.cur
          /\ t.op # "restore" => v.st.restore = state.restore
          /\ state.marks # 0 => v.st.marks = state.marks
          /\ v.st \in StatesOf(nextId, Len(maps))
      BY <2>1, <2>2
    <3>2. /\ TaskFits(c, v, nextId, Len(maps))
          /\ Copied(v, overtaken[c] \ {"state"}, profiles, subs, state)
      BY <1>2, <1>3, <2>2, <3>1, LoadedStateFits
    <3>3. QED
      BY <1>5, <3>2
  <2>4. c # Loop /\ maps' = maps /\ faults' \in Nat
    BY <1>2, <1>3, <1>4, <1>11
  <2>5. QED
    BY <1>4, <1>5, <2>2, <2>3, <2>4, GoesOn
<1>12. QED
  <2>1. CASE t.op = "delete"
    <3> DEFINE cur == IF t.ps = <<>> THEN None ELSE Head(t.ps).id
               st == [state EXCEPT !.cur = cur]
    <3>1. UNCHANGED maps /\ (Set(c, GiveUp(t)) \/ Set(c, [Next1(t) EXCEPT !.ps = <<>>, !.st = st]))
      BY <2>1 DEF LoadState
    <3>2. cur \in 0 .. nextId - 1
      <4>1. t.ps \in Seq(ProfilesOf(nextId))
        BY <1>2 DEF TaskFits
      <4>2. t.ps # <<>> => Head(t.ps) \in ProfilesOf(nextId)
        BY <4>1
      <4>3. \A p \in ProfilesOf(nextId) : p.id \in 0 .. nextId - 1
        BY DEF ProfilesOf
      <4>4. QED
        BY <1>3, <4>2, <4>3 DEF None
    <3>3. st \in StatesOf(nextId, Len(maps)) /\ st.restore = state.restore /\ st.marks = state.marks
      <4> HIDE DEF cur
      <4>1. st = [cur |-> cur, restore |-> state.restore, marks |-> state.marks]
        BY <1>8
      <4> HIDE DEF st
      <4>2. QED
        BY <1>8, <3>2, <4>1 DEF StatesOf
    <3> HIDE DEF cur, st, t
    <3>4. QED
      BY <1>10, <1>11, <2>1, <3>1, <3>3
  <2>2. CASE t.op = "select"
    <3>1. PICK p \in t.ids : Set(c, [Next1(t) EXCEPT !.st = [state EXCEPT !.cur = p]])
      BY <2>2 DEF LoadState
    <3>2. UNCHANGED maps
      BY <2>2 DEF LoadState
    <3>3. p \in 0 .. nextId - 1
      BY <1>2, <3>1 DEF TaskFits
    <3> DEFINE st == [state EXCEPT !.cur = p]
    <3>4. st \in StatesOf(nextId, Len(maps)) /\ st.restore = state.restore /\ st.marks = state.marks
      <4>1. st = [cur |-> p, restore |-> state.restore, marks |-> state.marks]
        BY <1>8
      <4> HIDE DEF st
      <4>2. QED
        BY <1>8, <3>3, <4>1 DEF StatesOf
    <3>5. Set(c, [Next1(t) EXCEPT !.st = st])
      BY <3>1
    <3> HIDE DEF st, t
    <3>6. QED
      BY <1>11, <2>2, <3>2, <3>4, <3>5
  <2>3. CASE t.op = "restore"
    <3> DEFINE st == [state EXCEPT !.restore = t.arg]
    <3>1. UNCHANGED maps /\ Set(c, [Next1(t) EXCEPT !.st = st])
      BY <2>3 DEF LoadState
    <3>2. st \in StatesOf(nextId, Len(maps)) /\ st.cur = state.cur /\ st.marks = state.marks
      <4>1. st = [cur |-> state.cur, restore |-> t.arg, marks |-> state.marks]
        BY <1>8
      <4> HIDE DEF st
      <4>2. QED
        BY <1>6, <1>8, <2>3, <4>1 DEF StatesOf
    <3> HIDE DEF st, t
    <3>3. QED
      BY <1>11, <2>3, <3>1, <3>2
  <2>4. QED
    BY <1>6, <1>9, <2>1, <2>2, <2>3

LEMMA SaveStateStep ==
  ASSUME CatInv, NEW c \in Workers, SaveState(c)
  PROVE  CatInv'
<1> DEFINE t == task[c]
           u == [Next1(t) EXCEPT !.st = None]
<1>1. At(c, "SaveState") /\ TasksFit /\ FilesFit
  BY DEF SaveState, CatInv
<1>2. /\ TaskFits(c, t, nextId, Len(maps)) /\ Copied(t, overtaken[c], profiles, subs, state)
      /\ IsTask(t) /\ Ordered(t.todo) /\ t.todo # <<>> /\ t.op # "none"
      /\ (c = Loop <=> t.op = "auto")
      /\ Ahead(t, "SaveState") /\ \A s : Ahead(t, s) => s = "SaveState"
  BY <1>1, AtStep
<1>3. /\ overtaken \in [Workers -> SUBSET Files] /\ faults \in Nat /\ nextId \in Nat \ {0}
      /\ maps \in Seq(SUBSET Nat) /\ Len(maps) \in Nat
  BY <1>1 DEF FilesFit, CatTypeOK
<1>4. /\ IsTask(u) /\ u.todo = Tail(t.todo) /\ u.op = t.op /\ u.ids = t.ids /\ u.arg = t.arg
      /\ u.list = t.list /\ u.ps = t.ps /\ u.ss = t.ss
  BY <1>2 DEF IsTask, Next1
<1>5. UNCHANGED <<profiles, subs, maps, nextId, fetched, refetched>>
  BY DEF SaveState, Counters, Fail
<1>6. \/ /\ state' = t.st /\ Set(c, u) /\ Wrote(c, "state") /\ faults' = faults
         /\ disk' = IF t.st.marks = 0 THEN [nil |-> TRUE, set |-> {}]
                    ELSE [nil |-> FALSE, set |-> maps[t.st.marks]]
         /\ markLost' = (markLost \/ "state" \in overtaken[c])
      \/ c = Loop /\ Fault /\ Set(c, u) /\ UNCHANGED <<state, disk, overtaken>> /\ markLost' = TRUE
      \/ /\ c # Loop /\ Fault /\ Set(c, GiveUp(t)) /\ UNCHANGED <<state, disk, overtaken>>
         /\ markLost' = TRUE
  BY DEF SaveState, Fail
<1>7. t.op # "import"
  BY <1>2, PlansAre DEF TaskFits, Ahead
<1> HIDE DEF u
<1>8. /\ Ordered(u.todo)
      /\ \A s : Left(u, s) => Left(t, s)
      /\ \A s : Left(t, s) => Ahead(t, s) \/ Left(u, s)
      /\ ~Ahead(u, "SaveProfiles") /\ ~Ahead(u, "SaveState")
  BY <1>2, <1>4, StepTaken
<1>9. TaskFits(c, u, nextId, Len(maps))
  BY <1>2, <1>4, <1>7, <1>8 DEF TaskFits
<1>10. Marked(u, maps)
  BY <1>8 DEF Marked
<1>11. CASE c # Loop /\ Fault /\ Set(c, GiveUp(t)) /\ UNCHANGED <<state, disk, overtaken>>
            /\ markLost' = TRUE
  BY <1>5, <1>11, FailedStep
<1>12. CASE c = Loop /\ Fault /\ Set(c, u) /\ UNCHANGED <<state, disk, overtaken>> /\ markLost' = TRUE
  <2>1. Copied(u, overtaken'[c], profiles, subs, state)
    BY <1>2, <1>4, <1>8, <1>12 DEF Copied
  <2>2. faults' \in Nat
    BY <1>3, <1>12 DEF Fault
  <2>3. QED
    BY <1>3, <1>5, <1>9, <1>10, <1>12, <2>1, <2>2, GoesOn
<1>13. CASE /\ state' = t.st /\ Set(c, u) /\ Wrote(c, "state") /\ faults' = faults
            /\ disk' = IF t.st.marks = 0 THEN [nil |-> TRUE, set |-> {}]
                       ELSE [nil |-> FALSE, set |-> maps[t.st.marks]]
            /\ markLost' = (markLost \/ "state" \in overtaken[c])
  <2>1. t.st \in StatesOf(nextId, Len(maps))
    BY <1>2 DEF TaskFits
  <2>2. t.st.marks \in 0 .. Len(maps)
    BY <2>1 DEF StatesOf
  <2>3. /\ overtaken' \in [Workers -> SUBSET Files] /\ overtaken'[c] = overtaken[c]
        /\ \A d \in Workers \ {c} : /\ overtaken[d] \subseteq overtaken'[d]
                                    /\ Idle(d) \/ "state" \in overtaken'[d]
    BY <1>3, <1>13 DEF Wrote, Files
  <2>4. Copied(u, overtaken'[c], profiles', subs', state')
    BY <1>2, <1>4, <1>5, <1>8, <2>3 DEF Copied
  <2>5. TaskFits(c, u, nextId', Len(maps')) /\ Marked(u, maps')
    BY <1>5, <1>9, <1>10
  <2> HIDE DEF t
  <2>6. /\ TasksFit' /\ \A d \in Workers \ {c} : task'[d] = task[d]
        /\ \A got, noted : Due(u, got, noted) => Due(task'[c], got, noted)
    BY <1>1, <1>3, <1>5, <1>13, <2>3, <2>4, <2>5, OneGoesOn
  <2> DEFINE new == IF t.st.marks = 0 THEN {} ELSE maps[t.st.marks]
  <2>7. disk' = [nil |-> t.st.marks = 0, set |-> new] /\ new \in SUBSET Nat
        /\ (t.st.marks = 0 => new = {})
    <3>1. t.st.marks # 0 => t.st.marks \in DOMAIN maps
      BY <1>3, <2>2
    <3>2. t.st.marks # 0 => maps[t.st.marks] \in SUBSET Nat
      BY <1>3, <3>1
    <3>3. QED
      BY <1>13, <3>2
  <2>8. Persisted' = new
    BY <1>5, <1>13 DEF Persisted
  <2> HIDE DEF new
  <2>9. disk'.set = new
    BY <2>7
  <2>10. FilesFit'
    <3>1. disk' \in [nil : BOOLEAN, set : SUBSET Nat] /\ (disk'.nil => disk'.set = {})
      BY <2>7
    <3>2. state' \in StatesOf(nextId', Len(maps'))
      BY <1>5, <1>13, <2>1
    <3>3. QED
      BY <1>1, <1>5, <1>13, <2>3, <3>1, <3>2 DEF FilesFit, CatTypeOK, StatesOf
  <2>11. ASSUME ~markLost' PROVE Noted'
    <3>1. ~markLost /\ "state" \notin overtaken[c] /\ Noted
      BY <1>13, <2>11 DEF CatInv
    <3>2. state.marks # 0 => t.st.marks = state.marks
      BY <1>2, <3>1 DEF Copied
    <3>3. Persisted \subseteq new
      BY <3>2 DEF Persisted, new
    <3>4. disk.set \subseteq new /\ fetched' \subseteq disk'.set
      BY <1>5, <2>9, <3>1, <3>3 DEF Noted
    <3>5. Due(task'[Loop], fetched, new)
      <4>1. CASE c # Loop
        <5>1. task'[Loop] = task[Loop]
          BY <2>6, <4>1 DEF Workers
        <5>2. QED
          BY <3>1, <3>4, <5>1 DEF Noted, Due
      <4>2. CASE c = Loop
        <5>1. t.ids \subseteq new
          <6>1. Marked(t, maps)
            BY <1>1, <4>2 DEF TasksFit, t
          <6>2. t.st.marks \in DOMAIN maps /\ t.ids \subseteq maps[t.st.marks]
            BY <1>2, <6>1 DEF Marked
          <6>3. t.st.marks # 0
            BY <1>3, <6>2
          <6>4. QED
            BY <6>2, <6>3 DEF new
        <5>2. Left(u, "Fetch") => t.ids \cap fetched = {}
          BY <1>8, <3>1, <4>2 DEF Noted, Due, t
        <5>3. Due(u, fetched, new)
          BY <1>4, <5>1, <5>2 DEF Due
        <5>4. QED
          BY <2>6, <4>2, <5>3
      <4>3. QED
        BY <4>1, <4>2
    <3>6. QED
      BY <1>5, <2>8, <2>9, <3>1, <3>4, <3>5 DEF Noted
  <2>12. QED
    BY <2>6, <2>10, <2>11 DEF CatInv
<1>14. QED
  BY <1>6, <1>11, <1>12, <1>13

-----------------------------------------------------------------------------
(* Saves.                                                                  *)

\* What is left of a list is some of its entries, the ones that are not dropped.
LEMMA LeftOver ==
  ASSUME NEW n, NEW ps \in Seq(ProfilesOf(n)), NEW keep, keep \subseteq DOMAIN ps
  PROVE  /\ Picked(ps, keep) \in Seq(ProfilesOf(n))
         /\ \A i \in keep : ps[i] \in Range(Picked(ps, keep))
<1> DEFINE rest == Picked(ps, keep)
<1>1. /\ rest \in Seq(ProfilesOf(n)) /\ Len(rest) = Cardinality(keep)
      /\ \A i \in keep : Rank(keep, i) \in 1 .. Cardinality(keep) /\ rest[Rank(keep, i)] = ps[i]
  BY PickedIs
<1> HIDE DEF rest
<1>2. DOMAIN rest = 1 .. Cardinality(keep)
  BY <1>1
<1>3. \A i \in keep : ps[i] \in Range(rest)
  BY <1>1, <1>2 DEF Range
<1>4. QED
  BY <1>1, <1>3 DEF rest

\* The list an operation writes: profiles, and all of the list it loaded but for
\* what the operation is about.
LEMMA EditedIs ==
  ASSUME NEW c, NEW t, NEW m, nextId \in Nat \ {0}, TaskFits(c, t, nextId, m),
         Ahead(t, "SaveProfiles"), Left(t, "SaveProfiles"), ~Left(t, "Fetch")
  PROVE  /\ Edited(t) \in Seq(ProfilesOf(IF t.op = "create" THEN nextId + 1 ELSE nextId))
         /\ \A p \in Range(t.ps) : p \in Range(Edited(t)) \/ About(t, p)
<1> DEFINE n == nextId
<1>1. /\ t.ps \in Seq(ProfilesOf(n)) /\ DOMAIN t.ps = 1 .. Len(t.ps) /\ Len(t.ps) \in Nat
      /\ \A i \in DOMAIN t.ps : t.ps[i] \in ProfilesOf(n)
  BY DEF TaskFits
<1>2. /\ t.op \in {"create", "update", "import", "delete", "deleteSub"} \cup Refreshes
      /\ t.op \in {"create", "update", "import"} => t.arg \in Bodies
      /\ t.op \in Refreshes => t.arg \in Seq(ProfilesOf(n))
      /\ t.op = "update" => t.ids \cap IdsOf(t.ps) # {}
      /\ t.op = "import" => Equivalent(t.ps, t.arg)
  BY DEF TaskFits
<1>3. \A p \in Range(t.ps) : \E i \in DOMAIN t.ps : p = t.ps[i]
  BY DEF Range
<1>4. ASSUME NEW p \in ProfilesOf(n), NEW b \in Bodies
      PROVE  [p EXCEPT !.body = b] \in ProfilesOf(n) /\ [p EXCEPT !.ms = 0] \in ProfilesOf(n)
  BY DEF ProfilesOf
<1>5. CASE t.op = "create"
  <2> DEFINE e == Entry(n, None, t.arg)
             e1 == Append(t.ps, e)
  <2>1. Edited(t) = e1
    BY <1>5 DEF Edited
  <2>2. e \in ProfilesOf(n + 1) /\ n + 1 \in Nat \ {0} /\ n <= n + 1
    BY <1>2, <1>5 DEF Entry, ProfilesOf, None
  <2>3. t.ps \in Seq(ProfilesOf(n + 1))
    BY <1>1, <2>2, FilesGrow
  <2> HIDE DEF e
  <2>4. e1 \in Seq(ProfilesOf(n + 1)) /\ \A i \in DOMAIN t.ps : i \in DOMAIN e1 /\ e1[i] = t.ps[i]
    BY <1>1, <2>2, <2>3
  <2> HIDE DEF e1
  <2>5. QED
    BY <1>3, <1>5, <2>1, <2>4 DEF Range
<1>6. CASE t.op = "update"
  <2> DEFINE i == CHOOSE i \in DOMAIN t.ps : t.ps[i].id \in t.ids
             e == [t.ps[i] EXCEPT !.body = t.arg]
             e1 == [t.ps EXCEPT ![i] = e]
  <2>1. i \in DOMAIN t.ps /\ t.ps[i].id \in t.ids
    <3>1. \E j \in DOMAIN t.ps : t.ps[j].id \in t.ids
      BY <1>2, <1>6 DEF IdsOf
    <3>2. QED
      BY <3>1
  <2>2. Edited(t) = e1
    BY <1>6 DEF Edited
  <2> HIDE DEF i
  <2>3. e \in ProfilesOf(n)
    BY <1>1, <1>2, <1>4, <1>6, <2>1
  <2> HIDE DEF e
  <2>4. e1 \in Seq(ProfilesOf(n)) /\ \A j \in DOMAIN t.ps : j \in DOMAIN e1 /\ (j # i => e1[j] = t.ps[j])
    BY <1>1, <2>1, <2>3
  <2> HIDE DEF e1
  <2>5. QED
    BY <1>3, <1>6, <2>1, <2>2, <2>4 DEF Range, About
<1>7. CASE t.op = "import"
  <2> DEFINE P(i) == t.ps[i].body = t.arg /\ \A j \in 1 .. i - 1 : t.ps[j].body # t.arg
             i == CHOOSE i \in DOMAIN t.ps : P(i)
             e == [t.ps[i] EXCEPT !.ms = 0]
             e1 == [t.ps EXCEPT ![i] = e]
  <2>1. i \in DOMAIN t.ps /\ t.ps[i].body = t.arg
    <3> DEFINE T == {j \in DOMAIN t.ps : t.ps[j].body = t.arg}
    <3>1. T # {} /\ T \subseteq Nat
      BY <1>1, <1>2, <1>7 DEF Equivalent
    <3>2. PICK x \in T : \A y \in T : x <= y
      BY <3>1, Least
    <3>3. \A j \in 1 .. x - 1 : j \in DOMAIN t.ps /\ ~(x <= j)
      BY <1>1, <3>2
    <3>4. \A j \in 1 .. x - 1 : t.ps[j].body # t.arg
      BY <3>2, <3>3
    <3>5. \E k \in DOMAIN t.ps : P(k)
      BY <3>2, <3>4
    <3> HIDE DEF T
    <3>6. i \in DOMAIN t.ps /\ P(i)
      BY <3>5
    <3>7. QED
      BY <3>6
  <2>2. Edited(t) = e1
    BY <1>7 DEF Edited
  <2> HIDE DEF i
  <2>3. e \in ProfilesOf(n)
    BY <1>1, <1>2, <1>4, <1>7, <2>1
  <2> HIDE DEF e
  <2>4. e1 \in Seq(ProfilesOf(n)) /\ \A j \in DOMAIN t.ps : j \in DOMAIN e1 /\ (j # i => e1[j] = t.ps[j])
    BY <1>1, <2>1, <2>3
  <2> HIDE DEF e1
  <2>5. QED
    BY <1>3, <1>7, <2>1, <2>2, <2>4 DEF Range, About
<1>8. CASE t.op = "delete"
  <2> DEFINE keep == {i \in DOMAIN t.ps : ~(t.ps[i].id \in t.ids)}
  <2>1. Edited(t) = Picked(t.ps, keep)
    BY <1>8 DEF Edited, Without
  <2>2. keep \subseteq DOMAIN t.ps /\ \A i \in DOMAIN t.ps : i \in keep \/ About(t, t.ps[i])
    BY DEF About
  <2> HIDE DEF keep
  <2>3. QED
    BY <1>1, <1>3, <1>8, <2>1, <2>2, LeftOver
<1> DEFINE mine == {i \in DOMAIN t.ps : ~(t.ps[i].sub \in t.ids)}
<1>9. mine \subseteq DOMAIN t.ps /\ \A i \in DOMAIN t.ps : i \in mine \/ About(t, t.ps[i])
  BY DEF About
<1>10. CASE t.op = "deleteSub"
  <2>1. Edited(t) = Picked(t.ps, mine)
    BY <1>10 DEF Edited, Without
  <2> HIDE DEF mine
  <2>2. QED
    BY <1>1, <1>3, <1>9, <1>10, <2>1, LeftOver
<1>11. CASE t.op \in Refreshes
  <2> DEFINE rest == Picked(t.ps, mine)
  <2>1. Edited(t) = rest \o t.arg
    BY <1>11 DEF Edited, Without, Refreshes
  <2> HIDE DEF mine
  <2>2. rest \in Seq(ProfilesOf(n)) /\ \A i \in mine : t.ps[i] \in Range(rest)
    BY <1>1, <1>9, LeftOver
  <2> HIDE DEF rest
  <2>3. /\ rest \o t.arg \in Seq(ProfilesOf(n))
        /\ DOMAIN rest \subseteq DOMAIN (rest \o t.arg)
        /\ \A i \in DOMAIN rest : (rest \o t.arg)[i] = rest[i]
    BY <1>2, <1>11, <2>2, Prefix
  <2> DEFINE whole == rest \o t.arg
  <2> HIDE DEF whole
  <2>4. \A p \in Range(rest) : p \in Range(whole)
    BY <2>3 DEF Range, whole
  <2>5. t.op # "create"
    BY <1>11 DEF Refreshes
  <2>6. Edited(t) = whole /\ whole \in Seq(ProfilesOf(n))
    BY <2>1, <2>3 DEF whole
  <2>7. QED
    BY <1>3, <1>9, <2>2, <2>4, <2>5, <2>6
<1>12. QED
  BY <1>2, <1>5, <1>6, <1>7, <1>8, <1>10, <1>11

\* A save of profiles or subscriptions: everybody else who is at work is overtaken.
LEMMA Writes ==
  ASSUME CatInv, NEW c \in Workers, NEW f \in {"profiles", "subs"}, NEW u, Set(c, u), Wrote(c, f),
         nextId' \in {nextId, nextId + 1},
         UNCHANGED <<state, disk, maps, faults, fetched, refetched, markLost>>,
         f = "profiles" \/ profiles' = profiles, f = "subs" \/ subs' = subs,
         profiles' \in Seq(ProfilesOf(nextId')), subs' \in Seq(SubsOf(nextId')),
         TaskFits(c, u, nextId, Len(maps)), Marked(u, maps),
         Copied(u, overtaken[c], profiles', subs', state),
         Due(task[c], fetched, disk.set) => Due(u, fetched, disk.set)
  PROVE  CatInv'
<1>1. /\ overtaken \in [Workers -> SUBSET Files] /\ nextId \in Nat \ {0} /\ FilesFit /\ TasksFit
      /\ maps \in Seq(SUBSET Nat) /\ Len(maps) \in Nat /\ state \in StatesOf(nextId, Len(maps))
  BY DEF CatInv, FilesFit, CatTypeOK, StatesOf
<1>2. nextId' \in Nat \ {0} /\ nextId <= nextId'
  BY <1>1
<1>3. TaskFits(c, u, nextId', Len(maps))
  BY <1>1, <1>2, TaskStillFits
<1>4. /\ overtaken' \in [Workers -> SUBSET Files] /\ overtaken'[c] = overtaken[c]
      /\ \A d \in Workers \ {c} : /\ overtaken[d] \subseteq overtaken'[d]
                                  /\ Idle(d) \/ f \in overtaken'[d]
  BY <1>1 DEF Wrote, Files
<1>5. /\ TaskFits(c, u, nextId', Len(maps')) /\ Marked(u, maps')
      /\ Copied(u, overtaken'[c], profiles', subs', state')
      /\ maps' \in Seq(SUBSET Nat) /\ Len(maps) <= Len(maps') /\ maps' = maps
  BY <1>1, <1>3, <1>4
<1>6. /\ TasksFit' /\ \A d \in Workers \ {c} : task'[d] = task[d]
      /\ \A got, noted : Due(u, got, noted) => Due(task'[c], got, noted)
  BY <1>1, <1>2, <1>4, <1>5, OneGoesOn
<1>7. FilesFit'
  <2>1. state' \in StatesOf(nextId', Len(maps'))
    BY <1>1, <1>2, FilesGrow
  <2>2. QED
    BY <1>1, <1>2, <1>4, <2>1 DEF FilesFit, CatTypeOK, ProfilesOf, SubsOf, StatesOf
<1>8. ~markLost' => Noted'
  <2>1. Due(task[Loop], fetched, disk.set) => Due(task'[Loop], fetched, disk.set)
    BY <1>6 DEF Workers
  <2>2. QED
    BY <2>1 DEF CatInv, Noted, Persisted
<1>9. QED
  BY <1>6, <1>7, <1>8 DEF CatInv

LEMMA SaveProfilesStep ==
  ASSUME CatInv, NEW c \in Workers, SaveProfiles(c)
  PROVE  CatInv'
<1> DEFINE t == task[c]
           new == Edited(t)
           u == [Next1(t) EXCEPT !.ps = IF t.op = "delete" THEN new ELSE <<>>, !.arg = None]
<1>1. At(c, "SaveProfiles") /\ TasksFit /\ FilesFit
  BY DEF SaveProfiles, CatInv
<1>2. /\ TaskFits(c, t, nextId, Len(maps)) /\ Copied(t, overtaken[c], profiles, subs, state)
      /\ IsTask(t) /\ Ordered(t.todo) /\ t.todo # <<>> /\ t.op # "none"
      /\ Ahead(t, "SaveProfiles") /\ \A s : Ahead(t, s) => s = "SaveProfiles"
  BY <1>1, AtStep
<1>3. nextId \in Nat \ {0} /\ subs \in Seq(SubsOf(nextId)) /\ Len(maps) \in Nat
  BY <1>1 DEF FilesFit, CatTypeOK, SubsOf
<1>4. UNCHANGED <<subs, state, disk, maps, fetched, refetched, markLost>>
  BY DEF SaveProfiles, Fail
<1>5. \/ /\ profiles' = new /\ Set(c, u) /\ Wrote(c, "profiles") /\ faults' = faults
         /\ nextId' = IF t.op = "create" THEN nextId + 1 ELSE nextId
      \/ Fault /\ Set(c, GiveUp(t)) /\ UNCHANGED <<profiles, overtaken, nextId>>
  BY DEF SaveProfiles, Fail
<1>6. CASE Fault /\ Set(c, GiveUp(t)) /\ UNCHANGED <<profiles, overtaken, nextId>>
  BY <1>4, <1>6, FailedStep
<1>7. CASE /\ profiles' = new /\ Set(c, u) /\ Wrote(c, "profiles") /\ faults' = faults
           /\ nextId' = IF t.op = "create" THEN nextId + 1 ELSE nextId
  <2>1. /\ IsTask(u) /\ u.todo = Tail(t.todo) /\ u.op = t.op /\ u.ids = t.ids /\ u.arg = None
        /\ u.list = t.list /\ u.ps = (IF t.op = "delete" THEN new ELSE <<>>) /\ u.ss = t.ss
        /\ u.st = t.st
    BY <1>2 DEF IsTask, Next1
  <2> HIDE DEF u
  <2>2. /\ Ordered(u.todo)
        /\ \A s : Left(u, s) => Left(t, s)
        /\ \A s : Left(t, s) => Ahead(t, s) \/ Left(u, s)
        /\ ~Ahead(u, "SaveProfiles") /\ ~Ahead(u, "SaveState")
        /\ Left(t, "SaveProfiles") /\ ~Left(u, "SaveProfiles") /\ ~Left(t, "Fetch")
    BY <1>2, <2>1, StepTaken DEF AtMostOnce
  <2>3. new \in Seq(ProfilesOf(nextId'))
    BY <1>2, <1>3, <1>7, <2>2, EditedIs
  <2>4. u.ps \in Seq(ProfilesOf(nextId))
    <3>1. <<>> \in Seq(ProfilesOf(nextId))
      OBVIOUS
    <3> HIDE DEF new, t
    <3>2. QED
      BY <1>7, <2>1, <2>3, <3>1
  <2> HIDE DEF new
  <2>5. t.op = "import" => u.todo = <<>>
    <3>1. t.op = "import" => t.todo = <<"SaveProfiles">>
      BY <1>2, PlansAre DEF TaskFits, Ahead
    <3>2. Tail(<<"SaveProfiles">>) = <<>>
      OBVIOUS
    <3>3. QED
      BY <2>1, <3>1, <3>2
  <2>6. TaskFits(c, u, nextId, Len(maps))
    <3>1. t.op \in {"create", "update", "import", "delete", "deleteSub"} \cup Refreshes
      BY <1>2, <2>2 DEF TaskFits
    <3>2. QED
      BY <1>2, <2>1, <2>2, <2>4, <2>5, <3>1 DEF TaskFits, Refreshes
  <2>7. Copied(u, overtaken[c], profiles', subs', state) /\ Marked(u, maps)
    BY <1>2, <1>4, <2>1, <2>2 DEF Copied, Marked
  <2>8. Due(u, fetched, disk.set)
    BY <2>2 DEF Due
  <2>9. /\ subs' \in Seq(SubsOf(nextId')) /\ nextId' \in {nextId, nextId + 1}
        /\ profiles' \in Seq(ProfilesOf(nextId'))
    <3>1. nextId' \in Nat \ {0} /\ nextId <= nextId'
      BY <1>3, <1>7
    <3>2. subs \in Seq(SubsOf(nextId'))
      BY <1>3, <3>1, FilesGrow
    <3>3. QED
      BY <1>4, <1>7, <2>3, <3>2
  <2> HIDE DEF t
  <2>10. QED
    BY <1>4, <1>7, <2>6, <2>7, <2>8, <2>9, Writes
<1>8. QED
  BY <1>5, <1>6, <1>7

LEMMA SaveDelaysStep ==
  ASSUME CatInv, NEW c \in Workers, SaveDelays(c)
  PROVE  CatInv'
<1> DEFINE t == task[c]
           u == Next1(t)
<1>1. At(c, "SaveDelays") /\ TasksFit /\ FilesFit
  BY DEF SaveDelays, CatInv
<1>2. /\ TaskFits(c, t, nextId, Len(maps)) /\ Copied(t, overtaken[c], profiles, subs, state)
      /\ IsTask(t) /\ Ordered(t.todo) /\ t.todo # <<>> /\ t.op # "none"
      /\ Ahead(t, "SaveDelays") /\ \A s : Ahead(t, s) => s = "SaveDelays"
  BY <1>1, AtStep
<1>3. profiles \in Seq(ProfilesOf(nextId)) /\ subs \in Seq(SubsOf(nextId))
  BY <1>1 DEF FilesFit, CatTypeOK, SubsOf, ProfilesOf
<1>4. UNCHANGED <<subs, state, disk, maps, fetched, refetched, markLost, nextId>>
  BY DEF SaveDelays, Fail, Counters
<1>5. \/ /\ Set(c, u) /\ faults' = faults
         /\ \/ (\E ids : profiles' = WithDelays(profiles, ids)) /\ Wrote(c, "profiles")
            \/ UNCHANGED <<profiles, overtaken>>
      \/ Fault /\ Set(c, GiveUp(t)) /\ UNCHANGED <<profiles, overtaken>>
  BY DEF SaveDelays, Fail
<1>6. CASE Fault /\ Set(c, GiveUp(t)) /\ UNCHANGED <<profiles, overtaken>>
  BY <1>4, <1>6, FailedStep
<1>7. CASE /\ Set(c, u) /\ faults' = faults
           /\ \/ (\E ids : profiles' = WithDelays(profiles, ids)) /\ Wrote(c, "profiles")
              \/ UNCHANGED <<profiles, overtaken>>
  <2>1. /\ IsTask(u) /\ u.todo = Tail(t.todo) /\ u.op = t.op /\ u.ids = t.ids /\ u.arg = t.arg
        /\ u.list = t.list /\ u.ps = t.ps /\ u.ss = t.ss /\ u.st = t.st
    BY <1>2 DEF IsTask, Next1
  <2> HIDE DEF u
  <2>2. /\ Ordered(u.todo)
        /\ \A s : Left(u, s) => Left(t, s)
        /\ \A s : Left(t, s) => Ahead(t, s) \/ Left(u, s)
        /\ ~Ahead(u, "SaveProfiles") /\ ~Ahead(u, "SaveState")
    BY <1>2, <2>1, StepTaken
  <2>3. TaskFits(c, u, nextId, Len(maps))
    <3>1. t.op # "import"
      BY <1>2, PlansAre DEF TaskFits, Ahead
    <3>2. QED
      BY <1>2, <2>1, <2>2, <3>1 DEF TaskFits
  <2>4. Copied(u, overtaken[c], profiles', subs', state) /\ Marked(u, maps)
    BY <1>2, <1>4, <2>1, <2>2 DEF Copied, Marked
  <2>5. Due(t, fetched, disk.set) => Due(u, fetched, disk.set)
    BY <1>2, <2>1, <2>2 DEF Due
  <2>6. CASE (\E ids : profiles' = WithDelays(profiles, ids)) /\ Wrote(c, "profiles")
    <3>1. PICK ids : profiles' = WithDelays(profiles, ids)
      BY <2>6
    <3> DEFINE e(i) == IF profiles[i].id \in ids THEN [profiles[i] EXCEPT !.ms = 1] ELSE profiles[i]
    <3>2. profiles' = [i \in DOMAIN profiles |-> e(i)]
      BY <3>1 DEF WithDelays
    <3>3. \A p \in ProfilesOf(nextId) : [p EXCEPT !.ms = 1] \in ProfilesOf(nextId)
      BY DEF ProfilesOf
    <3>4. \A i \in DOMAIN profiles : profiles[i] \in ProfilesOf(nextId)
      BY <1>3
    <3>5. \A i \in DOMAIN profiles : e(i) \in ProfilesOf(nextId)
      BY <3>3, <3>4
    <3> HIDE DEF e
    <3>6. DOMAIN profiles = 1 .. Len(profiles) /\ Len(profiles) \in Nat
      BY <1>3
    <3>7. profiles' \in Seq(ProfilesOf(nextId))
      BY <3>2, <3>5, <3>6
    <3> HIDE DEF t
    <3>8. /\ profiles' \in Seq(ProfilesOf(nextId')) /\ subs' \in Seq(SubsOf(nextId'))
          /\ nextId' \in {nextId, nextId + 1}
      BY <1>3, <1>4, <3>7
    <3>9. Due(task[c], fetched, disk.set) => Due(u, fetched, disk.set)
      BY <2>5 DEF t
    <3>10. QED
      BY <1>4, <1>7, <2>3, <2>4, <2>6, <3>8, <3>9, Writes
  <2>7. CASE UNCHANGED <<profiles, overtaken>>
    <3>1. c = Loop /\ ~markLost => Due(u, fetched, disk.set)
      BY <2>5 DEF CatInv, Noted
    <3>2. faults \in Nat /\ overtaken \in [Workers -> SUBSET Files]
      BY DEF CatInv, FilesFit, CatTypeOK
    <3>3. Copied(u, overtaken'[c], profiles, subs, state)
      BY <1>4, <2>4, <2>7
    <3> HIDE DEF t
    <3>4. QED
      BY <1>4, <1>7, <2>3, <2>4, <2>7, <3>1, <3>2, <3>3, GoesOn
  <2>8. QED
    BY <1>7, <2>6, <2>7
<1>8. QED
  BY <1>5, <1>6, <1>7

\* Likewise the list of subscriptions.
LEMMA EditedSubsIs ==
  ASSUME NEW c, NEW t, NEW m, nextId \in Nat \ {0}, TaskFits(c, t, nextId, m), Left(t, "SaveSubs")
  PROVE  /\ EditedSubs(t) \in Seq(SubsOf(IF t.op = "createSub" THEN nextId + 1 ELSE nextId))
         /\ \A s \in Range(t.ss) : s \in Range(EditedSubs(t)) \/ s.id \in t.ids
<1> DEFINE n == nextId
<1>1. /\ t.ss \in Seq(SubsOf(n)) /\ DOMAIN t.ss = 1 .. Len(t.ss) /\ Len(t.ss) \in Nat
      /\ \A i \in DOMAIN t.ss : t.ss[i] \in SubsOf(n)
      /\ t.op = "editSub" => t.arg \in BOOLEAN
  BY DEF TaskFits
<1>2. \A s \in Range(t.ss) : \E i \in DOMAIN t.ss : s = t.ss[i]
  BY DEF Range
<1>3. CASE t.op = "createSub"
  <2> DEFINE e == [id |-> n, on |-> TRUE]
             e1 == Append(t.ss, e)
  <2>1. EditedSubs(t) = e1
    BY <1>3 DEF EditedSubs
  <2>2. e \in SubsOf(n + 1) /\ n + 1 \in Nat \ {0} /\ n <= n + 1
    BY DEF SubsOf
  <2>3. t.ss \in Seq(SubsOf(n + 1))
    BY <1>1, <2>2, FilesGrow
  <2> HIDE DEF e
  <2>4. e1 \in Seq(SubsOf(n + 1)) /\ \A i \in DOMAIN t.ss : i \in DOMAIN e1 /\ e1[i] = t.ss[i]
    BY <1>1, <2>2, <2>3
  <2> HIDE DEF e1
  <2>5. QED
    BY <1>2, <1>3, <2>1, <2>4 DEF Range
<1>4. CASE t.op = "editSub"
  <2> DEFINE e(i) == IF t.ss[i].id \in t.ids THEN [t.ss[i] EXCEPT !.on = t.arg] ELSE t.ss[i]
             e1 == [i \in DOMAIN t.ss |-> e(i)]
  <2>1. EditedSubs(t) = e1
    BY <1>4 DEF EditedSubs
  <2>2. \A s \in SubsOf(n) : [s EXCEPT !.on = t.arg] \in SubsOf(n)
    BY <1>1, <1>4 DEF SubsOf
  <2>3. \A i \in DOMAIN t.ss : e(i) \in SubsOf(n) /\ (e(i) = t.ss[i] \/ t.ss[i].id \in t.ids)
    BY <1>1, <2>2
  <2> HIDE DEF e
  <2>4. e1 \in Seq(SubsOf(n)) /\ DOMAIN e1 = DOMAIN t.ss /\ \A i \in DOMAIN t.ss : e1[i] = e(i)
    BY <1>1, <2>3
  <2> HIDE DEF e1
  <2>5. QED
    BY <1>2, <1>4, <2>1, <2>3, <2>4 DEF Range
<1>5. CASE t.op = "deleteSub"
  <2> DEFINE keep == {i \in DOMAIN t.ss : ~(t.ss[i].id \in t.ids)}
             rest == Picked(t.ss, keep)
  <2>1. EditedSubs(t) = rest
    BY <1>5 DEF EditedSubs, Without
  <2>2. keep \subseteq DOMAIN t.ss /\ \A i \in DOMAIN t.ss : i \in keep \/ t.ss[i].id \in t.ids
    OBVIOUS
  <2> HIDE DEF keep
  <2>3. /\ rest \in Seq(SubsOf(n)) /\ Len(rest) = Cardinality(keep)
        /\ \A i \in keep : Rank(keep, i) \in 1 .. Cardinality(keep) /\ rest[Rank(keep, i)] = t.ss[i]
    BY <1>1, <2>2, PickedIs
  <2> HIDE DEF rest
  <2>4. DOMAIN rest = 1 .. Cardinality(keep)
    BY <2>3
  <2>5. QED
    BY <1>2, <1>5, <2>1, <2>2, <2>3, <2>4 DEF Range
<1>6. CASE t.op \notin {"createSub", "editSub", "deleteSub"}
  <2>1. EditedSubs(t) = t.ss
    BY <1>6 DEF EditedSubs
  <2>2. QED
    BY <1>1, <1>6, <2>1
<1>7. QED
  BY <1>3, <1>4, <1>5, <1>6

LEMMA SaveSubsStep ==
  ASSUME CatInv, NEW c \in Workers, SaveSubs(c)
  PROVE  CatInv'
<1> DEFINE t == task[c]
           u == [Next1(t) EXCEPT !.ss = <<>>]
<1>1. At(c, "SaveSubs") /\ TasksFit /\ FilesFit
  BY DEF SaveSubs, CatInv
<1>2. /\ TaskFits(c, t, nextId, Len(maps)) /\ Copied(t, overtaken[c], profiles, subs, state)
      /\ IsTask(t) /\ Ordered(t.todo) /\ t.todo # <<>> /\ t.op # "none"
      /\ Ahead(t, "SaveSubs") /\ \A s : Ahead(t, s) => s = "SaveSubs"
  BY <1>1, AtStep
<1>3. nextId \in Nat \ {0} /\ profiles \in Seq(ProfilesOf(nextId)) /\ Len(maps) \in Nat
  BY <1>1 DEF FilesFit, CatTypeOK, ProfilesOf
<1>4. UNCHANGED <<profiles, state, disk, maps, fetched, refetched, markLost>>
  BY DEF SaveSubs, Fail
<1>5. \/ /\ subs' = EditedSubs(t) /\ Set(c, u) /\ Wrote(c, "subs") /\ faults' = faults
         /\ nextId' = IF t.op = "createSub" THEN nextId + 1 ELSE nextId
      \/ Fault /\ Set(c, GiveUp(t)) /\ UNCHANGED <<subs, overtaken, nextId>>
  BY DEF SaveSubs, Fail
<1>6. CASE Fault /\ Set(c, GiveUp(t)) /\ UNCHANGED <<subs, overtaken, nextId>>
  BY <1>4, <1>6, FailedStep
<1>7. CASE /\ subs' = EditedSubs(t) /\ Set(c, u) /\ Wrote(c, "subs") /\ faults' = faults
           /\ nextId' = IF t.op = "createSub" THEN nextId + 1 ELSE nextId
  <2>1. /\ IsTask(u) /\ u.todo = Tail(t.todo) /\ u.op = t.op /\ u.ids = t.ids /\ u.arg = t.arg
        /\ u.list = t.list /\ u.ps = t.ps /\ u.ss = <<>> /\ u.st = t.st
    BY <1>2 DEF IsTask, Next1
  <2> HIDE DEF u
  <2>2. /\ Ordered(u.todo)
        /\ \A s : Left(u, s) => Left(t, s)
        /\ \A s : Left(t, s) => Ahead(t, s) \/ Left(u, s)
        /\ ~Ahead(u, "SaveProfiles") /\ ~Ahead(u, "SaveState")
        /\ Left(t, "SaveSubs") /\ ~Left(u, "SaveSubs")
    BY <1>2, <2>1, StepTaken DEF AtMostOnce
  <2>3. EditedSubs(t) \in Seq(SubsOf(nextId'))
    BY <1>2, <1>3, <1>7, <2>2, EditedSubsIs
  <2>4. TaskFits(c, u, nextId, Len(maps))
    <3>1. t.op # "import"
      BY <1>2, PlansAre DEF TaskFits, Ahead
    <3>2. <<>> \in Seq(SubsOf(nextId))
      OBVIOUS
    <3>3. QED
      BY <1>2, <2>1, <2>2, <3>1, <3>2 DEF TaskFits
  <2>5. Copied(u, overtaken[c], profiles', subs', state) /\ Marked(u, maps)
    BY <2>2 DEF Copied, Marked
  <2>6. Due(task[c], fetched, disk.set) => Due(u, fetched, disk.set)
    BY <1>2, <2>1, <2>2 DEF Due
  <2>7. /\ subs' \in Seq(SubsOf(nextId')) /\ nextId' \in {nextId, nextId + 1}
        /\ profiles' \in Seq(ProfilesOf(nextId'))
    <3>1. nextId' \in Nat \ {0} /\ nextId <= nextId'
      BY <1>3, <1>7
    <3>2. profiles \in Seq(ProfilesOf(nextId'))
      BY <1>3, <3>1, FilesGrow
    <3>3. QED
      BY <1>4, <1>7, <2>3, <3>2
  <2> HIDE DEF t
  <2>8. QED
    BY <1>4, <1>7, <2>4, <2>5, <2>6, <2>7, Writes
<1>8. QED
  BY <1>5, <1>6, <1>7

-----------------------------------------------------------------------------
(* The end of a window, and the end of the process.                        *)

LEMMA WindowEndsStep ==
  ASSUME CatInv, WindowEnds
  PROVE  CatInv'
<1>1. /\ UNCHANGED <<profiles, subs, state, task, nextId, faults, overtaken, refetched, markLost>>
      /\ fetched' = {} /\ maps' = [n \in DOMAIN maps |-> {}] /\ disk' = [disk EXCEPT !.set = {}]
      /\ Idle(Loop)
  BY DEF WindowEnds
<1>2. maps \in Seq(SUBSET Nat) /\ state.marks \in 0 .. Len(maps) /\ FilesFit /\ TasksFit
  BY DEF CatInv, FilesFit, CatTypeOK
<1>3. maps' \in Seq(SUBSET Nat) /\ Len(maps') = Len(maps) /\ DOMAIN maps' = DOMAIN maps
      /\ \A n \in DOMAIN maps : maps'[n] = {}
  BY <1>1, <1>2
<1>4. disk' \in [nil : BOOLEAN, set : SUBSET Nat] /\ disk'.set = {}
  BY <1>1, <1>2 DEF FilesFit
<1>5. task[Loop] = NoTask
  BY <1>1, <1>2 DEF TasksFit, TaskFits, Idle, Workers
<1>6. \A ms, got, noted : Marked(NoTask, ms) /\ Due(NoTask, got, noted)
  <2>1. \A s : ~Left(NoTask, s) /\ ~Ahead(NoTask, s)
    BY NothingLeft DEF NoTask
  <2>2. QED
    BY <2>1 DEF Marked, Due
<1>7. FilesFit'
  BY <1>1, <1>2, <1>3, <1>4 DEF FilesFit, CatTypeOK
<1>8. TasksFit'
  BY <1>1, <1>2, <1>3, <1>5, <1>6 DEF TasksFit
<1>9. ~markLost' => Noted'
  BY <1>1, <1>4, <1>5, <1>6 DEF CatInv, Noted
<1>10. QED
  BY <1>7, <1>8, <1>9 DEF CatInv

LEMMA CrashStep ==
  ASSUME CatInv, Crash
  PROVE  CatInv'
<1>1. /\ UNCHANGED <<profiles, subs, disk, fetched, refetched, markLost, nextId>>
      /\ task' = [c \in Workers |-> NoTask] /\ overtaken' = [c \in Workers |-> {}]
      /\ maps' = IF disk.nil THEN <<>> ELSE <<disk.set>>
      /\ state' = [state EXCEPT !.marks = IF disk.nil THEN 0 ELSE 1]
  BY DEF Crash, Counters
<1>2. /\ FilesFit /\ TasksFit /\ nextId \in Nat \ {0} /\ faults' \in Nat
      /\ disk \in [nil : BOOLEAN, set : SUBSET Nat] /\ (disk.nil => disk.set = {})
      /\ state = [cur |-> state.cur, restore |-> state.restore, marks |-> state.marks]
      /\ state.cur \in 0 .. nextId - 1 /\ state.restore \in BOOLEAN
  BY DEF CatInv, FilesFit, CatTypeOK, Crash, Fault
<1>3. maps' \in Seq(SUBSET Nat) /\ Len(maps') = (IF disk.nil THEN 0 ELSE 1)
      /\ (~disk.nil => maps'[1] = disk.set)
  <2>1. disk.set \in SUBSET Nat
    BY <1>2
  <2> DEFINE one == <<disk.set>>
  <2>2. one \in Seq(SUBSET Nat) /\ Len(one) = 1 /\ one[1] = disk.set
    BY <2>1
  <2>3. <<>> \in Seq(SUBSET Nat) /\ Len(<<>>) = 0
    OBVIOUS
  <2> HIDE DEF one
  <2>4. maps' = IF disk.nil THEN <<>> ELSE one
    BY <1>1 DEF one
  <2>5. CASE disk.nil
    <3>1. maps' = <<>>
      BY <2>4, <2>5
    <3>2. QED
      BY <2>3, <2>5, <3>1
  <2>6. CASE ~disk.nil
    <3>1. maps' = one
      BY <2>4, <2>6
    <3>2. QED
      BY <2>2, <2>6, <3>1
  <2>7. QED
    BY <2>5, <2>6
<1>4. state' \in StatesOf(nextId, Len(maps')) /\ state'.marks = (IF disk.nil THEN 0 ELSE 1)
  <2>1. state' = [cur |-> state.cur, restore |-> state.restore,
                  marks |-> IF disk.nil THEN 0 ELSE 1]
    BY <1>1, <1>2
  <2>2. QED
    BY <1>2, <1>3, <2>1 DEF StatesOf
<1>5. \A c \in Workers : task'[c] = NoTask
  BY <1>1
<1>6. \A ms, got, noted : Marked(NoTask, ms) /\ Due(NoTask, got, noted)
  <2>1. \A s : ~Left(NoTask, s) /\ ~Ahead(NoTask, s)
    BY NothingLeft DEF NoTask
  <2>2. QED
    BY <2>1 DEF Marked, Due
<1>7. FilesFit'
  <2>1. overtaken' \in [Workers -> SUBSET Files]
    BY <1>1
  <2>2. QED
    BY <1>1, <1>2, <1>3, <1>4, <2>1 DEF FilesFit, CatTypeOK, StatesOf
<1>8. TasksFit'
  <2>1. Len(maps') \in Nat
    BY <1>3
  <2>2. ASSUME NEW c \in Workers
        PROVE  /\ TaskFits(c, task'[c], nextId', Len(maps'))
               /\ Copied(task'[c], overtaken'[c], profiles', subs', state')
    BY <1>1, <1>2, <1>5, <2>1, NoTaskFits
  <2>3. Loop \in Workers
    BY DEF Workers
  <2>4. QED
    BY <1>1, <1>5, <1>6, <2>2, <2>3 DEF TasksFit
<1>9. ~markLost' => Noted'
  <2>1. disk.set = Persisted'
    BY <1>2, <1>3, <1>4 DEF Persisted
  <2>2. Loop \in Workers
    BY DEF Workers
  <2>3. QED
    BY <1>1, <1>5, <1>6, <2>1, <2>2 DEF CatInv, Noted
<1>10. QED
  BY <1>7, <1>8, <1>9 DEF CatInv

-----------------------------------------------------------------------------
(* The theorems.                                                           *)

LEMMA CatInitInv ==
  ASSUME CatInit
  PROVE  CatInv
<1> DEFINE b == CHOOSE b \in Bodies : TRUE
           p1 == [id |-> 1, sub |-> 3, body |-> b, ms |-> 0]
           p2 == [id |-> 2, sub |-> None, body |-> b, ms |-> 0]
           s1 == [id |-> 3, on |-> TRUE]
<1>1. b \in Bodies
  BY CatalogAssumption
<1>2. /\ profiles = <<p1, p2>> /\ subs = <<s1>>
      /\ state = [cur |-> 1, restore |-> FALSE, marks |-> 0]
      /\ disk = [nil |-> TRUE, set |-> {}] /\ maps = <<>> /\ task = [c \in Workers |-> NoTask]
      /\ nextId = 4 /\ faults = 0 /\ overtaken = [c \in Workers |-> {}]
      /\ fetched = {} /\ refetched = FALSE
  BY DEF CatInit
<1> HIDE DEF b
<1>3. p1 \in ProfilesOf(4) /\ p2 \in ProfilesOf(4) /\ s1 \in SubsOf(4)
  BY <1>1 DEF ProfilesOf, SubsOf, None
<1> HIDE DEF p1, p2, s1
<1>4. <<p1, p2>> \in Seq(ProfilesOf(4)) /\ <<s1>> \in Seq(SubsOf(4))
  BY <1>3
<1>5. maps \in Seq(SUBSET Nat) /\ Len(maps) = 0
  BY <1>2
<1>6. FilesFit
  <2>1. state \in StatesOf(4, 0)
    BY <1>2 DEF StatesOf
  <2>2. disk \in [nil : BOOLEAN, set : SUBSET Nat] /\ disk.set = {}
    BY <1>2
  <2>3. overtaken \in [Workers -> SUBSET Files] /\ nextId \in Nat \ {0} /\ faults \in Nat
    BY <1>2
  <2>4. CatTypeOK
    BY <1>2, <1>4, <1>5, <2>1, <2>3 DEF CatTypeOK, ProfilesOf, SubsOf, StatesOf
  <2>5. QED
    BY <1>5, <2>2, <2>3, <2>4 DEF FilesFit
<1>7. nextId \in Nat \ {0} /\ Len(maps) \in Nat /\ Loop \in Workers /\ \A c \in Workers : task[c] = NoTask
  BY <1>2, <1>5 DEF Workers
<1>8. \A ms, got, noted : Marked(NoTask, ms) /\ Due(NoTask, got, noted)
  BY <1>7, NoTaskFits
<1>9. TasksFit
  <2>1. ASSUME NEW c \in Workers
        PROVE  /\ TaskFits(c, task[c], nextId, Len(maps))
               /\ Copied(task[c], overtaken[c], profiles, subs, state)
    BY <1>7, NoTaskFits
  <2>2. QED
    BY <1>2, <1>7, <1>8, <2>1 DEF TasksFit
<1>10. Noted
  BY <1>2, <1>7, <1>8 DEF Noted
<1>11. QED
  BY <1>6, <1>9, <1>10 DEF CatInv

LEMMA CatStep ==
  ASSUME CatInv, [CatNext]_catVars
  PROVE  CatInv'
<1>1. CASE \E c \in Callers : CatalogRequest(c)
  BY <1>1, RequestBegins
<1>2. CASE RunDueAutoUpdates
  BY <1>2, PassBegins
<1>3. CASE \E c \in Workers : StoreCall(c)
  BY <1>3, LoadProfilesStep, SaveProfilesStep, SaveDelaysStep, LoadSubsStep, SaveSubsStep,
     ListSubsStep, NextOfListStep, FetchStep, LoadStateStep, SaveStateStep DEF StoreCall
<1>4. CASE WindowEnds
  BY <1>4, WindowEndsStep
<1>5. CASE Crash
  BY <1>5, CrashStep
<1>6. CASE UNCHANGED catVars
  BY <1>6 DEF catVars, CatInv, FilesFit, CatTypeOK, TasksFit, Noted, Persisted
<1>7. QED
  BY <1>1, <1>2, <1>3, <1>4, <1>5, <1>6 DEF CatNext

\* At any time: the files are what their types say; the copy an operation works
\* on is what the file says unless others wrote the file since it was loaded; and
\* what the loop has fetched in this window is noted in the file.
THEOREM CatalogInvariant == CatSpec => []CatInv
<1>1. CatInit => CatInv
  BY CatInitInv
<1>2. CatInv /\ [CatNext]_catVars => CatInv'
  BY CatStep
<1>3. QED
  BY <1>1, <1>2, PTL DEF CatSpec

\* The files only ever hold ids that were given out, whatever operations overlap,
\* fail or are cut short.
THEOREM CatalogTyping == CatSpec => []CatTypeOK
<1>1. CatInv => CatTypeOK
  BY DEF CatInv, FilesFit
<1>2. QED
  BY <1>1, CatalogInvariant, PTL

\* The loop fetches no subscription twice in a window of the back-off, also over
\* a crash, unless a note of an attempt was lost.
THEOREM NoSecondFetch == CatSpec => []BackoffSurvives
<1>1. CatInv => BackoffSurvives
  BY DEF CatInv, Noted, BackoffSurvives
<1>2. QED
  BY <1>1, CatalogInvariant, PTL

\* A step that does something for c while nothing fails is one of c's store calls.
LEMMA WhoActs ==
  ASSUME CatInv, CatNext, NEW c \in Workers, NEW step, Acted(c, step)
  PROVE  StoreCall(c)
<1>1. At(c, step) /\ task'[c].todo # task[c].todo /\ faults' = faults
  BY DEF Acted
<1>2. TasksFit /\ faults \in Nat /\ task = [d \in Workers |-> task[d]]
  BY DEF CatInv, FilesFit, TasksFit
<1>3. task[c].op # "none" /\ ~Idle(c)
  BY <1>1, <1>2, AtStep DEF Idle
<1>4. ASSUME NEW d \in Workers, NEW x, task' = [task EXCEPT ![d] = x] PROVE d = c
  BY <1>1, <1>2, <1>4
<1>5. CASE \E d \in Callers : CatalogRequest(d)
  <2>1. PICK d \in Callers : CatalogRequest(d)
    BY <1>5
  <2>2. PICK op, ids, arg, todo : BeginTask(d, op, ids, arg, todo)
    BY <2>1 DEF CatalogRequest, CreateProfile, ImportProfileFromURI, SelectProfile, UpdateProfile,
       DeleteProfiles, TestProfileDelays, DeleteSubscription, UpdateSubscriptionByID,
       UpdateSubscription, CreateSubscription, UpdateSubscriptions, SaveRestoreFlag
  <2>3. Idle(d) /\ \E x : task' = [task EXCEPT ![d] = x]
    BY <2>2 DEF BeginTask
  <2>4. QED
    BY <1>3, <1>4, <2>3 DEF Workers
<1>6. CASE RunDueAutoUpdates
  <2>1. Idle(Loop) /\ \E x : task' = [task EXCEPT ![Loop] = x]
    BY <1>6 DEF RunDueAutoUpdates, BeginTask
  <2>2. QED
    BY <1>3, <1>4, <2>1 DEF Workers
<1>7. CASE \E d \in Workers : StoreCall(d)
  <2>1. PICK d \in Workers : StoreCall(d)
    BY <1>7
  <2>2. \E t : Set(d, t)
    <3>1. CASE LoadProfiles(d) \/ LoadSubs(d)
      BY <3>1 DEF LoadProfiles, LoadSubs
    <3>2. CASE SaveProfiles(d) \/ SaveDelays(d) \/ SaveSubs(d)
      BY <3>2 DEF SaveProfiles, SaveDelays, SaveSubs, Fail
    <3>3. CASE ListSubs(d)
      BY <3>3 DEF ListSubs
    <3>4. CASE NextOfList(d)
      BY <3>4 DEF NextOfList
    <3>5. CASE Fetch(d)
      BY <3>5 DEF Fetch
    <3>6. CASE LoadState(d)
      <4>1. task[d].op \in {"delete", "select", "restore", "auto"}
        BY <1>2, <3>6, StateOperation DEF LoadState
      <4>2. QED
        BY <3>6, <4>1 DEF LoadState
    <3>7. CASE SaveState(d)
      BY <3>7 DEF SaveState, Fail
    <3>8. QED
      BY <2>1, <3>1, <3>2, <3>3, <3>4, <3>5, <3>6, <3>7 DEF StoreCall
  <2>3. QED
    BY <1>4, <2>1, <2>2 DEF Set
<1>8. CASE WindowEnds
  BY <1>1, <1>8 DEF WindowEnds
<1>9. CASE Crash
  BY <1>1, <1>2, <1>9 DEF Crash, Fault
<1>10. QED
  BY <1>5, <1>6, <1>7, <1>8, <1>9 DEF CatNext

LEMMA OthersWorkKept ==
  ASSUME CatInv, CatNext, NEW c \in Workers
  PROVE  KeepsOthersWork(c)
<1> DEFINE t == task[c]
<1>1. FilesFit /\ TasksFit /\ faults \in Nat /\ nextId \in Nat \ {0}
  BY DEF CatInv, FilesFit
<1>2. ~Fault \/ faults' # faults
  BY <1>1 DEF Fault
<1>3. ASSUME NEW step, Acted(c, step)
      PROVE  /\ TaskFits(c, t, nextId, Len(maps)) /\ Copied(t, overtaken[c], profiles, subs, state)
             /\ Ahead(t, step) /\ Left(t, step) /\ StoreCall(c) /\ t.todo # <<>>
             /\ ~Fault /\ At(c, step)
             /\ step = "SaveProfiles" => ~Left(t, "Fetch")
             /\ step = "SaveSubs" => ~Left(t, "LoadSubs")
  <2>1. At(c, step) /\ faults' = faults
    BY <1>3 DEF Acted
  <2>2. /\ TaskFits(c, t, nextId, Len(maps)) /\ Copied(t, overtaken[c], profiles, subs, state)
        /\ Ahead(t, step) /\ IsTask(t) /\ Ordered(t.todo) /\ t.todo # <<>>
    BY <1>1, <2>1, AtStep
  <2> DEFINE u == Next1(t)
  <2>3. u.todo = Tail(t.todo)
    BY <2>2 DEF Next1, IsTask
  <2> HIDE DEF u
  <2>4. /\ Left(t, step)
        /\ Ahead(t, "SaveProfiles") => ~Left(t, "Fetch")
        /\ Ahead(t, "SaveSubs") => ~Left(t, "LoadSubs")
    BY <2>2, <2>3, StepTaken
  <2>5. StoreCall(c)
    BY <1>3, WhoActs
  <2>6. QED
    BY <1>2, <2>1, <2>2, <2>4, <2>5
<1>4. ASSUME NEW step, StoreCall(c), At(c, step)
      PROVE  /\ step = "SaveProfiles" => SaveProfiles(c)
             /\ step = "SaveDelays" => SaveDelays(c)
             /\ step = "SaveSubs" => SaveSubs(c)
             /\ step = "SaveState" => SaveState(c)
  BY <1>4 DEF StoreCall, At, LoadProfiles, SaveProfiles, SaveDelays, LoadSubs, SaveSubs, ListSubs,
     NextOfList, Fetch, LoadState, SaveState
<1>5. SavesUndisturbed(c, "SaveProfiles", "profiles") =>
        \A p \in Range(profiles) : p \in Range(profiles') \/ About(t, p)
  <2> SUFFICES ASSUME Acted(c, "SaveProfiles"), "profiles" \notin overtaken[c]
               PROVE  \A p \in Range(profiles) : p \in Range(profiles') \/ About(t, p)
    BY DEF SavesUndisturbed
  <2>1. profiles' = Edited(t)
    BY <1>3, <1>4 DEF SaveProfiles, Fail
  <2>2. t.ps = profiles
    BY <1>3 DEF Copied
  <2>3. \A p \in Range(t.ps) : p \in Range(Edited(t)) \/ About(t, p)
    BY <1>1, <1>3, EditedIs
  <2>4. QED
    BY <2>1, <2>2, <2>3
<1>6. Acted(c, "SaveDelays") =>
        /\ DOMAIN profiles' = DOMAIN profiles
        /\ \A i \in DOMAIN profiles : profiles'[i] \in
             {profiles[i]} \cup {[profiles[i] EXCEPT !.ms = 1] : n \in t.ids \cap {profiles[i].id}}
  <2> SUFFICES ASSUME Acted(c, "SaveDelays")
               PROVE  /\ DOMAIN profiles' = DOMAIN profiles
                      /\ \A i \in DOMAIN profiles : profiles'[i] \in
                           {profiles[i]} \cup
                           {[profiles[i] EXCEPT !.ms = 1] : n \in t.ids \cap {profiles[i].id}}
    OBVIOUS
  <2>1. PICK ids \in SUBSET (t.ids \cap IdsOf(t.ps)) :
               profiles' = profiles \/ profiles' = WithDelays(profiles, ids)
    BY <1>3, <1>4 DEF SaveDelays, Fail
  <2>2. /\ DOMAIN profiles' = DOMAIN profiles
        /\ \A i \in DOMAIN profiles :
             profiles'[i] = profiles[i] \/ profiles'[i] = WithDelays(profiles, ids)[i]
    BY <2>1 DEF WithDelays
  <2>3. \A x \in ids : x \in t.ids
    BY <2>1
  <2>4. ASSUME NEW i \in DOMAIN profiles
        PROVE  profiles'[i] \in
          {profiles[i]} \cup {[profiles[i] EXCEPT !.ms = 1] : n \in t.ids \cap {profiles[i].id}}
    <3> DEFINE late == [profiles[i] EXCEPT !.ms = 1]
    <3>1. WithDelays(profiles, ids)[i] = IF profiles[i].id \in ids THEN late ELSE profiles[i]
      BY DEF WithDelays
    <3>2. profiles'[i] = profiles[i] \/ (profiles[i].id \in ids /\ profiles'[i] = late)
      BY <2>2, <3>1
    <3> HIDE DEF late
    <3>3. profiles'[i] \in {profiles[i]} \cup {late : n \in t.ids \cap {profiles[i].id}}
      BY <2>3, <3>2
    <3>4. QED
      BY <3>3 DEF late
  <2>5. QED
    BY <2>2, <2>4
<1>7. SavesUndisturbed(c, "SaveSubs", "subs") =>
        \A s \in Range(subs) : s \in Range(subs') \/ s.id \in t.ids
  <2> SUFFICES ASSUME Acted(c, "SaveSubs"), "subs" \notin overtaken[c]
               PROVE  \A s \in Range(subs) : s \in Range(subs') \/ s.id \in t.ids
    BY DEF SavesUndisturbed
  <2>1. subs' = EditedSubs(t)
    BY <1>3, <1>4 DEF SaveSubs, Fail
  <2>2. t.ss = subs
    BY <1>3 DEF Copied
  <2>3. \A s \in Range(t.ss) : s \in Range(EditedSubs(t)) \/ s.id \in t.ids
    BY <1>1, <1>3, EditedSubsIs
  <2>4. QED
    BY <2>1, <2>2, <2>3
<1>8. SavesUndisturbed(c, "SaveState", "state") =>
        /\ state'.cur # state.cur => t.op \in {"select", "delete"}
        /\ state'.restore # state.restore => t.op = "restore"
        /\ Persisted \subseteq Persisted'
  <2> SUFFICES ASSUME Acted(c, "SaveState"), "state" \notin overtaken[c]
               PROVE  /\ state'.cur # state.cur => t.op \in {"select", "delete"}
                      /\ state'.restore # state.restore => t.op = "restore"
                      /\ Persisted \subseteq Persisted'
    BY DEF SavesUndisturbed
  <2>1. state' = t.st /\ maps' = maps
    BY <1>3, <1>4 DEF SaveState, Fail
  <2>2. /\ t.op \notin {"select", "delete"} => t.st.cur = state.cur
        /\ t.op # "restore" => t.st.restore = state.restore
        /\ state.marks # 0 => t.st.marks = state.marks
    BY <1>3 DEF Copied
  <2>3. QED
    BY <2>1, <2>2 DEF Persisted
<1>9. QED
  BY <1>5, <1>6, <1>7, <1>8 DEF KeepsOthersWork

\* A save of a file that nobody else has written since it was loaded changes what
\* its operation is about and nothing else; and a delay test touches delays only,
\* whatever happened meanwhile.
THEOREM OthersWorkSurvives == CatSpec => SavesKeepOthersWork
<1>1. CatInv /\ [CatNext]_catVars => [\A c \in Workers : KeepsOthersWork(c)]_catVars
  BY OthersWorkKept
<1>2. QED
  BY <1>1, CatalogInvariant, PTL DEF CatSpec, SavesKeepOthersWork

=============================================================================
