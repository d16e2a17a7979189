---------------------------- MODULE ProfilesPage ----------------------------
(***************************************************************************)
(* The page of profiles of the console (cmd/tui): the list, the selection, *)
(* the form that follows the selection, the dialog that deletes, and the   *)
(* goroutines that talk to the backend and reload the list.                *)
(*                                                                         *)
(* The selection is an id under a.mu; the list shows what was in a.profiles*)
(* when it was last drawn, and a move of its cursor is looked up in what   *)
(* a.profiles is now, in the order of the last batch of delay tests.       *)
(* Drawing runs later, on the UI loop, from the state it then finds;       *)
(* several requests for it that wait are one.  Nothing on the page edits   *)
(* the form any more: it always follows the selection.                     *)
(*                                                                         *)
(* A profile is a number; what it says is the number of the profile that   *)
(* says so.                                                                *)
(***************************************************************************)
EXTENDS Naturals, Sequences, FiniteSets, FiniteSetsExt, Picks

CONSTANTS MaxPageIds, \* bound: profiles that may be there at a time
          PageTasks,  \* goroutines that may be under way at a time
          MaxPageJobs \* bound: goroutines started

ASSUME PageAssumption == MaxPageIds \in Nat /\ MaxPageJobs \in Nat

PageIds == 1 .. MaxPageIds

VARIABLES says,     \* the profiles of the backend
          listed,   \* a.profiles
          flipped,  \* whether the last batch reverses their order
          rows,     \* what the list shows
          cursor,   \* where its cursor is
          selected, \* a.selectedProfileID, 0 for ""
          formOf,   \* the profile the form was filled from, 0 when empty
          redraw,   \* a refresh of the widgets waits
          relist,   \* ... and one of the list
          named,    \* the profile the open delete dialog names, 0 when closed
          aim,      \* the profile a move of the cursor is about to select, or 0
          work,     \* what each goroutine is about to do: [step, id, got]
          started,
          \* history
          lagging,  \* a reload failed: the page is behind until the next one
          strayed   \* a move selected what a reload had just taken off the list

pageVars == <<says, listed, flipped, rows, cursor, selected, formOf, redraw,
              relist, named, aim, work, started, lagging, strayed>>

Rest == [step |-> "rest", id |-> 0, got |-> {}]

Steps == {"rest", "get", "store", "delete", "import", "edit", "save",
          "put", "select", "batch"}

PageTypeOK ==
  /\ says \in [PageIds -> PageIds \cup {0}]
  /\ listed \subseteq PageIds
  /\ rows \in Seq(PageIds) /\ cursor \in PageIds \cup {1}
  /\ {selected, formOf, named, aim} \subseteq PageIds \cup {0}
  /\ work \in [PageTasks -> [step : Steps, id : PageIds \cup {0}, got : SUBSET PageIds]]
  /\ {flipped, redraw, relist, lagging, strayed} \subseteq BOOLEAN
  /\ started \in 0 .. MaxPageJobs

Present == {p \in PageIds : says[p] # 0}

Display(ids) ==
  [k \in 1 .. Cardinality(ids) |-> Nth(ids, IF flipped THEN Cardinality(ids) + 1 - k ELSE k)]

Place(p, seq) == CHOOSE i \in DOMAIN seq : seq[i] = p

(* The console after its first load.                                       *)
PageInit ==
  /\ \E there \in (SUBSET PageIds) \ {{}, PageIds} :
       /\ says = [p \in PageIds |-> IF p \in there THEN p ELSE 0]
       /\ listed = there
       /\ selected = Min(there)
  /\ flipped = FALSE
  /\ rows = Display(listed)
  /\ cursor = 1
  /\ formOf = selected
  /\ redraw = FALSE /\ relist = FALSE
  /\ named = 0 /\ aim = 0
  /\ work = [t \in PageTasks |-> Rest]
  /\ started = 0
  /\ lagging = FALSE /\ strayed = FALSE

-----------------------------------------------------------------------------
Works(t, step, id, got) ==
  work' = [work EXCEPT ![t] = [step |-> step, id |-> id, got |-> got]]

Backend == says
Page == <<rows, cursor, formOf>>
Move == <<aim, strayed>>

\* The UI loop is not in the middle of a move of the cursor.
Handling == aim = 0

(* runAction starts a goroutine; reloads begin by themselves as well.      *)
StartWork(t) ==
  /\ work[t] = Rest
  /\ started < MaxPageJobs
  /\ started' = started + 1
  /\ \E step \in {"get", "import", "save", "batch"} :
       (step = "get" \/ Handling) /\ Works(t, step, 0, {})
  /\ UNCHANGED <<Backend, listed, flipped, Page, selected, redraw, relist, named,
                 lagging, Move>>

(* The quick editor keeps the profile it was opened with.                  *)
SubmitQuickEdit(t) ==
  /\ work[t] = Rest
  /\ Handling /\ named = 0 /\ selected \in listed
  /\ started < MaxPageJobs
  /\ started' = started + 1
  /\ Works(t, "edit", selected, {})
  /\ UNCHANGED <<Backend, listed, flipped, Page, selected, redraw, relist, named,
                 lagging, Move>>

(* The delete dialog names the selected profile ...                        *)
OpenDeleteConfirm ==
  /\ Handling /\ named = 0 /\ selected \in listed
  /\ named' = selected
  /\ UNCHANGED <<Backend, listed, flipped, Page, selected, redraw, relist, work,
                 started, lagging, Move>>

CloseDeleteConfirm ==
  /\ Handling /\ named # 0
  /\ named' = 0
  /\ UNCHANGED <<Backend, listed, flipped, Page, selected, redraw, relist, work,
                 started, lagging, Move>>

(* ... and what it starts reads the selection anew.                        *)
SubmitDeleteConfirm(t) ==
  /\ Handling /\ named # 0
  /\ work[t] = Rest
  /\ started < MaxPageJobs
  /\ started' = started + 1
  /\ named' = 0
  /\ Works(t, "delete", 0, {})
  /\ UNCHANGED <<Backend, listed, flipped, Page, selected, redraw, relist, lagging, Move>>

-----------------------------------------------------------------------------
(* A request to the backend fails: the goroutine ends.                     *)
Fails(t) ==
  /\ Works(t, "rest", 0, {})
  /\ lagging' = (lagging \/ work[t].step \in {"get", "store"})

(* reloadProfiles: the answer, then storeProfiles and a refresh.           *)
GetProfiles(t) ==
  /\ work[t].step = "get"
  /\ \/ Works(t, "store", 0, Present) /\ UNCHANGED lagging
     \/ Fails(t)
  /\ UNCHANGED <<Backend, listed, flipped, Page, selected, redraw, relist, named,
                 started, Move>>

(* A selection that outlives its profile, and the one of the code.         *)
KeptSelection(got) ==
  IF got = {} THEN 0 ELSE
  IF selected # 0 THEN selected ELSE Min(got)

StoredSelection(got) ==
  IF got = {} THEN 0 ELSE
  IF selected \in got THEN selected ELSE Min(got)

StoreProfiles(t) ==
  /\ work[t].step = "store"
  /\ listed' = work[t].got
  /\ selected' = StoredSelection(work[t].got)
  /\ redraw' = TRUE /\ relist' = TRUE
  /\ lagging' = FALSE /\ strayed' = FALSE
  /\ Works(t, "rest", 0, {})
  /\ UNCHANGED <<Backend, flipped, Page, named, aim, started>>

(* What ends in a selection: "select" with the id, then a reload.          *)
StoreSelectedProfileID(t) ==
  /\ work[t].step = "select"
  /\ selected' = work[t].id
  /\ Works(t, "get", 0, {})
  /\ UNCHANGED <<Backend, listed, flipped, Page, redraw, relist, named, started,
                 lagging, Move>>

ImportProfile(t) ==
  /\ work[t].step = "import"
  /\ \/ \E p \in PageIds \ Present :
          /\ says' = [says EXCEPT ![p] = p]
          /\ Works(t, "select", p, {})
          /\ UNCHANGED lagging
     \/ Fails(t) /\ UNCHANGED says
  /\ UNCHANGED <<listed, flipped, Page, selected, redraw, relist, named, started, Move>>

SaveQuickEdit(t) ==
  /\ work[t].step = "edit"
  /\ \/ work[t].id \in Present /\ Works(t, "select", work[t].id, {}) /\ UNCHANGED lagging
     \/ Fails(t)
  /\ UNCHANGED <<Backend, listed, flipped, Page, selected, redraw, relist, named,
                 started, Move>>

(* deleteSelectedProfileAction: delete, forget the selection, reload.      *)
DeleteSelectedProfile(t) ==
  /\ work[t].step = "delete"
  /\ \/ /\ selected \in Present
        /\ says' = [says EXCEPT ![selected] = 0]
        /\ Works(t, "select", 0, {})
        /\ UNCHANGED lagging
     \/ Fails(t) /\ UNCHANGED says
  /\ UNCHANGED <<listed, flipped, Page, selected, redraw, relist, named, started, Move>>

(* saveSelectedProfileEditAction: the selected profile is fetched, gets    *)
(* what the form says, and goes back.                                      *)
SaveSelectedProfileEdit(t) ==
  /\ work[t].step = "save"
  /\ \/ selected \in Present /\ formOf # 0 /\ Works(t, "put", selected, {formOf})
        /\ UNCHANGED lagging
     \/ Fails(t)
  /\ UNCHANGED <<Backend, listed, flipped, Page, selected, redraw, relist, named,
                 started, Move>>

PutProfile(t) ==
  /\ work[t].step = "put"
  /\ \/ /\ work[t].id \in Present
        /\ \E p \in work[t].got : says' = [says EXCEPT ![work[t].id] = p]
        /\ Works(t, "select", work[t].id, {})
        /\ UNCHANGED lagging
     \/ Fails(t) /\ UNCHANGED says
  /\ UNCHANGED <<listed, flipped, Page, selected, redraw, relist, named, started, Move>>

(* batchDelayProfilesAction: the results decide the order at once, the     *)
(* list is drawn after the reload.                                         *)
BatchDelayProfiles(t) ==
  /\ work[t].step = "batch"
  /\ \/ /\ flipped' \in BOOLEAN
        /\ Works(t, "get", 0, {})
        /\ UNCHANGED lagging
     \/ Fails(t) /\ UNCHANGED flipped
  /\ redraw' = TRUE
  /\ UNCHANGED <<Backend, listed, Page, selected, relist, named, started, Move>>

(* Another client of the API, or a subscription that is refreshed.         *)
OthersDelete(p) ==
  /\ p \in Present
  /\ started < MaxPageJobs
  /\ started' = started + 1
  /\ says' = [says EXCEPT ![p] = 0]
  /\ UNCHANGED <<listed, flipped, Page, selected, redraw, relist, named, work, lagging, Move>>

-----------------------------------------------------------------------------
RefreshProfilesList ==
  /\ rows' = Display(listed)
  /\ cursor' = IF selected \in listed THEN Place(selected, rows') ELSE 1

SyncProfileEditor == formOf' = IF selected \in listed THEN selected ELSE 0

(* refreshWidgetsWithLists: the list and the form, from what is now.       *)
RefreshWidgets ==
  /\ Handling /\ redraw
  /\ redraw' = FALSE /\ relist' = FALSE
  /\ IF relist THEN RefreshProfilesList ELSE UNCHANGED <<rows, cursor>>
  /\ SyncProfileEditor
  /\ UNCHANGED <<Backend, listed, flipped, selected, named, work, started, lagging, Move>>

(* onProfileSelectionChanged, while no dialog covers the list: the row is  *)
(* looked up in the profiles there are now ...                             *)
MoveCursor(i) ==
  /\ Handling /\ named = 0
  /\ i \in DOMAIN rows \ {cursor}
  /\ cursor' = i
  /\ aim' = IF i \in DOMAIN Display(listed) THEN Display(listed)[i] ELSE 0
  /\ UNCHANGED <<Backend, listed, flipped, selected, redraw, relist, rows, formOf,
                 named, work, started, lagging, strayed>>

(* ... and selected under another lock of a.mu, without another look.      *)
SelectAimed ==
  /\ aim # 0
  /\ aim' = 0
  /\ selected' = aim
  /\ redraw' = (redraw \/ selected # aim)
  /\ strayed' = (strayed \/ aim \notin listed)
  /\ UNCHANGED <<Backend, listed, flipped, Page, relist, named, work, started, lagging>>

PageNext ==
  \/ \E t \in PageTasks :
       \/ StartWork(t) \/ SubmitQuickEdit(t) \/ SubmitDeleteConfirm(t)
       \/ GetProfiles(t) \/ StoreProfiles(t) \/ StoreSelectedProfileID(t)
       \/ ImportProfile(t) \/ SaveQuickEdit(t) \/ DeleteSelectedProfile(t)
       \/ SaveSelectedProfileEdit(t) \/ PutProfile(t) \/ BatchDelayProfiles(t)
  \/ OpenDeleteConfirm
  \/ CloseDeleteConfirm
  \/ \E p \in PageIds : OthersDelete(p)
  \/ RefreshWidgets
  \/ \E i \in PageIds : MoveCursor(i)
  \/ SelectAimed

PageSpec == PageInit /\ [][PageNext]_pageVars

-----------------------------------------------------------------------------
Quiet == ~redraw /\ aim = 0 /\ \A t \in PageTasks : work[t] = Rest

(* Whatever was selected, tested, imported, saved and deleted, here and    *)
(* elsewhere, and in whatever order the answers came: when the goroutines  *)
(* are through, the page is of one piece.  Rows are in the order in which  *)
(* a move of the cursor looks them up (layout.go:571), the form is of the  *)
(* selection, or empty when that is none of the list; and the selection is *)
(* one of the list and under the cursor (store_profiles.go:4) - unless a   *)
(* reload came between the two halves of a move of the cursor and took the *)
(* profile off the list: the code then selects what is gone, and nothing   *)
(* mends it before the next reload.  A reload that fails leaves everything *)
(* as it was.                                                              *)
PageSettles ==
  Quiet /\ ~lagging =>
    /\ rows = Display(listed)
    /\ formOf = IF selected \in listed THEN selected ELSE 0
    /\ ~strayed =>
         /\ selected \in listed \/ (selected = 0 /\ listed = {})
         /\ rows # <<>> => rows[cursor] = selected
=============================================================================
