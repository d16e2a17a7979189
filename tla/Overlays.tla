------------------------------ MODULE Overlays ------------------------------
(***************************************************************************)
(* The dialogs of the terminal console (cmd/tui): the command palette, the *)
(* profile menu, the dialogs that delete, import and edit a profile, the   *)
(* one that picks proxy users and the one that stands in for a drop-down   *)
(* list, with the preview of changes on top of the editor.                 *)
(*                                                                         *)
(* Each open and close function hands its work to runUI, which starts a    *)
(* goroutine that queues it for the UI loop: what is requested together    *)
(* may run in either order, and keys may come in between.  Each dialog has *)
(* a flag, the focus it found when it was opened, and its guard.           *)
(*                                                                         *)
(* Widgets of a page and of a dialog are one place each.  A widget that is *)
(* no longer on the screen is "old", or "oldList" when it is a list, which *)
(* the key handler takes for the list of an open drop-down.                *)
(***************************************************************************)
EXTENDS Naturals, Sequences, SequencesExt, Picks

CONSTANTS MaxPending,  \* bound: UI updates that wait at a time
          MaxOpens     \* bound: requests to open a dialog

ASSUME OverlaysAssumption == MaxPending \in Nat /\ MaxOpens \in Nat

VARIABLES stack,    \* what is on the screen over the page, topmost last
          prev,     \* the focus each dialog found when it was opened
          uiFocus,  \* where the keys go
          uiQueue,  \* UI updates that wait: [do, on]
          actions,  \* runAction goroutines about to open a dialog
          opens,    \* requests to open so far
          together, \* history: a dialog opened over another one
          rebuilt   \* history: the page was rebuilt under a dialog

overlayVars == <<stack, prev, uiFocus, uiQueue, actions, opens, together, rebuilt>>

(* Each dialog: the dialogs whose flag keeps it from opening, whether it   *)
(* stays closed with nothing to show (no profile is selected, no option),  *)
(* and whether the keys go to a list.                                      *)
Dialog(bars, empty, list) == [bars |-> bars, empty |-> empty, list |-> list]

CommandPalette == Dialog({"palette"}, FALSE, TRUE)

ProfileActionsMenu ==
  Dialog({"actions", "delete", "palette", "import", "edit"}, FALSE, TRUE)

ProfileDeleteConfirm == Dialog({"delete", "palette", "import", "edit"}, TRUE, FALSE)

ProfileImport == Dialog({"import"}, FALSE, FALSE)

ProfileQuickEdit == Dialog({"edit"}, TRUE, FALSE)

ProxyUserSelect ==
  Dialog({"proxy", "palette", "actions", "delete", "import", "edit"}, TRUE, TRUE)

DropdownSelect ==
  Dialog({"dropdown", "palette", "actions", "delete", "import", "edit", "proxy"}, TRUE, TRUE)

ProfileQuickEditDiff == Dialog({}, FALSE, FALSE)

Kind ==
  [palette |-> CommandPalette, actions |-> ProfileActionsMenu,
   delete |-> ProfileDeleteConfirm, import |-> ProfileImport,
   edit |-> ProfileQuickEdit, proxy |-> ProxyUserSelect, dropdown |-> DropdownSelect,
   preview |-> ProfileQuickEditDiff]

(* The order in which the key handler looks for what Esc closes.           *)
EscOrder == <<"dropdown", "palette", "actions", "delete", "import", "edit", "proxy">>

Dialogs == Range(EscOrder)

Layers == Dialogs \cup {"preview"}

Places == Layers \cup {"page", "old", "oldList"}

Shown == Range(stack) \ {"preview"}

StackWithout(ds) == Picked(stack, {i \in DOMAIN stack : stack[i] \notin ds})

OverlaysTypeOK ==
  /\ stack \in Seq(Layers) /\ \A i, j \in DOMAIN stack : stack[i] = stack[j] => i = j
  /\ prev \in [Dialogs -> Places]
  /\ uiFocus \in Places
  /\ uiQueue \in Seq([do : {"open", "close"}, on : Layers])
  /\ actions \subseteq {"import", "proxy"}
  /\ opens \in 0 .. MaxOpens
  /\ together \in BOOLEAN /\ rebuilt \in BOOLEAN

OverlaysInit ==
  /\ stack = <<>>
  /\ prev = [d \in Dialogs |-> "page"]
  /\ uiFocus = "page"
  /\ uiQueue = <<>>
  /\ actions = {}
  /\ opens = 0
  /\ together = FALSE
  /\ rebuilt = FALSE

-----------------------------------------------------------------------------
(* runUI. *)
Queue(us) ==
  /\ Len(uiQueue) + Len(us) <= MaxPending
  /\ uiQueue' = uiQueue \o us

Do(what, d) == [do |-> what, on |-> d]

(* A request to open, counted.                                             *)
RequestOpen(us) ==
  /\ opens < MaxOpens
  /\ opens' = opens + 1
  /\ Queue(us)

(* Opening puts the dialog on top, wherever it was before (the preview     *)
(* replaces an older one).                                                 *)
Open(d) ==
  IF Kind[d].bars \cap Shown # {} THEN UNCHANGED <<stack, prev, uiFocus, together>> ELSE
  /\ stack' = Append(StackWithout({d}), d)
  /\ uiFocus' = d
  /\ prev' = IF d \in Dialogs THEN [prev EXCEPT ![d] = uiFocus] ELSE prev
  /\ together' = (together \/ IF d = "preview" THEN "edit" \notin Shown ELSE stack # <<>>)

(* A widget that is gone stays where it was noted.                         *)
Forget(ds, place) ==
  IF place \in ds THEN (IF Kind[place].list THEN "oldList" ELSE "old") ELSE place

Topmost(s) == IF s = <<>> THEN "page" ELSE Last(s)

(* A close that does not look whether the dialog is open.                  *)
CloseUnchecked(d) ==
  /\ stack' = StackWithout({d})
  /\ uiFocus' = IF d \in Dialogs THEN prev[d] ELSE Topmost(stack')
  /\ prev' = [e \in Dialogs |-> IF e = d THEN "page" ELSE Forget({d}, prev[e])]

Close(d) ==
  IF d = "preview"
  THEN /\ stack' = StackWithout({d})
       /\ uiFocus' = IF "edit" \in Shown \/ uiFocus = d THEN Topmost(stack') ELSE uiFocus
       /\ UNCHANGED prev
  ELSE IF d \notin Shown THEN UNCHANGED <<stack, prev, uiFocus>>
  ELSE LET gone == IF d = "edit" THEN {"edit", "preview"} ELSE {d}
       IN  /\ stack' = StackWithout(gone)
           /\ uiFocus' = IF d = "dropdown" THEN "page" ELSE prev[d]
           /\ prev' = [e \in Dialogs |-> IF e = d THEN "page" ELSE Forget(gone, prev[e])]

(* The UI loop takes an update, not always the oldest.                     *)
RunUpdate(i) ==
  /\ i \in DOMAIN uiQueue
  /\ uiQueue' = RemoveAt(uiQueue, i)
  /\ LET u == uiQueue[i]
     IN  IF u.do = "close" THEN Close(u.on) /\ UNCHANGED together
         ELSE \/ Open(u.on)
              \/ Kind[u.on].empty /\ UNCHANGED <<stack, prev, uiFocus, together>>
  /\ UNCHANGED <<actions, opens, rebuilt>>

-----------------------------------------------------------------------------
(* Keys.  Esc: swallowed on the way to a list it takes for a drop-down's,  *)
(* else the first visible dialog of the order, else back to the sidebar.   *)
FirstToClose ==
  EscOrder[Min({i \in DOMAIN EscOrder : EscOrder[i] \in Shown})]

Esc ==
  /\ IF uiFocus = "oldList" THEN FALSE ELSE
     IF Shown # {}
     THEN Queue(<< Do("close", FirstToClose) >>) /\ UNCHANGED uiFocus
     ELSE uiFocus' = "page" /\ UNCHANGED uiQueue
  /\ UNCHANGED <<stack, prev, actions, opens, together, rebuilt>>

(* Tab and the arrows, while no dialog is visible.                         *)
CycleFocus ==
  /\ Shown = {}
  /\ uiFocus' = "page"
  /\ UNCHANGED <<stack, prev, uiQueue, actions, opens, together, rebuilt>>

(* Shortcuts: the palette, or the editor on the page of profiles.          *)
Shortcut(d) ==
  /\ Shown = {}
  /\ d \in {"palette", "edit"}
  /\ RequestOpen(<< Do("open", d) >>)
  /\ UNCHANGED <<stack, prev, uiFocus, actions, together, rebuilt>>

(* Enter on a widget of the page: a drop-down, a profile of the list, or a *)
(* button, which leaves it to a goroutine.                                 *)
EnterOnPage(d) ==
  /\ uiFocus = "page"
  /\ \/ d \in {"dropdown", "actions"} /\ RequestOpen(<< Do("open", d) >>) /\ UNCHANGED actions
     \/ /\ d \in {"import", "proxy"} \ actions
        /\ RequestOpen(<<>>)
        /\ actions' = actions \cup {d}
  /\ UNCHANGED <<stack, prev, uiFocus, together, rebuilt>>

RunAction(d) ==
  /\ d \in actions
  /\ actions' = actions \ {d}
  /\ Queue(<< Do("open", d) >>)
  /\ UNCHANGED <<stack, prev, uiFocus, opens, together, rebuilt>>

(* A button or an item of the dialog that has the focus: done with it, or  *)
(* on to another one.                                                      *)
Leave(d) ==
  /\ uiFocus = d /\ d \in Range(stack)
  /\ Queue(<< Do("close", d) >>)
  /\ UNCHANGED <<stack, prev, uiFocus, actions, opens, together, rebuilt>>

MenuItem(d) ==
  /\ uiFocus = "actions" /\ "actions" \in Shown
  /\ d \in {"edit", "delete"}
  /\ RequestOpen(<< Do("close", "actions"), Do("open", d) >>)
  /\ UNCHANGED <<stack, prev, uiFocus, actions, together, rebuilt>>

PreviewChanges ==
  /\ uiFocus = "edit" /\ "edit" \in Shown
  /\ RequestOpen(<< Do("open", "preview") >>)
  /\ UNCHANGED <<stack, prev, uiFocus, actions, together, rebuilt>>

PaletteImport ==
  /\ uiFocus = "palette" /\ "palette" \in Shown /\ "import" \notin actions
  /\ RequestOpen(<< Do("close", "palette") >>)
  /\ actions' = actions \cup {"import"}
  /\ UNCHANGED <<stack, prev, uiFocus, together, rebuilt>>

(* syncPages builds the page anew and switches to it, which hides what is  *)
(* over it; flags and notes stay as they are.                              *)
SyncPages ==
  /\ uiFocus' = "page"
  /\ stack' = StackWithout({"preview"})
  /\ prev' = [d \in Dialogs |-> IF prev[d] = "page" THEN "old" ELSE prev[d]]
  /\ rebuilt' = (rebuilt \/ stack # <<>>)
  /\ UNCHANGED <<actions, opens, together>>

PaletteNavigate ==
  /\ uiFocus = "palette" /\ "palette" \in Shown
  /\ Queue(<< Do("close", "palette") >>)
  /\ SyncPages

(* A page shortcut, or a change of the screen size or of the language.     *)
SwitchPage ==
  /\ UNCHANGED uiQueue
  /\ SyncPages

OverlaysNext ==
  \/ \E i \in 1 .. MaxPending : RunUpdate(i)
  \/ Esc
  \/ CycleFocus
  \/ \E d \in Dialogs : \/ Shortcut(d) \/ EnterOnPage(d) \/ RunAction(d)
                        \/ MenuItem(d)
  \/ \E d \in Layers : Leave(d)
  \/ PreviewChanges
  \/ PaletteImport
  \/ PaletteNavigate
  \/ SwitchPage

OverlaysSpec == OverlaysInit /\ [][OverlaysNext]_overlayVars

-----------------------------------------------------------------------------
(* The keyboard is where the user looks: once the pending updates have     *)
(* run, keys go to the dialog on the screen, and to the page when there is *)
(* none, and Esc finds the one there is ("close visible dialogs first",    *)
(* actions.go:90-91) - however fast keys are typed and in whatever order   *)
(* updates run, as long as no dialog has opened over another one (a menu   *)
(* item may: it queues the close of the menu and the next dialog together) *)
(* and the page was not rebuilt under one.                                 *)
KeysGoToTheTop ==
  uiQueue = <<>> /\ ~together /\ ~rebuilt =>
    /\ uiFocus = Topmost(stack)
    /\ Shown # {} => Shown = {FirstToClose}
=============================================================================
