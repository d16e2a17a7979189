---------------------------- MODULE SettingsForm ----------------------------
(***************************************************************************)
(* The settings page of the console (cmd/tui): the form, the copy of the   *)
(* configuration behind it, and the goroutines that load and save it - the *)
(* poll of every three seconds, a save, a switch of the language, a button *)
(* that enters a user of the desktop.                                      *)
(*                                                                         *)
(* A behaviour is about one setting, and its values are numbered in the    *)
(* order in which somebody entered them, 0 being the one the backend       *)
(* starts with.  The setting is either the language, whose drop-down takes *)
(* effect at once and marks nothing as changed, or any other field, all of *)
(* which go the same way.                                                  *)
(*                                                                         *)
(* The UI loop holds a.mu while it paints: what needs a.mu waits then, and *)
(* so does the user.  A refresh paints what it finds when it runs; several *)
(* that wait are one.                                                      *)
(***************************************************************************)
EXTENDS Naturals

CONSTANTS SettingsTasks,  \* goroutines that may be under way at a time
          MaxEdits,       \* bound: values entered, by the user or elsewhere
          MaxLoads,       \* bound: goroutines started
          Blank           \* an empty text; also: nothing

ASSUME SettingsValues == Blank \notin Nat /\ {MaxEdits, MaxLoads} \subseteq Nat

VARIABLES language,  \* the setting is the language
          stored,    \* the setting in the backend
          config,    \* a.config, the copy
          field,     \* what the form shows; the language: a.uiLanguage
          dirty,     \* settingsDirty
          loaded,    \* settingsFormLoaded
          typing,    \* the field has the focus
          refill,    \* a refresh of the widgets waits
          paint,     \* the UI loop paints the form ("on") or never ends it
          suspended, \* suspendFieldTracking
          text,      \* a text from one of the buttons waits for the UI loop
          jobs,      \* what each goroutine is about to do: [step, value]
          edits, begun,
          \* history
          unsaved,   \* what the user has entered and no save has stored yet
          unlucky    \* ... and nothing keeps: see UnsavedEditsSurvive

form == <<field, dirty, loaded, typing>>
screen == <<refill, paint, suspended, text>>
past == <<unsaved, unlucky>>
settingsVars == <<language, stored, config, form, screen, jobs, edits, begun, past>>

Values == 0 .. MaxEdits

JobSteps == {"idle", "get", "store", "put", "clear", "language", "resume", "mark"}

Resting == [step |-> "idle", value |-> Blank]

SettingsTypeOK ==
  /\ {stored, config, field, unsaved} \subseteq Values \cup {Blank}
  /\ {language, dirty, loaded, typing, refill, suspended, text, unlucky} \subseteq BOOLEAN
  /\ paint \in {"off", "on", "stuck"}
  /\ jobs \in [SettingsTasks -> [step : JobSteps, value : Values \cup {Blank}]]
  /\ edits \in Values /\ begun \in 0 .. MaxLoads

SettingsInit ==
  /\ language \in BOOLEAN
  /\ stored = 0
  /\ config = Blank
  /\ field = Blank
  /\ dirty = FALSE /\ loaded = FALSE /\ typing = FALSE
  /\ refill = FALSE /\ paint = "off" /\ suspended = FALSE /\ text = FALSE
  /\ jobs = [t \in SettingsTasks |-> Resting]
  /\ edits = 0 /\ begun = 0
  /\ unsaved = Blank
  /\ unlucky = FALSE

-----------------------------------------------------------------------------
Goes(t, step, value) == jobs' = [jobs EXCEPT ![t] = [step |-> step, value |-> value]]

Starts(t) ==
  /\ jobs[t].step = "idle"
  /\ begun < MaxLoads
  /\ begun' = begun + 1

\* a.mu is free; the UI loop is, too.
Unlocked == paint = "off"

NewValue == edits < MaxEdits /\ edits' = edits + 1

(* pollOverview, the first load, a reload after some other action.         *)
Poll(t) ==
  /\ Starts(t)
  /\ Goes(t, "get", Blank)
  /\ UNCHANGED <<language, stored, config, form, screen, edits, past>>

(* reloadOverview: applyConfiguredUILanguage puts the language into effect *)
(* at once, the rest of the answer is kept until the other requests are    *)
(* through as well; one that fails ends it.                                *)
GetConfig(t) ==
  /\ jobs[t].step = "get"
  /\ \/ /\ Goes(t, "store", stored)
        /\ language => Unlocked
        /\ field' = IF language THEN stored ELSE field
     \/ Goes(t, "idle", Blank) /\ UNCHANGED field
  /\ UNCHANGED <<language, stored, config, dirty, loaded, typing, screen, edits,
                 begun, past>>

StoreOverview(t) ==
  /\ jobs[t].step = "store"
  /\ Unlocked
  /\ \/ config' = jobs[t].value /\ refill' = TRUE
     \/ UNCHANGED <<config, refill>>
  /\ Goes(t, "idle", Blank)
  /\ UNCHANGED <<language, stored, form, paint, suspended, text, edits, begun, past>>

-----------------------------------------------------------------------------
(* The part of refreshWidgetsWithLists that is about the settings, under   *)
(* a.mu and with the tracking of fields suspended ...                      *)
StartRefresh ==
  /\ refill /\ Unlocked
  /\ refill' = FALSE
  /\ paint' = "on"
  /\ suspended' = TRUE
  /\ UNCHANGED <<language, stored, config, form, text, jobs, edits, begun, past>>

Fills == ~(dirty /\ loaded)

(* ... writes the fields that differ, the one with the focus excepted.     *)
(* The change of a field calls settingsChanged, which asks for a.mu unless *)
(* the tracking is suspended: with the flag cleared by a goroutine that    *)
(* had it set, the UI loop waits for itself.                               *)
RefreshSettings ==
  LET writes == Fills /\ ~language /\ ~typing /\ field # config
  IN  /\ paint = "on"
      /\ field' = IF writes THEN config ELSE field
      /\ IF writes /\ ~suspended
         THEN paint' = "stuck" /\ UNCHANGED <<loaded, suspended>>
         ELSE paint' = "off" /\ suspended' = FALSE /\ loaded' = (loaded \/ Fills)
      /\ UNCHANGED <<language, stored, config, dirty, typing, refill, text, jobs,
                     edits, begun, past>>

-----------------------------------------------------------------------------
\* A new value is in the form.  Nothing keeps it there unless the form is now
\* marked as changed, and had been loaded.
Entered ==
  /\ NewValue
  /\ field' = edits'
  /\ unsaved' = edits'
  /\ unlucky' = ~(loaded /\ dirty')

(* The user enters a value and settingsChanged marks the form, unless the  *)
(* tracking is suspended - or with the dialog of proxy users, which        *)
(* suspends it itself and marks the form in any case.                      *)
SettingsChanged ==
  /\ ~language /\ Unlocked
  /\ \/ dirty' = (dirty \/ ~suspended) /\ UNCHANGED suspended
     \/ dirty' = TRUE /\ suspended' = FALSE
  /\ Entered
  /\ typing' \in BOOLEAN
  /\ UNCHANGED <<language, stored, config, loaded, refill, paint, text, jobs, begun>>

(* The drop-down of the language: setUILanguage, and nothing is marked.    *)
ChooseLanguage ==
  /\ language /\ Unlocked /\ ~suspended
  /\ NewValue
  /\ field' = edits'
  /\ config' = IF config = Blank THEN Blank ELSE edits'
  /\ unsaved' = edits' /\ unlucky' = TRUE
  /\ UNCHANGED <<language, stored, dirty, loaded, typing, screen, jobs, begun>>

MoveFocus ==
  /\ Unlocked
  /\ typing' = ~typing
  /\ UNCHANGED <<language, stored, config, field, dirty, loaded, screen, jobs, edits,
                 begun, past>>

(* detectSystemProxyUsers, useDesktopProxyUser, addNonSystemProxyUsers:    *)
(* the tracking is suspended while the text is handed to the UI loop, not  *)
(* while the UI loop sets it; then the form is marked.                     *)
PickProxyUser(t) ==
  /\ Starts(t)
  /\ Goes(t, "resume", Blank)
  /\ suspended' = TRUE
  /\ text' = ~language
  /\ UNCHANGED <<language, stored, config, form, refill, paint, edits, past>>

ResumeTracking(t) ==
  /\ jobs[t].step = "resume"
  /\ Goes(t, "mark", Blank)
  /\ suspended' = FALSE
  /\ UNCHANGED <<language, stored, config, form, refill, paint, text, edits, begun, past>>

MarkSettingsDirty(t) ==
  /\ jobs[t].step = "mark" /\ Unlocked
  /\ Goes(t, "idle", Blank)
  /\ dirty' = TRUE
  /\ refill' = TRUE
  /\ UNCHANGED <<language, stored, config, field, loaded, typing, paint, suspended,
                 text, edits, begun, past>>

SetPickedText ==
  /\ text /\ Unlocked
  /\ text' = FALSE
  /\ dirty' = (dirty \/ ~suspended)
  /\ Entered
  /\ UNCHANGED <<language, stored, config, loaded, typing, refill, paint, suspended,
                 jobs, begun>>

-----------------------------------------------------------------------------
(* saveConfigAction reads the widgets, loaded or not, sends them, then     *)
(* clears the flags and loads everything again.                            *)
SaveConfig(t) ==
  /\ Starts(t) /\ Unlocked
  /\ Goes(t, "put", field)
  /\ UNCHANGED <<language, stored, config, form, screen, edits, past>>

\* The value is stored, or the answer says so.
Answered(value) == unsaved' = IF unsaved = value THEN Blank ELSE unsaved

(* A save that goes on as if it had worked.                                *)
PutConfigAnyway(t) ==
  /\ jobs[t].step = "put"
  /\ Goes(t, "clear", jobs[t].value)
  /\ \/ stored' \in {jobs[t].value, stored} /\ Answered(jobs[t].value)
     \/ UNCHANGED <<stored, unsaved>>
  /\ UNCHANGED <<language, config, form, screen, edits, begun, unlucky>>

(* UpdateConfig answers with success also when the file cannot be written; *)
(* a save that fails leaves the form as it is.                             *)
PutConfig(t) ==
  /\ jobs[t].step = "put"
  /\ \/ /\ Goes(t, "clear", jobs[t].value)
        /\ stored' \in {jobs[t].value, stored}
        /\ Answered(jobs[t].value)
     \/ Goes(t, "idle", Blank) /\ UNCHANGED <<stored, unsaved>>
  /\ UNCHANGED <<language, config, form, screen, edits, begun, unlucky>>

(* The flags cannot tell what was saved from what was entered since.       *)
ClearSettingsDirty(t) ==
  /\ jobs[t].step = "clear" /\ Unlocked
  /\ dirty' = FALSE
  /\ loaded' = FALSE
  /\ Goes(t, "get", Blank)
  /\ unlucky' = (unlucky \/ unsaved \notin {Blank, jobs[t].value})
  /\ UNCHANGED <<language, stored, config, field, typing, screen, edits, begun, unsaved>>

(* persistUILanguage sends the whole copy back with the new language; one  *)
(* that was never loaded has no other keys, and UpdateConfig leaves them.  *)
SwitchLanguage(t) ==
  /\ Starts(t) /\ Unlocked
  /\ IF language THEN NewValue /\ Goes(t, "language", edits')
                 ELSE Goes(t, "language", config) /\ UNCHANGED edits
  /\ UNCHANGED <<language, stored, config, form, screen, past>>

(* The answer puts the language into effect.                               *)
PutLanguage(t) ==
  /\ jobs[t].step = "language"
  /\ language => Unlocked
  /\ Goes(t, "idle", Blank)
  /\ \/ /\ stored' \in {stored} \cup ({jobs[t].value} \ {Blank})
        /\ field' = IF language THEN jobs[t].value ELSE field
        /\ config' = IF language /\ config # Blank THEN jobs[t].value ELSE config
     \/ UNCHANGED <<stored, field, config>>
  /\ UNCHANGED <<language, dirty, loaded, typing, screen, edits, begun, past>>

(* Another client of the API.                                              *)
OthersWrite ==
  /\ NewValue
  /\ stored' = edits'
  /\ UNCHANGED <<language, config, form, screen, jobs, begun, past>>

SettingsNext ==
  \/ \E t \in SettingsTasks :
       \/ Poll(t) \/ GetConfig(t) \/ StoreOverview(t)
       \/ SaveConfig(t) \/ PutConfig(t) \/ ClearSettingsDirty(t)
       \/ SwitchLanguage(t) \/ PutLanguage(t)
       \/ PickProxyUser(t) \/ ResumeTracking(t) \/ MarkSettingsDirty(t)
  \/ StartRefresh \/ RefreshSettings
  \/ SettingsChanged \/ ChooseLanguage \/ SetPickedText
  \/ MoveFocus
  \/ OthersWrite

SettingsSpec == SettingsInit /\ [][SettingsNext]_settingsVars

-----------------------------------------------------------------------------
(* What the user has entered stays in the form until it is stored,         *)
(* whatever polls, saves - failed ones, too - and language switches come   *)
(* back meanwhile and in whatever order (render_updates.go:66) - unless    *)
(*   - it is a language chosen in the drop-down (layout.go:173), which the *)
(*     next poll takes back (refresh.go:56);                               *)
(*   - it was entered before the form had been loaded, which it is not     *)
(*     from the end of a save to the refresh that follows;                 *)
(*   - it was the first change, entered while a button had the tracking    *)
(*     suspended (layout.go:546);                                          *)
(*   - a save of something else ended since: clearSettingsDirty            *)
(*     (render_updates.go:333) does not know the one edit from the other.  *)
UnsavedEditsSurvive == unsaved # Blank /\ ~unlucky => field = unsaved
=============================================================================
