-------------------------- MODULE ConsoleProofs --------------------------
(* The console: the settings form, and what becomes of a profile in a form. *)
EXTENDS SettingsForm, Links, ProfilesPage, Overlays, SeqLemmas

-----------------------------------------------------------------------------
(***************************************************************************)
(* What SettingsForm guarantees for any number of goroutines, edits and    *)
(* loads.  That the form still shows what was entered is not inductive: a  *)
(* refresh keeps its hands off only while both flags stand.  EditsHeld     *)
(* says that they do, and AnswersSettled and Known why the end of a save   *)
(* of the same value cannot take them away: by then the value is stored,   *)
(* and whatever is entered later is another one.                           *)
(***************************************************************************)

\* An edit the model answers for.
Held == unsaved # Blank /\ ~unlucky

EditsHeld == Held => dirty /\ loaded /\ field = unsaved /\ ~language

AnswersSettled ==
  \A t \in SettingsTasks :
    jobs[t].step = "clear" => unsaved = Blank \/ jobs[t].value # unsaved

\* Values that were entered up to now.
KnownValues == 0 .. edits \cup {Blank}

Known ==
  /\ {stored, config, field, unsaved} \subseteq KnownValues
  /\ \A t \in SettingsTasks : jobs[t].value \in KnownValues

SettingsInv ==
  SettingsTypeOK /\ Known /\ EditsHeld /\ AnswersSettled /\ (text => ~language)

JobsType == [SettingsTasks -> [step : JobSteps, value : Values \cup {Blank}]]

-----------------------------------------------------------------------------
\* The step of a goroutine sets its own entry and no other.
LEMMA GoesSets ==
  ASSUME SettingsTypeOK, NEW t \in SettingsTasks, NEW step \in JobSteps,
         NEW value \in Values \cup {Blank}, Goes(t, step, value)
  PROVE  /\ jobs' \in JobsType
         /\ jobs'[t] = [step |-> step, value |-> value]
         /\ \A u \in SettingsTasks \ {t} : jobs'[u] = jobs[u]
BY DEF SettingsTypeOK, Goes, JobsType

\* A step of a goroutine that enters nothing keeps AnswersSettled, unless it is
\* to clear the flags for a value that is not stored.
LEMMA AnswersKept ==
  ASSUME SettingsInv, NEW t \in SettingsTasks, NEW step \in JobSteps,
         NEW value \in Values \cup {Blank}, Goes(t, step, value),
         unsaved' \in {unsaved, Blank},
         step = "clear" => unsaved' = Blank \/ value # unsaved'
  PROVE  AnswersSettled'
<1>1. /\ jobs'[t] = [step |-> step, value |-> value]
      /\ \A u \in SettingsTasks \ {t} : jobs'[u] = jobs[u]
  BY GoesSets DEF SettingsInv
<1>2. ASSUME NEW u \in SettingsTasks, jobs'[u].step = "clear"
      PROVE  unsaved' = Blank \/ jobs'[u].value # unsaved'
  <2>1. CASE u = t
    BY <1>1, <1>2, <2>1
  <2>2. CASE u # t
    BY <1>1, <1>2, <2>2 DEF SettingsInv, AnswersSettled
  <2>3. QED
    BY <2>1, <2>2
<1>3. QED
  BY <1>2 DEF AnswersSettled

\* Values known once stay known.
LEMMA KnownGrows ==
  ASSUME SettingsTypeOK, SettingsValues, edits' = edits \/ NewValue
  PROVE  /\ KnownValues \subseteq KnownValues'
         /\ NewValue => edits' \in KnownValues' /\ edits' \notin KnownValues
                        /\ edits' \in Values /\ edits' # Blank
         /\ edits' \in Values
BY DEF SettingsTypeOK, SettingsValues, Values, KnownValues, NewValue

\* A step of a goroutine keeps the types and the values of all entries.
LEMMA JobsKept ==
  ASSUME SettingsInv, SettingsValues, NEW t \in SettingsTasks, NEW step \in JobSteps, NEW value,
         value \in KnownValues', Goes(t, step, value), edits' = edits \/ NewValue
  PROVE  jobs' \in JobsType /\ \A u \in SettingsTasks : jobs'[u].value \in KnownValues'
<1>1. KnownValues \subseteq KnownValues' /\ edits' \in Values
  BY KnownGrows DEF SettingsInv
<1>2. value \in Values \cup {Blank}
  BY <1>1, SettingsValues DEF KnownValues, Values
<1>3. /\ jobs' \in JobsType
      /\ jobs'[t] = [step |-> step, value |-> value]
      /\ \A u \in SettingsTasks \ {t} : jobs'[u] = jobs[u]
  BY <1>2, GoesSets DEF SettingsInv
<1>4. QED
  BY <1>1, <1>3 DEF SettingsInv, Known

-----------------------------------------------------------------------------
\* What every step does to the types and the known values of the variables that
\* hold values, the entries of the goroutines apart.
LEMMA FormTyped ==
  ASSUME SettingsInv, SettingsValues,
         {stored', config', field', unsaved'} \subseteq KnownValues',
         {dirty', loaded', typing', refill', suspended', text', unlucky', language'}
           \subseteq BOOLEAN,
         paint' \in {"off", "on", "stuck"},
         edits' = edits \/ NewValue, begun' = begun \/ begun' \in 0 .. MaxLoads,
         jobs' \in JobsType, \A u \in SettingsTasks : jobs'[u].value \in KnownValues'
  PROVE  SettingsTypeOK' /\ Known'
<1>1. edits' \in Values
  BY KnownGrows DEF SettingsInv
<1>2. {stored', config', field', unsaved'} \subseteq Values \cup {Blank}
  BY <1>1, SettingsValues DEF KnownValues, Values
<1>3. begun' \in 0 .. MaxLoads
  BY DEF SettingsInv, SettingsTypeOK
<1>4. SettingsTypeOK'
  BY <1>1, <1>2, <1>3 DEF SettingsTypeOK, JobsType
<1>5. QED
  BY <1>4 DEF Known

\* A step of a goroutine: the entry it makes next, and what it leaves alone.
LEMMA TasksTyped ==
  ASSUME SettingsInv, SettingsValues, NEW t \in SettingsTasks,
         \/ Poll(t) \/ GetConfig(t) \/ StoreOverview(t) \/ SaveConfig(t) \/ PutConfig(t)
         \/ ClearSettingsDirty(t) \/ SwitchLanguage(t) \/ PutLanguage(t)
         \/ PickProxyUser(t) \/ ResumeTracking(t) \/ MarkSettingsDirty(t)
  PROVE  SettingsTypeOK' /\ Known'
<1>0. /\ {stored, config, field, unsaved} \subseteq KnownValues
      /\ jobs[t].value \in KnownValues /\ Blank \in KnownValues /\ Blank \in KnownValues'
      /\ {dirty, loaded, typing, refill, suspended, text, unlucky, language} \subseteq BOOLEAN
      /\ paint \in {"off", "on", "stuck"}
  BY DEF SettingsInv, Known, KnownValues, SettingsTypeOK
<1>1. edits' = edits \/ NewValue
  BY DEF Poll, GetConfig, StoreOverview, SaveConfig, PutConfig, ClearSettingsDirty,
         SwitchLanguage, PutLanguage, PickProxyUser, ResumeTracking, MarkSettingsDirty, past,
         form, screen
<1>2. KnownValues \subseteq KnownValues' /\ (NewValue => edits' \in KnownValues')
  BY <1>1, KnownGrows DEF SettingsInv
<1>3. PICK step \in JobSteps, value \in KnownValues' : Goes(t, step, value)
  <2>1. CASE Poll(t)
    BY <1>0, <2>1 DEF Poll, JobSteps
  <2>2. CASE GetConfig(t)
    BY <1>0, <1>2, <2>2 DEF GetConfig, JobSteps
  <2>3. CASE StoreOverview(t) \/ ClearSettingsDirty(t) \/ PutLanguage(t) \/ PickProxyUser(t)
             \/ ResumeTracking(t) \/ MarkSettingsDirty(t)
    BY <1>0, <2>3 DEF StoreOverview, ClearSettingsDirty, PutLanguage, PickProxyUser,
                      ResumeTracking, MarkSettingsDirty, JobSteps
  <2>4. CASE SaveConfig(t)
    BY <1>0, <1>2, <2>4 DEF SaveConfig, JobSteps
  <2>5. CASE PutConfig(t)
    BY <1>0, <1>2, <2>5 DEF PutConfig, JobSteps
  <2>6. CASE SwitchLanguage(t)
    BY <1>0, <1>2, <2>6 DEF SwitchLanguage, JobSteps
  <2>7. QED
    BY <2>1, <2>2, <2>3, <2>4, <2>5, <2>6
<1>4. jobs' \in JobsType /\ \A u \in SettingsTasks : jobs'[u].value \in KnownValues'
  BY <1>1, <1>3, JobsKept
<1>5. begun' = begun \/ begun' \in 0 .. MaxLoads
  BY DEF Poll, GetConfig, StoreOverview, SaveConfig, PutConfig, ClearSettingsDirty,
         SwitchLanguage, PutLanguage, PickProxyUser, ResumeTracking, MarkSettingsDirty,
         Starts, SettingsInv, SettingsTypeOK
<1>6. {stored', config', field', unsaved'} \subseteq KnownValues'
  <2>1. CASE Poll(t) \/ SaveConfig(t) \/ SwitchLanguage(t) \/ PickProxyUser(t)
             \/ ResumeTracking(t) \/ ClearSettingsDirty(t) \/ MarkSettingsDirty(t)
    <3>1. UNCHANGED <<stored, config, field, unsaved>>
      BY <2>1 DEF Poll, SaveConfig, SwitchLanguage, PickProxyUser, ResumeTracking,
                  ClearSettingsDirty, MarkSettingsDirty, form, past
    <3>2. QED
      BY <1>0, <1>2, <3>1
  <2>2. CASE GetConfig(t)
    BY <1>0, <1>2, <2>2 DEF GetConfig, past
  <2>3. CASE StoreOverview(t)
    BY <1>0, <1>2, <2>3 DEF StoreOverview, past, form
  <2>4. CASE PutConfig(t)
    BY <1>0, <1>2, <2>4 DEF PutConfig, Answered, form
  <2>5. CASE PutLanguage(t)
    BY <1>0, <1>2, <2>5 DEF PutLanguage, past
  <2>6. QED
    BY <2>1, <2>2, <2>3, <2>4, <2>5
<1>7. /\ {dirty', loaded', typing', refill', suspended', text', unlucky', language'}
           \subseteq BOOLEAN
      /\ paint' \in {"off", "on", "stuck"}
  <2>1. CASE Poll(t) \/ SaveConfig(t) \/ SwitchLanguage(t) \/ GetConfig(t) \/ StoreOverview(t)
    BY <1>0, <2>1 DEF Poll, SaveConfig, SwitchLanguage, GetConfig, StoreOverview, form, past,
                      screen
  <2>2. CASE PutConfig(t) \/ PutLanguage(t)
    BY <1>0, <2>2 DEF PutConfig, PutLanguage, form, past, screen
  <2>3. CASE ClearSettingsDirty(t)
    BY <1>0, <2>3 DEF ClearSettingsDirty, screen
  <2>4. CASE PickProxyUser(t) \/ ResumeTracking(t) \/ MarkSettingsDirty(t)
    BY <1>0, <2>4 DEF PickProxyUser, ResumeTracking, MarkSettingsDirty, form, past
  <2>5. QED
    BY <2>1, <2>2, <2>3, <2>4
<1>8. QED
  BY <1>1, <1>4, <1>5, <1>6, <1>7, FormTyped

\* A step of the user, of the UI loop or of another client.
LEMMA LoopTyped ==
  ASSUME SettingsInv, SettingsValues,
         \/ StartRefresh \/ RefreshSettings \/ SettingsChanged \/ ChooseLanguage
         \/ SetPickedText \/ MoveFocus \/ OthersWrite \/ UNCHANGED settingsVars
  PROVE  SettingsTypeOK' /\ Known'
<1>0. /\ {stored, config, field, unsaved} \subseteq KnownValues /\ Blank \in KnownValues'
      /\ {dirty, loaded, typing, refill, suspended, text, unlucky, language} \subseteq BOOLEAN
      /\ paint \in {"off", "on", "stuck"}
  BY DEF SettingsInv, Known, KnownValues, SettingsTypeOK
<1>1. edits' = edits \/ NewValue
  BY DEF StartRefresh, RefreshSettings, SettingsChanged, ChooseLanguage, SetPickedText,
         MoveFocus, OthersWrite, Entered, settingsVars
<1>2. KnownValues \subseteq KnownValues' /\ (NewValue => edits' \in KnownValues')
  BY <1>1, KnownGrows DEF SettingsInv
<1>3. jobs' = jobs /\ begun' = begun
  BY DEF StartRefresh, RefreshSettings, SettingsChanged, ChooseLanguage, SetPickedText,
         MoveFocus, OthersWrite, settingsVars
<1>4. jobs' \in JobsType /\ \A u \in SettingsTasks : jobs'[u].value \in KnownValues'
  BY <1>2, <1>3 DEF SettingsInv, SettingsTypeOK, JobsType, Known
<1>5. {stored', config', field', unsaved'} \subseteq KnownValues'
  <2>1. CASE StartRefresh \/ MoveFocus \/ UNCHANGED settingsVars
    BY <1>0, <1>2, <2>1 DEF StartRefresh, MoveFocus, settingsVars, form, past
  <2>2. CASE RefreshSettings
    BY <1>0, <1>2, <2>2 DEF RefreshSettings, past
  <2>3. CASE SettingsChanged \/ SetPickedText
    BY <1>0, <1>2, <2>3 DEF SettingsChanged, SetPickedText, Entered
  <2>4. CASE ChooseLanguage
    BY <1>0, <1>2, <2>4 DEF ChooseLanguage
  <2>5. CASE OthersWrite
    BY <1>0, <1>2, <2>5 DEF OthersWrite, form, past
  <2>6. QED
    BY <2>1, <2>2, <2>3, <2>4, <2>5
<1>6. /\ {dirty', loaded', typing', refill', suspended', text', unlucky', language'}
           \subseteq BOOLEAN
      /\ paint' \in {"off", "on", "stuck"}
  <2>1. CASE StartRefresh \/ MoveFocus \/ OthersWrite \/ UNCHANGED settingsVars
    BY <1>0, <2>1 DEF StartRefresh, MoveFocus, OthersWrite, settingsVars, form, past, screen
  <2>2. CASE RefreshSettings
    BY <1>0, <2>2 DEF RefreshSettings, Fills, past
  <2>3. CASE SettingsChanged
    BY <1>0, <2>3 DEF SettingsChanged, Entered
  <2>4. CASE SetPickedText
    BY <1>0, <2>4 DEF SetPickedText, Entered
  <2>5. CASE ChooseLanguage
    BY <1>0, <2>5 DEF ChooseLanguage, screen
  <2>6. QED
    BY <2>1, <2>2, <2>3, <2>4, <2>5
<1>7. QED
  BY <1>1, <1>3, <1>4, <1>5, <1>6, FormTyped

-----------------------------------------------------------------------------
\* A step that enters nothing, or enters it where the flags keep it.
HeldOn == EditsHeld' /\ AnswersSettled' /\ (text => ~language)'

\* Only the clearing after a save of another value could take a held edit from
\* the form - and it makes the edit one nothing keeps.
LEMMA TasksHold ==
  ASSUME SettingsInv, SettingsValues, NEW t \in SettingsTasks,
         \/ Poll(t) \/ GetConfig(t) \/ StoreOverview(t) \/ SaveConfig(t) \/ PutConfig(t)
         \/ ClearSettingsDirty(t) \/ SwitchLanguage(t) \/ PutLanguage(t)
         \/ PickProxyUser(t) \/ ResumeTracking(t) \/ MarkSettingsDirty(t)
  PROVE  HeldOn
<1>0. /\ {stored, config, field, unsaved, Blank} \subseteq Values \cup {Blank}
      /\ jobs[t].value \in Values \cup {Blank}
      /\ EditsHeld /\ AnswersSettled /\ (text => ~language)
  BY DEF SettingsInv, SettingsTypeOK
<1>1. ASSUME Poll(t) \/ SaveConfig(t) \/ SwitchLanguage(t) \/ PickProxyUser(t)
             \/ ResumeTracking(t) \/ MarkSettingsDirty(t) \/ StoreOverview(t)
      PROVE  HeldOn
  <2>1. UNCHANGED <<language, field, loaded, unsaved, unlucky>> /\ dirty' \in {dirty, TRUE}
    BY <1>1 DEF Poll, SaveConfig, SwitchLanguage, PickProxyUser, ResumeTracking,
                MarkSettingsDirty, StoreOverview, form, past
  <2>2. EditsHeld'
    BY <1>0, <2>1 DEF EditsHeld, Held
  <2>3. PICK step \in JobSteps \ {"clear"}, value \in Values \cup {Blank} : Goes(t, step, value)
    <3>1. CASE SwitchLanguage(t)
      <4>1. NewValue => edits' \in Values
        BY KnownGrows DEF SettingsInv
      <4>2. QED
        BY <1>0, <3>1, <4>1 DEF SwitchLanguage, JobSteps
    <3>2. CASE ~SwitchLanguage(t)
      BY <1>0, <1>1, <3>2 DEF Poll, SaveConfig, PickProxyUser, ResumeTracking,
                              MarkSettingsDirty, StoreOverview, JobSteps
    <3>3. QED
      BY <3>1, <3>2
  <2>4. AnswersSettled'
    BY <2>1, <2>3, AnswersKept
  <2>5. (text => ~language)'
    BY <1>0, <1>1 DEF Poll, SaveConfig, SwitchLanguage, PickProxyUser, ResumeTracking,
                      MarkSettingsDirty, StoreOverview, screen
  <2>6. QED
    BY <2>2, <2>4, <2>5 DEF HeldOn
<1>2. ASSUME GetConfig(t) \/ PutLanguage(t) PROVE HeldOn
  <2>1. UNCHANGED <<language, dirty, loaded, unsaved, unlucky, text>>
    BY <1>2 DEF GetConfig, PutLanguage, past, screen
  <2>2. ~language => field' = field
    BY <1>2 DEF GetConfig, PutLanguage
  <2>3. EditsHeld'
    BY <1>0, <2>1, <2>2 DEF EditsHeld, Held
  <2>4. PICK step \in JobSteps \ {"clear"}, value \in Values \cup {Blank} : Goes(t, step, value)
    BY <1>0, <1>2 DEF GetConfig, PutLanguage, JobSteps
  <2>5. AnswersSettled'
    BY <2>1, <2>4, AnswersKept
  <2>6. QED
    BY <1>0, <2>1, <2>3, <2>5 DEF HeldOn
<1>3. ASSUME PutConfig(t) PROVE HeldOn
  <2>1. /\ UNCHANGED <<language, field, dirty, loaded, unlucky, text>>
        /\ unsaved' \in {unsaved, Blank}
    BY <1>3 DEF PutConfig, Answered, form, screen
  <2>2. EditsHeld'
    BY <1>0, <2>1 DEF EditsHeld, Held
  <2>3. AnswersSettled'
    <3>1. CASE Goes(t, "clear", jobs[t].value) /\ Answered(jobs[t].value)
      <4>1. unsaved' = Blank \/ jobs[t].value # unsaved'
        BY <3>1 DEF Answered
      <4>2. QED
        BY <1>0, <2>1, <3>1, <4>1, AnswersKept DEF JobSteps
    <3>2. CASE Goes(t, "idle", Blank)
      BY <1>0, <2>1, <3>2, AnswersKept DEF JobSteps
    <3>3. QED
      BY <1>3, <3>1, <3>2 DEF PutConfig
  <2>4. QED
    BY <1>0, <2>1, <2>2, <2>3 DEF HeldOn
<1>4. ASSUME ClearSettingsDirty(t) PROVE HeldOn
  <2>1. /\ UNCHANGED <<language, unsaved, text>>
        /\ unlucky' = (unlucky \/ unsaved \notin {Blank, jobs[t].value})
        /\ Goes(t, "get", Blank) /\ jobs[t].step = "clear"
    BY <1>4 DEF ClearSettingsDirty, screen
  <2>2. unsaved # Blank => unlucky'
    BY <1>0, <2>1 DEF AnswersSettled
  <2>3. EditsHeld'
    BY <2>1, <2>2 DEF EditsHeld, Held
  <2>4. AnswersSettled'
    BY <1>0, <2>1, AnswersKept DEF JobSteps
  <2>5. QED
    BY <1>0, <2>1, <2>3, <2>4 DEF HeldOn
<1>5. QED
  BY <1>1, <1>2, <1>3, <1>4

\* What is entered is a value no save has sent; a refresh finds both flags set.
LEMMA LoopHolds ==
  ASSUME SettingsInv, SettingsValues,
         \/ StartRefresh \/ RefreshSettings \/ SettingsChanged \/ ChooseLanguage
         \/ SetPickedText \/ MoveFocus \/ OthersWrite \/ UNCHANGED settingsVars
  PROVE  HeldOn
<1>0. EditsHeld /\ AnswersSettled /\ (text => ~language)
  BY DEF SettingsInv
<1>1. ASSUME StartRefresh \/ MoveFocus \/ OthersWrite \/ UNCHANGED settingsVars
      PROVE  HeldOn
  <2>1. UNCHANGED <<language, field, dirty, loaded, unsaved, unlucky, jobs, text>>
    BY <1>1 DEF StartRefresh, MoveFocus, OthersWrite, settingsVars, form, past, screen
  <2>2. QED
    BY <1>0, <2>1 DEF HeldOn, EditsHeld, Held, AnswersSettled
<1>2. ASSUME RefreshSettings PROVE HeldOn
  <2>1. UNCHANGED <<language, dirty, unsaved, unlucky, jobs, text>>
    BY <1>2 DEF RefreshSettings, past
  <2>2. dirty /\ loaded => field' = field /\ loaded' = loaded
    BY <1>2 DEF RefreshSettings, Fills, SettingsInv, SettingsTypeOK
  <2>3. QED
    BY <1>0, <2>1, <2>2 DEF HeldOn, EditsHeld, Held, AnswersSettled
<1>3. ASSUME SettingsChanged \/ SetPickedText PROVE HeldOn
  <2>1. /\ UNCHANGED <<language, loaded, jobs>> /\ NewValue /\ ~language
        /\ field' = edits' /\ unsaved' = edits'
        /\ unlucky' = ~(loaded /\ dirty') /\ dirty' \in BOOLEAN
    BY <1>0, <1>3 DEF SettingsChanged, SetPickedText, Entered, SettingsInv, SettingsTypeOK
  <2>2. EditsHeld'
    BY <2>1 DEF EditsHeld, Held
  <2>3. edits' \notin KnownValues
    BY <2>1, KnownGrows DEF SettingsInv
  <2>4. AnswersSettled'
    BY <2>1, <2>3 DEF AnswersSettled, SettingsInv, Known
  <2>5. QED
    BY <2>1, <2>2, <2>4 DEF HeldOn
<1>4. ASSUME ChooseLanguage PROVE HeldOn
  <2>1. /\ UNCHANGED <<language, jobs, text>> /\ NewValue
        /\ unsaved' = edits' /\ unlucky' = TRUE
    BY <1>4 DEF ChooseLanguage, screen
  <2>2. edits' \notin KnownValues
    BY <2>1, KnownGrows DEF SettingsInv
  <2>3. AnswersSettled'
    BY <2>1, <2>2 DEF AnswersSettled, SettingsInv, Known
  <2>4. EditsHeld'
    BY <2>1 DEF EditsHeld, Held
  <2>5. QED
    BY <1>0, <2>1, <2>3, <2>4 DEF HeldOn
<1>5. QED
  BY <1>1, <1>2, <1>3, <1>4

-----------------------------------------------------------------------------
\* The inductive invariant, for every set of goroutines and every bound.
THEOREM SettingsInvariant == SettingsSpec => []SettingsInv
<1>1. SettingsInit => SettingsInv
  <2> SUFFICES ASSUME SettingsInit PROVE SettingsInv
    OBVIOUS
  <2>1. {stored, config, field, unsaved} \subseteq Values \cup {Blank}
    BY SettingsValues DEF SettingsInit, Values
  <2>2. edits \in Values /\ begun \in 0 .. MaxLoads
    BY SettingsValues DEF SettingsInit, Values
  <2>3. jobs \in [SettingsTasks -> [step : JobSteps, value : Values \cup {Blank}]]
    BY DEF SettingsInit, Resting, JobSteps
  <2>4. /\ {language, dirty, loaded, typing, refill, suspended, text, unlucky} \subseteq BOOLEAN
        /\ paint \in {"off", "on", "stuck"}
    BY DEF SettingsInit
  <2>5. Known
    BY SettingsValues DEF SettingsInit, Known, KnownValues, Resting
  <2>6. EditsHeld /\ AnswersSettled /\ (text => ~language)
    BY DEF SettingsInit, EditsHeld, Held, AnswersSettled, Resting
  <2>7. QED
    BY <2>1, <2>2, <2>3, <2>4, <2>5, <2>6 DEF SettingsInv, SettingsTypeOK
<1>2. SettingsInv /\ [SettingsNext]_settingsVars => SettingsInv'
  <2> SUFFICES ASSUME SettingsInv, [SettingsNext]_settingsVars PROVE SettingsInv'
    OBVIOUS
  <2>1. CASE \E t \in SettingsTasks :
               \/ Poll(t) \/ GetConfig(t) \/ StoreOverview(t) \/ SaveConfig(t) \/ PutConfig(t)
               \/ ClearSettingsDirty(t) \/ SwitchLanguage(t) \/ PutLanguage(t)
               \/ PickProxyUser(t) \/ ResumeTracking(t) \/ MarkSettingsDirty(t)
    BY <2>1, SettingsValues, TasksTyped, TasksHold DEF SettingsInv, HeldOn
  <2>2. CASE \/ StartRefresh \/ RefreshSettings \/ SettingsChanged \/ ChooseLanguage
             \/ SetPickedText \/ MoveFocus \/ OthersWrite \/ UNCHANGED settingsVars
    BY <2>2, SettingsValues, LoopTyped, LoopHolds DEF SettingsInv, HeldOn
  <2>3. QED
    BY <2>1, <2>2 DEF SettingsNext
<1>3. QED
  BY <1>1, <1>2, PTL DEF SettingsSpec

\* What the user enters in a loaded form and the form is marked for stays in it
\* until it is stored or a save of something else ends: no poll, no failed save,
\* no switch of the language and no order among them puts the stored value over
\* it (refreshWidgetsWithLists, markSettingsDirty, clearSettingsDirty).
THEOREM EditsSurvive == SettingsSpec => []UnsavedEditsSurvive
<1>1. SettingsInv => UnsavedEditsSurvive
  BY DEF SettingsInv, EditsHeld, Held, UnsavedEditsSurvive
<1>2. QED
  BY <1>1, SettingsInvariant, PTL

-----------------------------------------------------------------------------
(***************************************************************************)
(* What Links guarantees for any number of saves.  The outbound alone says *)
(* too little to be inductive: a profile without TLS says nothing of its   *)
(* server name, and the next save of the form may turn TLS on.  Agreement  *)
(* compares the profile itself with what was asked for, in the fields its  *)
(* protocol uses.                                                          *)
(***************************************************************************)

LinkProtocols == Streamed \cup Quic \cup {"shadowsocks"}

Transports ==
  [net : Networks, tls : BOOLEAN, skip : BOOLEAN, sni : {"none", "named", "address"},
   key : BOOLEAN, path : {"none", "ws", "grpc", "h2"}]

Wishes ==
  [security : Security, name : {"named", "address"}, insecure : BOOLEAN, path : BOOLEAN]

TransportAgrees ==
  LET t == server.transport
  IN  /\ wanted.security = IF t.key THEN "reality" ELSE IF t.tls THEN "tls" ELSE "none"
      /\ wanted.name = ServerName(t.sni)
      /\ (wanted.insecure <=> t.skip)
      /\ wanted.path => t.path = PathField(t.net)

OwnAgrees ==
  /\ wanted.security = "tls"
  /\ wanted.name = ServerName(server.own.sni)
  /\ (wanted.insecure <=> server.own.insecure)

PlainAgrees == wanted.security = "none" /\ ~wanted.insecure /\ ~server.own.insecure

Agreement ==
  /\ server.proto \in Streamed => TransportAgrees
  /\ server.proto \in Quic => OwnAgrees
  /\ server.proto = "shadowsocks" => PlainAgrees

LinksInv == LinksTypeOK /\ wanted \in Wishes /\ Agreement

-----------------------------------------------------------------------------
\* What a link has, by its protocol.
LEMMA LinkFields ==
  ASSUME NEW l \in ShareLinks
  PROVE  /\ l.proto \in LinkProtocols /\ l.net \in Networks /\ l.sec \in Security
         /\ l.sni \in {"none", "named"} /\ l.insecure \in BOOLEAN /\ l.key \in BOOLEAN
BY DEF ShareLinks, LinkProtocols, Streamed, Quic, Networks, Security

\* What a link asks for, by its protocol.
LEMMA AskedByProtocol ==
  ASSUME NEW l \in ShareLinks
  PROVE  /\ AskedSecurity(l) \in Security
         /\ l.proto \in {"trojan", "hysteria2", "tuic"} => AskedSecurity(l) = "tls"
         /\ l.proto = "shadowsocks" => AskedSecurity(l) = "none"
         /\ l.proto = "vmess" => AskedSecurity(l) = IF l.sec = "tls" THEN "tls" ELSE "none"
         /\ l.proto = "vless" =>
              AskedSecurity(l) = IF l.sec = "reality" /\ l.key THEN "reality"
                                 ELSE IF l.sec = "none" THEN "none" ELSE "tls"
<1>1. CASE l.proto \in {"trojan", "hysteria2", "tuic"}
  BY <1>1 DEF AskedSecurity, AsksTLS, Quic, Security
<1>2. CASE l.proto = "shadowsocks"
  BY <1>2 DEF AskedSecurity, AsksTLS, Quic, Security, ShareLinks, Streamed
<1>3. CASE l.proto = "vmess"
  BY <1>3, LinkFields DEF AskedSecurity, AsksTLS, Quic, Security
<1>4. CASE l.proto = "vless"
  BY <1>4, LinkFields DEF AskedSecurity, AsksTLS, Quic, Security
<1>5. QED
  BY <1>1, <1>2, <1>3, <1>4, LinkFields DEF LinkProtocols, Streamed, Quic

\* The four wishes, and their types.
LEMMA AskedFields ==
  ASSUME NEW l \in ShareLinks
  PROVE  /\ Asks(l) \in Wishes
         /\ Asks(l).security = AskedSecurity(l)
         /\ Asks(l).name = ServerName(IF AskedSecurity(l) = "none" THEN "none" ELSE l.sni)
         /\ Asks(l).insecure <=> l.insecure /\ AsksTLS(l)
         /\ Asks(l).path <=> (l.proto \in Streamed => l.net \in PathRead(l.proto) \cup {"tcp"})
<1> DEFINE name == ServerName(IF AskedSecurity(l) = "none" THEN "none" ELSE l.sni)
           insecure == l.insecure /\ AsksTLS(l)
           path == l.proto \in Streamed => l.net \in PathRead(l.proto) \cup {"tcp"}
<1>1. name \in {"named", "address"}
  BY LinkFields DEF ServerName
<1>2. insecure \in BOOLEAN /\ path \in BOOLEAN
  OBVIOUS
<1>3. Asks(l) = [security |-> AskedSecurity(l), name |-> name, insecure |-> insecure,
                 path |-> path]
  BY DEF Asks
<1> HIDE DEF name, insecure, path
<1>4. /\ Asks(l).security = AskedSecurity(l) /\ Asks(l).name = name
      /\ Asks(l).insecure = insecure /\ Asks(l).path = path
  BY <1>3
<1>5. Asks(l) \in Wishes
  BY <1>1, <1>2, <1>3, AskedByProtocol DEF Wishes
<1>6. QED
  BY <1>4, <1>5 DEF name, insecure, path

\* A path that is read ends up where the generator looks for it.
LEMMA PathArrives ==
  ASSUME NEW l \in ShareLinks, l.proto \in Streamed
  PROVE  /\ ParsedPath(l) \in {"none", "ws", "grpc", "h2"}
         /\ Asks(l).path => ParsedPath(l) = PathField(l.net)
<1>1. PathField(l.net) \in {"none", "ws", "grpc", "h2"} /\ PathField("tcp") = "none"
  BY LinkFields DEF PathField, Networks
<1>2. ParsedPath(l) \in {PathField(l.net), "none"}
  BY DEF ParsedPath
<1>3. l.net \in PathRead(l.proto) => ParsedPath(l) = PathField(l.net)
  BY DEF ParsedPath
<1>4. "tcp" \notin PathRead(l.proto)
  BY DEF PathRead, Streamed
<1>5. QED
  BY <1>1, <1>2, <1>3, <1>4, AskedFields DEF ParsedPath

\* The profile a parser stores agrees with its link.
LEMMA ParsedAgrees ==
  ASSUME NEW l \in ShareLinks, server' = ParseProfile(l), wanted' = Asks(l)
  PROVE  /\ server' \in [proto : LinkProtocols, transport : Transports,
                         own : [sni : {"none", "named"}, insecure : BOOLEAN]]
         /\ wanted' \in Wishes
         /\ Agreement'
<1>1. wanted' \in Wishes
  BY AskedFields
<1>2. CASE l.proto = "vmess"
  <2>1. /\ server'.proto = "vmess" /\ server'.transport = ParseVMess(l)
        /\ server' \in [proto : LinkProtocols, transport : {ParseVMess(l)},
                        own : [sni : {"none", "named"}, insecure : BOOLEAN]]
    BY <1>2 DEF ParseProfile, LinkProtocols, Streamed, Quic
  <2>2. ParseVMess(l) \in Transports
    BY <1>2, LinkFields, PathArrives DEF ParseVMess, Transports, Streamed
  <2>3. TransportAgrees'
    <3>1. wanted'.security = IF ParseVMess(l).key THEN "reality"
                             ELSE IF ParseVMess(l).tls THEN "tls" ELSE "none"
      <4>1. ~ParseVMess(l).key /\ (ParseVMess(l).tls <=> l.sec = "tls")
        BY DEF ParseVMess
      <4>2. QED
        BY <1>2, <4>1, AskedFields, AskedByProtocol
    <3>2. wanted'.name = ServerName(ParseVMess(l).sni)
      BY <1>2, LinkFields, AskedFields, AskedByProtocol DEF ParseVMess, ServerName
    <3>3. wanted'.insecure <=> ParseVMess(l).skip
      BY <1>2, LinkFields, AskedFields DEF ParseVMess, AsksTLS, Quic
    <3>4. wanted'.path => ParseVMess(l).path = PathField(ParseVMess(l).net)
      BY <1>2, PathArrives DEF ParseVMess, Streamed
    <3>5. QED
      BY <2>1, <3>1, <3>2, <3>3, <3>4 DEF TransportAgrees
  <2>4. QED
    BY <1>1, <2>1, <2>2, <2>3 DEF Agreement, Quic
<1>3. CASE l.proto = "vless"
  <2>1. /\ server'.proto = "vless" /\ server'.transport = ParseVLESS(l)
        /\ server' \in [proto : LinkProtocols, transport : {ParseVLESS(l)},
                        own : [sni : {"none", "named"}, insecure : BOOLEAN]]
    BY <1>3 DEF ParseProfile, LinkProtocols, Streamed, Quic
  <2>2. ParseVLESS(l) \in Transports
    BY <1>3, LinkFields, PathArrives DEF ParseVLESS, Transports, Streamed, Networks
  <2>3. PathField(ParseVLESS(l).net) = PathField(l.net)
    BY DEF ParseVLESS, PathField
  <2>4. TransportAgrees'
    <3>1. wanted'.security = IF ParseVLESS(l).key THEN "reality"
                             ELSE IF ParseVLESS(l).tls THEN "tls" ELSE "none"
      <4>1. /\ ParseVLESS(l).key <=> l.sec = "reality" /\ l.key
            /\ ParseVLESS(l).tls <=> l.sec # "none"
        BY DEF ParseVLESS
      <4>2. QED
        BY <1>3, <4>1, AskedFields, AskedByProtocol
    <3>2. wanted'.name = ServerName(ParseVLESS(l).sni)
      BY <1>3, LinkFields, AskedFields, AskedByProtocol DEF ParseVLESS, ServerName
    <3>3. wanted'.insecure <=> ParseVLESS(l).skip
      BY <1>3, LinkFields, AskedFields DEF ParseVLESS, AsksTLS, Quic
    <3>4. wanted'.path => ParseVLESS(l).path = PathField(ParseVLESS(l).net)
      BY <1>3, <2>3, PathArrives DEF ParseVLESS, Streamed
    <3>5. QED
      BY <2>1, <3>1, <3>2, <3>3, <3>4 DEF TransportAgrees
  <2>5. QED
    BY <1>1, <2>1, <2>2, <2>4 DEF Agreement, Quic
<1>4. CASE l.proto = "trojan"
  <2>1. /\ server'.proto = "trojan" /\ server'.transport = ParseTrojan(l)
        /\ server' \in [proto : LinkProtocols, transport : {ParseTrojan(l)},
                        own : [sni : {"none", "named"}, insecure : BOOLEAN]]
    BY <1>4 DEF ParseProfile, LinkProtocols, Streamed, Quic
  <2>2. ParseTrojan(l) \in Transports
    BY <1>4, LinkFields, PathArrives DEF ParseTrojan, Transports, Streamed
  <2>3. TransportAgrees'
    BY <1>4, <2>1, LinkFields, PathArrives, AskedFields, AskedByProtocol
    DEF TransportAgrees, ParseTrojan, Streamed, Security, AsksTLS, Quic, ServerName
  <2>4. QED
    BY <1>1, <2>1, <2>2, <2>3 DEF Agreement, Quic
<1>5. NoTransport \in Transports
  BY DEF NoTransport, Transports, Networks
<1>6. CASE l.proto \in Quic
  <2>1. server' = [proto |-> l.proto, own |-> [sni |-> l.sni, insecure |-> l.insecure],
                   transport |-> NoTransport]
    BY <1>6 DEF ParseProfile, ParseHysteria2, Quic
  <2>2. OwnAgrees'
    BY <1>6, <2>1, AskedFields, AskedByProtocol DEF OwnAgrees, AsksTLS, Quic
  <2>3. QED
    BY <1>1, <1>5, <1>6, <2>1, <2>2, LinkFields DEF Agreement, Streamed, Quic
<1>7. CASE l.proto = "shadowsocks"
  <2>1. server' = [proto |-> l.proto, own |-> [sni |-> "none", insecure |-> FALSE],
                   transport |-> NoTransport]
    BY <1>7 DEF ParseProfile, Quic
  <2>2. PlainAgrees'
    BY <1>7, <2>1, AskedFields, AskedByProtocol DEF PlainAgrees, AsksTLS, Quic
  <2>3. QED
    BY <1>1, <1>5, <1>7, <2>1, <2>2, LinkFields DEF Agreement, Streamed, Quic
<1>8. QED
  BY <1>2, <1>3, <1>4, <1>6, <1>7, LinkFields DEF LinkProtocols, Streamed
-----------------------------------------------------------------------------
\* What a save of the form leaves of the profile, with whatever it changed.
LEMMA WrittenFields ==
  ASSUME LinksTypeOK, NEW f, server' = Saved(server, f)
  PROVE  /\ server' = [proto |-> server.proto,
                      own |-> IF server.proto \in Quic
                              THEN [sni |-> f.ownSni, insecure |-> f.ownInsecure]
                              ELSE server.own,
                      transport |-> [net |-> f.net, tls |-> f.tls, sni |-> f.sni,
                                     skip |-> f.skip, key |-> f.key, path |-> f.path]]
BY DEF LinksTypeOK, Saved, Written

\* What the form shows is the profile.
LEMMA FormFields ==
  ASSUME LinksTypeOK
  PROVE  LET f == FormOf(server)
             t == server.transport
         IN  /\ f \in [net : Networks, tls : BOOLEAN, skip : BOOLEAN,
                       sni : {"none", "named", "address"}, key : BOOLEAN,
                       path : {"none", "ws", "grpc", "h2"}, ownSni : {"none", "named"},
                       ownInsecure : BOOLEAN]
             /\ f.net = t.net /\ f.tls = t.tls /\ f.skip = t.skip /\ f.sni = t.sni
             /\ f.key = t.key /\ f.path = t.path
             /\ f.ownSni = server.own.sni /\ f.ownInsecure = server.own.insecure
BY DEF LinksTypeOK, FormOf

\* Saving the form as it is, or with one switch changed, keeps the agreement
\* with what the user asked for by it.
LEMMA SaveUnchangedKeeps ==
  ASSUME LinksInv, SaveUnchanged
  PROVE  LinksInv'
<1>1. saves' \in 0 .. MaxFormSaves /\ skipAll' = skipAll /\ wanted' = wanted
  BY FormSavesBound DEF SaveUnchanged, FormSaves, LinksInv, LinksTypeOK
<1>2. server' = server
  BY WrittenFields, FormFields DEF SaveUnchanged, LinksInv, LinksTypeOK
<1>3. QED
  BY <1>1, <1>2
  DEF LinksInv, LinksTypeOK, Agreement, TransportAgrees, OwnAgrees, PlainAgrees

\* The switch of TLS: security follows it, unless there is a key of reality.
LEMMA SaveTLSKeeps ==
  ASSUME LinksInv, NEW on \in BOOLEAN, SaveTLS(on)
  PROVE  LinksInv'
<1> DEFINE t == server.transport
<1>1. saves' \in 0 .. MaxFormSaves /\ skipAll' = skipAll
  BY FormSavesBound DEF SaveTLS, FormSaves, LinksInv, LinksTypeOK
<1>2. server' = [server EXCEPT !.transport = [t EXCEPT !.tls = on]]
  BY WrittenFields, FormFields DEF SaveTLS, LinksInv, LinksTypeOK
<1>3. LinksTypeOK'
  BY <1>1, <1>2 DEF LinksInv, LinksTypeOK
<1>4. /\ server'.proto = server.proto /\ server'.own = server.own
      /\ server'.transport = [t EXCEPT !.tls = on]
  BY <1>2 DEF LinksInv, LinksTypeOK
<1>5. CASE server.proto \notin Streamed \/ wanted.security = "reality"
  <2>1. wanted' = wanted
    BY <1>5 DEF SaveTLS
  <2>2. server.proto \in Streamed => t.key
    BY <1>5 DEF LinksInv, Agreement, TransportAgrees
  <2>3. QED
    BY <1>3, <1>4, <2>1, <2>2
    DEF LinksInv, LinksTypeOK, Agreement, TransportAgrees, OwnAgrees, PlainAgrees
<1>6. CASE server.proto \in Streamed /\ wanted.security # "reality"
  <2>1. wanted' = [wanted EXCEPT !.security = IF on THEN "tls" ELSE "none"]
    BY <1>6 DEF SaveTLS
  <2>2. wanted' \in Wishes
    BY <2>1 DEF LinksInv, Wishes, Security
  <2>3. ~t.key
    BY <1>6 DEF LinksInv, Agreement, TransportAgrees
  <2>4. TransportAgrees'
    BY <1>4, <1>6, <2>1, <2>3 DEF LinksInv, LinksTypeOK, Wishes, Agreement, TransportAgrees
  <2>5. QED
    BY <1>3, <1>4, <1>6, <2>2, <2>4 DEF LinksInv, Agreement, Streamed, Quic
<1>7. QED
  BY <1>5, <1>6

\* The switch of the transport's verification: verification follows it.
LEMMA SaveSkipCertKeeps ==
  ASSUME LinksInv, NEW on \in BOOLEAN, SaveSkipCert(on)
  PROVE  LinksInv'
<1> DEFINE t == server.transport
<1>1. saves' \in 0 .. MaxFormSaves /\ skipAll' = skipAll
  BY FormSavesBound DEF SaveSkipCert, FormSaves, LinksInv, LinksTypeOK
<1>2. server' = [server EXCEPT !.transport = [t EXCEPT !.skip = on]]
  BY WrittenFields, FormFields DEF SaveSkipCert, LinksInv, LinksTypeOK
<1>3. LinksTypeOK'
  BY <1>1, <1>2 DEF LinksInv, LinksTypeOK
<1>4. /\ server'.proto = server.proto /\ server'.own = server.own
      /\ server'.transport = [t EXCEPT !.skip = on]
  BY <1>2 DEF LinksInv, LinksTypeOK
<1>5. CASE server.proto \notin Streamed
  <2>1. wanted' = wanted
    BY <1>5 DEF SaveSkipCert
  <2>2. QED
    BY <1>3, <1>4, <1>5, <2>1 DEF LinksInv, Agreement, OwnAgrees, PlainAgrees
<1>6. CASE server.proto \in Streamed
  <2>1. wanted' = [wanted EXCEPT !.insecure = on]
    BY <1>6 DEF SaveSkipCert
  <2>2. wanted' \in Wishes
    BY <2>1 DEF LinksInv, Wishes
  <2>3. TransportAgrees'
    BY <1>4, <1>6, <2>1 DEF LinksInv, LinksTypeOK, Wishes, Agreement, TransportAgrees
  <2>4. QED
    BY <1>3, <1>4, <1>6, <2>2, <2>3 DEF LinksInv, Agreement, Streamed, Quic
<1>7. QED
  BY <1>5, <1>6

\* And that of the protocols with TLS of their own.
LEMMA SaveInsecureKeeps ==
  ASSUME LinksInv, NEW on \in BOOLEAN, SaveInsecure(on)
  PROVE  LinksInv'
<1>1. saves' \in 0 .. MaxFormSaves /\ skipAll' = skipAll
  BY FormSavesBound DEF SaveInsecure, FormSaves, LinksInv, LinksTypeOK
<1>2. CASE server.proto \notin Quic
  <2>1. server' = server /\ wanted' = wanted
    BY <1>2, WrittenFields, FormFields DEF SaveInsecure, LinksInv, LinksTypeOK
  <2>2. QED
    BY <1>1, <2>1
    DEF LinksInv, LinksTypeOK, Agreement, TransportAgrees, OwnAgrees, PlainAgrees
<1>3. CASE server.proto \in Quic
  <2>1. server' = [server EXCEPT !.own = [server.own EXCEPT !.insecure = on]]
    BY <1>3, WrittenFields, FormFields DEF SaveInsecure, LinksInv, LinksTypeOK
  <2>2. wanted' = [wanted EXCEPT !.insecure = on] /\ wanted' \in Wishes
    BY <1>3 DEF SaveInsecure, LinksInv, Wishes
  <2>3. LinksTypeOK'
    BY <1>1, <2>1 DEF LinksInv, LinksTypeOK
  <2>4. server'.proto = server.proto /\ OwnAgrees'
    BY <1>3, <2>1, <2>2 DEF LinksInv, LinksTypeOK, Wishes, Agreement, OwnAgrees
  <2>5. QED
    BY <1>3, <2>2, <2>3, <2>4 DEF LinksInv, Agreement, Streamed, Quic
<1>4. QED
  BY <1>2, <1>3

-----------------------------------------------------------------------------
\* The profile agrees with what was asked for in every state.
THEOREM LinksInvariant == LinksSpec => []LinksInv
<1>1. Unlinked \in ShareLinks
  BY DEF Unlinked, ShareLinks, Quic
<1>2. LinksInit => LinksInv
  <2> SUFFICES ASSUME LinksInit PROVE LinksInv
    OBVIOUS
  <2>1. server = [proto |-> "shadowsocks", own |-> [sni |-> "none", insecure |-> FALSE],
                  transport |-> NoTransport]
    BY DEF LinksInit, Unlinked, ParseProfile, Quic
  <2>2. NoTransport \in Transports
    BY DEF NoTransport, Transports, Networks
  <2>3. LinksTypeOK
    <3>1. server \in [proto : Streamed \cup Quic \cup {"shadowsocks"},
                      own : [sni : {"none", "named"}, insecure : BOOLEAN],
                      transport : Transports]
      BY <2>1, <2>2
    <3>2. skipAll \in BOOLEAN
      BY DEF LinksInit
    <3>3. saves \in 0 .. MaxFormSaves
      <4>1. saves = MaxFormSaves
        BY DEF LinksInit
      <4>2. QED
        BY <4>1, FormSavesBound
    <3>4. QED
      BY <3>1, <3>2, <3>3 DEF LinksTypeOK, Transports
  <2>4. wanted \in Wishes /\ PlainAgrees
    BY <1>1, <2>1, AskedFields, AskedByProtocol
    DEF LinksInit, PlainAgrees, AsksTLS, Unlinked, Quic
  <2>5. QED
    BY <2>1, <2>3, <2>4 DEF LinksInv, Agreement, Streamed, Quic
<1>3. LinksInv /\ [LinksNext]_linkVars => LinksInv'
  <2> SUFFICES ASSUME LinksInv, [LinksNext]_linkVars PROVE LinksInv'
    OBVIOUS
  <2>1. ASSUME NEW l \in ShareLinks, ImportLink(l) PROVE LinksInv'
    <3>1. saves' \in 0 .. MaxFormSaves /\ skipAll' \in BOOLEAN
      BY <2>1, FormSavesBound DEF ImportLink, LinksInv, LinksTypeOK
    <3>2. /\ server' \in [proto : LinkProtocols, transport : Transports,
                          own : [sni : {"none", "named"}, insecure : BOOLEAN]]
          /\ wanted' \in Wishes /\ Agreement'
      BY <2>1, ParsedAgrees DEF ImportLink
    <3>3. QED
      BY <3>1, <3>2 DEF LinksInv, LinksTypeOK, LinkProtocols, Transports
  <2>2. ASSUME NEW on \in BOOLEAN, SaveTLS(on) \/ SaveSkipCert(on) \/ SaveInsecure(on)
        PROVE  LinksInv'
    BY <2>2, SaveTLSKeeps, SaveSkipCertKeeps, SaveInsecureKeeps
  <2>3. CASE SetSkipCertVerify \/ UNCHANGED linkVars
    BY <2>3
    DEF SetSkipCertVerify, linkVars, LinksInv, LinksTypeOK, Agreement, TransportAgrees,
        OwnAgrees, PlainAgrees
  <2>4. QED
    BY <2>1, <2>2, <2>3, SaveUnchangedKeeps DEF LinksNext
<1>4. QED
  BY <1>2, <1>3, PTL DEF LinksSpec

\* The outbound the core is started with authenticates the server the way the
\* link and the edits since ask for, after any number of saves of the form
\* (parsers of sub_parse.go, saveSelectedProfileEditAction, buildOutbound).
THEOREM LinksHonoured == LinksSpec => []LinkIsHonoured
<1>1. ASSUME LinksInv PROVE LinkIsHonoured
  <2> DEFINE out == BuildOutbound(server, skipAll)
             t == server.transport
  <2>1. CASE server.proto \in Streamed
    <3>1. /\ out.security = wanted.security /\ out.name = wanted.name
          /\ out.insecure <=> skipAll \/ wanted.insecure
          /\ wanted.path => out.path
      BY <1>1, <2>1
      DEF LinksInv, LinksTypeOK, Agreement, TransportAgrees, BuildOutbound, BuildStreamSettings
    <3>2. QED
      BY <3>1 DEF LinkIsHonoured
  <2>2. CASE server.proto \in Quic
    <3>1. /\ out.security = wanted.security /\ out.name = wanted.name
          /\ out.insecure <=> wanted.insecure
          /\ out.path
      BY <1>1, <2>2
      DEF LinksInv, LinksTypeOK, Agreement, OwnAgrees, BuildOutbound, Streamed, Quic
    <3>2. QED
      BY <3>1 DEF LinkIsHonoured
  <2>3. CASE server.proto = "shadowsocks"
    <3>1. out.security = "none" /\ ~out.insecure /\ out.path
      BY <1>1, <2>3
      DEF LinksInv, LinksTypeOK, Agreement, PlainAgrees, BuildOutbound, Streamed, Quic
    <3>2. wanted.security = "none" /\ ~wanted.insecure
      BY <1>1, <2>3 DEF LinksInv, Agreement, PlainAgrees
    <3>3. QED
      BY <3>1, <3>2 DEF LinkIsHonoured
  <2>4. QED
    BY <1>1, <2>1, <2>2, <2>3 DEF LinksInv, LinksTypeOK
<1>2. QED
  BY <1>1, LinksInvariant, PTL

-----------------------------------------------------------------------------
(***************************************************************************)
(* What ProfilesPage guarantees for any number of profiles and of          *)
(* goroutines.  While a reload is under way, or has failed, anything may   *)
(* be on the page; when none is, the form and the rows fit the list or are *)
(* going to be drawn, and so are the selection and the cursor, which is    *)
(* ahead of the selection in the middle of a move, unless a move has       *)
(* strayed.                                                                *)
(***************************************************************************)

Behind == lagging \/ \E t \in PageTasks : work[t].step \in {"get", "store"}

SelectionFits == selected \in listed \/ (selected = 0 /\ listed = {})

FormFits == formOf = IF selected \in listed THEN selected ELSE 0

RowsFit == rows = Display(listed)

CursorFits == rows # <<>> => rows[cursor] = IF aim # 0 THEN aim ELSE selected

PageHeld ==
  /\ relist => redraw
  /\ ~Behind =>
       /\ ~redraw => FormFits
       /\ ~relist => RowsFit
       /\ ~strayed => SelectionFits
       /\ ~strayed /\ ~relist => CursorFits

PageInv == PageTypeOK /\ PageHeld

-----------------------------------------------------------------------------
\* The list shows each of its profiles, and nothing else.
LEMMA DisplayIs ==
  ASSUME NEW ids \in SUBSET PageIds
  PROVE  /\ Display(ids) \in Seq(ids) /\ DOMAIN Display(ids) \subseteq PageIds
         /\ Display(ids) = <<>> => ids = {}
         /\ ids = {} => Display(ids) = <<>>
         /\ \A p \in ids : \E i \in DOMAIN Display(ids) : Display(ids)[i] = p
<1> DEFINE all == [i \in 1 .. MaxPageIds |-> i]
           n == Cardinality(ids)
<1>1. MaxPageIds \in Nat /\ ids \in SUBSET (1 .. MaxPageIds)
  BY PageAssumption DEF PageIds
<1>2. all \in Seq(1 .. MaxPageIds) /\ ids \subseteq DOMAIN all /\ \A i \in ids : all[i] = i
  BY <1>1
<1>3. Len(all) = MaxPageIds
  BY <1>1
<1>4. /\ n \in 0 .. MaxPageIds
      /\ \A k \in 1 .. n : Nth(ids, k) \in ids /\ Picked(all, ids)[k] = all[Nth(ids, k)]
      /\ \A i \in ids : Rank(ids, i) \in 1 .. n /\ Picked(all, ids)[Rank(ids, i)] = all[i]
  BY <1>2, <1>3, PickedIs
<1> HIDE DEF all
<1>5. ASSUME NEW p \in ids PROVE Rank(ids, p) \in 1 .. n /\ Nth(ids, Rank(ids, p)) = p
  <2>1. Rank(ids, p) \in 1 .. n /\ Picked(all, ids)[Rank(ids, p)] = p
    BY <1>2, <1>4
  <2>2. QED
    BY <1>2, <1>4, <2>1
<1> HIDE DEF n
<1>6. \A k \in 1 .. n : n + 1 - k \in 1 .. n /\ n + 1 - (n + 1 - k) = k
  BY <1>4
<1>7. Display(ids) = [k \in 1 .. n |-> Nth(ids, IF flipped THEN n + 1 - k ELSE k)]
  BY DEF Display, n
<1>8. \A k \in 1 .. n : Display(ids)[k] \in ids
  BY <1>4, <1>6, <1>7
<1>9. DOMAIN Display(ids) = 1 .. n /\ n \in Nat
  BY <1>4, <1>7
<1>10. Display(ids) \in Seq(ids) /\ Len(Display(ids)) = n
  BY <1>7, <1>8, <1>9
<1>11. ASSUME NEW p \in ids PROVE \E i \in DOMAIN Display(ids) : Display(ids)[i] = p
  <2> DEFINE k == Rank(ids, p)
  <2>1. k \in 1 .. n /\ Nth(ids, k) = p /\ n + 1 - k \in 1 .. n /\ n + 1 - (n + 1 - k) = k
    BY <1>5, <1>6
  <2> HIDE DEF k
  <2>2. CASE flipped
    <3>1. Display(ids)[n + 1 - k] = Nth(ids, n + 1 - (n + 1 - k))
      BY <1>7, <2>1, <2>2
    <3>2. QED
      BY <1>9, <2>1, <3>1
  <2>4. CASE ~flipped
    BY <1>7, <1>9, <2>1, <2>4
  <2>5. QED
    BY <2>2, <2>4
<1>12. DOMAIN Display(ids) \subseteq PageIds
  BY <1>1, <1>4, <1>9 DEF PageIds
<1>13. Display(ids) = <<>> => ids = {}
  BY <1>11
<1>14. ids = {} => Display(ids) = <<>>
  <2>1. ids = {} => n = 0
    BY <1>8, <1>9
  <2>2. QED
    BY <1>10, <2>1
<1>15. QED
  BY <1>10, <1>11, <1>12, <1>13, <1>14

\* What a reload selects is one of the profiles it has brought.
LEMMA StoredIs ==
  ASSUME NEW got \in SUBSET PageIds
  PROVE  IF got = {} THEN StoredSelection(got) = 0 ELSE StoredSelection(got) \in got
<1>1. got \subseteq Nat
  BY PageAssumption DEF PageIds
<1>2. got # {} => Min(got) \in got
  BY <1>1, MinOf
<1>3. QED
  BY <1>2 DEF StoredSelection

LEMMA PageInitially == PageInit => PageInv
<1> SUFFICES ASSUME PageInit PROVE PageInv
  OBVIOUS
<1>1. /\ listed \in SUBSET PageIds /\ listed # {} /\ selected = Min(listed)
      /\ says \in [PageIds -> PageIds \cup {0}]
  BY DEF PageInit
<1>2. selected \in listed
  <2>1. listed \subseteq Nat
    BY <1>1, PageAssumption DEF PageIds
  <2>2. QED
    BY <1>1, <2>1, MinOf
<1>3. rows \in Seq(listed) /\ rows = Display(listed)
  BY <1>1, DisplayIs DEF PageInit
<1>4. rows \in Seq(PageIds)
  BY <1>1, <1>3
<1>5. rows[1] = selected
  <2>1. MaxPageIds \in Nat /\ listed \in SUBSET (1 .. MaxPageIds) /\ listed \subseteq Nat
    BY <1>1, PageAssumption DEF PageIds
  <2>2. Rank(listed, selected) \in 1 .. Cardinality(listed)
    BY <1>2, <2>1, RankOrder
  <2>3. Cardinality(listed) \in Nat
    <3>1. RanksFit(listed, MaxPageIds)
      BY <2>1, RankStep
    <3>2. QED
      BY <3>1, <2>1 DEF RanksFit
  <2>4. 1 \in 1 .. Cardinality(listed)
    BY <2>2, <2>3
  <2>5. Nth(listed, 1) \in listed /\ Rank(listed, Nth(listed, 1)) = 1
    BY <2>1, <2>4, NthOf
  <2>6. \A i \in 0 .. Nth(listed, 1) - 1 : Rank(listed, i) < 1
    BY <2>1, <2>5, RankOrder
  <2>7. selected <= Nth(listed, 1) /\ selected \in Nat /\ Nth(listed, 1) \in Nat
    BY <1>1, <2>1, <2>5, MinOf
  <2>8. ~(selected < Nth(listed, 1))
    <3>1. selected < Nth(listed, 1) => selected \in 0 .. Nth(listed, 1) - 1
      BY <2>7
    <3>2. QED
      BY <2>2, <2>3, <2>6, <3>1
  <2>9. Display(listed)[1] = Nth(listed, 1)
    BY <2>4 DEF Display, PageInit
  <2>10. QED
    BY <1>3, <2>7, <2>8, <2>9
<1>6. PageTypeOK
  <2>1. work \in [PageTasks -> [step : Steps, id : PageIds \cup {0}, got : SUBSET PageIds]]
    BY DEF PageInit, Rest, Steps
  <2>2. {selected, formOf, named, aim} \subseteq PageIds \cup {0}
    BY <1>1, <1>2 DEF PageInit
  <2>3. {flipped, redraw, relist, lagging, strayed} \subseteq BOOLEAN
    BY DEF PageInit
  <2>4. cursor \in PageIds \cup {1} /\ started \in 0 .. MaxPageJobs
    BY PageAssumption DEF PageInit
  <2>5. QED
    BY <1>1, <1>4, <2>1, <2>2, <2>3, <2>4 DEF PageTypeOK
<1>7. PageHeld
  BY <1>2, <1>3, <1>5 DEF PageHeld, PageInit, SelectionFits, FormFits, RowsFit, CursorFits
<1>8. QED
  BY <1>6, <1>7 DEF PageInv

\* The next step of a goroutine leaves the others as they are.
LEMMA WorksIs ==
  ASSUME PageTypeOK, NEW t \in PageTasks, NEW step \in Steps, NEW id \in PageIds \cup {0},
         NEW got \in SUBSET PageIds, Works(t, step, id, got)
  PROVE  /\ work' \in [PageTasks -> [step : Steps, id : PageIds \cup {0}, got : SUBSET PageIds]]
         /\ work'[t].step = step
         /\ \A u \in PageTasks : u # t => work'[u] = work[u]
  BY DEF PageTypeOK, Works

\* What a goroutine does that is neither a reload nor drawn.
Elsewhere(t) ==
  \/ StartWork(t) \/ SubmitQuickEdit(t) \/ SubmitDeleteConfirm(t)
  \/ GetProfiles(t) \/ ImportProfile(t) \/ SaveQuickEdit(t) \/ DeleteSelectedProfile(t)
  \/ SaveSelectedProfileEdit(t) \/ PutProfile(t)

LEMMA ElsewhereIs ==
  ASSUME PageTypeOK, NEW t \in PageTasks, Elsewhere(t)
  PROVE  /\ UNCHANGED <<listed, flipped, Page, selected, redraw, relist, Move>>
         /\ \E step \in Steps, id \in PageIds \cup {0}, got \in SUBSET PageIds :
              /\ Works(t, step, id, got)
              /\ IF work[t].step \in {"get", "store"}
                 THEN step = "store" \/ lagging' ELSE UNCHANGED lagging
         /\ says' \in [PageIds -> PageIds \cup {0}]
         /\ named' \in PageIds \cup {0} /\ started' \in 0 .. MaxPageJobs /\ lagging' \in BOOLEAN
<1> USE DEF Page, Move, Backend, Fails, Steps
<1>1. /\ says \in [PageIds -> PageIds \cup {0}] /\ listed \subseteq PageIds
      /\ selected \in PageIds \cup {0} /\ formOf \in PageIds \cup {0}
      /\ named \in PageIds \cup {0} /\ {} \in SUBSET PageIds /\ 0 \in PageIds \cup {0}
      /\ started \in 0 .. MaxPageJobs /\ lagging \in BOOLEAN
      /\ work[t].step \in Steps /\ work[t].id \in PageIds \cup {0} /\ work[t].got \subseteq PageIds
      /\ Present \subseteq PageIds /\ 0 \notin PageIds
  BY PageAssumption DEF PageTypeOK, Present, PageIds
<1>2. started < MaxPageJobs => started + 1 \in 0 .. MaxPageJobs
  BY <1>1, PageAssumption
<1>3. CASE StartWork(t)
  BY <1>1, <1>2, <1>3 DEF StartWork, Rest
<1>4. CASE SubmitQuickEdit(t)
  BY <1>1, <1>2, <1>4 DEF SubmitQuickEdit, Rest
<1>5. CASE SubmitDeleteConfirm(t)
  BY <1>1, <1>2, <1>5 DEF SubmitDeleteConfirm, Rest
<1>6. CASE GetProfiles(t)
  BY <1>1, <1>6 DEF GetProfiles
<1>7. CASE ImportProfile(t)
  <2>1. says' \in [PageIds -> PageIds \cup {0}]
    BY <1>1, <1>7 DEF ImportProfile
  <2>2. QED
    BY <1>1, <1>7, <2>1 DEF ImportProfile
<1>8. CASE SaveQuickEdit(t)
  BY <1>1, <1>8 DEF SaveQuickEdit
<1>9. CASE DeleteSelectedProfile(t)
  <2>1. says' \in [PageIds -> PageIds \cup {0}]
    BY <1>1, <1>9 DEF DeleteSelectedProfile
  <2>2. QED
    BY <1>1, <1>9, <2>1 DEF DeleteSelectedProfile
<1>10. CASE SaveSelectedProfileEdit(t)
  <2>1. CASE formOf # 0
    <3>1. {formOf} \in SUBSET PageIds
      BY <1>1, <2>1
    <3>2. QED
      BY <1>1, <1>10, <3>1 DEF SaveSelectedProfileEdit
  <2>2. CASE formOf = 0
    BY <1>1, <1>10, <2>2 DEF SaveSelectedProfileEdit
  <2>3. QED
    BY <2>1, <2>2
<1>11. CASE PutProfile(t)
  <2>1. says' \in [PageIds -> PageIds \cup {0}]
    BY <1>1, <1>11 DEF PutProfile
  <2>2. QED
    BY <1>1, <1>11, <2>1 DEF PutProfile
<1>12. QED
  BY <1>3, <1>4, <1>5, <1>6, <1>7, <1>8, <1>9, <1>10, <1>11 DEF Elsewhere

\* While nothing on the page changes, it is no less behind than before.
LEMMA StillBehind ==
  ASSUME PageInv, UNCHANGED <<listed, flipped, Page, selected, redraw, relist, Move>>,
         Behind => Behind'
  PROVE  PageHeld'
<1>1. Display(listed)' = Display(listed)
  BY DEF Display, Page
<1>2. QED
  BY <1>1 DEF PageInv, PageHeld, SelectionFits, FormFits, RowsFit, CursorFits, Page, Move

LEMMA PageStep ==
  ASSUME PageInv, PageNext
  PROVE  PageInv'
<1>1. /\ PageTypeOK /\ PageHeld /\ listed \in SUBSET PageIds
      /\ {selected, formOf, named, aim} \subseteq PageIds \cup {0}
      /\ {flipped, redraw, relist, lagging, strayed} \subseteq BOOLEAN
      /\ 0 \notin PageIds /\ {} \in SUBSET PageIds /\ rows \in Seq(PageIds)
      /\ says \in [PageIds -> PageIds \cup {0}]
      /\ cursor \in PageIds \cup {1} /\ started \in 0 .. MaxPageJobs
      /\ \A t \in PageTasks : work[t].step \in Steps /\ work[t].got \in SUBSET PageIds
                             /\ work[t].id \in PageIds \cup {0}
  BY PageAssumption DEF PageInv, PageTypeOK, PageIds
<1>2. ASSUME NEW t \in PageTasks, Elsewhere(t)
      PROVE  PageInv'
  <2>1. /\ UNCHANGED <<listed, flipped, Page, selected, redraw, relist, Move>>
        /\ says' \in [PageIds -> PageIds \cup {0}]
        /\ named' \in PageIds \cup {0} /\ started' \in 0 .. MaxPageJobs /\ lagging' \in BOOLEAN
    BY <1>1, <1>2, ElsewhereIs
  <2>2. PICK step \in Steps, id \in PageIds \cup {0}, got \in SUBSET PageIds :
          /\ Works(t, step, id, got)
          /\ IF work[t].step \in {"get", "store"}
             THEN step = "store" \/ lagging' ELSE UNCHANGED lagging
    BY <1>1, <1>2, ElsewhereIs
  <2>3. /\ work' \in [PageTasks -> [step : Steps, id : PageIds \cup {0}, got : SUBSET PageIds]]
        /\ work'[t].step = step
        /\ \A u \in PageTasks : u # t => work'[u] = work[u]
    BY <1>1, <2>2, WorksIs
  <2>4. Behind => Behind'
    BY <2>2, <2>3 DEF Behind
  <2>5. PageTypeOK'
    BY <1>1, <2>1, <2>3 DEF PageTypeOK, Page, Move
  <2>6. QED
    BY <2>1, <2>4, <2>5, StillBehind DEF PageInv
<1>3. CASE OpenDeleteConfirm \/ CloseDeleteConfirm \/ \E p \in PageIds : OthersDelete(p)
  <2>1. UNCHANGED <<listed, flipped, Page, selected, redraw, relist, work, lagging, Move>>
    BY <1>3 DEF OpenDeleteConfirm, CloseDeleteConfirm, OthersDelete
  <2>2. /\ says' \in [PageIds -> PageIds \cup {0}] /\ named' \in PageIds \cup {0}
        /\ started' \in 0 .. MaxPageJobs
    <3>1. CASE OpenDeleteConfirm \/ CloseDeleteConfirm
      BY <1>1, <3>1 DEF OpenDeleteConfirm, CloseDeleteConfirm, Backend
    <3>2. ASSUME NEW p \in PageIds, OthersDelete(p)
          PROVE  /\ says' \in [PageIds -> PageIds \cup {0}] /\ named' \in PageIds \cup {0}
                 /\ started' \in 0 .. MaxPageJobs
      BY <1>1, <3>2, PageAssumption DEF OthersDelete
    <3>3. QED
      BY <1>3, <3>1, <3>2
  <2>3. PageTypeOK'
    BY <1>1, <2>1, <2>2 DEF PageTypeOK, Page, Move
  <2>4. QED
    BY <2>1, <2>3, StillBehind DEF PageInv, Behind
<1>4. ASSUME NEW t \in PageTasks, StoreProfiles(t) PROVE PageInv'
  <2> DEFINE got == work[t].got
  <2>1. /\ listed' = got /\ selected' = StoredSelection(got) /\ redraw' = TRUE /\ relist' = TRUE
        /\ Works(t, "rest", 0, {}) /\ lagging' = FALSE /\ strayed' = FALSE
        /\ UNCHANGED <<says, flipped, rows, cursor, formOf, named, aim, started>>
    BY <1>4 DEF StoreProfiles, Backend, Page
  <2>2. got \in SUBSET PageIds
    BY <1>1
  <2> HIDE DEF got
  <2>3. IF got = {} THEN selected' = 0 ELSE selected' \in got
    BY <2>1, <2>2, StoredIs
  <2>4. work' \in [PageTasks -> [step : Steps, id : PageIds \cup {0}, got : SUBSET PageIds]]
    BY <1>1, <2>1, WorksIs DEF Steps
  <2>5. {selected, formOf, named, aim}' \subseteq PageIds \cup {0}
    BY <1>1, <2>1, <2>2, <2>3
  <2>6. PageTypeOK'
    BY <1>1, <2>1, <2>2, <2>4, <2>5 DEF PageTypeOK
  <2>7. PageHeld'
    BY <2>1, <2>3 DEF PageHeld, SelectionFits
  <2>8. QED
    BY <2>6, <2>7 DEF PageInv
<1>5. ASSUME NEW t \in PageTasks, StoreSelectedProfileID(t) PROVE PageInv'
  <2>1. /\ selected' = work[t].id /\ Works(t, "get", 0, {})
        /\ UNCHANGED <<says, listed, flipped, rows, cursor, formOf, redraw, relist, named,
                       started, lagging, aim, strayed>>
    BY <1>5 DEF StoreSelectedProfileID, Backend, Page, Move
  <2>2. /\ work' \in [PageTasks -> [step : Steps, id : PageIds \cup {0}, got : SUBSET PageIds]]
        /\ work'[t].step = "get"
    BY <1>1, <2>1, WorksIs DEF Steps
  <2>3. Behind'
    BY <2>2 DEF Behind
  <2>4. PageTypeOK'
    BY <1>1, <2>1, <2>2 DEF PageTypeOK
  <2>5. QED
    BY <1>1, <2>1, <2>3, <2>4 DEF PageInv, PageHeld
<1>6. ASSUME NEW t \in PageTasks, BatchDelayProfiles(t) PROVE PageInv'
  <2>1. /\ UNCHANGED <<says, listed, rows, cursor, formOf, selected, relist, named, started,
                       aim, strayed>>
        /\ redraw' = TRUE /\ flipped' \in BOOLEAN /\ lagging' \in BOOLEAN
        /\ \/ Works(t, "get", 0, {})
           \/ Works(t, "rest", 0, {}) /\ work[t].step = "batch" /\ UNCHANGED <<flipped, lagging>>
    BY <1>1, <1>6 DEF BatchDelayProfiles, Fails, Backend, Page, Move
  <2>2. work' \in [PageTasks -> [step : Steps, id : PageIds \cup {0}, got : SUBSET PageIds]]
    BY <1>1, <2>1, WorksIs DEF Steps
  <2>3. {flipped, redraw, relist, lagging, strayed}' \subseteq BOOLEAN
    BY <1>1, <2>1
  <2>4. PageTypeOK'
    BY <1>1, <2>1, <2>2, <2>3 DEF PageTypeOK
  <2>5. CASE Works(t, "get", 0, {})
    <3>1. work'[t].step = "get"
      BY <1>1, <2>5, WorksIs DEF Steps
    <3>2. QED
      BY <2>1, <2>4, <3>1 DEF PageInv, PageHeld, Behind
  <2>6. CASE Works(t, "rest", 0, {}) /\ work[t].step = "batch" /\ UNCHANGED <<flipped, lagging>>
    <3>1. \A u \in PageTasks : u # t => work'[u] = work[u]
      BY <1>1, <2>6, WorksIs DEF Steps
    <3>2. Behind => Behind'
      BY <2>6, <3>1 DEF Behind
    <3>3. Display(listed)' = Display(listed)
      BY <2>1, <2>6 DEF Display
    <3>4. QED
      BY <1>1, <2>1, <2>4, <3>2, <3>3
      DEF PageInv, PageHeld, SelectionFits, FormFits, RowsFit, CursorFits
  <2>7. QED
    BY <2>1, <2>5, <2>6
<1>7. CASE RefreshWidgets
  <2>1. /\ redraw' = FALSE /\ relist' = FALSE
        /\ UNCHANGED <<says, listed, flipped, selected, named, work, started, lagging, aim,
                       strayed>>
        /\ aim = 0
        /\ formOf' = IF selected \in listed THEN selected ELSE 0
        /\ IF relist THEN rows' = Display(listed) /\ cursor' = IF selected \in listed
                                                              THEN Place(selected, rows') ELSE 1
                     ELSE UNCHANGED <<rows, cursor>>
    BY <1>7 DEF RefreshWidgets, RefreshProfilesList, SyncProfileEditor, Backend, Handling, Move
  <2>2. Display(listed)' = Display(listed) /\ (Behind' <=> Behind)
    BY <2>1 DEF Display, Behind
  <2>3. /\ Display(listed) \in Seq(listed) /\ DOMAIN Display(listed) \subseteq PageIds
        /\ listed = {} => Display(listed) = <<>>
        /\ \A p \in listed : \E i \in DOMAIN Display(listed) : Display(listed)[i] = p
    BY <1>1, DisplayIs
  <2>4. ASSUME selected \in listed
        PROVE  /\ Place(selected, Display(listed)) \in DOMAIN Display(listed)
               /\ Display(listed)[Place(selected, Display(listed))] = selected
    BY <2>3, <2>4 DEF Place
  <2>5. rows' \in Seq(PageIds) /\ cursor' \in PageIds \cup {1}
    <3>1. Display(listed) \in Seq(PageIds)
      BY <1>1, <2>3
    <3>2. QED
      BY <1>1, <2>1, <2>3, <2>4, <3>1
  <2>6. {selected, formOf, named, aim}' \subseteq PageIds \cup {0}
    BY <1>1, <2>1
  <2>7. PageTypeOK'
    BY <1>1, <2>1, <2>5, <2>6 DEF PageTypeOK
  <2>8. FormFits'
    BY <2>1 DEF FormFits
  <2>9. ~Behind => RowsFit'
    BY <1>1, <2>1, <2>2 DEF PageHeld, RowsFit
  <2>10. ASSUME ~Behind, ~strayed PROVE SelectionFits' /\ CursorFits'
    <3>1. SelectionFits
      BY <1>1, <2>10 DEF PageHeld
    <3>2. SelectionFits'
      BY <2>1, <3>1 DEF SelectionFits
    <3>3. CASE relist
      <4>1. rows' = Display(listed) /\ cursor' = IF selected \in listed
                                                THEN Place(selected, rows') ELSE 1
        BY <2>1, <3>3
      <4>2. rows' # <<>> => rows'[cursor'] = selected'
        BY <2>1, <2>3, <2>4, <3>1, <4>1 DEF SelectionFits
      <4>3. QED
        BY <2>1, <3>2, <4>2 DEF CursorFits
    <3>4. CASE ~relist
      BY <1>1, <2>1, <2>10, <3>2, <3>4 DEF PageHeld, CursorFits
    <3>5. QED
      BY <3>3, <3>4
  <2>11. PageHeld'
    BY <2>1, <2>2, <2>8, <2>9, <2>10 DEF PageHeld
  <2>12. QED
    BY <2>7, <2>11 DEF PageInv
<1>8. ASSUME NEW i \in PageIds, MoveCursor(i) PROVE PageInv'
  <2>1. /\ i \in DOMAIN rows /\ cursor' = i
        /\ aim' = IF i \in DOMAIN Display(listed) THEN Display(listed)[i] ELSE 0
        /\ UNCHANGED <<says, listed, flipped, selected, redraw, relist, rows, formOf, named,
                       work, started, lagging, strayed>>
    BY <1>8 DEF MoveCursor, Backend
  <2>2. Display(listed)' = Display(listed) /\ (Behind' <=> Behind)
    BY <2>1 DEF Display, Behind
  <2>3. Display(listed) \in Seq(listed)
    BY <1>1, DisplayIs
  <2>4. i \in DOMAIN Display(listed) => Display(listed)[i] \in listed
    BY <2>3
  <2>5. {selected, formOf, named, aim}' \subseteq PageIds \cup {0}
    BY <1>1, <2>1, <2>4
  <2>6. PageTypeOK'
    BY <1>1, <2>1, <2>5 DEF PageTypeOK
  <2>7. RowsFit => RowsFit' /\ CursorFits'
    <3>1. ASSUME RowsFit PROVE aim' = rows[i] /\ aim' # 0
      BY <1>1, <2>1, <2>4, <3>1 DEF RowsFit
    <3>2. QED
      BY <2>1, <2>2, <3>1 DEF RowsFit, CursorFits
  <2>8. (SelectionFits => SelectionFits') /\ (FormFits => FormFits')
    BY <2>1 DEF SelectionFits, FormFits
  <2>9. PageHeld'
    BY <1>1, <2>1, <2>2, <2>7, <2>8 DEF PageHeld
  <2>10. QED
    BY <2>6, <2>9 DEF PageInv
<1>9. CASE SelectAimed
  <2>1. /\ aim # 0 /\ aim' = 0 /\ selected' = aim /\ redraw' = (redraw \/ selected # aim)
        /\ strayed' = (strayed \/ aim \notin listed)
        /\ UNCHANGED <<says, listed, flipped, rows, cursor, formOf, relist, named, work, started,
                       lagging>>
    BY <1>9 DEF SelectAimed, Backend, Page
  <2>2. Display(listed)' = Display(listed) /\ (Behind' <=> Behind)
    BY <2>1 DEF Display, Behind
  <2>3. {selected, formOf, named, aim}' \subseteq PageIds \cup {0}
    BY <1>1, <2>1
  <2>4. {flipped, redraw, relist, lagging, strayed}' \subseteq BOOLEAN
    BY <1>1, <2>1
  <2>5. PageTypeOK'
    BY <1>1, <2>1, <2>3, <2>4 DEF PageTypeOK
  <2>6. ~redraw' => ~redraw /\ (FormFits => FormFits')
    BY <2>1 DEF FormFits
  <2>7. RowsFit => RowsFit'
    BY <2>1, <2>2 DEF RowsFit
  <2>8. ~strayed' => ~strayed /\ SelectionFits' /\ (CursorFits => CursorFits')
    BY <1>1, <2>1 DEF SelectionFits, CursorFits
  <2>9. PageHeld'
    BY <1>1, <2>1, <2>2, <2>6, <2>7, <2>8 DEF PageHeld
  <2>10. QED
    BY <2>5, <2>9 DEF PageInv
<1>10. QED
  BY <1>2, <1>3, <1>4, <1>5, <1>6, <1>7, <1>8, <1>9 DEF PageNext, Elsewhere, PageIds

\* Whatever is under way on the page of profiles: what does not fit is going to
\* be loaded or drawn again.
THEOREM PageInvariant == PageSpec => []PageInv
<1>1. PageInv /\ UNCHANGED pageVars => PageInv'
  <2> SUFFICES ASSUME PageInv, UNCHANGED pageVars PROVE PageInv'
    OBVIOUS
  <2>1. PageTypeOK'
    BY DEF PageInv, PageTypeOK, pageVars
  <2>2. QED
    BY <2>1, StillBehind DEF PageInv, pageVars, Page, Move, Behind
<1>2. PageInv /\ [PageNext]_pageVars => PageInv'
  BY <1>1, PageStep
<1>3. QED
  BY PageInitially, <1>2, PTL DEF PageSpec

\* When the goroutines are through and the last reload has not failed, the form
\* and the rows fit the list, and the selection is one of it and under the
\* cursor, in whatever order the answers came - unless a reload took from the
\* list what a move of the cursor was about to select.
THEOREM PageOfOnePiece == PageSpec => []PageSettles
<1>1. ASSUME PageInv, Quiet, ~lagging
      PROVE  /\ rows = Display(listed)
             /\ formOf = IF selected \in listed THEN selected ELSE 0
             /\ ~strayed => /\ selected \in listed \/ (selected = 0 /\ listed = {})
                            /\ rows # <<>> => rows[cursor] = selected
  <2>1. ~Behind
    BY <1>1 DEF Quiet, Behind, Rest
  <2>2. ~relist
    BY <1>1 DEF PageInv, PageHeld, PageTypeOK, Quiet
  <2>3. QED
    BY <1>1, <2>1, <2>2
    DEF PageInv, PageHeld, SelectionFits, FormFits, RowsFit, CursorFits, Quiet
<1>2. PageInv => PageSettles
  BY <1>1 DEF PageSettles
<1>3. QED
  BY <1>2, PageInvariant, PTL

-----------------------------------------------------------------------------
(***************************************************************************)
(* What Overlays guarantees for any number of requests and updates.  Once  *)
(* no dialog has opened over another one and no page was rebuilt under     *)
(* one, there is little that can be on the screen, and what is there has   *)
(* the page to go back to.                                                 *)
(***************************************************************************)

Alone(d) == stack = <<d>> /\ uiFocus = d /\ prev[d] = "page"

OneDialog ==
  \/ stack = <<>> /\ uiFocus = "page"
  \/ \E d \in Dialogs : Alone(d)
  \/ stack = <<"edit", "preview">> /\ uiFocus = "preview" /\ prev["edit"] = "page"

OverlaysInv == OverlaysTypeOK /\ (~together /\ ~rebuilt => OneDialog)

LEMMA DialogNames ==
  /\ Dialogs = {"dropdown", "palette", "actions", "delete", "import", "edit", "proxy"}
  /\ Layers = Dialogs \cup {"preview"}
  BY DEF Dialogs, EscOrder, Range, Layers

\* Taking dialogs off the screen leaves the others, in their order.
LEMMA StackWithoutIs ==
  ASSUME stack \in Seq(Layers), NEW ds
  PROVE  /\ StackWithout(ds) \in Seq(Layers)
         /\ (\A i, j \in DOMAIN stack : stack[i] = stack[j] => i = j) =>
              \A i, j \in DOMAIN StackWithout(ds) : StackWithout(ds)[i] = StackWithout(ds)[j] => i = j
         /\ Range(StackWithout(ds)) = Range(stack) \ ds
         /\ stack = <<>> => StackWithout(ds) = <<>>
         /\ \A d : stack = <<d>> => StackWithout(ds) = IF d \in ds THEN <<>> ELSE <<d>>
         /\ stack = <<"edit", "preview">> /\ "preview" \in ds =>
              StackWithout(ds) = IF "edit" \in ds THEN <<>> ELSE <<"edit">>
<1> DEFINE E == {i \in DOMAIN stack : stack[i] \notin ds}
           new == StackWithout(ds)
           n == Cardinality(E)
<1>1. E \subseteq DOMAIN stack /\ new = Picked(stack, E) /\ Len(stack) \in Nat
      /\ E \in SUBSET (1 .. Len(stack))
  BY DEF StackWithout
<1>2. /\ new \in Seq(Layers) /\ Len(new) = n /\ n \in Nat
      /\ \A k \in 1 .. n : Nth(E, k) \in E /\ new[k] = stack[Nth(E, k)]
      /\ ToSet(new) = {stack[i] : i \in E}
  <2> HIDE DEF E
  <2>1. /\ Picked(stack, E) \in Seq(Layers)
        /\ Len(Picked(stack, E)) = Cardinality(E) /\ Cardinality(E) \in 0 .. Len(stack)
        /\ \A k \in 1 .. Cardinality(E) :
             Nth(E, k) \in E /\ k <= Nth(E, k) /\ Picked(stack, E)[k] = stack[Nth(E, k)]
        /\ ToSet(Picked(stack, E)) = {stack[i] : i \in E}
    BY <1>1, PickedIs
  <2>2. QED
    BY <1>1, <2>1
<1>3. Range(new) = Range(stack) \ ds
  BY <1>2 DEF Range, ToSet
<1>4. ASSUME \A i, j \in DOMAIN stack : stack[i] = stack[j] => i = j,
             NEW i \in DOMAIN new, NEW j \in DOMAIN new, new[i] = new[j]
      PROVE  i = j
  <2>1. i \in 1 .. n /\ j \in 1 .. n
    BY <1>2
  <2>2. Nth(E, i) = Nth(E, j)
    BY <1>1, <1>2, <1>4, <2>1
  <2>3. Rank(E, Nth(E, i)) = i /\ Rank(E, Nth(E, j)) = j
    BY <1>1, <2>1, NthOf
  <2>4. QED
    BY <2>2, <2>3
<1>5. E = {} => new = <<>>
  <2>1. E = {} => n = 0
    BY FS_EmptySet
  <2>2. QED
    BY <1>2, <2>1
<1>6. E = {1} => new = <<stack[1]>>
  <2> HIDE DEF E
  <2>1. E = {1} => n = 1
    BY FS_Singleton
  <2>2. E = {1} => Nth(E, 1) = 1 /\ new[1] = stack[1]
    BY <1>2, <2>1
  <2> HIDE DEF new, n
  <2>3. E = {1} => new = <<stack[1]>>
    BY <1>2, <2>1, <2>2
  <2>4. QED
    BY <2>3
<1> HIDE DEF new, n
<1>7. stack = <<>> => new = <<>>
  BY <1>5
<1>8. ASSUME NEW d, stack = <<d>> PROVE new = IF d \in ds THEN <<>> ELSE <<d>>
  <2>1. DOMAIN stack = {1} /\ stack[1] = d
    BY <1>8
  <2>2. QED
    BY <1>5, <1>6, <2>1
<1>9. ASSUME stack = <<"edit", "preview">>, "preview" \in ds
      PROVE  new = IF "edit" \in ds THEN <<>> ELSE <<"edit">>
  <2>1. DOMAIN stack = {1, 2} /\ stack[1] = "edit" /\ stack[2] = "preview"
    BY <1>9
  <2>2. QED
    BY <1>5, <1>6, <1>9, <2>1
<1>10. QED
  BY <1>2, <1>3, <1>4, <1>7, <1>8, <1>9 DEF new

LEMMA OverlaysInitially == OverlaysInit => OverlaysInv
<1> SUFFICES ASSUME OverlaysInit PROVE OverlaysInv
  OBVIOUS
<1>1. "page" \in Places /\ 0 \in 0 .. MaxOpens
  BY OverlaysAssumption DEF Places
<1>2. stack = <<>> /\ uiFocus = "page" /\ uiQueue = <<>>
  BY DEF OverlaysInit
<1>3. /\ stack \in Seq(Layers) /\ uiQueue \in Seq([do : {"open", "close"}, on : Layers])
      /\ \A i, j \in DOMAIN stack : stack[i] = stack[j] => i = j
  BY <1>2
<1>4. OverlaysTypeOK
  BY <1>1, <1>3 DEF OverlaysInit, OverlaysTypeOK
<1>5. OneDialog
  BY <1>2 DEF OneDialog
<1>6. QED
  BY <1>4, <1>5 DEF OverlaysInv

\* What waits for the UI loop.
Updates == [do : {"open", "close"}, on : Layers]

LEMMA QueueTyped ==
  ASSUME uiQueue \in Seq(Updates), NEW us \in Seq(Updates), Queue(us)
  PROVE  uiQueue' \in Seq(Updates)
<1>1. uiQueue \o us \in Seq(Updates)
  BY ConcatIs DEF Joined
<1>2. QED
  BY <1>1 DEF Queue

\* A dialog opens.
LEMMA OpenIs ==
  ASSUME OverlaysInv, NEW d \in Layers, Open(d), UNCHANGED rebuilt
  PROVE  /\ stack' \in Seq(Layers) /\ \A i, j \in DOMAIN stack' : stack'[i] = stack'[j] => i = j
         /\ prev' \in [Dialogs -> Places] /\ uiFocus' \in Places /\ together' \in BOOLEAN
         /\ ~together' /\ ~rebuilt' => OneDialog'
<1>1. /\ stack \in Seq(Layers) /\ \A i, j \in DOMAIN stack : stack[i] = stack[j] => i = j
      /\ prev \in [Dialogs -> Places] /\ uiFocus \in Places /\ together \in BOOLEAN
      /\ Layers \subseteq Places
      /\ ~together /\ ~rebuilt => OneDialog
  BY DEF OverlaysInv, OverlaysTypeOK, Places
<1>2. CASE UNCHANGED <<stack, prev, uiFocus, together>>
  BY <1>1, <1>2 DEF OneDialog, Alone
<1>3. CASE /\ stack' = Append(StackWithout({d}), d) /\ uiFocus' = d
           /\ prev' = IF d \in Dialogs THEN [prev EXCEPT ![d] = uiFocus] ELSE prev
           /\ together' = (together \/ IF d = "preview" THEN "edit" \notin Shown ELSE stack # <<>>)
  <2> DEFINE rest == StackWithout({d})
  <2>1. /\ rest \in Seq(Layers) /\ \A i, j \in DOMAIN rest : rest[i] = rest[j] => i = j
        /\ Range(rest) = Range(stack) \ {d}
        /\ stack = <<>> => rest = <<>>
        /\ \A e : stack = <<e>> => rest = IF e \in {d} THEN <<>> ELSE <<e>>
        /\ stack = <<"edit", "preview">> /\ "preview" \in {d} =>
             rest = IF "edit" \in {d} THEN <<>> ELSE <<"edit">>
    BY <1>1, StackWithoutIs
  <2> HIDE DEF rest
  <2>2. stack' = Append(rest, d) /\ stack' \in Seq(Layers)
    BY <1>3, <2>1 DEF rest
  <2>3. \A i \in DOMAIN rest : rest[i] # d
    BY <2>1 DEF Range
  <2>4. ASSUME NEW i \in DOMAIN stack', NEW j \in DOMAIN stack', stack'[i] = stack'[j]
        PROVE  i = j
    <3>1. /\ Len(rest) \in Nat /\ DOMAIN rest = 1 .. Len(rest)
          /\ DOMAIN stack' = 1 .. Len(rest) + 1 /\ stack'[Len(rest) + 1] = d
          /\ \A k \in DOMAIN rest : stack'[k] = rest[k]
      BY <2>1, <2>2
    <3>2. i \in DOMAIN rest \/ i = Len(rest) + 1
      BY <3>1
    <3>3. j \in DOMAIN rest \/ j = Len(rest) + 1
      BY <3>1
    <3>4. QED
      BY <2>1, <2>3, <2>4, <3>1, <3>2, <3>3
  <2>5. prev' \in [Dialogs -> Places] /\ uiFocus' \in Places /\ together' \in BOOLEAN
    BY <1>1, <1>3
  <2>6. ASSUME ~together', ~rebuilt' PROVE OneDialog'
    <3>1. OneDialog /\ ~together
      BY <1>1, <1>3, <2>6
    <3>2. CASE d # "preview"
      <4>1. d \in Dialogs /\ stack = <<>>
        BY <1>3, <2>6, <3>2, DialogNames
      <4>2. uiFocus = "page"
        <5>1. \A e : stack # <<e>>
          BY <4>1
        <5>2. stack # <<"edit", "preview">>
          BY <4>1
        <5>3. QED
          BY <3>1, <5>1, <5>2 DEF OneDialog, Alone
      <4>4. stack' = <<d>>
        <5>1. stack' = Append(<<>>, d)
          BY <2>1, <2>2, <4>1
        <5>2. QED
          BY <5>1
      <4>5. uiFocus' = d /\ prev'[d] = "page"
        BY <1>1, <1>3, <4>1, <4>2
      <4>6. QED
        BY <4>1, <4>4, <4>5 DEF OneDialog, Alone
    <3>3. CASE d = "preview"
      <4>1. "edit" \in Range(stack) /\ prev' = prev
        BY <1>3, <2>6, <3>3, DialogNames DEF Shown
      <4>2. \/ Alone("edit")
            \/ stack = <<"edit", "preview">> /\ prev["edit"] = "page"
        BY <3>1, <4>1 DEF OneDialog, Alone, Range
      <4>3. rest = <<"edit">> /\ prev["edit"] = "page"
        BY <2>1, <3>3, <4>2 DEF Alone
      <4>4. stack' = <<"edit", "preview">>
        <5>1. stack' = Append(<<"edit">>, "preview")
          BY <2>2, <3>3, <4>3
        <5>2. stack' \in Seq(Layers) /\ Len(stack') = 2 /\ stack'[1] = "edit" /\ stack'[2] = "preview"
          BY <2>2, <5>1
        <5>3. QED
          BY <5>2
      <4>5. QED
        BY <1>3, <3>3, <4>1, <4>3, <4>4 DEF OneDialog
    <3>4. QED
      BY <3>2, <3>3
  <2>7. QED
    BY <2>2, <2>4, <2>5, <2>6
<1>4. QED
  BY <1>2, <1>3 DEF Open

\* A dialog closes.
LEMMA CloseIs ==
  ASSUME OverlaysInv, NEW d \in Layers, Close(d), UNCHANGED <<together, rebuilt>>
  PROVE  /\ stack' \in Seq(Layers) /\ \A i, j \in DOMAIN stack' : stack'[i] = stack'[j] => i = j
         /\ prev' \in [Dialogs -> Places] /\ uiFocus' \in Places
         /\ ~together' /\ ~rebuilt' => OneDialog'
<1>1. /\ stack \in Seq(Layers) /\ \A i, j \in DOMAIN stack : stack[i] = stack[j] => i = j
      /\ prev \in [Dialogs -> Places] /\ uiFocus \in Places /\ together \in BOOLEAN
      /\ Layers \subseteq Places /\ {"page", "old", "oldList"} \subseteq Places
      /\ ~together /\ ~rebuilt => OneDialog
  BY DEF OverlaysInv, OverlaysTypeOK, Places
<1>2. CASE UNCHANGED <<stack, prev, uiFocus>>
  BY <1>1, <1>2 DEF OneDialog, Alone
<1>3. CASE /\ d = "preview" /\ stack' = StackWithout({d}) /\ prev' = prev
           /\ uiFocus' = IF "edit" \in Shown \/ uiFocus = d THEN Topmost(stack') ELSE uiFocus
  <2>1. /\ stack' \in Seq(Layers) /\ \A i, j \in DOMAIN stack' : stack'[i] = stack'[j] => i = j
        /\ stack = <<>> => stack' = <<>>
        /\ \A e : stack = <<e>> => stack' = IF e \in {d} THEN <<>> ELSE <<e>>
        /\ stack = <<"edit", "preview">> => stack' = <<"edit">>
    <3>1. stack' = StackWithout({"preview"})
      BY <1>3
    <3>2. "preview" \in {"preview"} /\ "edit" \notin {"preview"}
      OBVIOUS
    <3>3. /\ StackWithout({"preview"}) \in Seq(Layers)
          /\ \A i, j \in DOMAIN StackWithout({"preview"}) :
               StackWithout({"preview"})[i] = StackWithout({"preview"})[j] => i = j
          /\ stack = <<>> => StackWithout({"preview"}) = <<>>
          /\ \A e : stack = <<e>> =>
               StackWithout({"preview"}) = IF e \in {"preview"} THEN <<>> ELSE <<e>>
          /\ stack = <<"edit", "preview">> => StackWithout({"preview"}) = <<"edit">>
      BY <1>1, <3>2, StackWithoutIs, Zenon
    <3>4. QED
      BY <1>3, <3>1, <3>3, Zenon
  <2>2. Topmost(stack') \in Places
    <3>1. stack' # <<>> => stack'[Len(stack')] \in Layers
      BY <2>1
    <3>2. QED
      BY <1>1, <3>1 DEF Topmost, Last
  <2>3. ASSUME OneDialog PROVE OneDialog'
    <3>1. CASE stack = <<>> /\ uiFocus = "page"
      BY <1>3, <2>1, <3>1 DEF OneDialog, Shown, Range
    <3>2. ASSUME NEW e \in Dialogs, Alone(e) PROVE OneDialog'
      <4>1. e # "preview" /\ stack' = <<e>>
        BY <1>3, <2>1, <3>2, DialogNames DEF Alone
      <4>2. Topmost(stack') = e
        BY <4>1 DEF Topmost, Last
      <4>3. "edit" \in Shown => e = "edit"
        BY <3>2 DEF Shown, Range, Alone
      <4>4. uiFocus' = e
        BY <1>3, <3>2, <4>2, <4>3 DEF Alone
      <4>5. QED
        BY <1>3, <3>2, <4>1, <4>4 DEF Alone, OneDialog
    <3>3. CASE stack = <<"edit", "preview">> /\ uiFocus = "preview" /\ prev["edit"] = "page"
      <4>1. stack' = <<"edit">> /\ uiFocus' = Topmost(stack')
        BY <1>3, <2>1, <3>3
      <4>2. uiFocus' = "edit"
        BY <4>1 DEF Topmost, Last
      <4>3. QED
        BY <1>3, <3>3, <4>1, <4>2, DialogNames DEF OneDialog, Alone
    <3>4. QED
      BY <2>3, <3>1, <3>2, <3>3 DEF OneDialog
  <2>4. QED
    BY <1>1, <1>3, <2>1, <2>2, <2>3
<1>4. ASSUME NEW gone, gone = (IF d = "edit" THEN {"edit", "preview"} ELSE {d}),
             d # "preview", d \in Shown, stack' = StackWithout(gone),
             uiFocus' = IF d = "dropdown" THEN "page" ELSE prev[d],
             prev' = [e \in Dialogs |-> IF e = d THEN "page" ELSE Forget(gone, prev[e])]
      PROVE  /\ stack' \in Seq(Layers)
             /\ \A i, j \in DOMAIN stack' : stack'[i] = stack'[j] => i = j
             /\ prev' \in [Dialogs -> Places] /\ uiFocus' \in Places
             /\ ~together' /\ ~rebuilt' => OneDialog'
  <2>1. /\ stack' \in Seq(Layers) /\ \A i, j \in DOMAIN stack' : stack'[i] = stack'[j] => i = j
        /\ \A e : stack = <<e>> => stack' = IF e \in gone THEN <<>> ELSE <<e>>
        /\ stack = <<"edit", "preview">> /\ "preview" \in gone =>
             stack' = IF "edit" \in gone THEN <<>> ELSE <<"edit">>
    <3> DEFINE rest == StackWithout(gone)
    <3>1. /\ rest \in Seq(Layers) /\ \A i, j \in DOMAIN rest : rest[i] = rest[j] => i = j
          /\ \A e : stack = <<e>> => rest = IF e \in gone THEN <<>> ELSE <<e>>
          /\ stack = <<"edit", "preview">> /\ "preview" \in gone =>
               rest = IF "edit" \in gone THEN <<>> ELSE <<"edit">>
      BY <1>1, StackWithoutIs
    <3>2. stack' = rest
      BY <1>4
    <3> HIDE DEF rest
    <3>3. QED
      BY <3>1, <3>2
  <2>2. d \in Dialogs /\ d \in gone
    BY <1>4, DialogNames
  <2>3. \A p \in Places : Forget(gone, p) \in Places
    BY <1>1 DEF Forget
  <2>4. prev' \in [Dialogs -> Places] /\ uiFocus' \in Places
    BY <1>1, <1>4, <2>2, <2>3
  <2>5. ASSUME OneDialog PROVE OneDialog'
    <3>1. CASE stack = <<>>
      BY <1>4, <3>1 DEF Shown, Range
    <3>2. ASSUME NEW e \in Dialogs, Alone(e) PROVE OneDialog'
      <4>1. e = d
        BY <1>4, <3>2 DEF Shown, Range, Alone
      <4>2. stack' = <<>> /\ uiFocus' = "page"
        BY <1>4, <2>1, <2>2, <3>2, <4>1 DEF Alone
      <4>3. QED
        BY <4>2 DEF OneDialog
    <3>3. CASE stack = <<"edit", "preview">> /\ uiFocus = "preview" /\ prev["edit"] = "page"
      <4>1. d = "edit"
        BY <1>4, <3>3 DEF Shown, Range
      <4>2. stack' = <<>> /\ uiFocus' = "page"
        BY <1>4, <2>1, <3>3, <4>1
      <4>3. QED
        BY <4>2 DEF OneDialog
    <3>4. QED
      BY <2>5, <3>1, <3>2, <3>3 DEF OneDialog
  <2>6. QED
    BY <1>1, <2>1, <2>4, <2>5
<1>5. QED
  BY <1>2, <1>3, <1>4 DEF Close

\* The page is rebuilt.
LEMMA SyncPagesIs ==
  ASSUME OverlaysInv, SyncPages
  PROVE  /\ stack' \in Seq(Layers) /\ \A i, j \in DOMAIN stack' : stack'[i] = stack'[j] => i = j
         /\ prev' \in [Dialogs -> Places] /\ uiFocus' \in Places /\ rebuilt' \in BOOLEAN
         /\ ~together' /\ ~rebuilt' => OneDialog'
<1>1. /\ stack \in Seq(Layers) /\ \A i, j \in DOMAIN stack : stack[i] = stack[j] => i = j
      /\ prev \in [Dialogs -> Places] /\ {"page", "old"} \subseteq Places /\ rebuilt \in BOOLEAN
  BY DEF OverlaysInv, OverlaysTypeOK, Places
<1>2. /\ stack' = StackWithout({"preview"}) /\ uiFocus' = "page"
      /\ prev' = [d \in Dialogs |-> IF prev[d] = "page" THEN "old" ELSE prev[d]]
      /\ rebuilt' = (rebuilt \/ stack # <<>>)
  BY DEF SyncPages
<1>3. /\ stack' \in Seq(Layers) /\ \A i, j \in DOMAIN stack' : stack'[i] = stack'[j] => i = j
      /\ stack = <<>> => stack' = <<>>
  BY <1>1, <1>2, StackWithoutIs
<1>4. QED
  BY <1>1, <1>2, <1>3 DEF OneDialog

\* What is requested without anything on the screen changing.
LEMMA OverlaysStep == OverlaysInv /\ OverlaysNext => OverlaysInv'
<1> SUFFICES ASSUME OverlaysInv, OverlaysNext PROVE OverlaysInv'
  OBVIOUS
<1>1. /\ OverlaysTypeOK /\ (~together /\ ~rebuilt => OneDialog)
      /\ uiQueue \in Seq(Updates) /\ actions \subseteq {"import", "proxy"}
      /\ opens \in 0 .. MaxOpens
      /\ \A us : Queue(us) /\ us \in Seq(Updates) => uiQueue' \in Seq(Updates)
      /\ opens < MaxOpens => opens + 1 \in 0 .. MaxOpens
      /\ "page" \in Places
  <2>1. /\ OverlaysTypeOK /\ (~together /\ ~rebuilt => OneDialog)
        /\ uiQueue \in Seq(Updates) /\ actions \subseteq {"import", "proxy"}
        /\ opens \in 0 .. MaxOpens
    BY DEF OverlaysInv, OverlaysTypeOK, Updates
  <2>2. \A us : Queue(us) /\ us \in Seq(Updates) => uiQueue' \in Seq(Updates)
    BY <2>1, QueueTyped
  <2>3. opens < MaxOpens => opens + 1 \in 0 .. MaxOpens
    BY <2>1, OverlaysAssumption
  <2>4. QED
    BY <2>1, <2>2, <2>3 DEF Places
<1>2. \A what \in {"open", "close"}, d \in Layers : <<Do(what, d)>> \in Seq(Updates)
  BY DEF Do, Updates
<1>3. \A d, e \in Layers : <<Do("close", d), Do("open", e)>> \in Seq(Updates)
  BY DEF Do, Updates
<1>4. ASSUME NEW us \in Seq(Updates), Queue(us) \/ UNCHANGED uiQueue,
             UNCHANGED <<stack, prev, together, rebuilt>>,
             actions' \subseteq {"import", "proxy"}, opens' \in 0 .. MaxOpens,
             uiFocus' = uiFocus \/ (uiFocus' = "page" /\ Shown = {})
      PROVE  OverlaysInv'
  <2>1. uiQueue' \in Seq(Updates)
    BY <1>1, <1>4
  <2>2. OverlaysTypeOK'
    BY <1>1, <1>4, <2>1 DEF OverlaysTypeOK, Updates
  <2>3. ASSUME ~together', ~rebuilt' PROVE OneDialog'
    <3>1. OneDialog
      BY <1>1, <1>4, <2>3
    <3>2. CASE uiFocus' = uiFocus
      BY <1>4, <3>1, <3>2 DEF OneDialog, Alone
    <3>3. CASE Shown = {} /\ uiFocus' = "page"
      <4>1. \A e \in Dialogs : stack # <<e>>
        BY <3>3, DialogNames DEF Shown, Range
      <4>2. stack # <<"edit", "preview">>
        BY <3>3 DEF Shown, Range
      <4>3. stack = <<>>
        BY <3>1, <4>1, <4>2 DEF OneDialog, Alone
      <4>4. QED
        BY <1>4, <3>3, <4>3 DEF OneDialog
    <3>4. QED
      BY <1>4, <3>2, <3>3
  <2>4. QED
    BY <2>2, <2>3 DEF OverlaysInv
<1>5. ASSUME NEW i \in 1 .. MaxPending, RunUpdate(i) PROVE OverlaysInv'
  <2> DEFINE u == uiQueue[i]
  <2>1. /\ i \in DOMAIN uiQueue /\ uiQueue' = RemoveAt(uiQueue, i)
        /\ UNCHANGED <<actions, opens, rebuilt>>
        /\ IF u.do = "close" THEN Close(u.on) /\ UNCHANGED together
           ELSE Open(u.on) \/ UNCHANGED <<stack, prev, uiFocus, together>>
    BY <1>5 DEF RunUpdate
  <2>2. u \in Updates
    BY <1>1, <2>1
  <2>3. u.on \in Layers
    BY <2>2 DEF Updates
  <2>4. uiQueue' \in Seq(Updates)
    <3>1. i \in 1 .. Len(uiQueue)
      BY <1>1, <2>1
    <3>2. QED
      BY <1>1, <2>1, <3>1, RemoveIs
  <2> HIDE DEF u
  <2>5. /\ stack' \in Seq(Layers) /\ \A k, j \in DOMAIN stack' : stack'[k] = stack'[j] => k = j
        /\ prev' \in [Dialogs -> Places] /\ uiFocus' \in Places /\ together' \in BOOLEAN
        /\ ~together' /\ ~rebuilt' => OneDialog'
    <3>1. CASE Close(u.on) /\ UNCHANGED together
      <4>1. together \in BOOLEAN
        BY <1>1 DEF OverlaysTypeOK
      <4>2. QED
        BY <2>1, <2>3, <3>1, <4>1, CloseIs
    <3>2. CASE Open(u.on)
      BY <2>1, <2>3, <3>2, OpenIs
    <3>3. CASE UNCHANGED <<stack, prev, uiFocus, together>>
      BY <1>1, <2>1, <3>3 DEF OverlaysTypeOK, OneDialog, Alone
    <3>4. QED
      BY <2>1, <3>1, <3>2, <3>3
  <2>6. OverlaysTypeOK'
    BY <1>1, <2>1, <2>4, <2>5 DEF OverlaysTypeOK, Updates
  <2>7. QED
    BY <2>5, <2>6 DEF OverlaysInv
<1>6. CASE Esc
  <2>1. CASE Shown # {} /\ Queue(<<Do("close", FirstToClose)>>) /\ UNCHANGED uiFocus
    <3>1. FirstToClose \in Layers
      <4> DEFINE T == {i \in DOMAIN EscOrder : EscOrder[i] \in Shown}
      <4>1. Shown \subseteq Dialogs
        BY <1>1, DialogNames DEF Shown, Range, OverlaysTypeOK
      <4>2. T \subseteq Nat /\ T # {}
        BY <2>1, <4>1 DEF Dialogs, Range, EscOrder
      <4>3. Min(T) \in T
        BY <4>2, MinOf
      <4>4. QED
        BY <4>1, <4>3, DialogNames DEF FirstToClose
    <3>2. QED
      BY <1>1, <1>2, <1>4, <1>6, <2>1, <3>1 DEF Esc
  <2>2. CASE Shown = {} /\ uiFocus' = "page" /\ UNCHANGED uiQueue
    <3>1. <<>> \in Seq(Updates)
      OBVIOUS
    <3>2. QED
      BY <1>1, <1>4, <1>6, <2>2, <3>1 DEF Esc
  <2>3. QED
    BY <1>6, <2>1, <2>2 DEF Esc
<1>7. CASE CycleFocus
  <2>1. <<>> \in Seq(Updates)
    OBVIOUS
  <2>2. QED
    BY <1>1, <1>4, <1>7, <2>1 DEF CycleFocus
<1>8. ASSUME NEW d \in Dialogs, Shortcut(d) \/ EnterOnPage(d) \/ RunAction(d) \/ MenuItem(d)
      PROVE  OverlaysInv'
  <2>1. d \in Layers /\ "actions" \in Layers /\ <<>> \in Seq(Updates)
    BY <1>8, DialogNames
  <2>2. CASE Shortcut(d)
    BY <1>1, <1>2, <1>4, <2>1, <2>2 DEF Shortcut, RequestOpen
  <2>3. CASE EnterOnPage(d)
    BY <1>1, <1>2, <1>4, <2>1, <2>3 DEF EnterOnPage, RequestOpen
  <2>4. CASE RunAction(d)
    BY <1>1, <1>2, <1>4, <2>1, <2>4 DEF RunAction
  <2>5. CASE MenuItem(d)
    BY <1>1, <1>3, <1>4, <2>1, <2>5 DEF MenuItem, RequestOpen
  <2>6. QED
    BY <1>8, <2>2, <2>3, <2>4, <2>5
<1>9. ASSUME NEW d \in Layers, Leave(d) PROVE OverlaysInv'
  BY <1>1, <1>2, <1>4, <1>9 DEF Leave
<1>10. CASE PreviewChanges
  <2>1. "preview" \in Layers
    BY DialogNames
  <2>2. QED
    BY <1>1, <1>2, <1>4, <1>10, <2>1 DEF PreviewChanges, RequestOpen
<1>11. CASE PaletteImport
  <2>1. "palette" \in Layers
    BY DialogNames
  <2>2. QED
    BY <1>1, <1>2, <1>4, <1>11, <2>1 DEF PaletteImport, RequestOpen
<1>12. CASE PaletteNavigate \/ SwitchPage
  <2>1. uiQueue' \in Seq(Updates) /\ SyncPages
    <3>1. "palette" \in Layers
      BY DialogNames
    <3>2. QED
      BY <1>1, <1>2, <1>12, <3>1 DEF PaletteNavigate, SwitchPage
  <2>2. UNCHANGED <<actions, opens, together>>
    BY <2>1 DEF SyncPages
  <2>3. /\ stack' \in Seq(Layers) /\ \A i, j \in DOMAIN stack' : stack'[i] = stack'[j] => i = j
        /\ prev' \in [Dialogs -> Places] /\ uiFocus' \in Places /\ rebuilt' \in BOOLEAN
        /\ ~together' /\ ~rebuilt' => OneDialog'
    BY <2>1, SyncPagesIs
  <2>4. OverlaysTypeOK'
    BY <1>1, <2>1, <2>2, <2>3 DEF OverlaysTypeOK, Updates
  <2>5. QED
    BY <2>3, <2>4 DEF OverlaysInv
<1>13. QED
  BY <1>5, <1>6, <1>7, <1>8, <1>9, <1>10, <1>11, <1>12 DEF OverlaysNext

\* While no dialog has opened over another one and no page was rebuilt under
\* one, there is one dialog, or the editor with its preview, over the page it
\* goes back to - even with updates pending.
THEOREM OverlaysInvariant == OverlaysSpec => []OverlaysInv
<1>1. OverlaysInv /\ UNCHANGED overlayVars => OverlaysInv'
  BY DEF OverlaysInv, OverlaysTypeOK, OneDialog, Alone, overlayVars
<1>2. OverlaysInv /\ [OverlaysNext]_overlayVars => OverlaysInv'
  BY <1>1, OverlaysStep
<1>3. QED
  BY OverlaysInitially, <1>2, PTL DEF OverlaysSpec

\* Keys go to the dialog on the screen, and Esc closes that one.
THEOREM KeysFollow == OverlaysSpec => []KeysGoToTheTop
<1>1. ASSUME OverlaysInv, ~together, ~rebuilt
      PROVE  /\ uiFocus = Topmost(stack)
             /\ Shown # {} => Shown = {FirstToClose}
  <2>1. OneDialog
    BY <1>1 DEF OverlaysInv
  <2>2. ASSUME NEW d \in Dialogs, Shown = {d} PROVE FirstToClose = d
    <3> DEFINE T == {i \in DOMAIN EscOrder : EscOrder[i] \in Shown}
    <3>1. T \subseteq Nat /\ T # {}
      BY <2>2 DEF Dialogs, Range, EscOrder
    <3>2. Min(T) \in T
      BY <3>1, MinOf
    <3>3. QED
      BY <2>2, <3>2 DEF FirstToClose
  <2>3. CASE stack = <<>> /\ uiFocus = "page"
    BY <2>3 DEF Topmost, Shown, Range
  <2>4. ASSUME NEW d \in Dialogs, Alone(d)
        PROVE  uiFocus = Topmost(stack) /\ Shown = {d}
    BY <2>4, DialogNames DEF Alone, Topmost, Last, Shown, Range
  <2>5. CASE stack = <<"edit", "preview">> /\ uiFocus = "preview"
    <3>1. Shown = {"edit"} /\ uiFocus = Topmost(stack) /\ "edit" \in Dialogs
      BY <2>5, DialogNames DEF Topmost, Last, Shown, Range
    <3>2. QED
      BY <2>2, <3>1
  <2>6. QED
    BY <2>1, <2>2, <2>3, <2>4, <2>5 DEF OneDialog
<1>2. OverlaysInv => KeysGoToTheTop
  BY <1>1 DEF KeysGoToTheTop
<1>3. QED
  BY <1>2, OverlaysInvariant, PTL

=============================================================================
