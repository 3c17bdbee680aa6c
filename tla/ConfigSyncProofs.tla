-------------------------- MODULE ConfigSyncProofs --------------------------
(***************************************************************************)
(* Proofs about ConfigSync, for any set of writers and any settings: the   *)
(* types, and that the audio service is in the online mode only while the  *)
(* configuration the manager works with asks for it.                       *)
(***************************************************************************)
EXTENDS ConfigSync, TLAPS

IInv == TypeOK /\ CloudOnlyIfConfigured /\ AdoptedIsApplied

-----------------------------------------------------------------------------
\* The defaults are settings, and so is whatever the manager loads.
LEMMA DefaultsType == Defaults \in Settings
<1> QED BY DefaultsKnown DEF Defaults, Settings

LEMMA LoadType == ASSUME TypeOK PROVE Load \in Settings
<1> QED BY DefaultsType DEF TypeOK, Load

\* The updates the writers make keep settings well-formed.
LEMMA UpdateType ==
  ASSUME NEW s \in Settings, NEW l \in Limits, NEW t \in Times,
         NEW on \in BOOLEAN, NEW k \in BOOLEAN
  PROVE  /\ [s EXCEPT !.gen = @ + 1, !.times = t] \in Settings
         /\ [s EXCEPT !.gen = @ + 1, !.online = on, !.key = k] \in Settings
         /\ [s EXCEPT !.gen = @ + 1, !.limits = l] \in Settings
         /\ [s EXCEPT !.online = on] \in Settings
         /\ [gen |-> s.gen + 1, limits |-> l, times |-> t,
             online |-> FALSE, key |-> FALSE] \in Settings
<1>0. s.gen + 1 \in Nat
  BY DEF Settings
<1>1. \A n \in Nat : /\ [s EXCEPT !.gen = n, !.times = t] \in Settings
                    /\ [s EXCEPT !.gen = n, !.online = on, !.key = k] \in Settings
                    /\ [s EXCEPT !.gen = n, !.limits = l] \in Settings
  BY DEF Settings
<1>2. [s EXCEPT !.online = on] \in Settings
  BY DEF Settings
<1>3. [gen |-> s.gen + 1, limits |-> l, times |-> t,
       online |-> FALSE, key |-> FALSE] \in Settings
  BY <1>0 DEF Settings
<1> QED BY <1>0, <1>1, <1>2, <1>3

\* Taking a copy keeps the type of copy.
LEMMA TakeType ==
  ASSUME TypeOK, NEW w, NEW s \in Settings, Take(w, s)
  PROVE  copy' \in [Writers -> Settings \cup {Idle}]
<1> QED BY DEF TypeOK, Take

\* Saving keeps the types of copy and file.
LEMMA SaveType ==
  ASSUME TypeOK, NEW w \in Writers, NEW s \in Settings, Save(w, s)
  PROVE  /\ copy' \in [Writers -> Settings \cup {Idle}]
         /\ file' \in Settings \cup {NoFile}
<1> QED BY DEF TypeOK, Save

\* A writer that holds a copy holds settings.
LEMMA HeldType == ASSUME TypeOK, NEW w, Holds(w) PROVE w \in Writers /\ copy[w] \in Settings
<1> QED BY DEF TypeOK, Holds

\* The actions of the other programs touch neither the manager nor its service.
LEMMA OthersKeep ==
  ASSUME IInv, UNCHANGED <<app, ui>>,
         copy' \in [Writers -> Settings \cup {Idle}], file' \in Settings \cup {NoFile}
  PROVE  IInv'
<1> QED BY DEF IInv, TypeOK, CloudOnlyIfConfigured, AdoptedIsApplied, Wanted, app, ui

\* routine_reload_config leaves the service in the mode of the settings, if it
\* ever told it a mode, and never in the online mode without a reason.
LEMMA ReloadKeeps ==
  ASSUME IInv, running, NEW s \in Settings, Reload(s)
  PROVE  /\ settings' \in Settings
         /\ itemTimes' \in Times
         /\ stored' \in [gen : Nat, times : Times]
         /\ audioOnline' \in BOOLEAN /\ voiceMoved' \in BOOLEAN
         /\ audioOnline' => Wanted(settings')
         /\ voiceMoved' => audioOnline' = Wanted(settings')
<1>1. settings' = s
  BY DEF Reload
<1>2. itemTimes' \in Times
  BY DEF Reload, NewItemTimes, IInv, TypeOK, Settings
<1>3. stored' \in [gen : Nat, times : Times]
  BY <1>2 DEF Reload, IInv, TypeOK, Settings
<1>4. s.online \in BOOLEAN /\ s.key \in BOOLEAN
  BY DEF Settings
<1>5. CASE VoiceChanged(s)
  <2>1. audioOnline' = Wanted(s) /\ voiceMoved' = TRUE
    BY <1>5 DEF Reload, IInv, TypeOK
  <2> QED BY <1>1, <1>2, <1>3, <1>4, <2>1 DEF Wanted
<1>6. CASE ~VoiceChanged(s)
  <2>1. audioOnline' = audioOnline /\ (voiceMoved' <=> voiceMoved)
    BY <1>6 DEF Reload
  <2>2. voiceMoved' \in BOOLEAN
    BY DEF Reload
  <2>3. s.online = settings.online /\ s.key = settings.key
    BY <1>6 DEF VoiceChanged
  <2>4. audioOnline => Wanted(settings)
    BY DEF IInv, CloudOnlyIfConfigured
  <2>5. voiceMoved => audioOnline = Wanted(settings)
    BY DEF IInv, AdoptedIsApplied
  <2>6. audioOnline' \in BOOLEAN
    BY <2>1 DEF IInv, TypeOK
  <2> QED BY <1>1, <1>2, <1>3, <2>1, <2>2, <2>3, <2>4, <2>5, <2>6 DEF Wanted
<1> QED BY <1>5, <1>6

-----------------------------------------------------------------------------
LEMMA InitKeeps == ASSUME Init PROVE IInv
<1>1. TypeOK
  BY DefaultsType, DefaultsKnown DEF Init, TypeOK
<1> QED BY <1>1 DEF Init, IInv, CloudOnlyIfConfigured, AdoptedIsApplied

\* Reading and writing by the programs other than the manager.
LEMMA WritersKeep ==
  ASSUME IInv, \/ AgentRead \/ AgentWrite \/ PanelRead \/ PanelWrite
               \/ VoiceRead \/ VoiceWrite \/ MimoRead \/ MimoWrite
  PROVE  IInv'
<1>t. TypeOK
  BY DEF IInv
<1>u. file \in Settings \cup {NoFile}
  BY DEF IInv, TypeOK
<1>1. CASE AgentRead
  <2>1. copy' \in [Writers -> Settings \cup {Idle}] /\ UNCHANGED <<file, app, ui>>
    BY <1>1, <1>t, TakeType, LoadType DEF AgentRead
  <2> QED BY <2>1, <1>u, OthersKeep
<1>2. CASE AgentWrite
  <2>1. PICK t \in Times : Save("agent", [copy["agent"] EXCEPT !.gen = @ + 1, !.times = t])
    BY <1>2 DEF AgentWrite
  <2>2. "agent" \in Writers /\ copy["agent"] \in Settings
    BY <1>2, <1>t, HeldType DEF AgentWrite
  <2>3. [copy["agent"] EXCEPT !.gen = @ + 1, !.times = t] \in Settings
    BY <2>2, UpdateType, DefaultsKnown
  <2>4. copy' \in [Writers -> Settings \cup {Idle}] /\ file' \in Settings \cup {NoFile}
    BY <2>1, <2>2, <2>3, <1>t, SaveType
  <2> QED BY <2>4, <1>2, OthersKeep DEF AgentWrite
<1>3. CASE PanelRead
  <2>1. [Defaults EXCEPT !.gen = Load.gen] \in Settings
    BY <1>t, LoadType, DefaultsKnown DEF Settings, Defaults
  <2>2. copy' \in [Writers -> Settings \cup {Idle}] /\ UNCHANGED <<file, app, ui>>
    BY <1>3, <1>t, <2>1, TakeType DEF PanelRead
  <2> QED BY <2>2, <1>u, OthersKeep
<1>4. CASE PanelWrite
  <2>1. PICK l \in Limits, t \in Times :
          Save("panel", [gen |-> copy["panel"].gen + 1, limits |-> l, times |-> t,
                         online |-> FALSE, key |-> FALSE])
    BY <1>4 DEF PanelWrite
  <2>2. "panel" \in Writers /\ copy["panel"] \in Settings
    BY <1>4, <1>t, HeldType DEF PanelWrite
  <2>3. [gen |-> copy["panel"].gen + 1, limits |-> l, times |-> t,
         online |-> FALSE, key |-> FALSE] \in Settings
    BY <2>2, UpdateType
  <2>4. copy' \in [Writers -> Settings \cup {Idle}] /\ file' \in Settings \cup {NoFile}
    BY <2>1, <2>2, <2>3, <1>t, SaveType
  <2> QED BY <2>4, <1>4, OthersKeep DEF PanelWrite
<1>5. CASE VoiceRead
  <2>1. [Defaults EXCEPT !.limits = VoiceDefaultLimits] \in Settings
    BY DefaultsType, DefaultsKnown DEF Settings
  <2>2. (IF file = NoFile THEN [Defaults EXCEPT !.limits = VoiceDefaultLimits]
                          ELSE file) \in Settings
    BY <2>1, <1>u
  <2>3. copy' \in [Writers -> Settings \cup {Idle}] /\ UNCHANGED <<file, app, ui>>
    BY <1>5, <1>t, <2>2, TakeType DEF VoiceRead
  <2> QED BY <2>3, <1>u, OthersKeep
<1>6. CASE VoiceWrite
  <2>1. PICK on \in BOOLEAN, k \in BOOLEAN :
          Save("voice", [copy["voice"] EXCEPT !.gen = @ + 1, !.online = on, !.key = k])
    BY <1>6 DEF VoiceWrite
  <2>2. "voice" \in Writers /\ copy["voice"] \in Settings
    BY <1>6, <1>t, HeldType DEF VoiceWrite
  <2>3. [copy["voice"] EXCEPT !.gen = @ + 1, !.online = on, !.key = k] \in Settings
    BY <2>2, UpdateType, DefaultsKnown
  <2>4. copy' \in [Writers -> Settings \cup {Idle}] /\ file' \in Settings \cup {NoFile}
    BY <2>1, <2>2, <2>3, <1>t, SaveType
  <2> QED BY <2>4, <1>6, OthersKeep DEF VoiceWrite
<1>7. CASE MimoRead
  <2>1. file \in Settings
    BY <1>7, <1>u DEF MimoRead
  <2>2. copy' \in [Writers -> Settings \cup {Idle}] /\ UNCHANGED <<file, app, ui>>
    BY <1>7, <1>t, <2>1, TakeType DEF MimoRead
  <2> QED BY <2>2, <1>u, OthersKeep
<1>8. CASE MimoWrite
  <2>1. PICK l \in Limits : Save("mimo", [copy["mimo"] EXCEPT !.gen = @ + 1, !.limits = l])
    BY <1>8 DEF MimoWrite
  <2>2. "mimo" \in Writers /\ copy["mimo"] \in Settings
    BY <1>8, <1>t, HeldType DEF MimoWrite
  <2>3. [copy["mimo"] EXCEPT !.gen = @ + 1, !.limits = l] \in Settings
    BY <2>2, UpdateType, DefaultsKnown
  <2>4. copy' \in [Writers -> Settings \cup {Idle}] /\ file' \in Settings \cup {NoFile}
    BY <2>1, <2>2, <2>3, <1>t, SaveType
  <2> QED BY <2>4, <1>8, OthersKeep DEF MimoWrite
<1> QED BY <1>1, <1>2, <1>3, <1>4, <1>5, <1>6, <1>7, <1>8

\* The LVGL thread: one tick, the mode button, the history interval.
LEMMA ManagerKeeps ==
  ASSUME IInv, ToggleRead \/ SetInterval \/ Tick
  PROVE  IInv'
<1>t. TypeOK
  BY DEF IInv
<1>1. CASE TickReload
  <2>1. running /\ Reload(Load) /\ Load \in Settings
    BY <1>1, <1>t, LoadType DEF TickReload
  <2>2. /\ settings' \in Settings /\ itemTimes' \in Times
        /\ stored' \in [gen : Nat, times : Times]
        /\ audioOnline' \in BOOLEAN /\ voiceMoved' \in BOOLEAN
        /\ audioOnline' => Wanted(settings')
        /\ voiceMoved' => audioOnline' = Wanted(settings')
    BY <2>1, ReloadKeeps
  <2>3. TypeOK'
    BY <1>1, <2>2, <1>t DEF TickReload, TypeOK, ui
  <2> QED BY <1>1, <2>1, <2>2, <2>3 DEF TickReload, IInv, CloudOnlyIfConfigured,
          AdoptedIsApplied, Wanted
<1>2. CASE TickDraw
  <2>1. uiOnline' \in BOOLEAN /\ uiGen' \in Nat
    BY <1>2, <1>t DEF TickDraw, TypeOK, Settings
  <2>2. TypeOK'
    BY <1>2, <2>1, <1>t DEF TickDraw, TypeOK
  <2> QED BY <1>2, <2>2 DEF TickDraw, IInv, CloudOnlyIfConfigured, AdoptedIsApplied, Wanted
<1>3. CASE ToggleWrite
  <2>1. uiOnline \in BOOLEAN /\ file \in Settings \cup {NoFile}
    BY <1>t DEF TypeOK
  <2>2. "ui" \in Writers /\ Save("ui", [copy["ui"] EXCEPT !.online = uiOnline])
    BY <1>3 DEF ToggleWrite, Holds
  <2>3. [copy["ui"] EXCEPT !.online = uiOnline] \in Settings
    <3>1. copy["ui"] \in Settings
      BY <1>3, <1>t, HeldType DEF ToggleWrite
    <3> QED BY <2>1, <3>1, UpdateType, DefaultsKnown
  <2>4. copy' \in [Writers -> Settings \cup {Idle}] /\ file' \in Settings \cup {NoFile}
    BY <2>2, <2>3, <1>t, SaveType
  <2>5. TypeOK'
    BY <1>3, <2>4, <1>t DEF ToggleWrite, TypeOK, ui
  <2> QED BY <1>3, <2>5 DEF ToggleWrite, IInv, CloudOnlyIfConfigured, AdoptedIsApplied, Wanted
<1>4. CASE ToggleRead
  <2>1. copy' \in [Writers -> Settings \cup {Idle}] /\ lvgl' \in {"idle", "drawing", "toggled"}
    <3>1. CASE file = NoFile
      BY <1>4, <3>1, <1>t DEF ToggleRead, TypeOK
    <3>2. CASE file # NoFile
      <4>1. file \in Settings /\ Take("ui", file) /\ lvgl' = "toggled"
        BY <1>4, <3>2, <1>t DEF ToggleRead, TypeOK
      <4> QED BY <4>1, <1>t, TakeType
    <3> QED BY <3>1, <3>2
  <2>2. uiOnline' \in BOOLEAN
    BY <1>4 DEF ToggleRead
  <2>3. TypeOK'
    BY <1>4, <2>1, <2>2, <1>t DEF ToggleRead, TypeOK
  <2> QED BY <1>4, <2>3 DEF ToggleRead, IInv, CloudOnlyIfConfigured, AdoptedIsApplied, Wanted
<1>5. CASE SetInterval
  <2>1. PICK l \in Limits : file' = [settings EXCEPT !.gen = @ + 1, !.limits = l]
    BY <1>5 DEF SetInterval
  <2>2. file' \in Settings
    BY <2>1, <1>t, UpdateType, DefaultsKnown DEF TypeOK
  <2>3. running /\ Reload(file')
    BY <1>5 DEF SetInterval
  <2>4. /\ settings' \in Settings /\ itemTimes' \in Times
        /\ stored' \in [gen : Nat, times : Times]
        /\ audioOnline' \in BOOLEAN /\ voiceMoved' \in BOOLEAN
        /\ audioOnline' => Wanted(settings')
        /\ voiceMoved' => audioOnline' = Wanted(settings')
    BY <2>2, <2>3, ReloadKeeps
  <2>5. TypeOK'
    BY <1>5, <2>2, <2>4, <1>t DEF SetInterval, TypeOK, ui
  <2> QED BY <1>5, <2>3, <2>4, <2>5 DEF SetInterval, IInv, CloudOnlyIfConfigured,
          AdoptedIsApplied, Wanted
<1> QED BY <1>1, <1>2, <1>3, <1>4, <1>5 DEF Tick

\* Starting and stopping the manager, and the board.
LEMMA LifeKeeps ==
  ASSUME IInv, Start \/ Stop \/ Reboot
  PROVE  IInv'
<1>t. TypeOK
  BY DEF IInv
<1>1. CASE Start
  <2>1. Load \in Settings /\ Load.gen \in Nat /\ Load.times \in Times
    BY <1>t, LoadType DEF Settings
  <2>2. itemTimes' \in Times
    BY <1>1, <2>1, <1>t DEF Start, TypeOK
  <2>3. stored' \in [gen : Nat, times : Times]
    BY <1>1, <2>1, <2>2, <1>t DEF Start, TypeOK
  <2>4. TypeOK'
    BY <1>1, <2>1, <2>2, <2>3, <1>t DEF Start, TypeOK
  <2> QED BY <1>1, <2>4 DEF Start, IInv, CloudOnlyIfConfigured, AdoptedIsApplied
<1>2. CASE Stop
  <2>1. TypeOK'
    BY <1>2, <1>t, DefaultsType, DefaultsKnown DEF Stop, Stopped, TypeOK
  <2> QED BY <1>2, <2>1 DEF Stop, Stopped, IInv, CloudOnlyIfConfigured, AdoptedIsApplied
<1>3. CASE Reboot
  <2>1. TypeOK'
    BY <1>3, <1>t, DefaultsType, DefaultsKnown DEF Reboot, Stopped, TypeOK
  <2> QED BY <1>3, <2>1 DEF Reboot, Stopped, IInv, CloudOnlyIfConfigured, AdoptedIsApplied
<1> QED BY <1>1, <1>2, <1>3

LEMMA StepKeeps == ASSUME IInv, [Next]_vars PROVE IInv'
<1>1. CASE UNCHANGED vars
  BY <1>1 DEF vars, app, ui, IInv, TypeOK, CloudOnlyIfConfigured, AdoptedIsApplied, Wanted
<1> QED BY <1>1, WritersKeep, ManagerKeeps, LifeKeeps DEF Next

-----------------------------------------------------------------------------
THEOREM Invariance == Spec => []IInv
<1> QED BY InitKeeps, StepKeeps, PTL DEF Spec

\* Every variable keeps its type.
THEOREM TypeCorrect == Spec => []TypeOK
<1>1. IInv => TypeOK
  BY DEF IInv
<1> QED BY <1>1, Invariance, PTL

\* Whatever the five programs write, recordings are sent to the cloud only while
\* the settings the manager read last ask for it and hold a key.
THEOREM CloudNeedsConsent == Spec => []CloudOnlyIfConfigured
<1>1. IInv => CloudOnlyIfConfigured
  BY DEF IInv
<1> QED BY <1>1, Invariance, PTL

\* Once it has seen one change of the voice settings, the service follows all.
THEOREM ChangesAreFollowed == Spec => []AdoptedIsApplied
<1>1. IInv => AdoptedIsApplied
  BY DEF IInv
<1> QED BY <1>1, Invariance, PTL
=============================================================================
