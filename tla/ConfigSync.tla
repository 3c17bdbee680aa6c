----------------------------- MODULE ConfigSync -----------------------------
(***************************************************************************)
(* The shared configuration /data/routine/config.json: five programs read, *)
(* modify and rewrite it, and the desktop manager polls it once a second.  *)
(*                                                                         *)
(*   ui     the voice mode button of the desktop (LVGL thread)             *)
(*   mimo   the threshold command of the voice assistant (audio worker)    *)
(*   panel  POST /api/v1/routine/config of the LAN panel                   *)
(*   voice  POST /api/v1/voice/config of the LAN panel                     *)
(*   agent  the tool routine_schedule_update of the AI agent               *)
(*                                                                         *)
(* Each of them reads the file, computes and writes: two actions, with the *)
(* copy it read in between.  How one write replaces the file is the        *)
(* subject of ConfigFile; here it is atomic.                               *)
(*                                                                         *)
(* Data abstracted away: "limits" stands for the temperature thresholds    *)
(* and the history interval, "times" for the hours and minutes of the      *)
(* schedule (the code treats every slot alike), "online" for voice_mode,   *)
(* "key" for mimo_enabled with an API key; texts are left out.             *)
(*                                                                         *)
(* F_Fault is F with a plausible fault, for the mutants of PROJECT.json.   *)
(***************************************************************************)
EXTENDS Naturals, FiniteSets

CONSTANTS Writers,             \* the programs in use, of the five above
          Limits, Times,       \* values of the two groups of settings
          DefaultLimits,       \* thresholds and interval of routine_config_defaults
          VoiceDefaultLimits,  \* the ones voice_config_api_post writes into a new file
          DefaultTimes,
          NoFile,              \* there is no config.json
          Idle,                \* a writer that holds no copy
          MaxGen,              \* bound on the generation counter
          MaxCopies            \* bound on the writers between their read and their write

ASSUME DefaultsKnown ==
  /\ {DefaultLimits, VoiceDefaultLimits} \subseteq Limits
  /\ DefaultTimes \in Times
ASSUME WritersKnown == Writers \subseteq {"ui", "mimo", "panel", "voice", "agent"}
ASSUME MaxGenNat == MaxGen \in Nat /\ MaxCopies \in Nat

VARIABLES
  file,        \* config.json
  copy,        \* per writer, the configuration it read and will write back
  running,     \* routine_mgr runs, with its audio service
  lvgl,        \* what the LVGL thread is in the middle of
  settings,    \* app->settings, and the copy of them in the model
  itemTimes,   \* the times of today's schedule items
  stored,      \* schedule.state: generation and item times
  audioOnline, \* online_mode of the audio service
  uiOnline,    \* g_ui.voice_online_mode
  uiGen,       \* last_check_generation, a static of routine_ui_update
  voiceMoved   \* history: a new voice setting was read since the service started

app  == <<running, lvgl, settings, itemTimes, stored, audioOnline, voiceMoved>>
ui   == <<uiOnline, uiGen>>
vars == <<file, copy, app, ui>>

Settings == [gen : Nat, limits : Limits, times : Times, online : BOOLEAN, key : BOOLEAN]
Defaults == [gen |-> 0, limits |-> DefaultLimits, times |-> DefaultTimes,
             online |-> FALSE, key |-> FALSE]

\* What routine_reload_config works with: the file, or the defaults without one.
Load == IF file = NoFile THEN Defaults ELSE file
Wanted(s) == s.online /\ s.key

Init ==
  /\ file = NoFile
  /\ copy = [w \in Writers |-> Idle]
  /\ running = FALSE /\ lvgl = "idle"
  /\ settings = Defaults
  /\ itemTimes = DefaultTimes
  /\ stored = [gen |-> 0, times |-> DefaultTimes]
  /\ audioOnline = FALSE
  /\ uiOnline = FALSE /\ uiGen = 0
  /\ voiceMoved = FALSE

(***************************************************************************)
(* Writers: read, then write back.  A save may fail and change nothing.    *)
(***************************************************************************)
Holding == {w \in Writers : copy[w] # Idle}
Take(w, s) ==
  /\ w \in Writers \ Holding /\ Cardinality(Holding) < MaxCopies
  /\ copy' = [copy EXCEPT ![w] = s]

Holds(w) == w \in Writers /\ copy[w] # Idle

Save(w, s) ==
  /\ copy' = [copy EXCEPT ![w] = Idle]
  /\ file' \in {file, s}

\* The agent starts from its own defaults, the same ones, without a file.
AgentRead == Take("agent", Load) /\ UNCHANGED <<file, app, ui>>
AgentWrite ==
  /\ Holds("agent") /\ copy["agent"].gen < MaxGen
  /\ \E t \in Times :
       Save("agent", [copy["agent"] EXCEPT !.gen = @ + 1, !.times = t])
  /\ UNCHANGED <<app, ui>>

\* lan_panel_config_generation: only the generation is taken from the file.
PanelRead == Take("panel", [Defaults EXCEPT !.gen = Load.gen]) /\ UNCHANGED <<file, app, ui>>
PanelWrite ==
  /\ Holds("panel") /\ copy["panel"].gen < MaxGen
  /\ \E l \in Limits, t \in Times :
       Save("panel", [gen |-> copy["panel"].gen + 1, limits |-> l, times |-> t,
                      online |-> FALSE, key |-> FALSE])
  /\ UNCHANGED <<app, ui>>

VoiceRead ==
  /\ Take("voice", IF file = NoFile THEN [Defaults EXCEPT !.limits = VoiceDefaultLimits]
                                    ELSE file)
  /\ UNCHANGED <<file, app, ui>>
VoiceWrite ==
  /\ Holds("voice") /\ copy["voice"].gen < MaxGen
  /\ \E on, k \in BOOLEAN :
       Save("voice", [copy["voice"] EXCEPT !.gen = @ + 1, !.online = on, !.key = k])
  /\ UNCHANGED <<app, ui>>

\* mimo_set_temperature_threshold gives up when the file cannot be loaded.
MimoRead ==
  /\ running /\ file # NoFile
  /\ Take("mimo", file)
  /\ UNCHANGED <<file, app, ui>>
MimoWrite ==
  /\ Holds("mimo") /\ copy["mimo"].gen < MaxGen
  /\ \E l \in Limits :
       Save("mimo", [copy["mimo"] EXCEPT !.gen = @ + 1, !.limits = l])
  /\ UNCHANGED <<app, ui>>

(***************************************************************************)
(* The desktop manager.                                                    *)
(***************************************************************************)
\* routine_model_apply_settings.  A known generation changes no times.
SameGeneration(s) == settings.gen = s.gen /\ s.gen # 0
NewItemTimes(s) == IF SameGeneration(s) \/ settings.times = s.times THEN itemTimes ELSE s.times

VoiceChanged_ModeOnly(s) == s.online # settings.online
VoiceChanged(s) == <<s.online, s.key>> # <<settings.online, settings.key>>

\* routine_reload_config while the audio service runs.
Reload_NewGenerationOnly(s) ==
  IF settings.gen = s.gen
    THEN UNCHANGED <<settings, itemTimes, stored, audioOnline, voiceMoved>>
    ELSE /\ settings' = s /\ itemTimes' = NewItemTimes(s)
         /\ audioOnline' = Wanted(s) /\ voiceMoved' = TRUE /\ UNCHANGED stored
Reload(s) ==
  /\ settings' = s
  /\ itemTimes' = NewItemTimes(s)
  /\ stored' = IF \/ settings.gen # s.gen \/ settings.limits # s.limits
                  \/ itemTimes' # itemTimes
                 THEN [gen |-> s.gen, times |-> itemTimes'] ELSE stored
  /\ audioOnline' = IF VoiceChanged(s) THEN Wanted(s) ELSE audioOnline
  /\ voiceMoved' = (voiceMoved \/ VoiceChanged(s))

\* Start-up: the model starts from the defaults, schedule.state brings back the
\* items, the configuration is read, and only then is the audio service created.
Start ==
  /\ ~running
  /\ running' = TRUE /\ lvgl' = "idle"
  /\ settings' = Load
  /\ itemTimes' = IF (stored.gen = Load.gen /\ Load.gen # 0) \/ Load.times = DefaultTimes
                    THEN stored.times ELSE Load.times
  /\ stored' = IF stored.gen # Load.gen \/ Load.limits # DefaultLimits
                  \/ itemTimes' # stored.times
                 THEN [gen |-> Load.gen, times |-> itemTimes'] ELSE stored
  /\ audioOnline' = FALSE /\ voiceMoved' = FALSE
  /\ uiOnline' = FALSE
  /\ UNCHANGED <<file, copy, uiGen>>

Stopped ==
  /\ running' = FALSE /\ lvgl' = "idle" /\ audioOnline' = FALSE /\ voiceMoved' = FALSE
  /\ settings' = Defaults /\ itemTimes' = DefaultTimes /\ uiOnline' = FALSE
  /\ UNCHANGED stored

\* routine_mgr ends between two callbacks, after the audio worker has been joined.
Stop ==
  /\ running /\ lvgl = "idle" /\ ~Holds("mimo")
  /\ Stopped
  /\ UNCHANGED <<file, copy, uiGen>>

Reboot ==
  /\ Stopped
  /\ copy' = [w \in Writers |-> Idle]
  /\ uiGen' = 0
  /\ UNCHANGED file

\* routine_timer_cb: reload the configuration, then draw.
TickReload ==
  /\ running /\ lvgl = "idle"
  /\ Reload(Load)
  /\ lvgl' = "drawing"
  /\ UNCHANGED <<file, copy, running, ui>>

\* routine_ui_update looks at the mode in the file when the generation is new.
TickDraw ==
  /\ lvgl = "drawing"
  /\ uiOnline' = IF uiGen # settings.gen /\ file # NoFile THEN file.online ELSE uiOnline
  /\ uiGen' = settings.gen
  /\ lvgl' = "idle"
  /\ UNCHANGED <<file, copy, running, settings, itemTimes, stored,
                 audioOnline, voiceMoved>>

\* routine_voice_mode_button_cb: the button flips, then the file is read and
\* written back with the same generation.  Going online needs Wi-Fi.
ToggleRead ==
  /\ running /\ lvgl = "idle" /\ "ui" \in Writers
  /\ uiOnline' = ~uiOnline
  /\ IF file = NoFile THEN UNCHANGED <<copy, lvgl>>
                      ELSE Take("ui", file) /\ lvgl' = "toggled"
  /\ UNCHANGED <<file, running, settings, itemTimes, stored, audioOnline,
                 voiceMoved, uiGen>>

ToggleWrite ==
  /\ lvgl = "toggled" /\ Holds("ui")
  /\ Save("ui", [copy["ui"] EXCEPT !.online = uiOnline])
  /\ lvgl' = "idle"
  /\ UNCHANGED <<running, settings, itemTimes, stored, audioOnline,
                 voiceMoved, ui>>

\* The history interval is saved from app->settings, then everything is reloaded
\* and drawn.
SetInterval ==
  /\ running /\ lvgl = "idle" /\ settings.gen < MaxGen
  /\ \E l \in Limits : file' = [settings EXCEPT !.gen = @ + 1, !.limits = l]
  /\ Reload(file')
  /\ lvgl' = "drawing"
  /\ UNCHANGED <<copy, running, ui>>

Tick == TickReload \/ TickDraw \/ ToggleWrite
Next ==
  \/ AgentRead \/ AgentWrite \/ PanelRead \/ PanelWrite
  \/ VoiceRead \/ VoiceWrite \/ MimoRead \/ MimoWrite
  \/ ToggleRead \/ SetInterval \/ Tick
  \/ Start \/ Stop \/ Reboot

Spec == Init /\ [][Next]_vars

\* The LVGL loop runs its timers whatever else it is asked to do.
FairSpec == Spec /\ SF_vars(TickReload) /\ WF_vars(TickDraw) /\ WF_vars(ToggleWrite)

-----------------------------------------------------------------------------
\* The types of the variables.
TypeOK ==
  /\ file \in Settings \cup {NoFile}
  /\ copy \in [Writers -> Settings \cup {Idle}]
  /\ running \in BOOLEAN /\ lvgl \in {"idle", "drawing", "toggled"}
  /\ settings \in Settings
  /\ itemTimes \in Times
  /\ stored \in [gen : Nat, times : Times]
  /\ audioOnline \in BOOLEAN /\ uiOnline \in BOOLEAN /\ uiGen \in Nat
  /\ voiceMoved \in BOOLEAN

\* Recordings go to the cloud only while the configuration the manager read last
\* asks for the online mode and holds a key.
CloudOnlyIfConfigured == audioOnline => running /\ Wanted(settings)

\* Once a change of the voice settings has been read, the audio service follows
\* every later one; before that a stored online mode waits for the first change.
AdoptedIsApplied == running /\ voiceMoved => audioOnline = Wanted(settings)

\* Whatever is in the file is read by the manager, unless it is replaced first.
FileIsAdopted ==
  \A on, k \in BOOLEAN :
    (running /\ Load.online = on /\ Load.key = k) ~>
      (\/ ~running \/ Load.online # on \/ Load.key # k
       \/ settings.online = on /\ settings.key = k)

\* Saving thresholds and schedule in the panel leaves the saved voice
\* configuration in the file.
PanelKeepsVoice ==
  [][ file' # file /\ Holds("panel") /\ ~Holds("panel")'
      => Wanted(Load)' = Wanted(Load) ]_vars

\* A configuration the manager has adopted is the one in the file: the generation
\* tells every change of the schedule.
GenerationTellsChanges ==
  running /\ settings.gen = Load.gen /\ settings = Load => itemTimes = Load.times
=============================================================================
