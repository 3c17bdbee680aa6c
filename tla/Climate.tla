------------------------------- MODULE Climate ------------------------------
(***************************************************************************)
(* The desktop manager's warnings about the temperature: once a second it  *)
(* copies the sample of EnvironmentService, reloads the configuration and  *)
(* asks the audio service to warn, and remembers in which zone the         *)
(* temperature was when a warning was last accepted.                       *)
(*                                                                         *)
(* Of the audio service (module AudioService) only what a warning meets is *)
(* kept: what it is busy with, and what is pending.                        *)
(***************************************************************************)
EXTENDS EnvironmentService

CONSTANTS Low, High,   \* the limits of the configuration
          Hysteresis,  \* hysteresis_x100, one degree
          Temps        \* what may be measured

ASSUME LimitsKnown ==   \* routine_config_validate
  /\ Low \in Int /\ High \in Int /\ Hysteresis \in Nat
  /\ High - Low >= Hysteresis /\ Temps \subseteq Int /\ Temps # {}

VARIABLES
  value,     \* temperature_x100 of the sample
  zone,      \* temperature_zone
  active,    \* the request the audio worker serves
  pending,   \* the one it is to serve next
  said       \* history: the warnings in each direction since it was last due again

Zones == {"LOW", "HIGH"}
Never == [z \in Zones |-> 0]
audio == <<active, pending>>
vars == <<envVars, value, zone, audio, said>>

Init ==
  /\ EnvInit /\ value = CHOOSE t \in Temps : TRUE
  /\ zone = "NORMAL" /\ active = "none" /\ pending = "none" /\ said = Never

-----------------------------------------------------------------------------
(* The thread of the sensors: a good reading of the SHT40 has a value. *)

Sense ==
  /\ Thread
  /\ IF pc = "read" /\ answers /\ sensor = "SHT40" THEN value' \in Temps
     ELSE UNCHANGED value
  /\ UNCHANGED <<zone, audio, said>>

-----------------------------------------------------------------------------
(* The manager's tick. *)

\* audio_service_play_temperature_warning: refused while something is
\* pending, or served unless that is a question, which is cancelled.
AudioFree == pending = "none" /\ active \in {"none", "query"}

Trusted == label = {"live"}

Beyond_NoBand(z) ==
  IF z # "HIGH" /\ value > High THEN "HIGH"
  ELSE IF z # "LOW" /\ value < Low THEN "LOW"
  ELSE "NORMAL"
\* The zone the temperature calls for, seen from zone z: from the opposite
\* zone the limit itself is beyond, and the way back needs the hysteresis.
Beyond(z) ==
  CASE z = "LOW"  -> IF value >= High THEN "HIGH"
                     ELSE IF value >= Low + Hysteresis THEN "NORMAL" ELSE z
    [] z = "HIGH" -> IF value <= Low THEN "LOW"
                     ELSE IF value <= High - Hysteresis THEN "NORMAL" ELSE z
    [] OTHER      -> IF value < Low THEN "LOW" ELSE IF value > High THEN "HIGH" ELSE z

\* routine_check_temperature_warning from zone z: refused, it leaves the zone.
Check(z) ==
  IF ~Trusted \/ Beyond(z) = z THEN zone' = z /\ UNCHANGED pending
  ELSE IF Beyond(z) = "NORMAL" THEN zone' = "NORMAL" /\ UNCHANGED pending
  ELSE IF AudioFree THEN zone' = Beyond(z) /\ pending' = "warning"
  ELSE zone' = z /\ UNCHANGED pending

Warned == pending = "none" /\ pending' = "warning"

\* A direction is due again when the limits are new or the temperature was
\* seen beyond the hysteresis.  One swing does not count: from beyond one limit
\* to beyond the other while the voice is busy.  The zone is kept then, and the
\* swing back is not warned about.
DueAgain(z) ==
  /\ Trusted /\ zone' # z
  /\ IF z = "HIGH" THEN value <= High - Hysteresis ELSE value >= Low + Hysteresis

\* routine_timer_cb, with or without a new configuration.
Tick(reload) ==
  /\ started /\ ~stop /\ sensor = "SHT40"
  /\ Check(IF reload THEN "NORMAL" ELSE zone)
  /\ said' = [z \in Zones |-> (IF reload \/ DueAgain(z) THEN 0 ELSE said[z])
                               + (IF Warned /\ zone' = z THEN 1 ELSE 0)]
  /\ UNCHANGED <<envVars, value, active>>

-----------------------------------------------------------------------------
(* The audio service. *)

AudioStep ==
  /\ \/ /\ pending = "none"                       \* a request of another kind
        /\ pending' \in {"query", "other"} /\ UNCHANGED active
     \/ /\ active = "none" /\ pending # "none"    \* the worker takes the request
        /\ active' = pending /\ pending' = "none"
     \/ /\ active = "none"                        \* or a reminder before it
        /\ active' = "other" /\ UNCHANGED pending
     \/ /\ active # "none"                        \* it is done with one
        /\ active' = "none" /\ UNCHANGED pending
     \/ /\ active = "none" /\ pending # "none"    \* the user cancels
        /\ pending' = "none" /\ UNCHANGED active
  /\ UNCHANGED <<envVars, value, zone, said>>
Served ==
  /\ active # "none" \/ pending # "none"
  /\ active' = (IF active = "none" THEN pending ELSE "none")
  /\ AudioStep

\* The program ends and is started again.
Quit == RequestStop /\ UNCHANGED <<value, zone, audio, said>>
Over == Join /\ UNCHANGED <<value, zone, audio, said>>
Again ==
  /\ Start /\ zone' = "NORMAL" /\ active' = "none" /\ pending' = "none" /\ said' = Never
  /\ UNCHANGED value
Disturb == Plug /\ UNCHANGED <<value, zone, audio, said>>

Next ==
  \/ Sense \/ (\E reload \in BOOLEAN : Tick(reload)) \/ AudioStep
  \/ Quit \/ Over \/ Again \/ Disturb
Spec == Init /\ [][Next]_vars

\* The thread is never blocked for good, the timer ticks every second, and
\* what the audio service does ends.  Nobody need change the limits.
Fairness == WF_vars(Sense) /\ WF_vars(Tick(FALSE)) /\ WF_vars(Served)
FairSpec == Spec /\ Fairness

-----------------------------------------------------------------------------
\* The values every variable takes.
TypeOK ==
  /\ EnvTypeOK /\ value \in Temps /\ zone \in {"LOW", "NORMAL", "HIGH"}
  /\ active \in {"none", "query", "warning", "other"}
  /\ pending \in {"none", "query", "warning", "other"}
  /\ said \in [Zones -> 0..2]

\* A warning is about a temperature at or beyond a limit, read less than a
\* round and StaleSeconds ago, and is not said again before the temperature
\* has been seen beyond the hysteresis: a value that wavers about the limit,
\* a sensor that comes and goes, a busy voice do not repeat it.
WarningIsEarned ==
  [][Warned /\ zone' \in Zones =>
       /\ age # None /\ age <= StaleSeconds + MaxStep + 1
       /\ value >= High \/ value <= Low
       /\ said'[zone'] = 1]_vars

\* It is too hot, the sensor works, and nobody asks the voice for anything
\* else: every request that is pending at the tick refuses the warning.
Hot ==
  /\ started /\ ~stop /\ sensor = "SHT40" /\ answers
  /\ label = {"live"} /\ value > High
Quiet == active # "other" /\ pending \in {"none", "warning"}

\* A temperature that stays too high has a warning accepted in the end,
\* however often one was refused before.
HotIsSaid == <>[](Hot /\ Quiet) => []<>(said["HIGH"] = 1)

\* After any failures, back-offs and refusals: a sensor that was plugged in is
\* live again, one that was pulled is shown offline, heat is warned about
\* (environment_service.c:112-204, routine_manager_main.c:601-650).
Recovers == PluggedRecovers /\ PulledIsOffline /\ HotIsSaid
=============================================================================
