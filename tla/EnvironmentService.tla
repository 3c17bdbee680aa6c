------------------------- MODULE EnvironmentService -------------------------
(***************************************************************************)
(* The thread of environment_service.c that measures once a second, backs  *)
(* off from a sensor that does not answer, and labels what it last knows.  *)
(*                                                                         *)
(* The three sensors share nothing but the length of the round, so one     *)
(* behaviour follows one of them, "sensor", chosen at the start.  Whether  *)
(* it answers on the bus ("answers") is external and may change before any *)
(* access.  Time is counted in whole seconds, as every comparison in the   *)
(* code is: "age" since the last good reading, "retry" left before the     *)
(* next attempt, "warm" left of the SGP30's warm-up.                       *)
(*                                                                         *)
(* F_Fault is F with a plausible fault, for the mutants of PROJECT.json.   *)
(***************************************************************************)
EXTENDS Integers

CONSTANTS StaleSeconds,    \* ENV_STALE_SECONDS, 3
          FailureLimit,    \* ENV_FAILURE_LIMIT, 3
          FirstBackoff,    \* 5
          MaxBackoff,      \* 60
          WarmupSeconds,   \* ENVMON_SGP30_WARMUP_SECONDS, 15
          FailureWrap,     \* a uint8_t counts modulo 256
          MaxStep          \* bound on the seconds one sensor, or the two others, may take

ASSUME SecondsKnown ==
  /\ StaleSeconds \in Nat /\ WarmupSeconds \in Nat /\ MaxStep \in Nat
  /\ FirstBackoff \in Nat \ {0} /\ MaxBackoff \in Nat /\ FirstBackoff <= MaxBackoff
  /\ FailureLimit \in Nat \ {0} /\ FailureWrap \in Nat /\ FailureLimit < FailureWrap

\* So that a sensor is set up again only after its last reading became stale.
ASSUME RecoveryOutlastsReading == FailureLimit + FirstBackoff > StaleSeconds

None == -1
Sensors == {"SGP30", "SHT40", "BH1750"}
Labels == {"live", "stale", "warmup", "offline", "demo"}
\* No comparison tells apart ages beyond this one.
MaxAge == StaleSeconds + 2 * MaxStep + 2

VARIABLES
  sensor, answers,
  started, stop,   \* of the service
  pc,              \* the thread: what it does next
  ready,           \* initialized, of BH1750 and SGP30
  failures, backoff,
  retry,           \* None for a next_retry of zero
  age,             \* None before the first reading: the valid bit and last_good
  warm,
  shown,           \* last_state
  label            \* the masks of the sample, as the labels of this sensor's metrics

device == <<sensor, answers>>
service == <<started, stop>>
health == <<ready, failures, backoff, shown>>
clocks == <<retry, age, warm>>
envVars == <<device, service, pc, health, clocks, label>>

Fresh ==
  /\ stop' = FALSE /\ pc' = "init" /\ ready' = (sensor = "SHT40")
  /\ failures' = 0 /\ backoff' = FirstBackoff /\ retry' = None
  /\ age' = None /\ warm' = 0 /\ shown' = "UNKNOWN" /\ label' = {}

EnvInit ==
  /\ sensor \in Sensors /\ answers \in BOOLEAN
  /\ started = TRUE /\ stop = FALSE /\ pc = "init" /\ ready = (sensor = "SHT40")
  /\ failures = 0 /\ backoff = FirstBackoff /\ retry = None
  /\ age = None /\ warm = 0 /\ shown = "UNKNOWN" /\ label = {}

-----------------------------------------------------------------------------
(* One sensor in one round. *)

Older(d) == IF age = None THEN None ELSE IF age + d > MaxAge THEN MaxAge ELSE age + d
Left(n, d) == IF n > d THEN n - d ELSE 0
Pass(d) ==
  /\ age' = Older(d) /\ warm' = Left(warm, d)
  /\ retry' = IF retry = None THEN None ELSE Left(retry, d)

RetryDue_Reversed == retry # 0
RetryDue == retry \in {None, 0}

ScheduleRetry_AtOnce(d) ==
  /\ retry' = 0 /\ shown' = "RECOVERING"
  /\ backoff' = IF 2 * backoff > MaxBackoff THEN MaxBackoff ELSE 2 * backoff
\* environment_schedule_retry, after an access of d seconds.
ScheduleRetry(d) ==
  /\ retry' = Left(backoff, d) /\ shown' = "RECOVERING"
  /\ backoff' = IF 2 * backoff > MaxBackoff THEN MaxBackoff ELSE 2 * backoff

\* environment_init_*: the SHT40 has nothing to set up.  A BH1750 or SGP30
\* that is started keeps next_retry; only a good reading clears it.
Prepare ==
  /\ pc = "init" /\ ~stop
  /\ \/ /\ IF sensor = "SHT40" THEN RetryDue ELSE ready
        /\ pc' = "read" /\ UNCHANGED <<health, clocks>>
     \/ /\ ~RetryDue /\ (sensor # "SHT40" => ~ready)
        /\ pc' = "publish" /\ UNCHANGED <<health, clocks>>
     \/ /\ sensor # "SHT40" /\ ~ready /\ RetryDue /\ answers
        /\ ready' = TRUE /\ failures' = 0 /\ backoff' = FirstBackoff
        /\ shown' = IF sensor = "SGP30" THEN "WARMUP" ELSE "LIVE"
        /\ warm' = IF sensor = "SGP30" THEN WarmupSeconds ELSE 0
        /\ pc' = "read" /\ UNCHANGED <<retry, age>>
     \/ /\ sensor # "SHT40" /\ ~ready /\ RetryDue /\ ~answers
        /\ ScheduleRetry(0)
        /\ pc' = "publish" /\ UNCHANGED <<ready, failures, age, warm>>
  /\ UNCHANGED <<device, service, label>>

Warming == ready /\ warm > 0

\* A good reading in d seconds, dated before them.  During the SGP30's warm-up
\* its values are not used.
Answered(d) ==
  /\ answers /\ failures' = 0 /\ UNCHANGED ready
  /\ IF Warming
     THEN shown' = "WARMUP" /\ UNCHANGED backoff /\ Pass(d)
     ELSE /\ age' = d /\ retry' = None /\ backoff' = FirstBackoff /\ shown' = "LIVE"
          /\ warm' = Left(warm, d)

\* A reading that fails.  Nothing keeps the count of the SHT40, which goes on
\* being read, from wrapping.
Unanswered(d) ==
  /\ ~answers /\ age' = Older(d) /\ warm' = Left(warm, d)
  /\ failures' = (failures + 1) % FailureWrap
  /\ IF failures' >= FailureLimit
     THEN ScheduleRetry(d) /\ ready' = (sensor = "SHT40")
     ELSE /\ shown' = IF sensor = "SHT40" /\ age = None THEN "UNAVAILABLE" ELSE "STALE"
          /\ Pass(d) /\ UNCHANGED <<ready, backoff>>

Read ==
  /\ pc = "read" /\ \E d \in 0..MaxStep : Answered(d) \/ Unanswered(d)
  /\ pc' = "publish" /\ UNCHANGED <<device, service, label>>

IsStale_Never(a) == FALSE
IsStale(a) == a > StaleSeconds

\* environment_publish_masks: what the sample says of this sensor.
Masks(a, warming) ==
  IF shown \in {"UNAVAILABLE", "RECOVERING"} THEN {"offline"}
  ELSE {l \in Labels :
          \/ l = "live"   /\ a # None /\ ~IsStale(a)
          \/ l = "stale"  /\ a # None /\ IsStale(a)
          \/ l = "warmup" /\ warming
          \/ l = "demo"   /\ a = None /\ ~warming}

\* The other sensors took d seconds.
Publish ==
  /\ pc = "publish"
  /\ \E d \in 0..MaxStep :
       /\ Pass(d)
       /\ label' = Masks(age', ready /\ warm' > 0)
  /\ pc' = "sleep" /\ UNCHANGED <<device, service, health>>

\* The timed wait ends on the next whole second, or at once on a stop.
Wake ==
  /\ pc = "sleep" /\ pc' = "init"
  /\ IF stop THEN UNCHANGED clocks ELSE Pass(1)
  /\ UNCHANGED <<device, service, health, label>>

\* The thread looks at stop before each sensor and at the head of the round;
\* the BH1750 comes last.
Exit ==
  /\ stop /\ (pc = "init" \/ (pc = "publish" /\ sensor # "BH1750"))
  /\ pc' = "exit" /\ UNCHANGED <<device, service, health, clocks, label>>

Thread == Prepare \/ Read \/ Publish \/ Wake \/ Exit

-----------------------------------------------------------------------------
(* The service and the outside world. *)

Start == ~started /\ started' = TRUE /\ Fresh /\ UNCHANGED device
RequestStop ==
  /\ started /\ ~stop /\ stop' = TRUE
  /\ UNCHANGED <<device, started, pc, health, clocks, label>>
Join ==
  /\ stop /\ started /\ pc = "exit" /\ started' = FALSE
  /\ UNCHANGED <<device, stop, pc, health, clocks, label>>
Plug ==   \* a sensor is pulled or plugged in, or the bus disturbed
  /\ started /\ answers' = ~answers
  /\ UNCHANGED <<sensor, service, pc, health, clocks, label>>

-----------------------------------------------------------------------------
EnvTypeOK ==
  /\ sensor \in Sensors /\ answers \in BOOLEAN
  /\ started \in BOOLEAN /\ stop \in BOOLEAN
  /\ pc \in {"init", "read", "publish", "sleep", "exit"}
  /\ ready \in BOOLEAN /\ failures \in 0..(FailureWrap - 1)
  /\ backoff \in FirstBackoff..MaxBackoff /\ retry \in {None} \cup 0..MaxBackoff
  /\ age \in {None} \cup 0..MaxAge /\ warm \in 0..WarmupSeconds
  /\ shown \in {"UNKNOWN", "UNAVAILABLE", "WARMUP", "LIVE", "STALE", "RECOVERING"}
  /\ label \in SUBSET Labels

\* What is labelled live was read at most StaleSeconds before it was labelled,
\* so at most a round longer ago when anyone looks at it.  The masks are only
\* renewed once a round and nobody looks at captured_at.
LiveIsRecent == "live" \in label => age # None /\ age <= StaleSeconds + MaxStep + 1

\* The user interface shows one word for a sensor: live excludes the other
\* labels, so do offline and demo.  That a sensor set up anew is not live and
\* warming up at once rests on the failures and the back-off before it being
\* longer than StaleSeconds.
OneLabel ==
  /\ \A l \in {"live", "offline", "demo"} : l \in label => label = {l}
  /\ pc = "sleep" => label # {}

\* A sensor that answers from some time on is live in the end, whatever
\* back-off it was in.
PluggedRecovers == <>[](answers /\ started /\ ~stop) => <>[](label = {"live"})

\* A sensor that never answers again is shown offline again and again.  Not
\* for good: the failures of the SHT40 wrap.
PulledIsOffline == <>[](~answers /\ started /\ ~stop) => []<>(label = {"offline"})
=============================================================================
