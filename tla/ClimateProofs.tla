--------------------------- MODULE ClimateProofs ---------------------------
(***************************************************************************)
(* Proofs about EnvironmentService and Climate for all values of their     *)
(* constants: the types, how old a live reading is, that one label is      *)
(* shown, and that a warning is earned.                                    *)
(*                                                                         *)
(* The labels rest on an argument about seconds: Recent bounds the age of  *)
(* what is labelled live by what the round has done since; Paced says that *)
(* every failure took a second and every back-off its time, so that a      *)
(* sensor is not set up anew while its last reading is still fresh.  The   *)
(* warnings rest on Remembered: a direction that has been warned about and *)
(* is not due again is the zone.                                           *)
(***************************************************************************)
EXTENDS Climate, TLAPS

Recent ==
  "live" \in label =>
    /\ age # None
    /\ age <= StaleSeconds + (CASE pc = "sleep" -> 0
                                [] pc \in {"init", "read"} -> 1
                                [] OTHER -> 1 + MaxStep)

\* Seconds that the failures since the last reading have taken at least.
Taken == failures + (IF pc = "read" \/ (pc = "init" /\ ~stop) THEN 1 ELSE 0)
Paced ==
  /\ warm > 0 => sensor = "SGP30"
  /\ sensor = "SHT40" \/ pc = "read" => ready
  /\ sensor # "SHT40" /\ ready => failures < FailureLimit
  /\ sensor # "SHT40" /\ age # None =>
       /\ ready => (age > StaleSeconds \/ (age >= Taken /\ warm = 0))
       /\ ~ready => retry # None /\ (age > StaleSeconds \/ age + retry > StaleSeconds)

Remembered == \A z \in Zones : said[z] \in 0..1 /\ (said[z] = 1 => zone = z)

EnvInv == EnvTypeOK /\ Recent /\ Paced /\ OneLabel
OwnType ==
  /\ value \in Temps /\ zone \in {"LOW", "NORMAL", "HIGH"}
  /\ active \in {"none", "query", "warning", "other"}
  /\ pending \in {"none", "query", "warning", "other"}
IInv == EnvInv /\ OwnType /\ said \in [Zones -> 0..1] /\ Remembered

\* Sums of seconds that the solvers need on their own.
LEMMA Sums ==
  ASSUME NEW a \in Nat, NEW r \in Nat, NEW d \in Nat, NEW l \in Nat, NEW b \in Nat,
         NEW s \in Nat
  PROVE  /\ a >= l /\ r + d >= b /\ l + b > s => (a + d) + r > s
         /\ \A q \in Nat : a + q > s /\ r + d >= q => (a + d) + r > s
  OBVIOUS

LEMMA Ages == MaxAge \in Nat /\ MaxAge > StaleSeconds + MaxStep + 1 /\ None \notin Nat
  BY SecondsKnown DEF MaxAge, None

\* What passing seconds do to the three clocks.
LEMMA Passing ==
  ASSUME EnvTypeOK, NEW d \in Nat, Pass(d)
  PROVE  /\ age' \in {None} \cup 0..MaxAge /\ (age' = None <=> age = None)
         /\ age # None => age <= age' /\ (age' = age + d \/ age' = MaxAge) /\ age' <= age + d
         /\ warm' \in 0..WarmupSeconds /\ warm' <= warm
         /\ retry' \in {None} \cup 0..MaxBackoff /\ (retry' = None <=> retry = None)
         /\ retry # None => retry' + d >= retry
  BY SecondsKnown, Ages DEF EnvTypeOK, Pass, Older, Left, None

-----------------------------------------------------------------------------
(* The thread. *)

\* What a back-off is made of.
LEMMA Scheduling ==
  ASSUME EnvTypeOK, NEW d \in Nat, ScheduleRetry(d)
  PROVE  /\ retry' \in 0..MaxBackoff /\ retry' + d >= FirstBackoff
         /\ backoff' \in FirstBackoff..MaxBackoff /\ shown' = "RECOVERING"
  BY SecondsKnown DEF EnvTypeOK, ScheduleRetry, Left

LEMMA PrepareKeeps == ASSUME EnvInv, Prepare PROVE EnvInv'
<1> USE DEF EnvInv
<1>1. CASE (IF sensor = "SHT40" THEN RetryDue ELSE ready) /\ pc' = "read"
           /\ UNCHANGED <<health, clocks>>
  BY <1>1, SecondsKnown
  DEF Prepare, EnvTypeOK, Recent, Paced, Taken, OneLabel, health, clocks, device, service
<1>2. CASE ~RetryDue /\ (sensor # "SHT40" => ~ready) /\ pc' = "publish"
           /\ UNCHANGED <<health, clocks>>
  BY <1>2, SecondsKnown
  DEF Prepare, EnvTypeOK, Recent, Paced, Taken, OneLabel, health, clocks, device, service
<1>3. CASE /\ sensor # "SHT40" /\ ~ready /\ RetryDue /\ answers
           /\ ready' = TRUE /\ failures' = 0 /\ backoff' = FirstBackoff
           /\ shown' = IF sensor = "SGP30" THEN "WARMUP" ELSE "LIVE"
           /\ warm' = IF sensor = "SGP30" THEN WarmupSeconds ELSE 0
           /\ pc' = "read" /\ UNCHANGED <<retry, age>>
  <2>1. age # None => age > StaleSeconds
    BY <1>3, SecondsKnown DEF EnvTypeOK, Paced, RetryDue, None
  <2>2. EnvTypeOK' /\ Recent' /\ OneLabel'
    BY <1>3, SecondsKnown DEF Prepare, EnvTypeOK, Recent, OneLabel, device, service
  <2>3. Paced'
    BY <1>3, <2>1, SecondsKnown DEF Prepare, EnvTypeOK, Paced, Taken, device, service
  <2> QED BY <2>2, <2>3
<1>4. CASE /\ sensor # "SHT40" /\ ~ready /\ RetryDue /\ ~answers
           /\ ScheduleRetry(0)
           /\ pc' = "publish" /\ UNCHANGED <<ready, failures, age, warm>>
  <2>1. age # None => age > StaleSeconds
    BY <1>4, SecondsKnown DEF EnvTypeOK, Paced, RetryDue, None
  <2>2. retry' \in 0..MaxBackoff /\ backoff' \in FirstBackoff..MaxBackoff
        /\ shown' = "RECOVERING" /\ retry' # None
    BY <1>4, Scheduling DEF None
  <2>3. EnvTypeOK' /\ Recent' /\ OneLabel'
    BY <1>4, <2>2, SecondsKnown DEF Prepare, EnvTypeOK, Recent, OneLabel, device, service
  <2>4. Paced'
    BY <1>4, <2>1, <2>2, SecondsKnown DEF Prepare, EnvTypeOK, Paced, Taken, device, service
  <2> QED BY <2>3, <2>4
<1> QED BY <1>1, <1>2, <1>3, <1>4 DEF Prepare

LEMMA AnsweredKeeps ==
  ASSUME EnvInv, NEW d \in 0..MaxStep, pc = "read", Answered(d),
         pc' = "publish", UNCHANGED <<device, service, label>>
  PROVE  EnvInv'
<1> USE DEF EnvInv
<1>0. ready /\ ready' /\ failures' = 0 /\ d \in Nat /\ d <= MaxStep
  BY SecondsKnown DEF Paced, Answered
<1>1. CASE Warming
  <2>0. shown' = "WARMUP" /\ backoff' = backoff /\ Pass(d)
    BY <1>1 DEF Answered
  <2>1. EnvTypeOK' /\ OneLabel'
    BY <1>0, <2>0, Passing, SecondsKnown DEF EnvTypeOK, OneLabel, device, service
  <2>2. Recent'
    BY <1>0, <2>0, Passing, SecondsKnown DEF EnvTypeOK, Recent, None
  <2>3. sensor = "SGP30" /\ sensor' = sensor /\ (age # None => age > StaleSeconds)
    BY <1>0, <1>1, SecondsKnown DEF EnvTypeOK, Paced, Warming, device
  <2>4. age' # None => age' > StaleSeconds
    BY <1>0, <2>0, <2>3, Passing, SecondsKnown DEF EnvTypeOK, None
  <2>5. Paced'
    BY <1>0, <2>3, <2>4, SecondsKnown DEF EnvTypeOK, Paced
  <2> QED BY <2>1, <2>2, <2>5
<1>2. CASE ~Warming
  <2>0. /\ age' = d /\ retry' = None /\ backoff' = FirstBackoff /\ shown' = "LIVE"
        /\ warm = 0 /\ warm' = 0 /\ age' # None
    BY <1>0, <1>2, SecondsKnown DEF EnvTypeOK, Answered, Warming, Left, None
  <2>1. d <= MaxAge
    BY <1>0, SecondsKnown, Ages
  <2>2. EnvTypeOK' /\ OneLabel'
    BY <1>0, <2>0, <2>1, SecondsKnown, Ages DEF EnvTypeOK, OneLabel, device, service
  <2>3. Recent'
    BY <1>0, <2>0, SecondsKnown DEF EnvTypeOK, Recent
  <2>4. Paced'
    BY <1>0, <2>0, SecondsKnown DEF EnvTypeOK, Paced, Taken
  <2> QED BY <2>2, <2>3, <2>4
<1> QED BY <1>1, <1>2

LEMMA UnansweredKeeps ==
  ASSUME EnvInv, NEW d \in 0..MaxStep, pc = "read", Unanswered(d),
         pc' = "publish", UNCHANGED <<device, service, label>>
  PROVE  EnvInv'
<1> USE DEF EnvInv
<1>0. ready /\ d \in Nat /\ d <= MaxStep /\ sensor' = sensor
  BY SecondsKnown DEF Paced, device
<1>1. /\ age' = Older(d) /\ warm' = Left(warm, d)
      /\ age' \in {None} \cup 0..MaxAge /\ (age' = None <=> age = None)
      /\ age # None => age <= age' /\ (age' = age + d \/ age' = MaxAge) /\ age' <= age + d
      /\ warm' \in 0..WarmupSeconds /\ warm' <= warm
  BY <1>0, SecondsKnown, Ages DEF EnvTypeOK, Unanswered, Older, Left, None
<1>2. Recent' /\ OneLabel'
  BY <1>0, <1>1, SecondsKnown DEF EnvTypeOK, Recent, OneLabel, None
<1>3. failures' \in 0..(FailureWrap - 1) /\ failures' = (failures + 1) % FailureWrap
  BY SecondsKnown DEF EnvTypeOK, Unanswered
<1>4. sensor # "SHT40" => failures' = failures + 1
  BY <1>0, SecondsKnown DEF EnvTypeOK, Unanswered, Paced
<1>5. CASE failures' >= FailureLimit
  <2>0. ScheduleRetry(d) /\ ready' = (sensor = "SHT40")
    BY <1>5 DEF Unanswered
  <2>1. /\ retry' \in 0..MaxBackoff /\ retry' + d >= FirstBackoff
        /\ backoff' \in FirstBackoff..MaxBackoff /\ shown' = "RECOVERING"
    BY <1>0, <2>0, Scheduling
  <2>2. EnvTypeOK'
    BY <1>0, <1>1, <1>3, <2>0, <2>1 DEF EnvTypeOK, device, service
  <2>3. sensor # "SHT40" /\ age # None =>
          age' > StaleSeconds \/ age' + retry' > StaleSeconds
    <3> SUFFICES ASSUME sensor # "SHT40", age # None, age' <= StaleSeconds
                 PROVE  age' + retry' > StaleSeconds
      BY <1>1, <2>1, SecondsKnown DEF EnvTypeOK, None
    <3>1. age \in Nat /\ age <= StaleSeconds /\ age' = age + d
      BY <1>0, <1>1, SecondsKnown, Ages DEF EnvTypeOK, None
    <3>2. age >= failures + 1
      BY <1>0, <3>1, SecondsKnown DEF EnvTypeOK, Paced, Taken
    <3>3. failures' = failures + 1 /\ failures \in Nat /\ retry' \in Nat
      BY <1>4, <2>1, SecondsKnown DEF EnvTypeOK
    <3>4. age >= FailureLimit
      BY <1>5, <3>1, <3>2, <3>3, SecondsKnown
    <3>5. (age + d) + retry' > StaleSeconds
      BY <1>0, <2>1, <3>1, <3>3, <3>4, Sums, SecondsKnown, RecoveryOutlastsReading
    <3> QED BY <3>1, <3>5
  <2>4. retry' # None /\ (warm' > 0 => sensor' = "SGP30")
    BY <1>0, <1>1, <2>1, SecondsKnown DEF Paced, EnvTypeOK, None
  <2>5. Paced'
    BY <1>0, <1>1, <2>0, <2>3, <2>4 DEF Paced
  <2> QED BY <1>2, <2>2, <2>5
<1>6. CASE ~(failures' >= FailureLimit)
  <2>0. Pass(d) /\ UNCHANGED <<ready, backoff>> /\ ready'
        /\ shown' \in {"UNAVAILABLE", "STALE"}
    BY <1>0, <1>6 DEF Unanswered
  <2>1. EnvTypeOK'
    BY <1>0, <1>1, <1>3, <2>0, Passing DEF EnvTypeOK, device, service
  <2>2. sensor # "SHT40" /\ age # None =>
          age' > StaleSeconds \/ (age' >= failures' /\ warm' = 0)
    BY <1>0, <1>1, <1>4, SecondsKnown, Ages DEF EnvTypeOK, Paced, Taken, None
  <2>3. failures' < FailureLimit /\ (warm' > 0 => sensor' = "SGP30")
    BY <1>0, <1>1, <1>3, <1>6, SecondsKnown DEF Paced, EnvTypeOK
  <2>4. Paced'
    BY <1>0, <1>1, <1>3, <2>0, <2>2, <2>3, SecondsKnown DEF Paced, Taken
  <2> QED BY <1>2, <2>1, <2>4
<1> QED BY <1>5, <1>6

\* Seconds that pass keep the pace.
LEMMA PassKeepsPace ==
  ASSUME EnvTypeOK, Paced, NEW d \in Nat, Pass(d), UNCHANGED <<device, health>>,
         \/ pc = "publish" /\ pc' = "sleep"
         \/ pc = "sleep" /\ pc' = "init" /\ d = 1
  PROVE  Paced'
<1>0. sensor' = sensor /\ ready' = ready /\ failures' = failures
  BY DEF device, health
<1>1. /\ age' \in {None} \cup 0..MaxAge /\ (age' = None <=> age = None)
      /\ age # None => age <= age' /\ (age' = age + d \/ age' = MaxAge)
      /\ warm' \in 0..WarmupSeconds /\ warm' <= warm
      /\ retry' \in {None} \cup 0..MaxBackoff /\ (retry' = None <=> retry = None)
      /\ retry # None => retry' + d >= retry
  BY Passing
<1>2. sensor # "SHT40" /\ age # None /\ ready =>
        age' > StaleSeconds \/ (age' >= Taken' /\ warm' = 0)
  BY <1>0, <1>1, SecondsKnown, Ages DEF EnvTypeOK, Paced, Taken, None
<1>3. sensor # "SHT40" /\ age # None /\ ~ready =>
        retry' # None /\ (age' > StaleSeconds \/ age' + retry' > StaleSeconds)
  <2> SUFFICES ASSUME sensor # "SHT40", age # None, ~ready
               PROVE  retry' # None /\ (age' > StaleSeconds \/ age' + retry' > StaleSeconds)
    OBVIOUS
  <2>1. retry # None /\ (age > StaleSeconds \/ age + retry > StaleSeconds)
    BY DEF Paced
  <2>2. age \in Nat /\ age' \in Nat /\ retry \in Nat /\ retry' \in Nat /\ retry' # None
    BY <1>1, <2>1, SecondsKnown, Ages DEF EnvTypeOK, None
  <2>3. CASE age > StaleSeconds \/ age' = MaxAge
    <3>1. age <= age' /\ MaxAge > StaleSeconds /\ MaxAge \in Nat
      BY <1>1, SecondsKnown, Ages
    <3>2. age' > StaleSeconds
      <4>1. \A x, y, m, t \in Nat : x <= y /\ m > t /\ (x > t \/ y = m) => y > t
        OBVIOUS
      <4> QED BY <2>2, <2>3, <3>1, <4>1, SecondsKnown
    <3> QED BY <2>2, <3>2
  <2>4. CASE age + retry > StaleSeconds /\ age' = age + d
    BY <1>1, <2>1, <2>2, <2>4, Sums, SecondsKnown
  <2> QED BY <1>1, <2>1, <2>3, <2>4
<1>4. warm' > 0 => sensor' = "SGP30"
  BY <1>0, <1>1, SecondsKnown DEF EnvTypeOK, Paced
<1> QED BY <1>0, <1>1, <1>2, <1>3, <1>4 DEF Paced

LEMMA PublishKeeps == ASSUME EnvInv, Publish PROVE EnvInv'
<1> USE DEF EnvInv
<1>1. PICK d \in 0..MaxStep : Pass(d) /\ label' = Masks(age', ready /\ warm' > 0)
  BY DEF Publish
<1>2. d \in Nat /\ pc = "publish" /\ pc' = "sleep" /\ UNCHANGED <<device, service, health>>
  BY SecondsKnown DEF Publish
<1>3. Paced'
  BY <1>1, <1>2, PassKeepsPace
<1>4. label' \in SUBSET Labels
  BY <1>1 DEF Masks, Labels
<1>5. EnvTypeOK'
  BY <1>1, <1>2, <1>4, Passing DEF EnvTypeOK, device, service, health
<1>6. Recent'
  BY <1>1, <1>2, <1>5, SecondsKnown DEF EnvTypeOK, Recent, Masks, IsStale, Labels, None
<1>7. ready /\ warm' > 0 /\ age' # None => age' > StaleSeconds
  BY <1>2, <1>3, <1>5, SecondsKnown DEF EnvTypeOK, Paced, device, health
<1>8. OneLabel'
  <2>1. CASE shown \in {"UNAVAILABLE", "RECOVERING"}
    BY <1>1, <2>1 DEF OneLabel, Masks
  <2>2. CASE shown \notin {"UNAVAILABLE", "RECOVERING"}
    <3>1. /\ "offline" \notin label'
          /\ "live" \in label' <=> age' # None /\ ~(age' > StaleSeconds)
          /\ "stale" \in label' <=> age' # None /\ age' > StaleSeconds
          /\ "warmup" \in label' <=> ready /\ warm' > 0
          /\ "demo" \in label' <=> age' = None /\ ~(ready /\ warm' > 0)
      BY <1>1, <2>2 DEF Masks, IsStale, Labels
    <3> QED BY <1>4, <1>7, <3>1 DEF OneLabel, Labels
  <2> QED BY <2>1, <2>2
<1> QED BY <1>3, <1>5, <1>6, <1>8

LEMMA WakeKeeps == ASSUME EnvInv, Wake PROVE EnvInv'
<1> USE DEF EnvInv
<1>1. CASE stop
  BY <1>1, SecondsKnown
  DEF Wake, EnvTypeOK, Recent, Paced, Taken, OneLabel, device, service, health, clocks
<1>2. CASE ~stop
  <2>0. Pass(1) /\ 1 \in Nat
    BY <1>2 DEF Wake
  <2>1. EnvTypeOK' /\ OneLabel'
    BY <2>0, Passing DEF Wake, EnvTypeOK, OneLabel, device, service, health
  <2>2. Recent'
    BY <2>0, Passing, SecondsKnown DEF Wake, EnvTypeOK, Recent, None
  <2>3. Paced'
    BY <2>0, PassKeepsPace DEF Wake
  <2> QED BY <2>1, <2>2, <2>3
<1> QED BY <1>1, <1>2

\* A step of the thread keeps the invariant.
LEMMA ThreadKeeps == ASSUME EnvInv, Thread PROVE EnvInv'
<1>1. CASE Read
  BY <1>1, AnsweredKeeps, UnansweredKeeps DEF Read
<1>2. CASE Exit
  BY <1>2, SecondsKnown
  DEF EnvInv, Exit, EnvTypeOK, Recent, Paced, Taken, OneLabel, device, service, health, clocks
<1> QED BY <1>1, <1>2, PrepareKeeps, PublishKeeps, WakeKeeps DEF Thread

-----------------------------------------------------------------------------
(* The service and the outside world. *)

\* What the service as a whole and the sensor itself do keeps the invariant.
LEMMA ServiceKeeps ==
  ASSUME EnvInv, Start \/ RequestStop \/ Join \/ Plug \/ UNCHANGED envVars
  PROVE  EnvInv'
<1> USE DEF EnvInv
<1>1. CASE Start
  <2>1. Recent' /\ OneLabel'
    BY <1>1 DEF Start, Fresh, Recent, OneLabel
  <2>0. /\ sensor' = sensor /\ answers' = answers /\ started' = TRUE /\ stop' = FALSE
        /\ pc' = "init" /\ ready' \in BOOLEAN /\ (ready' <=> sensor = "SHT40")
        /\ failures' = 0 /\ backoff' = FirstBackoff /\ retry' = None /\ age' = None
        /\ warm' = 0 /\ shown' = "UNKNOWN" /\ label' = {}
    BY <1>1 DEF Start, Fresh, device
  <2>2. /\ failures' \in 0..(FailureWrap - 1) /\ backoff' \in FirstBackoff..MaxBackoff
        /\ warm' \in 0..WarmupSeconds /\ 0 < FailureLimit
    BY <2>0, SecondsKnown
  <2>3. EnvTypeOK'
    BY <2>0, <2>2 DEF EnvTypeOK
  <2>4. Paced'
    BY <2>0, <2>2 DEF Paced
  <2> QED BY <2>1, <2>3, <2>4
<1>2. CASE RequestStop \/ Join \/ Plug \/ UNCHANGED envVars
  <2>1. UNCHANGED <<sensor, pc, health, clocks, label>>
    BY <1>2 DEF RequestStop, Join, Plug, device, service, envVars
  <2>2. Recent' /\ OneLabel'
    BY <2>1 DEF Recent, OneLabel, clocks
  <2>3. Paced'
    BY <1>2, <2>1, SecondsKnown
    DEF EnvTypeOK, Paced, Taken, clocks, health, RequestStop, Join, Plug, device, service, envVars
  <2>4. answers' \in BOOLEAN /\ started' \in BOOLEAN /\ stop' \in BOOLEAN
    BY <1>2 DEF RequestStop, Join, Plug, device, service, envVars, EnvTypeOK
  <2>5. EnvTypeOK'
    BY <2>1, <2>4 DEF EnvTypeOK, clocks, health
  <2> QED BY <2>2, <2>3, <2>5
<1> QED BY <1>1, <1>2

-----------------------------------------------------------------------------
(* The warnings. *)

\* What a check does to the zone: it enters a direction by a warning it could
\* place, about a temperature at or beyond the limit, and leaves it when the
\* temperature was seen beyond the hysteresis.
LEMMA Checking ==
  ASSUME NEW z \in {"LOW", "NORMAL", "HIGH"}, value \in Temps, Check(z)
  PROVE  /\ zone' \in {"LOW", "NORMAL", "HIGH"} /\ pending' \in {pending, "warning"}
         /\ zone' # z => Trusted
         /\ zone' = "HIGH" /\ z # "HIGH" => value >= High
         /\ zone' = "LOW" /\ z # "LOW" => value <= Low
         /\ z = "HIGH" /\ zone' # z => value <= High - Hysteresis
         /\ z = "LOW" /\ zone' # z => value >= Low + Hysteresis
         /\ Warned => zone' # z /\ Trusted
<1>0. value \in Int /\ Low \in Int /\ High \in Int /\ Hysteresis \in Nat /\ High - Low >= Hysteresis
  BY LimitsKnown
<1>1. /\ Beyond(z) \in {"LOW", "NORMAL", "HIGH"}
      /\ z = "HIGH" /\ Beyond(z) # z => value <= High - Hysteresis
      /\ z = "LOW" /\ Beyond(z) # z => value >= Low + Hysteresis
      /\ Beyond(z) = "HIGH" /\ z # "HIGH" => value >= High
      /\ Beyond(z) = "LOW" /\ z # "LOW" => value <= Low
  BY <1>0 DEF Beyond
<1>2. /\ zone' \in {z, Beyond(z)} /\ pending' \in {pending, "warning"}
      /\ zone' # z => Trusted
      /\ Warned => zone' # z /\ Trusted
  BY DEF Check, Warned
<1> QED BY <1>1, <1>2

LEMMA TickKeeps ==
  ASSUME IInv, NEW reload \in BOOLEAN, Tick(reload)
  PROVE  /\ OwnType' /\ said' \in [Zones -> 0..1] /\ Remembered'
         /\ Warned /\ zone' \in Zones =>
              /\ age # None /\ age <= StaleSeconds + MaxStep + 1
              /\ value >= High \/ value <= Low
              /\ said'[zone'] = 1
<1> DEFINE z == IF reload THEN "NORMAL" ELSE zone
           base(y) == IF reload \/ DueAgain(y) THEN 0 ELSE said[y]
<1>1. /\ z \in {"LOW", "NORMAL", "HIGH"} /\ value \in Temps /\ Check(z)
      /\ said' = [y \in Zones |-> base(y) + (IF Warned /\ zone' = y THEN 1 ELSE 0)]
      /\ UNCHANGED <<value, active>>
  BY DEF IInv, OwnType, Tick
<1> HIDE DEF z
<1>2. /\ zone' \in {"LOW", "NORMAL", "HIGH"} /\ pending' \in {pending, "warning"}
      /\ zone' # z => Trusted
      /\ zone' = "HIGH" /\ z # "HIGH" => value >= High
      /\ zone' = "LOW" /\ z # "LOW" => value <= Low
      /\ z = "HIGH" /\ zone' # z => value <= High - Hysteresis
      /\ z = "LOW" /\ zone' # z => value >= Low + Hysteresis
      /\ Warned => zone' # z /\ Trusted
  BY <1>1, Checking
<1>3. \A y \in Zones : base(y) \in 0..1 /\ (base(y) = 1 => zone = y /\ ~reload /\ zone' = y)
  <2> SUFFICES ASSUME NEW y \in Zones
               PROVE  base(y) \in 0..1 /\ (base(y) = 1 => zone = y /\ ~reload /\ zone' = y)
    OBVIOUS
  <2>1. said[y] \in 0..1 /\ (said[y] = 1 => zone = y)
    BY DEF IInv, Remembered
  <2>2. base(y) = 1 => said[y] = 1 /\ ~reload /\ ~DueAgain(y)
    OBVIOUS
  <2>3. zone = y /\ ~reload /\ ~DueAgain(y) => zone' = y
    BY <1>2 DEF z, DueAgain, Zones
  <2> QED BY <2>1, <2>2, <2>3
<1>4. \A y \in Zones : Warned /\ zone' = y => base(y) = 0
  BY <1>2, <1>3 DEF z
<1> HIDE DEF base
<1>5. \A y \in Zones : /\ said'[y] \in 0..1
                       /\ said'[y] = 1 => zone' = y
                       /\ Warned /\ zone' = y => said'[y] = 1
  BY <1>1, <1>3, <1>4
<1>6. said' \in [Zones -> 0..1]
  BY <1>1, <1>5
<1>7. OwnType'
  BY <1>1, <1>2 DEF IInv, OwnType
<1>8. Trusted => age # None /\ age <= StaleSeconds + MaxStep + 1
  BY SecondsKnown DEF IInv, EnvInv, EnvTypeOK, Recent, Trusted, None
<1> QED BY <1>2, <1>5, <1>6, <1>7, <1>8 DEF Remembered, Zones

-----------------------------------------------------------------------------
(* The invariant and the theorems. *)

LEMMA InitHolds == Init => IInv
<1> SUFFICES ASSUME Init PROVE IInv
  OBVIOUS
<1>1. EnvTypeOK
  <2>1. failures \in 0..(FailureWrap - 1) /\ backoff \in FirstBackoff..MaxBackoff
        /\ warm \in 0..WarmupSeconds
    BY SecondsKnown DEF Init, EnvInit
  <2>2. ready \in BOOLEAN
    BY Zenon DEF Init, EnvInit
  <2> QED BY <2>1, <2>2 DEF Init, EnvInit, EnvTypeOK
<1>2. Recent /\ OneLabel
  BY DEF Init, EnvInit, Recent, OneLabel
<1>3. Paced
  <2>1. (ready <=> sensor = "SHT40") /\ pc = "init" /\ age = None
    BY DEF Init, EnvInit
  <2>2. ~(warm > 0) /\ failures < FailureLimit
    BY SecondsKnown DEF Init, EnvInit
  <2> QED BY <2>1, <2>2 DEF Paced
<1>4. OwnType /\ said \in [Zones -> 0..1] /\ Remembered
  BY LimitsKnown DEF Init, OwnType, Remembered, Never
<1> QED BY <1>1, <1>2, <1>3, <1>4 DEF IInv, EnvInv

LEMMA Preserved == IInv /\ [Next]_vars => IInv'
<1> SUFFICES ASSUME IInv, [Next]_vars PROVE IInv'
  OBVIOUS
<1> USE DEF IInv
<1>1. CASE Sense
  <2>1. EnvInv'
    BY <1>1, ThreadKeeps DEF Sense
  <2>2. value' \in Temps
    BY <1>1 DEF Sense, OwnType
  <2> QED BY <1>1, <2>1, <2>2 DEF Sense, OwnType, Remembered, audio
<1>2. CASE \E reload \in BOOLEAN : Tick(reload)
  <2>1. EnvInv'
    BY <1>2, ServiceKeeps DEF Tick
  <2> QED BY <1>2, <2>1, TickKeeps
<1>3. CASE AudioStep
  <2>1. EnvInv'
    BY <1>3, ServiceKeeps DEF AudioStep
  <2> QED BY <1>3, <2>1 DEF AudioStep, OwnType, Remembered
<1>4. CASE Quit \/ Over \/ Disturb
  <2>1. EnvInv'
    BY <1>4, ServiceKeeps DEF Quit, Over, Disturb
  <2> QED BY <1>4, <2>1 DEF Quit, Over, Disturb, OwnType, Remembered, audio
<1>5. CASE Again
  <2>1. EnvInv'
    BY <1>5, ServiceKeeps DEF Again
  <2> QED BY <1>5, <2>1 DEF Again, OwnType, Remembered, Never
<1>6. CASE UNCHANGED vars
  <2>1. EnvInv'
    BY <1>6, ServiceKeeps DEF vars
  <2> QED BY <1>6, <2>1 DEF vars, OwnType, Remembered, audio
<1> QED BY <1>1, <1>2, <1>3, <1>4, <1>5, <1>6 DEF Next

THEOREM Inductive == Spec => []IInv
<1> QED BY InitHolds, Preserved, PTL DEF Spec

\* Every variable keeps its type.
THEOREM TypeCorrect == Spec => []TypeOK
<1>1. IInv => TypeOK
  BY DEF IInv, EnvInv, OwnType, TypeOK
<1> QED BY <1>1, Inductive, PTL

\* What is labelled live was read within StaleSeconds and a round, for any
\* sensor, any time the bus takes and any pattern of failures.
THEOREM LiveReadingsAreRecent == Spec => []LiveIsRecent
<1>1. IInv => LiveIsRecent
  BY SecondsKnown DEF IInv, EnvInv, EnvTypeOK, Recent, LiveIsRecent, None
<1> QED BY <1>1, Inductive, PTL

\* One label is shown, provided that FailureLimit and FirstBackoff together
\* last longer than StaleSeconds, as they do in the code (3 + 5 > 3).
THEOREM LabelsExclude == Spec => []OneLabel
<1>1. IInv => OneLabel
  BY DEF IInv, EnvInv
<1> QED BY <1>1, Inductive, PTL

\* Every warning is about a recent temperature beyond a limit and is the only
\* one until the temperature has been seen beyond the hysteresis.
THEOREM WarningsAreEarned == Spec => WarningIsEarned
<1>1. IInv /\ [Next]_vars =>
        [Warned /\ zone' \in Zones =>
           /\ age # None /\ age <= StaleSeconds + MaxStep + 1
           /\ value >= High \/ value <= Low
           /\ said'[zone'] = 1]_vars
  <2> SUFFICES ASSUME IInv, Next, Warned, zone' \in Zones
               PROVE  /\ age # None /\ age <= StaleSeconds + MaxStep + 1
                      /\ value >= High \/ value <= Low
                      /\ said'[zone'] = 1
    OBVIOUS
  <2>1. CASE \E reload \in BOOLEAN : Tick(reload)
    BY <2>1, TickKeeps
  <2>2. CASE ~(\E reload \in BOOLEAN : Tick(reload))
    BY <2>2 DEF Next, Sense, AudioStep, Quit, Over, Again, Disturb, Warned, audio
  <2> QED BY <2>1, <2>2
<1> QED BY <1>1, Inductive, PTL DEF Spec, WarningIsEarned

=============================================================================
