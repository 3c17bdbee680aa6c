---------------------------- MODULE AudioService ----------------------------
(***************************************************************************)
(* The audio service of the desktop manager                                *)
(* (src/app/routine_manager/audio_service.c): one worker thread that       *)
(* records, recognises and speaks, and the LVGL thread that calls the API. *)
(*                                                                         *)
(* Every API call runs under service->lock, so it is one action.  The      *)
(* worker takes the lock only for short regions (audio_service_publish,    *)
(* _cancelled, _finish_operation, ...) and records, plays and talks to the *)
(* network without it; each region, and each device call between two       *)
(* regions, is one action, and API calls come between any two of them.     *)
(*                                                                         *)
(* Data abstracted away: a reminder is the identity (sequence,             *)
(* schedule_id) with its attempts; sensor values are whether a query can   *)
(* be answered; LOW and HIGH warnings are one request; the change counter  *)
(* service->sequence is "fresh", whether it differs from the value the     *)
(* voice timer last read; pending_operation and start_requested, always    *)
(* set and cleared together, are one variable, as are active and           *)
(* active_operation.                                                       *)
(*                                                                         *)
(* F_Fault is F with a plausible fault, for the mutants of PROJECT.json.   *)
(***************************************************************************)
EXTENDS Naturals, Sequences

CONSTANTS Reminders,    \* reminder identities (sequence, schedule_id)
          Sensors,      \* the requests play_sensor accepts
          NoReminder,   \* the all-zero reminder of an operation that has none
          ReminderMax,  \* AUDIO_SERVICE_REMINDER_MAX
          MaxOps        \* bound on the operations API calls may cause

ASSUME ReminderMaxPositive == ReminderMax \in Nat \ {0}
ASSUME MaxOpsNat == MaxOps \in Nat
ASSUME NoReminderFresh == NoReminder \notin Reminders
ASSUME RequestsDistinct == Sensors \cap {"NONE", "QUERY", "WARNING", "REMINDER"} = {}

VARIABLES
  state,          \* service->state
  error,          \* service->error
  outcome,        \* service->outcome
  request,        \* service->request, the request the UI is shown
  resultRequest,  \* service->result_request; "NONE" iff !has_result
  pending,        \* pending_operation; NoOp iff !start_requested
  active,         \* active; active.id is active_operation
  workerActive,   \* worker_active
  queue,          \* reminder_queue from reminder_head, reminder_count long
  generation,     \* service->generation
  cancelled,      \* cancelled_operation
  shutdown,       \* shutdown_requested
  available,      \* sensors whose required metrics are live
  online,         \* online_mode
  mimo,           \* mimo_initialized
  pc,             \* where the worker is
  verdict,        \* the error or outcome the worker is about to report
  fresh,          \* sequence # app->last_audio_sequence
  ui,             \* what the voice panel shows
  revoked         \* history: reminders cancelled since they were last accepted

service == <<state, error, outcome, request, resultRequest>>
job     == <<pending, active, workerActive, queue, generation, cancelled>>
config  == <<available, online, mimo>>
worker  == <<pc, verdict>>
vars    == <<service, job, config, worker, shutdown, fresh, ui, revoked>>

Requests == {"NONE", "QUERY", "WARNING", "REMINDER"} \cup Sensors
Busy     == {"LISTENING", "PROCESSING", "SPEAKING"}
States   == Busy \cup {"IDLE", "ERROR"}
Errors   == {"NONE", "CAPTURE", "NO_VOICE", "REPLY_RESOURCE", "PLAYBACK",
             "SENSOR_UNAVAILABLE"}
Outcomes == {"NONE", "COMPLETED", "CANCELLED", "FAILED"}
Entry    == [key : Reminders, attempts : {0, 1}]
NoEntry  == [key |-> NoReminder, attempts |-> 0]
Op       == [id : Nat, request : Requests, reminder : Entry \cup {NoEntry}]
NoOp     == [id |-> 0, request |-> "NONE", reminder |-> NoEntry]

Working == {"listen", "capture", "captured", "online", "recognise", "recognised",
            "understood", "speak", "build", "unbuilt", "built", "speaking", "play",
            "played", "chat", "chatPlay", "finish", "fail", "end"}
PCs     == Working \cup {"waiting", "woken", "next", "exit", "gone"}

(***************************************************************************)
(* The voice panel: the status line and the request it is attributed to.   *)
(***************************************************************************)
Label == CASE state \in Busy                     -> state
           [] state = "ERROR"                    -> error
           [] state = "IDLE" /\ queue # <<>>     -> "PROCESSING"
           [] OTHER                              -> "IDLE"
View  == [label |-> Label, active |-> state \in Busy, request |-> request]

Init ==
  /\ state = "IDLE" /\ error = "NONE" /\ outcome = "NONE"
  /\ request = "NONE" /\ resultRequest = "NONE"
  /\ pending = NoOp /\ active = NoOp /\ workerActive = FALSE
  /\ queue = <<>> /\ generation = 0 /\ cancelled = 0 /\ shutdown = FALSE
  /\ available \in SUBSET Sensors /\ online = FALSE /\ mimo = FALSE
  /\ pc = "woken" /\ verdict = "NONE"
  /\ fresh = FALSE /\ revoked = {}
  /\ ui = [label |-> "IDLE", active |-> FALSE, request |-> "NONE"]

(***************************************************************************)
(* API calls, made by the LVGL thread only.  A call that returns an error  *)
(* changes nothing and is not an action.                                   *)
(***************************************************************************)
Callable    == ~shutdown
InBudget    == generation + 2 * Len(queue) < MaxOps    \* bound of the model
Signal      == pc' = IF pc = "waiting" THEN "woken" ELSE pc
IsActive_Forgets(k) == FALSE
IsActive(k) == workerActive /\ request = "REMINDER" /\ active.reminder.key = k
Queued(k)   == \E i \in DOMAIN queue : queue[i].key = k
Rejecting   == workerActive \/ pending # NoOp \/ queue # <<>>
NewOp(r)    == [id |-> generation + 1, request |-> r, reminder |-> NoEntry]

\* A direct request; cancelled_operation is reset as well.
Accept(r, s) ==
  /\ Callable /\ InBudget /\ ~Rejecting
  /\ generation' = generation + 1
  /\ pending' = NewOp(r)
  /\ cancelled' = 0
  /\ state' = s /\ error' = "NONE" /\ outcome' = "NONE"
  /\ request' = r /\ resultRequest' = "NONE"
  /\ fresh' = TRUE
  /\ Signal
  /\ UNCHANGED <<active, workerActive, queue, config, verdict, shutdown, ui, revoked>>

Begin == Accept("QUERY", "LISTENING")

PlaySensor(s) == s \in available /\ Accept(s, "PROCESSING")

PlaySensorUnavailable(s) ==
  /\ Callable /\ ~Rejecting /\ s \notin available
  /\ state' = "ERROR" /\ error' = "SENSOR_UNAVAILABLE" /\ request' = s
  /\ fresh' = TRUE
  /\ UNCHANGED <<outcome, resultRequest, job, config, worker, shutdown, ui, revoked>>

\* A warning waits behind reminders, but preempts a voice query.
Preempt_Relabels ==
  /\ request' = "WARNING" /\ state' = "PROCESSING"
  /\ cancelled' = IF workerActive THEN active.id ELSE cancelled
Preempt ==
  IF workerActive
    THEN cancelled' = active.id /\ UNCHANGED <<request, state>>
    ELSE request' = "WARNING" /\ state' = "PROCESSING" /\ UNCHANGED cancelled
PlayTemperatureWarning ==
  /\ Callable /\ InBudget
  /\ pending = NoOp
  /\ workerActive => request = "QUERY"
  /\ generation' = generation + 1
  /\ pending' = NewOp("WARNING")
  /\ Preempt
  /\ error' = "NONE" /\ outcome' = "NONE"
  /\ fresh' = TRUE
  /\ Signal
  /\ UNCHANGED <<resultRequest, active, workerActive, queue, config, verdict,
                 shutdown, ui, revoked>>

EnqueueReminder(k) ==
  /\ Callable /\ InBudget
  /\ ~Queued(k) /\ ~IsActive(k) /\ Len(queue) < ReminderMax
  /\ queue' = Append(queue, [key |-> k, attempts |-> 0])
  /\ revoked' = revoked \ {k}
  /\ fresh' = TRUE
  /\ Signal
  /\ UNCHANGED <<service, pending, active, workerActive, generation, cancelled,
                 config, verdict, shutdown, ui>>

Cancel ==
  /\ Callable
  /\ CASE workerActive ->
            /\ cancelled' = active.id
            /\ fresh' = TRUE
            /\ revoked' = revoked \cup ({active.reminder.key} \cap Reminders)
            /\ UNCHANGED <<service, pending>>
       [] ~workerActive /\ pending # NoOp ->
            /\ pending' = NoOp
            /\ request' = "NONE" /\ state' = "IDLE"
            /\ error' = "NONE" /\ outcome' = "CANCELLED"
            /\ fresh' = TRUE
            /\ UNCHANGED <<resultRequest, cancelled, revoked>>
       [] OTHER -> UNCHANGED <<service, pending, cancelled, fresh, revoked>>
  /\ Signal
  /\ UNCHANGED <<active, workerActive, queue, generation, config, verdict,
                 shutdown, ui>>

\* The compaction loop keeps every other entry in order.  At most one matches
\* (NoDuplicateReminder).
Without(q, k) ==
  LET hits == {i \in DOMAIN q : q[i].key = k}
      hit  == CHOOSE i \in hits : TRUE
  IN  IF hits = {} THEN q
      ELSE SubSeq(q, 1, hit - 1) \o SubSeq(q, hit + 1, Len(q))

\* The part cancel_reminder and clear_reminders share: stop the reminder that
\* is being spoken, if it is one of those given up.
StopReminder(hit) ==
  /\ IF hit THEN cancelled' = active.id /\ fresh' = TRUE
            ELSE UNCHANGED <<cancelled, fresh>>
  /\ Signal
  /\ UNCHANGED <<service, pending, active, workerActive, generation, config,
                 verdict, shutdown, ui>>

CancelReminder(k) ==
  /\ Callable
  /\ queue' = Without(queue, k)
  /\ revoked' = revoked \cup {k}
  /\ StopReminder(IsActive(k))

ClearReminders ==
  /\ Callable
  /\ queue' = <<>>
  /\ revoked' = Reminders
  /\ StopReminder(workerActive /\ request = "REMINDER")

UpdateSensors ==
  /\ Callable
  /\ available' \in SUBSET Sensors
  /\ UNCHANGED <<service, job, online, mimo, worker, shutdown, fresh, ui, revoked>>

\* The caller passes a MiMo configuration exactly when it goes online; a failed
\* mimo_service_init leaves mimo_initialized alone.
UpdateVoiceConfig ==
  /\ Callable
  /\ online' \in BOOLEAN
  /\ \E initOk \in BOOLEAN : mimo' = (mimo \/ (online' /\ initOk))
  /\ UNCHANGED <<service, job, available, worker, shutdown, fresh, ui, revoked>>

\* The first half of audio_service_shutdown; the caller then sits in pthread_join.
Shutdown ==
  /\ Callable
  /\ shutdown' = TRUE
  /\ IF workerActive THEN cancelled' = active.id /\ fresh' = TRUE
                     ELSE UNCHANGED <<cancelled, fresh>>
  /\ pending' = NoOp
  /\ revoked' = Reminders
  /\ Signal
  /\ UNCHANGED <<service, active, workerActive, queue, generation, config, verdict, ui>>

\* The second half, after the join: everything is zeroed.
Join ==
  /\ pc = "exit"
  /\ pc' = "gone" /\ verdict' = "NONE"
  /\ state' = "IDLE" /\ error' = "NONE" /\ outcome' = "NONE"
  /\ request' = "NONE" /\ resultRequest' = "NONE"
  /\ pending' = NoOp /\ active' = NoOp /\ workerActive' = FALSE
  /\ queue' = <<>> /\ generation' = 0 /\ cancelled' = 0
  /\ available' = {} /\ online' = FALSE /\ mimo' = FALSE
  /\ UNCHANGED <<shutdown, fresh, ui, revoked>>

\* routine_voice_timer_cb, every 100 ms: redraw if the sequence has moved.
VoiceTimer ==
  /\ Callable /\ fresh
  /\ ui' = View
  /\ fresh' = FALSE
  /\ UNCHANGED <<service, job, config, worker, shutdown, revoked>>

(***************************************************************************)
(* The worker: taking the lock at the top of its loop.                     *)
(***************************************************************************)
NoWork_RemindersOnly == queue = <<>>
NoWork == pending = NoOp /\ queue = <<>>

GoIdle_Silent == state' = "IDLE" /\ UNCHANGED fresh
GoIdle == IF state # "IDLE" THEN state' = "IDLE" /\ fresh' = TRUE
                            ELSE UNCHANGED <<state, fresh>>

IdleWait ==
  /\ pc \in {"woken", "next"} /\ NoWork /\ ~shutdown
  /\ workerActive' = FALSE /\ active' = NoOp
  /\ request' = "NONE"
  /\ GoIdle
  /\ pc' = "waiting"
  /\ UNCHANGED <<error, outcome, resultRequest, pending, queue, generation,
                 cancelled, config, verdict, shutdown, ui, revoked>>

Exit_AfterQueue ==
  /\ pc \in {"woken", "next"} /\ shutdown /\ queue = <<>>
  /\ pc' = "exit"
  /\ UNCHANGED <<service, job, config, verdict, shutdown, fresh, ui, revoked>>
Exit ==
  /\ pc \in {"woken", "next"} /\ shutdown
  /\ pc' = "exit"
  /\ UNCHANGED <<service, job, config, verdict, shutdown, fresh, ui, revoked>>

\* audio_service_claim_locked: due reminders first, then the pending operation.
Claim ==
  /\ pc \in {"woken", "next"} /\ ~NoWork /\ ~shutdown
  /\ IF queue # <<>>
       THEN /\ active' = [id |-> generation + 1, request |-> "REMINDER",
                          reminder |-> Head(queue)]
            /\ queue' = Tail(queue)
            /\ generation' = generation + 1
            /\ UNCHANGED pending
       ELSE /\ active' = pending
            /\ pending' = NoOp
            /\ UNCHANGED <<queue, generation>>
  /\ workerActive' = TRUE
  /\ request' = active'.request
  /\ IF request' = "QUERY"
       THEN /\ state' = "LISTENING" /\ pc' = "listen"
            /\ UNCHANGED resultRequest
       ELSE /\ state' = "PROCESSING" /\ pc' = "speak"
            /\ resultRequest' = "NONE"
  /\ error' = "NONE" /\ outcome' = "NONE"
  /\ fresh' = TRUE
  /\ UNCHANGED <<cancelled, config, verdict, shutdown, ui, revoked>>

(***************************************************************************)
(* Helpers of audio_service_process.                                       *)
(***************************************************************************)
\* audio_service_cancelled; active_operation is always the worker's own.
Cancelled == shutdown \/ ~workerActive \/ cancelled = active.id

\* audio_service_publish: ignored once the operation is cancelled.
Publish_KeepsOutcome(s, e) ==
  /\ IF workerActive /\ cancelled # active.id
       THEN state' = s /\ error' = e /\ fresh' = TRUE
       ELSE UNCHANGED <<state, error, fresh>>
  /\ UNCHANGED <<outcome, request, resultRequest>>
Publish(s, e) ==
  /\ IF workerActive /\ cancelled # active.id
       THEN /\ state' = s /\ error' = e
            /\ outcome' = IF s = "ERROR" THEN "FAILED" ELSE outcome
            /\ fresh' = TRUE
       ELSE UNCHANGED <<state, error, outcome, fresh>>
  /\ UNCHANGED <<request, resultRequest>>

Local == UNCHANGED <<job, config, shutdown, ui, revoked>>
Quiet == Local /\ UNCHANGED <<service, fresh>>

At(here, next)       == pc = here /\ pc' = next
Goto(here, next)     == At(here, next) /\ UNCHANGED verdict /\ Quiet
Show(here, s, next)  == At(here, next) /\ Publish(s, "NONE") /\ UNCHANGED verdict /\ Local
Fail(here, e)        == At(here, "fail") /\ verdict' = e /\ Quiet
Finish(here, o)      == At(here, "finish") /\ verdict' = o /\ Quiet
StopHere(here)       == Cancelled /\ Finish(here, "CANCELLED")
Carry(here, next)    == ~Cancelled /\ Goto(here, next)
CarryFail(here, e)   == ~Cancelled /\ Fail(here, e)

(***************************************************************************)
(* audio_service_process, the voice query: record, recognise, look up.     *)
(***************************************************************************)
Listen == Show("listen", "LISTENING", "capture")

\* audio_service_capture ends early when cancelled, after 10 s, or on an error.
Capture == Goto("capture", "captured")

Captured ==
  \/ StopHere("captured")
  \/ CarryFail("captured", "CAPTURE")
  \/ Carry("captured", "online")

\* online_mode and mimo_initialized are read here without the lock.
StartRecognition == Show("online", "PROCESSING", "recognise")
Recognise ==
  /\ pc = "recognise"
  /\ pc' = "recognised"
  /\ verdict' = IF online /\ mimo THEN "ONLINE" ELSE "OFFLINE"
  /\ Quiet

Recognised ==
  \/ StopHere("recognised")
  \/ CarryFail("recognised", "NO_VOICE")
  \/ Carry("recognised", "understood")
  \/ /\ verdict = "ONLINE" /\ ~Cancelled
     /\ \/ Finish("recognised", "COMPLETED")            \* the wake word
        \/ Goto("recognised", "chat")

\* The command is mapped to a sensor request, the sensors are read under the
\* lock, and the result is stored whether or not the query was cancelled.
Understood ==
  \/ Fail("understood", "NO_VOICE")
  \/ \E s \in Sensors :
       \/ /\ s \notin available
          /\ Fail("understood", "SENSOR_UNAVAILABLE")
       \/ /\ s \in available
          /\ At("understood", "speak")
          /\ resultRequest' = s
          /\ fresh' = TRUE
          /\ UNCHANGED <<state, error, outcome, request, verdict>> /\ Local

(***************************************************************************)
(* audio_service_speak_reply: build the reply file, play it.               *)
(***************************************************************************)
Speak == Show("speak", "PROCESSING", "build")

\* voice_reply_build_cancelable polls the cancellation while it builds.
Build ==
  \/ Goto("build", "built")
  \/ Goto("build", "unbuilt")
  \/ StopHere("build")

Unbuilt  == StopHere("unbuilt") \/ CarryFail("unbuilt", "REPLY_RESOURCE")
Built    == StopHere("built") \/ Carry("built", "speaking")
Speaking == Show("speaking", "SPEAKING", "play")

\* audio_service_play returns: played to the end, timed out or failed, or
\* -ECANCELED, which it returns only after seeing the cancellation.
Play ==
  /\ pc = "play" /\ pc' = "played"
  /\ \/ verdict' \in {"COMPLETED", "PLAYBACK"}
     \/ Cancelled /\ verdict' = "CANCELLED"
  /\ Quiet

Played ==
  \/ (Cancelled \/ verdict = "CANCELLED") /\ Finish("played", "CANCELLED")
  \/ verdict = "PLAYBACK"  /\ CarryFail("played", "PLAYBACK")
  \/ verdict = "COMPLETED" /\ ~Cancelled /\ Finish("played", "COMPLETED")

(***************************************************************************)
(* audio_service_process, the chat answer of the online mode: one TTS      *)
(* request, then the audio is played until it ends, times out or the       *)
(* operation is cancelled, and reported COMPLETED in every case.           *)
(***************************************************************************)
Chat     == Show("chat", "SPEAKING", "chatPlay") \/ Fail("chat", "REPLY_RESOURCE")
ChatPlay == Finish("chatPlay", "COMPLETED") \/ Fail("chatPlay", "PLAYBACK")

(***************************************************************************)
(* Reporting, and the end of an operation.                                 *)
(***************************************************************************)
\* audio_service_finish_operation does not look at the cancellation.
FinishOperation ==
  /\ At("finish", "end")
  /\ IF workerActive
       THEN error' = "NONE" /\ outcome' = verdict /\ fresh' = TRUE
       ELSE UNCHANGED <<error, outcome, fresh>>
  /\ verdict' = "NONE"
  /\ UNCHANGED <<state, request, resultRequest>> /\ Local

ReportError ==
  /\ At("fail", "end")
  /\ Publish("ERROR", verdict)
  /\ verdict' = "NONE"
  /\ Local

\* A reminder whose first attempt failed goes back to the head of the queue,
\* unless it was cancelled or the queue is full.
MayRetry_Cancelled ==
  /\ active.request = "REMINDER" /\ outcome = "FAILED"
  /\ active.reminder.attempts = 0 /\ Len(queue) < ReminderMax
MayRetry ==
  /\ cancelled # active.id
  /\ active.request = "REMINDER"
  /\ outcome = "FAILED"
  /\ active.reminder.attempts = 0
  /\ Len(queue) < ReminderMax

Uncancel_Never == cancelled
Uncancel == IF cancelled = active.id THEN 0 ELSE cancelled

EndOperation ==
  /\ At("end", "next")
  /\ cancelled' = Uncancel
  /\ queue' = IF MayRetry THEN <<[key |-> active.reminder.key, attempts |-> 1]>> \o queue
                          ELSE queue
  /\ workerActive' = FALSE /\ active' = NoOp
  /\ fresh' = TRUE
  /\ UNCHANGED <<service, pending, generation, config, verdict, shutdown, ui, revoked>>

-----------------------------------------------------------------------------
ApiCall ==
  \/ Begin
  \/ \E s \in Sensors : PlaySensor(s) \/ PlaySensorUnavailable(s)
  \/ PlayTemperatureWarning
  \/ \E k \in Reminders : EnqueueReminder(k) \/ CancelReminder(k)
  \/ Cancel \/ ClearReminders
  \/ UpdateSensors \/ UpdateVoiceConfig
  \/ Shutdown

Query  == Listen \/ Capture \/ Captured \/ StartRecognition \/ Recognise
          \/ Recognised \/ Understood
Reply  == Speak \/ Build \/ Unbuilt \/ Built \/ Speaking \/ Play \/ Played
Worker == IdleWait \/ Exit \/ Claim \/ Query \/ Reply \/ Chat \/ ChatPlay
          \/ FinishOperation \/ ReportError \/ EndOperation

\* Nothing happens after the join: the service is over.
Over == pc = "gone" /\ UNCHANGED vars

Next == ApiCall \/ Worker \/ VoiceTimer \/ Join \/ Over

\* The worker is scheduled, every device call returns (recording and playing
\* are bounded loops, requests time out), the LVGL loop runs its timers and
\* pthread_join returns.
Fairness == WF_vars(Worker) /\ WF_vars(VoiceTimer) /\ WF_vars(Join)
Spec == Init /\ [][Next]_vars
FairSpec == Spec /\ Fairness

-----------------------------------------------------------------------------
(***************************************************************************)
(* Properties.                                                             *)
(***************************************************************************)
\* The types of the variables.
TypeOK ==
  /\ state \in States /\ error \in Errors /\ outcome \in Outcomes
  /\ request \in Requests /\ resultRequest \in Requests
  /\ pending \in Op /\ active \in Op /\ workerActive \in BOOLEAN
  /\ queue \in Seq(Entry)
  /\ generation \in Nat /\ cancelled \in Nat
  /\ shutdown \in BOOLEAN /\ fresh \in BOOLEAN
  /\ available \in SUBSET Sensors /\ online \in BOOLEAN /\ mimo \in BOOLEAN
  /\ pc \in PCs
  /\ verdict \in Errors \cup Outcomes \cup {"ONLINE", "OFFLINE"}
  /\ ui \in [label : States \cup Errors, active : BOOLEAN, request : Requests]
  /\ revoked \in SUBSET Reminders

\* A cancellation always names the operation that is running, so the one that
\* is claimed next is never born cancelled (audio_service_end block, :880).
CancelTargetsActive ==
  cancelled # 0 => workerActive /\ cancelled = active.id

\* What the panel is told about is what the worker does: a warning that
\* preempts a query leaves service->request alone until it is claimed.
RequestNamesActive ==
  workerActive => request = active.request

\* A reminder is queued or being spoken at most once: duplicates are refused,
\* and the retry puts back what was taken out.
NoDuplicateReminder ==
  /\ \A i, j \in DOMAIN queue : queue[i].key = queue[j].key => i = j
  /\ workerActive /\ active.request = "REMINDER" => ~Queued(active.reminder.key)

\* The voice panel is right whenever the timer has nothing left to read: every
\* change of what it shows moved service->sequence.  (Emptying the reminder
\* queue moves nothing, so the status line of an idle panel may lag behind it.)
UiShowsService ==
  ~fresh /\ ~shutdown =>
    /\ ui.active = (state \in Busy)
    /\ ui.request = request
    /\ state # "IDLE" => ui.label = Label

\* After cancel_reminder, clear_reminders, cancel or shutdown has returned, the
\* reminder it gave up is not claimed and does not start to be spoken, until it
\* is accepted anew: no retry and no race with the claim brings it back.
RevokedStaysSilent ==
  [][ /\ workerActive' /\ active'.request = "REMINDER"
      /\ ~workerActive \/ (state' = "SPEAKING" /\ state # "SPEAKING")
      => active'.reminder.key \notin revoked' ]_vars

\* A reminder nobody gave up leaves the service only when it was spoken, when
\* its second attempt failed, or when the queue has no room for the retry.
OnlyHeardRemindersLeave ==
  [][ /\ workerActive /\ ~workerActive'
      /\ active.request = "REMINDER"
      /\ active.reminder.key \notin revoked
      => \/ outcome = "COMPLETED"
         \/ active.reminder.attempts = 1
         \/ Len(queue) = ReminderMax
         \/ \E i \in DOMAIN queue' : queue'[i].key = active.reminder.key ]_vars

\* Accepted work does not wait for ever: a queued reminder is eventually claimed
\* or given up, and a direct request or warning claimed or dropped, whichever of
\* them the signal was for and whatever the worker was about to wait on.
WorkIsServed ==
  /\ \A k \in Reminders : Queued(k) ~> ~Queued(k)
  /\ pending # NoOp ~> pending = NoOp

\* audio_service_shutdown returns.
ShutdownReturns == shutdown ~> pc = "gone"
=============================================================================
