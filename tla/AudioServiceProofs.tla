------------------------- MODULE AudioServiceProofs -------------------------
(***************************************************************************)
(* Proofs about AudioService, for any number of reminders and sensors and  *)
(* any length of the reminder queue: the type invariant; a cancellation    *)
(* never outlives the operation it was meant for; no reminder is in the    *)
(* service twice; what was given up is neither claimed nor spoken; what    *)
(* was not leaves the service only heard or tried twice; and the panel     *)
(* shows what the service does once its timer has read it.                 *)
(***************************************************************************)
EXTENDS AudioService, SequenceTheorems, TLAPS

\* What the worker is about to report has the type of what it reports.
ReportTyped ==
  /\ pc = "fail" => verdict \in Errors
  /\ pc = "finish" => verdict \in Outcomes

\* The worker is inside an operation exactly when worker_active says so.
ActiveWhileWorking == workerActive <=> pc \in Working

\* Only a claimed reminder is an operation with a reminder in it.
ReminderNamed ==
  /\ pending.request # "REMINDER"
  /\ active.request = "REMINDER" => active.reminder \in Entry

IInv == /\ TypeOK
        /\ ReportTyped
        /\ ActiveWhileWorking
        /\ ReminderNamed
        /\ CancelTargetsActive
        /\ RequestNamesActive

-----------------------------------------------------------------------------
(***************************************************************************)
(* The reminder queue.                                                     *)
(***************************************************************************)
\* A sequence without its n-th element.
LEMMA CutOut ==
  ASSUME NEW S, NEW s \in Seq(S), NEW n \in 1..Len(s)
  PROVE  LET p == SubSeq(s, 1, n - 1) \o SubSeq(s, n + 1, Len(s))
         IN  /\ p \in Seq(S) /\ Len(p) = Len(s) - 1
             /\ \A i \in 1..Len(p) : p[i] = s[IF i < n THEN i ELSE i + 1]
<1> DEFINE front == SubSeq(s, 1, n - 1)
           back  == SubSeq(s, n + 1, Len(s))
<1>1. Len(s) \in Nat /\ \A i \in 1..Len(s) : s[i] \in S
  BY LenProperties, ElementOfSeq
<1>2. front \in Seq(S) /\ Len(front) = n - 1 /\ \A i \in 1..(n - 1) : front[i] = s[i]
  <2>1. \A i \in 1..(n - 1) : s[i] \in S
    BY <1>1
  <2> QED BY <1>1, <2>1, SubSeqProperties
<1>3. back \in Seq(S) /\ Len(back) = Len(s) - n /\ \A i \in 1..(Len(s) - n) : back[i] = s[n + i]
  <2>1. \A i \in (n + 1)..Len(s) : s[i] \in S
    BY <1>1
  <2>2. /\ back \in Seq(S)
        /\ Len(back) = IF n + 1 <= Len(s) THEN Len(s) - (n + 1) + 1 ELSE 0
        /\ \A i \in 1..(Len(s) - (n + 1) + 1) : back[i] = s[n + 1 + i - 1]
    BY <1>1, <2>1, SubSeqProperties
  <2> QED BY <1>1, <2>2
<1> HIDE DEF front, back
<1>4. /\ front \o back \in Seq(S) /\ Len(front \o back) = Len(front) + Len(back)
      /\ \A i \in 1..(Len(front) + Len(back)) :
           (front \o back)[i] = IF i <= Len(front) THEN front[i] ELSE back[i - Len(front)]
  BY <1>2, <1>3, ConcatProperties
<1>5. /\ front \o back \in Seq(S) /\ Len(front \o back) = Len(s) - 1
      /\ \A i \in 1..Len(front \o back) : (front \o back)[i] = s[IF i < n THEN i ELSE i + 1]
  BY <1>1, <1>2, <1>3, <1>4
<1> QED BY <1>5 DEF front, back

\* Removing an entry from a sequence leaves a sequence over the same set.
LEMMA WithoutType ==
  ASSUME NEW S, NEW q \in Seq(S), NEW k
  PROVE  Without(q, k) \in Seq(S)
<1> DEFINE hits == {i \in DOMAIN q : q[i].key = k}
           hit  == CHOOSE i \in hits : TRUE
<1>1. CASE hits = {}
  BY <1>1 DEF Without
<1>2. CASE hits # {}
  <2>1. hit \in hits
    BY <1>2
  <2>2. hit \in 1..Len(q)
    BY <2>1, LenProperties
  <2> HIDE DEF hit
  <2> QED BY <1>2, <2>2, CutOut DEF Without, hit
<1> QED BY <1>1, <1>2

\* What the panel shows has its type.
LEMMA ViewType ==
  ASSUME TypeOK
  PROVE  View \in [label : States \cup Errors, active : BOOLEAN, request : Requests]
<1>1. Label \in States \cup Errors
  BY DEF TypeOK, Label, States, Errors, Busy
<1> QED BY <1>1 DEF View, TypeOK

-----------------------------------------------------------------------------
(***************************************************************************)
(* The worker's steps, by kind.                                            *)
(***************************************************************************)
LEMMA GotoKeeps ==
  ASSUME IInv, NEW here \in Working, NEW next \in Working \ {"fail", "finish"},
         Goto(here, next)
  PROVE  IInv'
BY DEF IInv, TypeOK, ReportTyped, ActiveWhileWorking, ReminderNamed,
       CancelTargetsActive, RequestNamesActive, Goto, At, Quiet, Local, service, job, config, PCs

\* What audio_service_publish writes has its type.
LEMMA PublishType ==
  ASSUME TypeOK, NEW s \in States, NEW e \in Errors, Publish(s, e)
  PROVE  /\ state' \in States /\ error' \in Errors /\ outcome' \in Outcomes
         /\ request' \in Requests /\ resultRequest' \in Requests
         /\ fresh' \in BOOLEAN /\ request' = request
<1>1. CASE workerActive /\ cancelled # active.id
  BY <1>1 DEF Publish, TypeOK, Outcomes
<1>2. CASE ~(workerActive /\ cancelled # active.id)
  BY <1>2 DEF Publish, TypeOK
<1> QED BY <1>1, <1>2

LEMMA ShowKeeps ==
  ASSUME IInv, NEW here \in Working, NEW next \in Working \ {"fail", "finish"},
         NEW s \in States, Show(here, s, next)
  PROVE  IInv'
<1>1. /\ state' \in States /\ error' \in Errors /\ outcome' \in Outcomes
      /\ request' \in Requests /\ resultRequest' \in Requests
      /\ fresh' \in BOOLEAN /\ request' = request
  BY PublishType DEF Show, IInv, Errors
<1> QED BY <1>1 DEF IInv, TypeOK, ReportTyped, ActiveWhileWorking, ReminderNamed,
    CancelTargetsActive, RequestNamesActive, Show, At, Local, job, config, PCs

LEMMA FailKeeps ==
  ASSUME IInv, NEW here \in Working, NEW e \in Errors, Fail(here, e)
  PROVE  IInv'
BY DEF IInv, TypeOK, ReportTyped, ActiveWhileWorking, ReminderNamed,
       CancelTargetsActive, RequestNamesActive, Fail, At, Quiet, Local, service, job, config, PCs,
       Working

LEMMA FinishKeeps ==
  ASSUME IInv, NEW here \in Working, NEW o \in Outcomes, Finish(here, o)
  PROVE  IInv'
BY DEF IInv, TypeOK, ReportTyped, ActiveWhileWorking, ReminderNamed,
       CancelTargetsActive, RequestNamesActive, Finish, At, Quiet, Local, service, job, config, PCs,
       Working

\* Every step of audio_service_process keeps the invariant.
LEMMA QueryKeeps == ASSUME IInv, Query PROVE IInv'
<1> USE DEF Working, Errors, Outcomes, States, Busy
<1>1. CASE Listen
  BY <1>1, ShowKeeps DEF Listen
<1>2. CASE Capture
  BY <1>2, GotoKeeps DEF Capture
<1>3. CASE Captured
  BY <1>3, GotoKeeps, FailKeeps, FinishKeeps
     DEF Captured, StopHere, CarryFail, Carry
<1>4. CASE StartRecognition
  BY <1>4, ShowKeeps DEF StartRecognition
<1>5. CASE Recognise
  BY <1>5 DEF Recognise, IInv, TypeOK, ReportTyped, ActiveWhileWorking,
     ReminderNamed, CancelTargetsActive, RequestNamesActive, Quiet, Local, service, job, config, PCs
<1>6. CASE Recognised
  BY <1>6, GotoKeeps, FailKeeps, FinishKeeps
     DEF Recognised, StopHere, CarryFail, Carry
<1>7. CASE Understood
  <2>1. CASE Fail("understood", "NO_VOICE")
    BY <2>1, FailKeeps
  <2>2. ASSUME NEW s \in Sensors, Fail("understood", "SENSOR_UNAVAILABLE")
        PROVE  IInv'
    BY <2>2, FailKeeps
  <2>3. ASSUME NEW s \in Sensors, At("understood", "speak"), resultRequest' = s,
               fresh' = TRUE,
               UNCHANGED <<state, error, outcome, request, verdict>>, Local
        PROVE  IInv'
    BY <2>3 DEF IInv, TypeOK, ReportTyped, ActiveWhileWorking, ReminderNamed,
       CancelTargetsActive, RequestNamesActive, At, Local, job, config, PCs, Requests
  <2> QED BY <1>7, <2>1, <2>2, <2>3 DEF Understood
<1> QED BY <1>1, <1>2, <1>3, <1>4, <1>5, <1>6, <1>7 DEF Query

LEMMA ReplyKeeps == ASSUME IInv, Reply PROVE IInv'
<1> USE DEF Working, Errors, Outcomes, States, Busy
<1>1. CASE Speak
  BY <1>1, ShowKeeps DEF Speak
<1>2. CASE Build
  BY <1>2, GotoKeeps, FinishKeeps DEF Build, StopHere
<1>3. CASE Unbuilt
  BY <1>3, FailKeeps, FinishKeeps DEF Unbuilt, StopHere, CarryFail
<1>4. CASE Built
  BY <1>4, GotoKeeps, FinishKeeps DEF Built, StopHere, Carry
<1>5. CASE Speaking
  BY <1>5, ShowKeeps DEF Speaking
<1>6. CASE Play
  BY <1>6 DEF Play, IInv, TypeOK, ReportTyped, ActiveWhileWorking,
     ReminderNamed, CancelTargetsActive, RequestNamesActive, Quiet, Local, service, job, config, PCs
<1>7. CASE Played
  BY <1>7, FailKeeps, FinishKeeps DEF Played, CarryFail
<1> QED BY <1>1, <1>2, <1>3, <1>4, <1>5, <1>6, <1>7 DEF Reply

-----------------------------------------------------------------------------
\* The worker's other steps: the top of its loop and the end of an operation.
LEMMA ClaimKeeps == ASSUME IInv, Claim PROVE IInv'
<1> USE DEF IInv
<1>1. /\ active' \in Op /\ pending' \in Op /\ queue' \in Seq(Entry)
      /\ generation' \in Nat
  <2>1. CASE queue # <<>>
    <3>1. Head(queue) \in Entry /\ Tail(queue) \in Seq(Entry)
      BY <2>1, HeadTailProperties DEF TypeOK
    <3>2. generation' = generation + 1 /\ pending' = pending
      BY <2>1 DEF Claim
    <3>3. active' = [id |-> generation + 1, request |-> "REMINDER", reminder |-> Head(queue)]
      BY <2>1 DEF Claim
    <3>4. queue' = Tail(queue)
      BY <2>1 DEF Claim
    <3> QED BY <3>1, <3>2, <3>3, <3>4 DEF TypeOK, Op, Requests
  <2>2. CASE queue = <<>>
    BY <2>2 DEF Claim, TypeOK, Op, NoOp, NoEntry, Requests
  <2> QED BY <2>1, <2>2
<1>2. ~workerActive
  BY DEF Claim, ActiveWhileWorking, Working
<1>3. TypeOK'
  <2>1. request' \in Requests
    BY <1>1 DEF Claim, Op
  <2>2. /\ state' \in States /\ resultRequest' \in Requests /\ pc' \in PCs
        /\ error' \in Errors /\ outcome' \in Outcomes
    BY DEF Claim, TypeOK, States, Busy, PCs, Working, Requests, Errors, Outcomes
  <2> QED BY <1>1, <2>1, <2>2 DEF Claim, TypeOK, config
<1>4. ReportTyped' /\ ActiveWhileWorking'
  BY DEF Claim, ReportTyped, ActiveWhileWorking, Working
<1>5. CancelTargetsActive'
  BY <1>2 DEF Claim, CancelTargetsActive
<1>6. RequestNamesActive'
  BY DEF Claim, RequestNamesActive
<1>7. ReminderNamed'
  <2>1. CASE queue # <<>>
    <3>1. Head(queue) \in Entry
      BY <2>1, HeadTailProperties DEF TypeOK
    <3> QED BY <2>1, <3>1 DEF Claim, ReminderNamed
  <2>2. CASE queue = <<>>
    BY <2>2 DEF Claim, ReminderNamed, NoOp
  <2> QED BY <2>1, <2>2
<1> QED BY <1>3, <1>4, <1>5, <1>6, <1>7

LEMMA EndOperationKeeps == ASSUME IInv, EndOperation PROVE IInv'
<1> USE DEF IInv
<1>1. queue' \in Seq(Entry)
  <2>1. CASE MayRetry
    <3>1. active.reminder \in Entry
      BY <2>1 DEF MayRetry, ReminderNamed
    <3>2. <<[key |-> active.reminder.key, attempts |-> 1]>> \in Seq(Entry)
      BY <3>1 DEF Entry
    <3>3. queue' = <<[key |-> active.reminder.key, attempts |-> 1]>> \o queue
      BY <2>1 DEF EndOperation
    <3> QED BY <3>2, <3>3, ConcatProperties DEF TypeOK
  <2>2. CASE ~MayRetry
    BY <2>2 DEF EndOperation, TypeOK
  <2> QED BY <2>1, <2>2
<1>2. NoOp \in Op
  BY DEF NoOp, Op, Requests
<1>3. TypeOK'
  BY <1>1, <1>2 DEF EndOperation, At, TypeOK, Uncancel, service, config, PCs
<1>4. workerActive
  BY DEF EndOperation, At, ActiveWhileWorking, Working
<1>5. CancelTargetsActive'
  BY <1>4 DEF EndOperation, Uncancel, CancelTargetsActive
<1> QED BY <1>3, <1>5 DEF EndOperation, At, ReportTyped, ActiveWhileWorking, Working,
     ReminderNamed, NoOp, RequestNamesActive

LEMMA WorkerKeeps == ASSUME IInv, Worker PROVE IInv'
<1> USE DEF IInv
<1>1. CASE IdleWait
  <2>1. ~workerActive
    BY <1>1 DEF IdleWait, ActiveWhileWorking, Working
  <2>2. TypeOK'
    <3>1. state' \in States /\ fresh' \in BOOLEAN
      BY <1>1 DEF IdleWait, GoIdle, TypeOK, States
    <3>2. NoOp \in Op
      BY DEF NoOp, Op, Requests
    <3>3. /\ UNCHANGED <<error, outcome, resultRequest, pending, queue, generation, cancelled,
                         shutdown, available, online, mimo, verdict, ui, revoked>>
          /\ active' = NoOp /\ workerActive' = FALSE
          /\ request' \in Requests /\ pc' \in PCs
      BY <1>1 DEF IdleWait, config, PCs, Requests
    <3> QED BY <3>1, <3>2, <3>3 DEF TypeOK
  <2>3. ReportTyped' /\ ActiveWhileWorking' /\ ReminderNamed'
    BY <1>1, <2>1 DEF IdleWait, ReportTyped, ActiveWhileWorking, Working, ReminderNamed, NoOp
  <2>4. CancelTargetsActive' /\ RequestNamesActive'
    BY <1>1, <2>1 DEF IdleWait, CancelTargetsActive, RequestNamesActive
  <2> QED BY <2>2, <2>3, <2>4
<1>2. CASE Exit
  BY <1>2 DEF Exit, TypeOK, service, job, config, PCs, ReportTyped, ActiveWhileWorking,
     Working, ReminderNamed, CancelTargetsActive, RequestNamesActive
<1>3. CASE Claim
  BY <1>3, ClaimKeeps
<1>4. CASE Query
  BY <1>4, QueryKeeps
<1>5. CASE Reply
  BY <1>5, ReplyKeeps
<1>6. CASE Chat
  BY <1>6, ShowKeeps, FailKeeps DEF Chat, Working, States, Busy, Errors
<1>7. CASE ChatPlay
  BY <1>7, FinishKeeps, FailKeeps DEF ChatPlay, Working, Outcomes, Errors
<1>8. CASE FinishOperation
  <2>1. error' \in Errors /\ outcome' \in Outcomes /\ fresh' \in BOOLEAN
    BY <1>8 DEF FinishOperation, At, TypeOK, ReportTyped, Errors
  <2> QED BY <1>8, <2>1 DEF FinishOperation, At, Local, TypeOK, ReportTyped, ActiveWhileWorking,
     Working, ReminderNamed, CancelTargetsActive, RequestNamesActive, job, config, PCs,
     Errors
<1>9. CASE ReportError
  <2>1. /\ state' \in States /\ error' \in Errors /\ outcome' \in Outcomes
        /\ request' \in Requests /\ resultRequest' \in Requests
        /\ fresh' \in BOOLEAN /\ request' = request
    BY <1>9, PublishType DEF ReportError, At, ReportTyped, States
  <2> QED BY <1>9, <2>1 DEF ReportError, At, Local, TypeOK, ReportTyped, ActiveWhileWorking,
     Working, ReminderNamed, CancelTargetsActive, RequestNamesActive, job, config, PCs,
     Errors
<1>10. CASE EndOperation
  BY <1>10, EndOperationKeeps
<1> QED BY <1>1, <1>2, <1>3, <1>4, <1>5, <1>6, <1>7, <1>8, <1>9, <1>10 DEF Worker

-----------------------------------------------------------------------------
(***************************************************************************)
(* API calls, the voice timer and the join.                                *)
(***************************************************************************)
LEMMA DirectRequestKeeps ==
  ASSUME IInv, NEW r \in Requests \ {"REMINDER"}, NEW s \in States, Accept(r, s)
  PROVE  IInv'
<1> USE DEF IInv
<1>1. ~workerActive
  BY DEF Accept, Rejecting
<1>2. pending' \in Op /\ generation' \in Nat /\ pending'.request # "REMINDER"
  BY DEF Accept, NewOp, Op, TypeOK, NoEntry
<1>3. pc' \in PCs /\ (pc' \in Working <=> pc \in Working) /\ pc' # "fail" /\ pc' # "finish"
  BY <1>1 DEF Accept, Signal, TypeOK, PCs, Working, ActiveWhileWorking
<1>4. TypeOK'
  BY <1>2, <1>3 DEF Accept, TypeOK, config, Errors, Outcomes, Requests
<1> QED BY <1>1, <1>2, <1>3, <1>4 DEF Accept, ReportTyped, ActiveWhileWorking,
     ReminderNamed, CancelTargetsActive, RequestNamesActive

LEMMA SignalKeeps ==
  ASSUME IInv, Signal
  PROVE  /\ pc' \in PCs
         /\ pc' \in Working <=> pc \in Working
         /\ pc' = "fail" => pc = "fail"
         /\ pc' = "finish" => pc = "finish"
BY DEF IInv, TypeOK, Signal, PCs, Working

LEMMA WarningKeeps == ASSUME IInv, PlayTemperatureWarning PROVE IInv'
<1> USE DEF IInv
<1>1. pending' \in Op /\ generation' \in Nat /\ pending'.request # "REMINDER"
  BY DEF PlayTemperatureWarning, NewOp, Op, TypeOK, NoEntry, Requests
<1>2. Signal
  BY DEF PlayTemperatureWarning
<1>3. CASE workerActive
  <2>1. cancelled' = active.id /\ request' = request /\ state' = state
    BY <1>3 DEF PlayTemperatureWarning, Preempt
  <2>2. active.id \in Nat
    BY DEF TypeOK, Op
  <2>3. TypeOK'
    BY <1>1, <1>2, <2>1, <2>2, SignalKeeps
       DEF PlayTemperatureWarning, TypeOK, config, Errors, Outcomes
  <2> QED BY <1>1, <1>2, <1>3, <2>1, <2>3, SignalKeeps DEF PlayTemperatureWarning,
       ReportTyped, ActiveWhileWorking, ReminderNamed, CancelTargetsActive,
       RequestNamesActive
<1>4. CASE ~workerActive
  <2>1. cancelled' = cancelled /\ request' = "WARNING" /\ state' = "PROCESSING"
    BY <1>4 DEF PlayTemperatureWarning, Preempt
  <2>2. TypeOK'
    BY <1>1, <1>2, <2>1, SignalKeeps
       DEF PlayTemperatureWarning, TypeOK, config, Errors, Outcomes, Requests, States, Busy
  <2> QED BY <1>1, <1>2, <1>4, <2>1, <2>2, SignalKeeps DEF PlayTemperatureWarning,
       ReportTyped, ActiveWhileWorking, ReminderNamed, CancelTargetsActive,
       RequestNamesActive
<1> QED BY <1>3, <1>4

LEMMA EnqueueKeeps ==
  ASSUME IInv, NEW k \in Reminders, EnqueueReminder(k)
  PROVE  IInv'
<1> USE DEF IInv
<1>1. queue' \in Seq(Entry)
  <2>1. [key |-> k, attempts |-> 0] \in Entry
    BY DEF Entry
  <2> QED BY <2>1 DEF EnqueueReminder, TypeOK
<1>2. Signal
  BY DEF EnqueueReminder
<1>3. TypeOK'
  BY <1>1, <1>2, SignalKeeps DEF EnqueueReminder, TypeOK, service, config
<1> QED BY <1>2, <1>3, SignalKeeps DEF EnqueueReminder, service, ReportTyped,
     ActiveWhileWorking, ReminderNamed, CancelTargetsActive, RequestNamesActive

\* What cancel_reminder and clear_reminders do to the rest of the service.
LEMMA StopReminderKeeps ==
  ASSUME IInv, NEW hit \in BOOLEAN, hit => workerActive, StopReminder(hit),
         queue' \in Seq(Entry), revoked' \in SUBSET Reminders
  PROVE  IInv'
<1> USE DEF IInv
<1>1. Signal
  BY DEF StopReminder
<1>2. cancelled' \in Nat /\ fresh' \in BOOLEAN
  BY DEF StopReminder, TypeOK, Op
<1>3. TypeOK'
  BY <1>1, <1>2, SignalKeeps DEF StopReminder, TypeOK, service, config
<1>4. CancelTargetsActive'
  BY DEF StopReminder, CancelTargetsActive
<1> QED BY <1>1, <1>3, <1>4, SignalKeeps DEF StopReminder, service, ReportTyped,
     ActiveWhileWorking, ReminderNamed, RequestNamesActive

LEMMA CancelKeeps == ASSUME IInv, Cancel PROVE IInv'
<1> USE DEF IInv
<1>1. Signal
  BY DEF Cancel
<1>2. NoOp \in Op /\ NoOp.request # "REMINDER" /\ active.id \in Nat
  BY DEF NoOp, Op, NoEntry, Requests, TypeOK
<1>3. CASE workerActive
  <2>1. /\ cancelled' = active.id /\ fresh' = TRUE /\ UNCHANGED <<service, pending>>
        /\ revoked' = revoked \cup ({active.reminder.key} \cap Reminders)
    BY <1>3 DEF Cancel
  <2>2. TypeOK'
    BY <1>1, <1>2, <2>1, SignalKeeps DEF Cancel, TypeOK, service, config
  <2> QED BY <1>1, <1>3, <2>1, <2>2, SignalKeeps DEF Cancel, service, ReportTyped,
       ActiveWhileWorking, ReminderNamed, CancelTargetsActive, RequestNamesActive
<1>4. CASE ~workerActive /\ pending # NoOp
  <2>1. /\ pending' = NoOp /\ request' = "NONE" /\ state' = "IDLE"
        /\ error' = "NONE" /\ outcome' = "CANCELLED" /\ fresh' = TRUE
        /\ UNCHANGED <<resultRequest, cancelled, revoked>>
    BY <1>4 DEF Cancel
  <2>2. TypeOK'
    BY <1>1, <1>2, <2>1, SignalKeeps DEF Cancel, TypeOK, config, Requests, States,
       Errors, Outcomes
  <2> QED BY <1>1, <1>2, <1>4, <2>1, <2>2, SignalKeeps DEF Cancel, ReportTyped,
       ActiveWhileWorking, ReminderNamed, CancelTargetsActive, RequestNamesActive
<1>5. CASE ~workerActive /\ pending = NoOp
  <2>1. UNCHANGED <<service, pending, cancelled, fresh, revoked>>
    BY <1>5 DEF Cancel
  <2>2. TypeOK'
    BY <1>1, <2>1, SignalKeeps DEF Cancel, TypeOK, service, config
  <2> QED BY <1>1, <1>5, <2>1, <2>2, SignalKeeps DEF Cancel, service, ReportTyped,
       ActiveWhileWorking, ReminderNamed, CancelTargetsActive, RequestNamesActive
<1> QED BY <1>3, <1>4, <1>5

LEMMA ShutdownKeeps == ASSUME IInv, Shutdown PROVE IInv'
<1> USE DEF IInv
<1>1. Signal
  BY DEF Shutdown
<1>2. NoOp \in Op /\ NoOp.request # "REMINDER"
  BY DEF NoOp, Op, NoEntry, Requests
<1>3. cancelled' \in Nat /\ fresh' \in BOOLEAN
  BY DEF Shutdown, TypeOK, Op
<1>4. TypeOK'
  BY <1>1, <1>2, <1>3, SignalKeeps DEF Shutdown, TypeOK, service, config
<1>5. CancelTargetsActive'
  BY DEF Shutdown, CancelTargetsActive
<1> QED BY <1>1, <1>2, <1>4, <1>5, SignalKeeps DEF Shutdown, service, ReportTyped,
     ActiveWhileWorking, ReminderNamed, RequestNamesActive

LEMMA ApiCallKeeps == ASSUME IInv, ApiCall PROVE IInv'
<1> USE DEF IInv
<1>1. CASE Begin
  BY <1>1, DirectRequestKeeps DEF Begin, Requests, States, Busy
<1>2. ASSUME NEW s \in Sensors, PlaySensor(s)
      PROVE  IInv'
  <2>1. s \in Requests \ {"REMINDER"}
    BY RequestsDistinct DEF Requests
  <2> QED BY <1>2, <2>1, DirectRequestKeeps DEF PlaySensor, States, Busy
<1>3. ASSUME NEW s \in Sensors, PlaySensorUnavailable(s)
      PROVE  IInv'
  BY <1>3 DEF PlaySensorUnavailable, Rejecting, TypeOK, job, config, worker, States,
     Errors, Requests, ReportTyped, ActiveWhileWorking, ReminderNamed,
     CancelTargetsActive, RequestNamesActive
<1>4. CASE PlayTemperatureWarning
  BY <1>4, WarningKeeps
<1>5. ASSUME NEW k \in Reminders, EnqueueReminder(k)
      PROVE  IInv'
  BY <1>5, EnqueueKeeps
<1>6. ASSUME NEW k \in Reminders, CancelReminder(k)
      PROVE  IInv'
  <2>1. queue' \in Seq(Entry)
    BY <1>6, WithoutType DEF CancelReminder, TypeOK
  <2>2. revoked' \in SUBSET Reminders
    BY <1>6 DEF CancelReminder, TypeOK
  <2>3. IsActive(k) \in BOOLEAN /\ (IsActive(k) => workerActive)
    BY DEF IsActive, TypeOK
  <2> QED BY <1>6, <2>1, <2>2, <2>3, StopReminderKeeps DEF CancelReminder
<1>7. CASE Cancel
  BY <1>7, CancelKeeps
<1>8. CASE ClearReminders
  <2>1. queue' \in Seq(Entry) /\ revoked' \in SUBSET Reminders
    BY <1>8 DEF ClearReminders
  <2> QED BY <1>8, <2>1, StopReminderKeeps DEF ClearReminders, TypeOK
<1>9. CASE UpdateSensors
  BY <1>9 DEF UpdateSensors, TypeOK, service, job, worker, ReportTyped,
     ActiveWhileWorking, ReminderNamed, CancelTargetsActive, RequestNamesActive
<1>10. CASE UpdateVoiceConfig
  <2>1. online' \in BOOLEAN /\ mimo' \in BOOLEAN
    BY <1>10 DEF UpdateVoiceConfig, TypeOK
  <2> QED BY <1>10, <2>1 DEF UpdateVoiceConfig, TypeOK, service, job, worker, ReportTyped,
       ActiveWhileWorking, ReminderNamed, CancelTargetsActive, RequestNamesActive
<1>11. CASE Shutdown
  BY <1>11, ShutdownKeeps
<1> QED BY <1>1, <1>2, <1>3, <1>4, <1>5, <1>6, <1>7, <1>8, <1>9, <1>10, <1>11 DEF ApiCall

-----------------------------------------------------------------------------
(***************************************************************************)
(* The theorems.                                                           *)
(***************************************************************************)
LEMMA InitKeeps == Init => IInv
<1> SUFFICES ASSUME Init PROVE IInv
  OBVIOUS
<1>1. NoOp \in Op
  BY DEF NoOp, Op, Requests
<1>2. ui \in [label : States \cup Errors, active : BOOLEAN, request : Requests]
  BY DEF Init, States, Requests
<1>3. queue \in Seq(Entry) /\ generation \in Nat /\ cancelled \in Nat
  BY EmptySeq DEF Init
<1>4. state \in States /\ error \in Errors /\ outcome \in Outcomes
  BY DEF Init, States, Errors, Outcomes
<1>5. request \in Requests /\ resultRequest \in Requests /\ pc \in PCs
  BY DEF Init, Requests, PCs
<1>6. TypeOK
  BY <1>1, <1>2, <1>3, <1>4, <1>5 DEF Init, TypeOK, Errors
<1> QED BY <1>6 DEF Init, IInv, ReportTyped, ActiveWhileWorking, ReminderNamed,
     CancelTargetsActive, RequestNamesActive, NoOp, Working

LEMMA NextKeeps == IInv /\ [Next]_vars => IInv'
<1> SUFFICES ASSUME IInv, [Next]_vars PROVE IInv'
  OBVIOUS
<1>1. CASE ApiCall
  BY <1>1, ApiCallKeeps
<1>2. CASE Worker
  BY <1>2, WorkerKeeps
<1>3. CASE VoiceTimer
  <2>1. ui' \in [label : States \cup Errors, active : BOOLEAN, request : Requests]
    BY <1>3, ViewType DEF VoiceTimer, IInv
  <2> QED BY <1>3, <2>1 DEF VoiceTimer, IInv, TypeOK, service, job, config, worker,
       ReportTyped, ActiveWhileWorking, ReminderNamed, CancelTargetsActive,
       RequestNamesActive
<1>4. CASE Join
  <2>1. NoOp \in Op
    BY DEF NoOp, Op, Requests
  <2>2. queue' \in Seq(Entry) /\ generation' \in Nat /\ cancelled' \in Nat
    BY <1>4, EmptySeq DEF Join
  <2>3. state' \in States /\ error' \in Errors /\ outcome' \in Outcomes
    BY <1>4 DEF Join, States, Errors, Outcomes
  <2>4. request' \in Requests /\ resultRequest' \in Requests /\ pc' \in PCs
    BY <1>4 DEF Join, Requests, PCs
  <2>5. TypeOK'
    BY <1>4, <2>1, <2>2, <2>3, <2>4 DEF Join, IInv, TypeOK, Errors
  <2> QED BY <1>4, <2>5 DEF Join, IInv, ReportTyped, ActiveWhileWorking,
       ReminderNamed, CancelTargetsActive, RequestNamesActive, NoOp, Working
<1>5. CASE UNCHANGED vars
  BY <1>5 DEF vars, service, job, config, worker, IInv, TypeOK, ReportTyped,
     ActiveWhileWorking, ReminderNamed, CancelTargetsActive, RequestNamesActive
<1> QED BY <1>1, <1>2, <1>3, <1>4, <1>5 DEF Next, Over

THEOREM Invariance == Spec => []IInv
<1> QED BY InitKeeps, NextKeeps, PTL DEF Spec

\* Every variable of the service keeps its type.
THEOREM TypeCorrect == Spec => []TypeOK
<1>1. IInv => TypeOK
  BY DEF IInv
<1> QED BY <1>1, Invariance, PTL

\* cancelled_operation names the running operation or nothing: whatever the
\* interleaving of the API calls with the worker, a cancellation meant for one
\* operation never hits the next.
THEOREM CancellationIsPrecise == Spec => []CancelTargetsActive
<1>1. IInv => CancelTargetsActive
  BY DEF IInv
<1> QED BY <1>1, Invariance, PTL

\* The request the panel is told about is the one the worker performs, across
\* preemption by a temperature warning.
THEOREM RequestIsHonest == Spec => []RequestNamesActive
<1>1. IInv => RequestNamesActive
  BY DEF IInv
<1> QED BY <1>1, Invariance, PTL

-----------------------------------------------------------------------------
(***************************************************************************)
(* No reminder is in the service twice.                                    *)
(***************************************************************************)
Twice(q) == \E i, j \in DOMAIN q : q[i].key = q[j].key /\ i # j
Holds(q, k) == \E i \in DOMAIN q : q[i].key = k
InHands(k) == workerActive /\ active.request = "REMINDER" /\ active.reminder.key = k

\* Most steps leave the queue alone, and what the worker is about.
LEMMA QueueFrame ==
  ASSUME [Next]_vars
  PROVE  \/ UNCHANGED <<queue, workerActive, active, revoked>>
         \/ Cancel \/ Shutdown
         \/ \E k \in Reminders : EnqueueReminder(k) \/ CancelReminder(k)
         \/ ClearReminders \/ Join \/ IdleWait \/ Claim \/ EndOperation
<1> USE DEF service, job, config, worker, Quiet, Local
<1>1. CASE ApiCall
  BY <1>1 DEF ApiCall, Begin, PlaySensor, Accept, PlaySensorUnavailable, PlayTemperatureWarning, Cancel,
              UpdateSensors, UpdateVoiceConfig, Shutdown
<1>2. CASE Query
  BY <1>2 DEF Query, Listen, Capture, Captured, StartRecognition, Recognise, Recognised, Understood, Show,
              Goto, Fail, Finish, StopHere, Carry, CarryFail
<1>3. CASE Reply
  BY <1>3 DEF Reply, Speak, Build, Unbuilt, Built, Speaking, Play, Played, Show, Goto, Fail, Finish,
              StopHere, Carry, CarryFail
<1>4. CASE Exit \/ Chat \/ ChatPlay \/ FinishOperation \/ ReportError \/ VoiceTimer \/ Over \/ UNCHANGED vars
  BY <1>4 DEF Exit, Chat, ChatPlay, FinishOperation, ReportError, VoiceTimer, Over, vars, Show, Goto, Fail,
              Finish
<1> QED BY <1>1, <1>2, <1>3, <1>4 DEF Next, Worker

\* Entries of a shorter queue, in the same order.
LEMMA WithoutHolds ==
  ASSUME NEW q \in Seq(Entry), NEW k, ~Twice(q)
  PROVE  ~Twice(Without(q, k)) /\ \A r : Holds(Without(q, k), r) => Holds(q, r)
<1> DEFINE hits == {i \in DOMAIN q : q[i].key = k}
           hit  == CHOOSE i \in hits : TRUE
           p    == Without(q, k)
<1>0. DOMAIN q = 1..Len(q) /\ Len(q) \in Nat
  BY LenProperties
<1>1. CASE hits = {}
  <2>1. p = q
    BY <1>1 DEF Without
  <2> QED BY <2>1
<1>2. CASE hits # {}
  <2>1. hit \in 1..Len(q)
    <3>1. hit \in hits
      BY <1>2
    <3> QED BY <1>0, <3>1
  <2>2. p = SubSeq(q, 1, hit - 1) \o SubSeq(q, hit + 1, Len(q))
    BY <1>2 DEF Without
  <2> HIDE DEF hit, p
  <2>3. /\ p \in Seq(Entry) /\ Len(p) = Len(q) - 1
        /\ \A i \in 1..Len(p) : p[i] = q[IF i < hit THEN i ELSE i + 1]
    BY <2>1, <2>2, CutOut
  <2>4. DOMAIN p = 1..(Len(q) - 1)
    BY <2>3, LenProperties
  <2>5. \A i \in DOMAIN p : (IF i < hit THEN i ELSE i + 1) \in DOMAIN q
    BY <1>0, <2>1, <2>4
  <2>6. ~Twice(p)
    <3>1. ASSUME NEW i \in DOMAIN p, NEW j \in DOMAIN p, p[i].key = p[j].key
          PROVE  i = j
      <4>1. (IF i < hit THEN i ELSE i + 1) = (IF j < hit THEN j ELSE j + 1)
        BY <2>3, <2>4, <2>5, <3>1 DEF Twice
      <4> QED BY <1>0, <2>1, <2>4, <4>1
    <3> QED BY <3>1 DEF Twice
  <2>7. ASSUME NEW r, Holds(p, r) PROVE Holds(q, r)
    BY <2>3, <2>4, <2>5, <2>7 DEF Holds
  <2> QED BY <2>6, <2>7 DEF p
<1> QED BY <1>1, <1>2

\* A new entry at either end, if nothing in the queue has its key.
LEMMA AddedHolds ==
  ASSUME NEW q \in Seq(Entry), NEW e \in Entry, ~Twice(q), ~Holds(q, e.key),
         NEW p, p = Append(q, e) \/ p = <<e>> \o q
  PROVE  ~Twice(p) /\ \A r : Holds(p, r) => r = e.key \/ Holds(q, r)
<1>1. DOMAIN q = 1..Len(q) /\ Len(q) \in Nat
  BY LenProperties
<1>2. CASE p = Append(q, e)
  <2>1. /\ p \in Seq(Entry) /\ Len(p) = Len(q) + 1 /\ p[Len(q) + 1] = e
        /\ \A i \in 1..Len(q) : p[i] = q[i]
    BY <1>1, <1>2, AppendProperties
  <2>2. DOMAIN p = 1..(Len(q) + 1)
    BY <2>1, LenProperties
  <2>3. ASSUME NEW i \in DOMAIN p
        PROVE  (i = Len(q) + 1 /\ p[i] = e) \/ (i \in 1..Len(q) /\ p[i] = q[i])
    <3>1. i = Len(q) + 1 \/ i \in 1..Len(q)
      BY <1>1, <2>2, <2>3
    <3> QED BY <2>1, <3>1
  <2>4. ~Twice(p)
    BY <1>1, <2>2, <2>3 DEF Twice, Holds
  <2> QED BY <1>1, <2>3, <2>4 DEF Holds
<1>3. CASE p = <<e>> \o q
  <2>1. <<e>> \in Seq(Entry) /\ Len(<<e>>) = 1 /\ <<e>>[1] = e
    OBVIOUS
  <2>2. /\ p \in Seq(Entry) /\ Len(p) = 1 + Len(q)
        /\ \A i \in 1..(1 + Len(q)) : p[i] = IF i <= 1 THEN <<e>>[i] ELSE q[i - 1]
    BY <1>1, <1>3, <2>1, ConcatProperties
  <2>3. DOMAIN p = 1..(1 + Len(q))
    BY <2>2, LenProperties
  <2>4. ASSUME NEW i \in DOMAIN p
        PROVE  (i = 1 /\ p[i] = e) \/ (i - 1 \in 1..Len(q) /\ p[i] = q[i - 1])
    <3>1. p[i] = IF i <= 1 THEN <<e>>[i] ELSE q[i - 1]
      BY <2>2, <2>3, <2>4
    <3>2. i = 1 \/ (i - 1 \in 1..Len(q) /\ ~(i <= 1))
      BY <1>1, <2>3, <2>4
    <3> QED BY <2>1, <3>1, <3>2
  <2>5. ~Twice(p)
    BY <1>1, <2>3, <2>4 DEF Twice, Holds
  <2> QED BY <1>1, <2>4, <2>5 DEF Holds
<1> QED BY <1>2, <1>3

LEMMA OneOfEach ==
  ASSUME TypeOK
  PROVE  NoDuplicateReminder <=> ~Twice(queue) /\ \A k : InHands(k) => ~Holds(queue, k)
BY DEF NoDuplicateReminder, Twice, Holds, Queued, InHands

LEMMA NoDuplicateKept ==
  ASSUME IInv, IInv', NoDuplicateReminder, [Next]_vars
  PROVE  NoDuplicateReminder'
<1>1. /\ queue \in Seq(Entry) /\ ~Twice(queue) /\ TypeOK
      /\ \A k : InHands(k) => ~Holds(queue, k)
  BY OneOfEach DEF IInv, TypeOK
<1> SUFFICES ~Twice(queue') /\ \A k : InHands(k)' => ~Holds(queue', k)
  BY DEF NoDuplicateReminder, Twice, Holds, Queued, InHands
<1>2. CASE UNCHANGED <<queue, workerActive, active, revoked>> \/ Cancel \/ Shutdown
  BY <1>1, <1>2 DEF InHands, Cancel, Shutdown
<1>3. ASSUME NEW k \in Reminders, EnqueueReminder(k)
      PROVE  ~Twice(queue') /\ \A r : InHands(r)' => ~Holds(queue', r)
  <2>1. [key |-> k, attempts |-> 0] \in Entry /\ ~Holds(queue, k)
    BY <1>3 DEF EnqueueReminder, Entry, Queued, Holds
  <2>2. ~Twice(queue') /\ \A r : Holds(queue', r) => r = k \/ Holds(queue, r)
    <3>1. queue' = Append(queue, [key |-> k, attempts |-> 0]) /\ [key |-> k, attempts |-> 0].key = k
      BY <1>3 DEF EnqueueReminder
    <3> DEFINE e == [key |-> k, attempts |-> 0]
    <3>2. e \in Entry /\ ~Holds(queue, e.key) /\ queue' = Append(queue, e)
      BY <2>1, <3>1
    <3> HIDE DEF e
    <3>3. ~Twice(queue') /\ \A r : Holds(queue', r) => r = e.key \/ Holds(queue, r)
      BY <1>1, <3>2, AddedHolds
    <3> QED BY <3>1, <3>3 DEF e
  <2>3. \A r : InHands(r)' => InHands(r) /\ r # k
    BY <1>3 DEF EnqueueReminder, InHands, IsActive, IInv, RequestNamesActive
  <2> QED BY <1>1, <2>2, <2>3
<1>4. ASSUME NEW k \in Reminders, CancelReminder(k)
      PROVE  ~Twice(queue') /\ \A r : InHands(r)' => ~Holds(queue', r)
  <2>1. queue' = Without(queue, k) /\ \A r : InHands(r)' => InHands(r)
    BY <1>4 DEF CancelReminder, StopReminder, InHands
  <2> QED BY <1>1, <2>1, WithoutHolds
<1>5. CASE ClearReminders \/ Join
  <2>1. queue' = <<>>
    BY <1>5 DEF ClearReminders, Join
  <2> QED BY <2>1 DEF Twice, Holds
<1>6. CASE IdleWait
  BY <1>1, <1>6 DEF IdleWait, InHands
<1>7. CASE Claim
  <2>1. CASE queue # <<>>
    <3>1. queue' = Tail(queue) /\ active'.reminder = Head(queue)
      BY <1>7, <2>1 DEF Claim
    <3>2. /\ DOMAIN queue = 1..Len(queue) /\ Len(queue) \in Nat \ {0}
          /\ Head(queue) = queue[1]
          /\ DOMAIN queue' = 1..(Len(queue) - 1)
          /\ \A i \in DOMAIN queue' : queue'[i] = queue[i + 1]
      BY <1>1, <2>1, <3>1, HeadTailProperties, EmptySeq, LenProperties
    <3>3. ~Twice(queue')
      BY <1>1, <3>2 DEF Twice
    <3>4. ~Holds(queue', queue[1].key)
      BY <1>1, <3>2 DEF Twice, Holds
    <3> QED BY <3>1, <3>2, <3>3, <3>4 DEF InHands
  <2>2. CASE queue = <<>>
    <3>1. queue' = <<>>
      BY <1>7, <2>2 DEF Claim
    <3> QED BY <3>1 DEF Twice, Holds
  <2> QED BY <2>1, <2>2
<1>8. CASE EndOperation
  <2>1. ~workerActive' /\ workerActive
    BY <1>8 DEF EndOperation, At, IInv, ActiveWhileWorking, Working
  <2>2. CASE MayRetry
    <3>1. active.request = "REMINDER" /\ active.reminder \in Entry
      BY <2>2 DEF MayRetry, IInv, ReminderNamed
    <3>2. ~Holds(queue, active.reminder.key)
      BY <1>1, <2>1, <3>1 DEF InHands
    <3>3. [key |-> active.reminder.key, attempts |-> 1] \in Entry
      BY <3>1 DEF Entry
    <3>4. PICK e \in Entry : e.key = active.reminder.key /\ queue' = <<e>> \o queue
      BY <1>8, <2>2, <3>3 DEF EndOperation
    <3>5. ~Twice(queue')
      BY <1>1, <3>2, <3>4, AddedHolds
    <3> QED BY <2>1, <3>5 DEF InHands
  <2>3. CASE ~MayRetry
    BY <1>1, <1>8, <2>1, <2>3 DEF EndOperation, InHands
  <2> QED BY <2>2, <2>3
<1> QED BY <1>2, <1>3, <1>4, <1>5, <1>6, <1>7, <1>8, QueueFrame

\* A reminder is queued or being spoken at most once: a duplicate is refused
\* whether the first waits or is in the worker's hands, and the retry puts back only
\* what was taken out (audio_service.c:1122-1170, :880-900).
THEOREM RemindersAreSingle == Spec => []NoDuplicateReminder
<1>1. Init => NoDuplicateReminder
  BY DEF Init, NoDuplicateReminder
<1>2. IInv /\ IInv' /\ NoDuplicateReminder /\ [Next]_vars => NoDuplicateReminder'
  BY NoDuplicateKept
<1> QED BY <1>1, <1>2, InitKeeps, NextKeeps, PTL DEF Spec

-----------------------------------------------------------------------------
(***************************************************************************)
(* A reminder that was given up stays silent.                              *)
(***************************************************************************)
\* What was given up does not wait, and is cancelled where the worker has it; an
\* operation that is not a reminder carries none.
GivenUp ==
  /\ pending.request # "REMINDER" => pending.reminder.key \notin Reminders
  /\ active.request # "REMINDER" => active.reminder.key \notin Reminders
  /\ ~shutdown => \A k \in revoked : ~Holds(queue, k)
  /\ \A k \in revoked : InHands(k) => cancelled = active.id
SilentInv == IInv /\ NoDuplicateReminder /\ GivenUp

\* While an operation runs nothing takes its cancellation back, and nothing is
\* accepted anew that it is about.
LEMMA CancellationStays ==
  ASSUME IInv, [Next]_vars, workerActive, workerActive'
  PROVE  /\ active' = active /\ (cancelled = active.id => cancelled' = active.id)
         /\ \A k \in revoked' : k \in revoked \/ (InHands(k) => cancelled' = active.id)
<1> USE DEF service, job, config, worker, Quiet, Local
<1>1. CASE ApiCall
  BY <1>1 DEF ApiCall, Begin, PlaySensor, Accept, Rejecting, PlaySensorUnavailable, PlayTemperatureWarning,
              Preempt, Cancel, UpdateSensors, UpdateVoiceConfig, Shutdown, EnqueueReminder, CancelReminder,
              ClearReminders, StopReminder, IsActive, InHands, IInv, RequestNamesActive
<1>2. CASE Query
  BY <1>2 DEF Query, Listen, Capture, Captured, StartRecognition, Recognise, Recognised, Understood, Show,
              Goto, Fail, Finish, StopHere, Carry, CarryFail
<1>3. CASE Reply
  BY <1>3 DEF Reply, Speak, Build, Unbuilt, Built, Speaking, Play, Played, Show, Goto, Fail, Finish,
              StopHere, Carry, CarryFail
<1>4. CASE Exit \/ Chat \/ ChatPlay \/ FinishOperation \/ ReportError \/ VoiceTimer \/ Over \/ UNCHANGED vars
  BY <1>4 DEF Exit, Chat, ChatPlay, FinishOperation, ReportError, VoiceTimer, Over, vars, Show, Goto, Fail,
              Finish
<1>5. CASE IdleWait \/ Claim \/ EndOperation \/ Join
  BY <1>5 DEF IdleWait, Claim, EndOperation, Join, IInv, ActiveWhileWorking, Working
<1> QED BY <1>1, <1>2, <1>3, <1>4, <1>5 DEF Next, Worker

LEMMA ShutdownStays == ASSUME [Next]_vars, ~shutdown' PROVE ~shutdown
<1> USE DEF service, job, config, worker, Quiet, Local
<1>1. CASE ApiCall
  BY <1>1 DEF ApiCall, Begin, PlaySensor, Accept, PlaySensorUnavailable, PlayTemperatureWarning, Cancel,
              UpdateSensors, UpdateVoiceConfig, Shutdown, EnqueueReminder, CancelReminder, ClearReminders,
              StopReminder
<1>2. CASE Query
  BY <1>2 DEF Query, Listen, Capture, Captured, StartRecognition, Recognise, Recognised, Understood, Show,
              Goto, Fail, Finish, StopHere, Carry, CarryFail
<1>3. CASE Reply
  BY <1>3 DEF Reply, Speak, Build, Unbuilt, Built, Speaking, Play, Played, Show, Goto, Fail, Finish,
              StopHere, Carry, CarryFail
<1>4. CASE Exit \/ Chat \/ ChatPlay \/ FinishOperation \/ ReportError \/ VoiceTimer \/ Over \/ UNCHANGED vars
  BY <1>4 DEF Exit, Chat, ChatPlay, FinishOperation, ReportError, VoiceTimer, Over, vars, Show, Goto, Fail,
              Finish
<1>5. CASE IdleWait \/ Claim \/ EndOperation \/ Join
  BY <1>5 DEF IdleWait, Claim, EndOperation, Join
<1> QED BY <1>1, <1>2, <1>3, <1>4, <1>5 DEF Next, Worker

\* Where no key is twice, removing the first entry with a key removes the key.
LEMMA WithoutGone ==
  ASSUME NEW q \in Seq(Entry), NEW k, ~Twice(q)
  PROVE  ~Holds(Without(q, k), k)
<1> DEFINE hits == {i \in DOMAIN q : q[i].key = k}
           hit  == CHOOSE i \in hits : TRUE
           p    == Without(q, k)
<1>0. DOMAIN q = 1..Len(q) /\ Len(q) \in Nat
  BY LenProperties
<1>1. CASE hits = {}
  <2>1. p = q
    BY <1>1 DEF Without
  <2> QED BY <1>1, <2>1 DEF Holds
<1>2. CASE hits # {}
  <2>1. hit \in 1..Len(q) /\ q[hit].key = k
    <3>1. hit \in hits
      BY <1>2
    <3> QED BY <1>0, <3>1
  <2>2. p = SubSeq(q, 1, hit - 1) \o SubSeq(q, hit + 1, Len(q))
    BY <1>2 DEF Without
  <2> HIDE DEF hit, p
  <2>3. /\ p \in Seq(Entry) /\ Len(p) = Len(q) - 1
        /\ \A i \in 1..Len(p) : p[i] = q[IF i < hit THEN i ELSE i + 1]
    BY <2>1, <2>2, CutOut
  <2>4. DOMAIN p = 1..(Len(q) - 1)
    BY <2>3, LenProperties
  <2>5. ASSUME NEW i \in DOMAIN p, p[i].key = k PROVE FALSE
    <3> DEFINE j == IF i < hit THEN i ELSE i + 1
    <3>1. j \in DOMAIN q /\ j # hit /\ q[j] = p[i]
      BY <1>0, <2>1, <2>3, <2>4, <2>5
    <3> HIDE DEF j
    <3> QED BY <1>0, <2>1, <2>5, <3>1 DEF Twice
  <2> QED BY <2>5 DEF Holds, p
<1> QED BY <1>1, <1>2

\* Only the claim of an operation makes the worker active.
LEMMA ClaimStarts ==
  ASSUME IInv, [Next]_vars, ~workerActive, workerActive'
  PROVE  Claim
BY QueueFrame DEF Cancel, Shutdown, EnqueueReminder, CancelReminder, ClearReminders, StopReminder, Join,
                  IdleWait, EndOperation

\* A reminder that is claimed had not been given up.
LEMMA ClaimedIsWanted ==
  ASSUME SilentInv, Claim, active'.request = "REMINDER"
  PROVE  active'.reminder.key \notin revoked /\ revoked' = revoked
<1>1. queue # <<>>
  BY DEF Claim, SilentInv, IInv, ReminderNamed
<1>2. active'.reminder = Head(queue)
  BY <1>1 DEF Claim
<1>3. Head(queue) = queue[1] /\ 1 \in DOMAIN queue
  BY <1>1, HeadTailProperties, EmptySeq, LenProperties DEF SilentInv, IInv, TypeOK
<1> QED BY <1>2, <1>3 DEF Claim, SilentInv, GivenUp, Holds

LEMMA PlainOps ==
  ASSUME SilentInv, [Next]_vars
  PROVE  /\ pending'.request # "REMINDER" => pending'.reminder.key \notin Reminders
         /\ active'.request # "REMINDER" => active'.reminder.key \notin Reminders
<1> USE DEF service, job, config, worker, Quiet, Local
<1>1. NoOp.reminder.key \notin Reminders /\ \A r : NewOp(r).reminder.key \notin Reminders
  BY NoReminderFresh DEF NoOp, NewOp, NoEntry
<1>2. CASE ApiCall
  BY <1>1, <1>2 DEF ApiCall, Begin, PlaySensor, Accept, PlaySensorUnavailable, PlayTemperatureWarning,
              Cancel, UpdateSensors, UpdateVoiceConfig, Shutdown, EnqueueReminder, CancelReminder,
              ClearReminders, StopReminder, SilentInv, GivenUp
<1>3. CASE Query
  BY <1>3 DEF Query, Listen, Capture, Captured, StartRecognition, Recognise, Recognised, Understood, Show,
              Goto, Fail, Finish, StopHere, Carry, CarryFail, SilentInv, GivenUp
<1>4. CASE Reply
  BY <1>4 DEF Reply, Speak, Build, Unbuilt, Built, Speaking, Play, Played, Show, Goto, Fail, Finish,
              StopHere, Carry, CarryFail, SilentInv, GivenUp
<1>5. CASE Exit \/ Chat \/ ChatPlay \/ FinishOperation \/ ReportError \/ VoiceTimer \/ Over \/ UNCHANGED vars
  BY <1>5 DEF Exit, Chat, ChatPlay, FinishOperation, ReportError, VoiceTimer, Over, vars, Show, Goto, Fail,
              Finish, SilentInv, GivenUp
<1>6. CASE IdleWait \/ EndOperation \/ Join
  BY <1>1, <1>6 DEF IdleWait, EndOperation, Join, SilentInv, GivenUp
<1>7. CASE Claim
  <2>1. CASE queue # <<>>
    BY <1>7, <2>1 DEF Claim, SilentInv, GivenUp
  <2>2. CASE queue = <<>>
    BY <1>1, <1>7, <2>2 DEF Claim, SilentInv, GivenUp
  <2> QED BY <2>1, <2>2
<1> QED BY <1>2, <1>3, <1>4, <1>5, <1>6, <1>7 DEF Next, Worker

\* Nothing that was given up comes to wait again while the service runs.
LEMMA NotQueuedAgain ==
  ASSUME SilentInv, [Next]_vars, ~shutdown', NEW k \in revoked'
  PROVE  ~Holds(queue', k)
<1>1. /\ queue \in Seq(Entry) /\ ~Twice(queue) /\ TypeOK
      /\ \A r : InHands(r) => ~Holds(queue, r)
  BY OneOfEach DEF SilentInv, IInv, TypeOK
<1>2. ~shutdown
  BY ShutdownStays
<1>3. \A r \in revoked : ~Holds(queue, r)
  BY <1>2 DEF SilentInv, GivenUp
<1>4. CASE UNCHANGED <<queue, workerActive, active, revoked>>
  BY <1>3, <1>4
<1>5. CASE Cancel
  <2>1. queue' = queue /\ (k \in revoked \/ (workerActive /\ k = active.reminder.key /\ k \in Reminders))
    BY <1>5 DEF Cancel
  <2>2. active.request # "REMINDER" => active.reminder.key \notin Reminders
    BY DEF SilentInv, GivenUp
  <2> QED BY <1>1, <1>3, <2>1, <2>2 DEF InHands
<1>6. CASE Shutdown
  BY <1>6 DEF Shutdown
<1>7. ASSUME NEW r \in Reminders, EnqueueReminder(r)
      PROVE  ~Holds(queue', k)
  <2> DEFINE e == [key |-> r, attempts |-> 0]
  <2>1. k \in revoked /\ k # r /\ queue' = Append(queue, e) /\ ~Holds(queue, r)
    BY <1>7 DEF EnqueueReminder, Queued, Holds
  <2>2. e \in Entry /\ e.key = r
    BY DEF Entry
  <2> HIDE DEF e
  <2>3. \A x : Holds(queue', x) => x = e.key \/ Holds(queue, x)
    BY <1>1, <2>1, <2>2, AddedHolds
  <2> QED BY <1>3, <2>1, <2>2, <2>3
<1>8. ASSUME NEW r \in Reminders, CancelReminder(r)
      PROVE  ~Holds(queue', k)
  <2>1. queue' = Without(queue, r) /\ (k \in revoked \/ k = r)
    BY <1>8 DEF CancelReminder
  <2>2. CASE k = r
    BY <1>1, <2>1, <2>2, WithoutGone
  <2>3. CASE k \in revoked
    BY <1>1, <1>3, <2>1, <2>3, WithoutHolds
  <2> QED BY <2>1, <2>2, <2>3
<1>9. CASE ClearReminders \/ Join
  <2>1. queue' = <<>>
    BY <1>9 DEF ClearReminders, Join
  <2> QED BY <2>1 DEF Holds
<1>10. CASE IdleWait
  BY <1>3, <1>10 DEF IdleWait
<1>11. CASE Claim
  <2>1. revoked' = revoked
    BY <1>11 DEF Claim
  <2>2. CASE queue # <<>>
    <3>1. queue' = Tail(queue)
      BY <1>11, <2>2 DEF Claim
    <3>2. /\ DOMAIN queue = 1..Len(queue) /\ Len(queue) \in Nat \ {0}
          /\ DOMAIN queue' = 1..(Len(queue) - 1)
          /\ \A i \in DOMAIN queue' : queue'[i] = queue[i + 1]
      BY <1>1, <2>2, <3>1, HeadTailProperties, EmptySeq, LenProperties
    <3>3. ASSUME NEW i \in DOMAIN queue', queue'[i].key = k
          PROVE  FALSE
      <4>1. i + 1 \in DOMAIN queue /\ queue[i + 1].key = k
        BY <3>2, <3>3
      <4> QED BY <1>3, <2>1, <4>1 DEF Holds
    <3> QED BY <3>3 DEF Holds
  <2>3. CASE queue = <<>>
    BY <1>3, <1>11, <2>1, <2>3 DEF Claim
  <2> QED BY <2>2, <2>3
<1>12. CASE EndOperation
  <2>1. workerActive /\ revoked' = revoked
    BY <1>12 DEF EndOperation, At, SilentInv, IInv, ActiveWhileWorking, Working
  <2>2. CASE MayRetry
    <3> DEFINE e == [key |-> active.reminder.key, attempts |-> 1]
    <3>1. active.request = "REMINDER" /\ cancelled # active.id /\ active.reminder \in Entry
      BY <2>2 DEF MayRetry, SilentInv, IInv, ReminderNamed
    <3>2. InHands(active.reminder.key)
      BY <2>1, <3>1 DEF InHands
    <3>3. active.reminder.key \notin revoked /\ ~Holds(queue, active.reminder.key)
      BY <1>1, <3>1, <3>2 DEF SilentInv, GivenUp
    <3>4. e \in Entry /\ queue' = <<e>> \o queue /\ e.key = active.reminder.key
      BY <1>12, <2>2, <3>1 DEF EndOperation, Entry
    <3> HIDE DEF e
    <3>5. \A x : Holds(queue', x) => x = e.key \/ Holds(queue, x)
      BY <1>1, <3>3, <3>4, AddedHolds
    <3> QED BY <1>3, <2>1, <3>3, <3>4, <3>5
  <2>3. CASE ~MayRetry
    BY <1>3, <1>12, <2>1, <2>3 DEF EndOperation
  <2> QED BY <2>2, <2>3
<1> QED BY <1>4, <1>5, <1>6, <1>7, <1>8, <1>9, <1>10, <1>11, <1>12, QueueFrame

LEMMA SilentKept ==
  ASSUME SilentInv, IInv', [Next]_vars
  PROVE  SilentInv'
<1>1. NoDuplicateReminder'
  BY NoDuplicateKept DEF SilentInv
<1>2. ASSUME NEW k \in revoked', InHands(k)'
      PROVE  cancelled' = active'.id
  <2>1. CASE workerActive
    <3>1. workerActive' /\ active' = active /\ InHands(k)
      BY <1>2, <2>1, CancellationStays DEF InHands, SilentInv
    <3> QED BY <2>1, <3>1, CancellationStays DEF SilentInv, GivenUp
  <2>2. CASE ~workerActive
    <3>1. Claim /\ active'.request = "REMINDER" /\ active'.reminder.key = k
      BY <1>2, <2>2, ClaimStarts DEF InHands, SilentInv
    <3> QED BY <3>1, ClaimedIsWanted
  <2> QED BY <2>1, <2>2
<1>3. GivenUp'
  BY <1>2, PlainOps, NotQueuedAgain DEF GivenUp, Holds, InHands
<1> QED BY <1>1, <1>3 DEF SilentInv

\* A reply begins to be spoken only while its operation is not cancelled.
LEMMA SpeakingIsWanted ==
  ASSUME [Next]_vars, workerActive, workerActive', state' = "SPEAKING", state # "SPEAKING"
  PROVE  cancelled # active.id /\ UNCHANGED <<active, revoked>>
<1> USE DEF service, job, config, worker, Quiet, Local
<1>1. CASE ApiCall
  BY <1>1 DEF ApiCall, Begin, PlaySensor, Accept, PlaySensorUnavailable, PlayTemperatureWarning, Preempt,
              Cancel, UpdateSensors, UpdateVoiceConfig, Shutdown, EnqueueReminder, CancelReminder,
              ClearReminders, StopReminder, Rejecting
<1>2. CASE Query
  BY <1>2 DEF Query, Listen, Capture, Captured, StartRecognition, Recognise, Recognised, Understood, Show,
              Publish, Goto, Fail, Finish, StopHere, Carry, CarryFail
<1>3. CASE Reply
  BY <1>3 DEF Reply, Speak, Build, Unbuilt, Built, Speaking, Play, Played, Show, Publish, Goto, Fail,
              Finish, StopHere, Carry, CarryFail
<1>4. CASE Exit \/ Chat \/ ChatPlay \/ FinishOperation \/ ReportError \/ VoiceTimer \/ Over \/ UNCHANGED vars
  BY <1>4 DEF Exit, Chat, ChatPlay, FinishOperation, ReportError, VoiceTimer, Over, vars, Show, Publish,
              Goto, Fail, Finish
<1>5. CASE IdleWait \/ Claim \/ EndOperation \/ Join
  BY <1>5 DEF IdleWait, Claim, EndOperation, Join
<1> QED BY <1>1, <1>2, <1>3, <1>4, <1>5 DEF Next, Worker

\* What was given up by cancel, cancel_reminder, clear_reminders or shutdown is
\* neither claimed nor begun to be spoken until it is accepted anew, wherever it
\* was when it was given up (audio_service.c:861-905, :1122-1245).
THEOREM SilenceIsKept == Spec => RevokedStaysSilent
<1> DEFINE Act == workerActive' /\ active'.request = "REMINDER"
                  /\ (~workerActive \/ (state' = "SPEAKING" /\ state # "SPEAKING"))
                  => active'.reminder.key \notin revoked'
<1>1. Init => NoDuplicateReminder /\ GivenUp
  BY NoReminderFresh DEF Init, NoDuplicateReminder, GivenUp, NoOp, NoEntry
<1>2. IInv /\ NoDuplicateReminder /\ GivenUp /\ IInv' /\ [Next]_vars
      => (NoDuplicateReminder /\ GivenUp)'
  BY SilentKept DEF SilentInv
<1>3. ASSUME IInv, NoDuplicateReminder, GivenUp, [Next]_vars
      PROVE  [Act]_vars
  <2>0. SilentInv
    BY <1>3 DEF SilentInv
  <2> SUFFICES ASSUME workerActive', active'.request = "REMINDER",
                      ~workerActive \/ (state' = "SPEAKING" /\ state # "SPEAKING")
               PROVE  active'.reminder.key \notin revoked'
    OBVIOUS
  <2>1. CASE ~workerActive
    BY <1>3, <2>0, <2>1, ClaimStarts, ClaimedIsWanted
  <2>2. CASE workerActive
    <3>1. cancelled # active.id /\ UNCHANGED <<active, revoked>>
      BY <1>3, <2>2, SpeakingIsWanted
    <3>2. InHands(active.reminder.key)
      BY <2>2, <3>1 DEF InHands
    <3> QED BY <1>3, <3>1, <3>2 DEF GivenUp
  <2> QED BY <2>1, <2>2
<1> QED BY <1>1, <1>2, <1>3, InitKeeps, NextKeeps, PTL DEF Spec, RevokedStaysSilent

-----------------------------------------------------------------------------
(***************************************************************************)
(* A reminder that nobody gave up is heard, or tried again.                *)
(***************************************************************************)
\* A shutdown has cancelled what runs; a reminder is only cancelled by giving it
\* up; the queue has its length.
Stops    == shutdown /\ workerActive => cancelled = active.id
Meant    == \A k : InHands(k) /\ cancelled = active.id => k \in revoked
HasRoom  == Len(queue) <= ReminderMax
\* An operation ends as completed or failed unless it was cancelled.
Fated ==
  /\ pc = "finish" => verdict \in {"COMPLETED", "CANCELLED"}
  /\ pc \in {"finish", "played"} /\ verdict = "CANCELLED" => cancelled = active.id
  /\ pc = "end" => outcome \in {"COMPLETED", "FAILED"} \/ cancelled = active.id
HeardInv == Stops /\ Meant /\ HasRoom /\ Fated

\* And no longer than before.
LEMMA WithoutShorter ==
  ASSUME NEW q \in Seq(Entry), NEW k
  PROVE  Len(Without(q, k)) \in Nat /\ Len(Without(q, k)) <= Len(q)
<1> DEFINE hits == {i \in DOMAIN q : q[i].key = k}
           hit  == CHOOSE i \in hits : TRUE
<1>0. DOMAIN q = 1..Len(q) /\ Len(q) \in Nat
  BY LenProperties
<1>1. CASE hits = {}
  BY <1>0, <1>1 DEF Without
<1>2. CASE hits # {}
  <2>1. hit \in 1..Len(q)
    <3>1. hit \in hits
      BY <1>2
    <3> QED BY <1>0, <3>1
  <2> DEFINE p == Without(q, k)
  <2>2. p = SubSeq(q, 1, hit - 1) \o SubSeq(q, hit + 1, Len(q))
    BY <1>2 DEF Without
  <2> HIDE DEF hit, p
  <2>3. p \in Seq(Entry) /\ Len(p) = Len(q) - 1
    BY <2>1, <2>2, CutOut
  <2>4. Len(p) \in Nat /\ Len(p) <= Len(q)
    BY <1>0, <2>1, <2>3
  <2> QED BY <2>4 DEF p
<1> QED BY <1>1, <1>2

\* Steps of audio_service_process between the claim and the end.
LEMMA ProcessHeard ==
  ASSUME IInv, HeardInv, Query \/ Reply \/ Chat \/ ChatPlay \/ FinishOperation \/ ReportError
  PROVE  HeardInv'
<1> USE DEF service, job, config, worker, Quiet, Local
<1>1. workerActive
  BY DEF Query, Listen, Capture, Captured, StartRecognition, Recognise, Recognised, Understood, Reply,
         Speak, Build, Unbuilt, Built, Speaking, Play, Played, Chat, ChatPlay, FinishOperation, ReportError,
         Show, Goto, Fail, Finish, StopHere, Carry, CarryFail, At, IInv, ActiveWhileWorking, Working
<1>2. Cancelled => cancelled = active.id
  BY <1>1 DEF Cancelled, HeardInv, Stops
<1>3. /\ UNCHANGED <<job, shutdown, revoked>>
  BY DEF Query, Listen, Capture, Captured, StartRecognition, Recognise, Recognised, Understood, Reply,
         Speak, Build, Unbuilt, Built, Speaking, Play, Played, Chat, ChatPlay, FinishOperation, ReportError,
         Show, Goto, Fail, Finish, StopHere, Carry, CarryFail
<1>4. Stops' /\ Meant' /\ HasRoom'
  BY <1>3 DEF HeardInv, Stops, Meant, HasRoom, InHands
<1>5. Fated'
  <2>1. CASE Query \/ Chat \/ ChatPlay
    BY <1>2, <1>3, <2>1 DEF Query, Listen, Capture, Captured, StartRecognition, Recognise, Recognised,
       Understood, Chat, ChatPlay, Show, Goto, Fail, Finish, StopHere, Carry, CarryFail, At, Fated
  <2>2. CASE Speak \/ Build \/ Unbuilt \/ Built \/ Speaking
    BY <1>2, <1>3, <2>2 DEF Speak, Build, Unbuilt, Built, Speaking, Show, Goto, Fail, Finish, StopHere,
       Carry, CarryFail, At, Fated
  <2>3. CASE Play
    BY <1>2, <1>3, <2>3 DEF Play, Fated
  <2>4. CASE Played
    BY <1>2, <1>3, <2>4 DEF Played, CarryFail, Fail, Finish, At, Fated, HeardInv
  <2>5. CASE FinishOperation
    BY <1>1, <1>3, <2>5 DEF FinishOperation, At, Fated, HeardInv
  <2>6. CASE ReportError
    BY <1>1, <1>3, <2>6 DEF ReportError, Publish, At, Fated
  <2> QED BY <2>1, <2>2, <2>3, <2>4, <2>5, <2>6 DEF Reply
<1> QED BY <1>4, <1>5 DEF HeardInv

\* Calls of the API.
LEMMA CallHeard ==
  ASSUME IInv, HeardInv, ApiCall
  PROVE  HeardInv'
<1> USE DEF service, job, config, worker
<1>0. /\ queue \in Seq(Entry) /\ Len(queue) \in Nat /\ ReminderMax \in Nat
      /\ workerActive <=> pc \in Working
      /\ request = active.request \/ ~workerActive
      /\ \A k : InHands(k) => k \in Reminders
  BY LenProperties, ReminderMaxPositive DEF IInv, TypeOK, ActiveWhileWorking, RequestNamesActive,
     ReminderNamed, InHands, Entry
<1>1. ASSUME NEW r, NEW s, Accept(r, s) PROVE HeardInv'
  <2>1. ~workerActive /\ pc \notin {"finish", "played", "end"}
    BY <1>0, <1>1 DEF Accept, Rejecting, Working
  <2> QED BY <1>1, <2>1 DEF Accept, Signal, HeardInv, Stops, Meant, HasRoom, Fated, InHands
<1>2. ASSUME NEW s \in Sensors, PlaySensorUnavailable(s) PROVE HeardInv'
  BY <1>2 DEF PlaySensorUnavailable, HeardInv, Stops, Meant, HasRoom, Fated, InHands
<1>3. CASE PlayTemperatureWarning
  <2>1. CASE workerActive
    BY <1>0, <1>3, <2>1 DEF PlayTemperatureWarning, Preempt, Signal, HeardInv, Stops, Meant, HasRoom, Fated,
       InHands
  <2>2. CASE ~workerActive
    BY <1>0, <1>3, <2>2 DEF PlayTemperatureWarning, Preempt, Signal, HeardInv, Stops, Meant, HasRoom, Fated,
       InHands, Working
  <2> QED BY <2>1, <2>2
<1>4. ASSUME NEW k \in Reminders, EnqueueReminder(k) PROVE HeardInv'
  <2>1. Len(queue') = Len(queue) + 1
    BY <1>0, <1>4, AppendProperties DEF EnqueueReminder, Entry
  <2> QED BY <1>0, <1>4, <2>1 DEF EnqueueReminder, IsActive, Signal, HeardInv, Stops, Meant, HasRoom, Fated,
       InHands
<1>5. ASSUME NEW k \in Reminders, CancelReminder(k) PROVE HeardInv'
  <2>1. Len(queue') <= Len(queue)
    BY <1>0, <1>5, WithoutShorter DEF CancelReminder
  <2>2. Len(queue') \in Nat
    BY <1>0, <1>5, WithoutShorter DEF CancelReminder
  <2> QED BY <1>0, <1>5, <2>1, <2>2 DEF CancelReminder, StopReminder, IsActive, Signal, HeardInv, Stops,
       Meant, HasRoom, Fated, InHands
<1>6. CASE Cancel
  <2>1. CASE workerActive
    BY <1>0, <1>6, <2>1 DEF Cancel, Signal, HeardInv, Stops, Meant, HasRoom, Fated, InHands
  <2>2. CASE ~workerActive
    BY <1>0, <1>6, <2>2 DEF Cancel, Signal, HeardInv, Stops, Meant, HasRoom, Fated, InHands, Working
  <2> QED BY <2>1, <2>2
<1>7. CASE ClearReminders
  <2>1. Len(queue') = 0
    BY <1>7 DEF ClearReminders
  <2> QED BY <1>0, <1>7, <2>1 DEF ClearReminders, StopReminder, Signal, HeardInv, Stops, Meant, HasRoom,
       Fated, InHands
<1>8. CASE UpdateSensors \/ UpdateVoiceConfig
  BY <1>8 DEF UpdateSensors, UpdateVoiceConfig, HeardInv, Stops, Meant, HasRoom, Fated, InHands
<1>9. CASE Shutdown
  BY <1>0, <1>9 DEF Shutdown, Signal, HeardInv, Stops, Meant, HasRoom, Fated, InHands
<1> QED BY <1>1, <1>2, <1>3, <1>4, <1>5, <1>6, <1>7, <1>8, <1>9 DEF ApiCall, Begin, PlaySensor

LEMMA HeardKept ==
  ASSUME IInv, HeardInv, [Next]_vars
  PROVE  HeardInv'
<1> USE DEF service, job, config, worker
<1>0. /\ queue \in Seq(Entry) /\ Len(queue) \in Nat /\ ReminderMax \in Nat
      /\ workerActive <=> pc \in Working
      /\ cancelled # 0 => workerActive
      /\ generation \in Nat
  BY LenProperties, ReminderMaxPositive DEF IInv, TypeOK, ActiveWhileWorking, CancelTargetsActive
<1>1. CASE ApiCall
  BY <1>1, CallHeard
<1>2. CASE Query \/ Reply \/ Chat \/ ChatPlay \/ FinishOperation \/ ReportError
  BY <1>2, ProcessHeard
<1>3. CASE IdleWait \/ Exit \/ VoiceTimer \/ Over \/ UNCHANGED vars
  BY <1>0, <1>3 DEF IdleWait, Exit, VoiceTimer, Over, vars, HeardInv, Stops, Meant, HasRoom, Fated, InHands
<1>4. CASE Claim
  <2>1. ~workerActive /\ cancelled = 0 /\ cancelled' = 0 /\ ~shutdown'
    BY <1>0, <1>4 DEF Claim, Working
  <2>2. Fated' /\ Stops'
    BY <1>4, <2>1 DEF Claim, Fated, Stops
  <2>3. CASE queue # <<>>
    <3>1. Len(queue') = Len(queue) - 1
      BY <1>0, <1>4, <2>3, HeadTailProperties DEF Claim
    <3>2. active'.id # 0
      BY <1>0, <1>4, <2>3 DEF Claim
    <3> QED BY <1>0, <2>1, <2>2, <3>1, <3>2 DEF HeardInv, HasRoom, Meant
  <2>4. CASE queue = <<>>
    <3>1. queue' = queue /\ active'.request # "REMINDER"
      BY <1>4, <2>4 DEF Claim, IInv, ReminderNamed
    <3> QED BY <2>2, <3>1 DEF HeardInv, HasRoom, Meant, InHands
  <2> QED BY <2>3, <2>4
<1>5. CASE EndOperation
  <2>1. CASE MayRetry
    <3>1. active.reminder \in Entry
      BY <2>1 DEF MayRetry, IInv, ReminderNamed
    <3>2. <<[key |-> active.reminder.key, attempts |-> 1]>> \in Seq(Entry)
          /\ Len(<<[key |-> active.reminder.key, attempts |-> 1]>>) = 1
      BY <3>1 DEF Entry
    <3>3. Len(queue') = 1 + Len(queue)
      BY <1>0, <1>5, <2>1, <3>2, ConcatProperties DEF EndOperation
    <3> QED BY <1>0, <1>5, <2>1, <3>3 DEF EndOperation, At, MayRetry, HeardInv, Stops, Meant, HasRoom, Fated,
         InHands
  <2>2. CASE ~MayRetry
    BY <1>5, <2>2 DEF EndOperation, At, HeardInv, Stops, Meant, HasRoom, Fated, InHands
  <2> QED BY <2>1, <2>2
<1>6. CASE Join
  <2>1. Len(queue') = 0
    BY <1>6 DEF Join
  <2> QED BY <1>0, <1>6, <2>1 DEF Join, HeardInv, Stops, Meant, HasRoom, Fated, InHands
<1> QED BY <1>1, <1>2, <1>3, <1>4, <1>5, <1>6 DEF Next, Worker

\* Only the end of an operation leaves the worker without one.
LEMMA OnlyTheEnd ==
  ASSUME IInv, [Next]_vars, workerActive, ~workerActive'
  PROVE  EndOperation
BY QueueFrame DEF Cancel, Shutdown, EnqueueReminder, CancelReminder, ClearReminders, StopReminder, Join,
                  IdleWait, Claim, IInv, ActiveWhileWorking, Working, service, job

\* A reminder nobody gave up leaves the worker's hands only spoken, failed twice,
\* failed while the queue is full, or back in the queue (audio_service.c:861-905).
THEOREM RemindersAreHeard == Spec => OnlyHeardRemindersLeave
<1> DEFINE Act == /\ workerActive /\ ~workerActive'
                  /\ active.request = "REMINDER"
                  /\ active.reminder.key \notin revoked
                  => \/ outcome = "COMPLETED"
                     \/ active.reminder.attempts = 1
                     \/ Len(queue) = ReminderMax
                     \/ \E i \in DOMAIN queue' : queue'[i].key = active.reminder.key
<1>1. Init => HeardInv
  BY ReminderMaxPositive DEF Init, HeardInv, Stops, Meant, HasRoom, Fated, InHands
<1>2. IInv /\ HeardInv /\ [Next]_vars => HeardInv'
  BY HeardKept
<1>3. ASSUME IInv, HeardInv, [Next]_vars
      PROVE  [Act]_vars
  <2> SUFFICES ASSUME workerActive, ~workerActive', active.request = "REMINDER",
                      active.reminder.key \notin revoked, outcome # "COMPLETED",
                      active.reminder.attempts # 1, Len(queue) # ReminderMax
               PROVE  \E i \in DOMAIN queue' : queue'[i].key = active.reminder.key
    OBVIOUS
  <2>1. EndOperation
    BY <1>3, OnlyTheEnd
  <2>2. cancelled # active.id
    BY <1>3 DEF HeardInv, Meant, InHands
  <2>3. outcome = "FAILED"
    BY <1>3, <2>1, <2>2 DEF EndOperation, At, HeardInv, Fated
  <2>4. active.reminder.attempts = 0 /\ active.reminder \in Entry
    BY <1>3 DEF IInv, ReminderNamed, Entry
  <2>5. queue \in Seq(Entry) /\ Len(queue) < ReminderMax
    BY <1>3, LenProperties, ReminderMaxPositive DEF HeardInv, HasRoom, IInv, TypeOK
  <2>6. MayRetry
    BY <2>2, <2>3, <2>4, <2>5 DEF MayRetry
  <2> DEFINE e == [key |-> active.reminder.key, attempts |-> 1]
  <2>7. queue' = <<e>> \o queue
    BY <2>1, <2>6 DEF EndOperation
  <2>8. e \in Entry /\ e.key = active.reminder.key
    BY <2>4 DEF Entry
  <2> HIDE DEF e
  <2>9. <<e>> \in Seq(Entry) /\ Len(<<e>>) = 1 /\ <<e>>[1] = e /\ Len(queue) \in Nat
    BY <2>5, <2>8, LenProperties
  <2>10. Len(queue') = 1 + Len(queue) /\ queue'[1] = e /\ queue' \in Seq(Entry)
    BY <2>5, <2>7, <2>9, ConcatProperties
  <2>11. 1 \in DOMAIN queue'
    BY <2>9, <2>10, LenProperties
  <2> QED BY <2>8, <2>10, <2>11
<1> QED BY <1>1, <1>2, <1>3, InitKeeps, NextKeeps, PTL DEF Spec, OnlyHeardRemindersLeave

-----------------------------------------------------------------------------
(***************************************************************************)
(* The voice panel.                                                        *)
(***************************************************************************)
\* A service with nothing to say names no request, and its worker leaves only
\* when it is shut down.
IdleMeansNone == state = "IDLE" => request = "NONE"
ExitMeansOver == pc = "exit" => shutdown
PanelInv      == UiShowsService /\ IdleMeansNone /\ ExitMeansOver

\* A step that does not move service->sequence leaves what the panel shows alone.
LEMMA PanelFrame ==
  ASSUME [Next]_vars, IdleMeansNone, ~VoiceTimer, ~Join
  PROVE  /\ fresh' = TRUE \/ UNCHANGED <<state, error, request, fresh>>
         /\ UNCHANGED ui
<1> USE DEF service, job, config, worker, Quiet, Local
<1>1. CASE ApiCall
  <2>1. CASE Begin \/ \E s \in Sensors : PlaySensor(s) \/ PlaySensorUnavailable(s)
    BY <2>1 DEF Begin, PlaySensor, Accept, PlaySensorUnavailable
  <2>2. CASE PlayTemperatureWarning \/ Cancel \/ ClearReminders \/ Shutdown
    BY <2>2 DEF PlayTemperatureWarning, Cancel, ClearReminders, StopReminder, Shutdown
  <2>3. CASE \E k \in Reminders : EnqueueReminder(k) \/ CancelReminder(k)
    BY <2>3 DEF EnqueueReminder, CancelReminder, StopReminder
  <2>4. CASE UpdateSensors \/ UpdateVoiceConfig
    BY <2>4 DEF UpdateSensors, UpdateVoiceConfig
  <2> QED BY <1>1, <2>1, <2>2, <2>3, <2>4 DEF ApiCall
<1>2. CASE Query
  BY <1>2 DEF Query, Listen, Capture, Captured, StartRecognition, Recognise, Recognised, Understood, Show,
              Publish, Goto, Fail, Finish, StopHere, Carry, CarryFail
<1>3. CASE Reply
  BY <1>3 DEF Reply, Speak, Build, Unbuilt, Built, Speaking, Play, Played, Show, Publish, Goto, Fail,
              Finish, StopHere, Carry, CarryFail
<1>4. CASE Chat \/ ChatPlay \/ FinishOperation \/ ReportError
  BY <1>4 DEF Chat, ChatPlay, FinishOperation, ReportError, Show, Publish, Goto, Fail, Finish
<1>5. CASE IdleWait
  BY <1>5 DEF IdleWait, GoIdle, IdleMeansNone
<1>6. CASE Exit \/ Claim \/ EndOperation \/ Over \/ UNCHANGED vars
  BY <1>6 DEF Exit, Claim, EndOperation, Over, vars
<1> QED BY <1>1, <1>2, <1>3, <1>4, <1>5, <1>6 DEF Next, Worker

LEMMA IdleKept ==
  ASSUME IInv, IdleMeansNone, [Next]_vars
  PROVE  IdleMeansNone'
<1> USE DEF IdleMeansNone, service, job, config, worker, Quiet, Local
<1>1. CASE ApiCall
  BY <1>1 DEF ApiCall, Begin, PlaySensor, Accept, PlaySensorUnavailable, PlayTemperatureWarning, Preempt,
              Cancel, UpdateSensors, UpdateVoiceConfig, Shutdown, EnqueueReminder, CancelReminder,
              ClearReminders, StopReminder
<1>2. CASE Query \/ Chat
  BY <1>2 DEF Query, Listen, Capture, Captured, StartRecognition, Recognise, Recognised, Understood, Chat,
              Show, Publish, Goto, Fail, Finish, StopHere, Carry, CarryFail
<1>3. CASE Reply
  BY <1>3 DEF Reply, Speak, Build, Unbuilt, Built, Speaking, Play, Played, Show, Publish, Goto, Fail,
              Finish, StopHere, Carry, CarryFail
<1>4. CASE ChatPlay \/ FinishOperation \/ ReportError \/ EndOperation \/ Exit
  BY <1>4 DEF ChatPlay, FinishOperation, ReportError, EndOperation, Exit, Publish, Fail, Finish
<1>5. CASE IdleWait \/ Join \/ VoiceTimer \/ Over \/ UNCHANGED vars
  BY <1>5 DEF IdleWait, Join, VoiceTimer, Over, vars
<1>6. CASE Claim
  BY <1>6 DEF Claim
<1> QED BY <1>1, <1>2, <1>3, <1>4, <1>5, <1>6 DEF Next, Worker

\* Whoever waits to be joined was told to leave.
LEMMA ExitKept ==
  ASSUME ExitMeansOver, [Next]_vars
  PROVE  ExitMeansOver'
<1> SUFFICES ASSUME pc' = "exit", ~shutdown' PROVE FALSE
  BY DEF ExitMeansOver
<1>0. ~shutdown
  BY ShutdownStays
<1> USE DEF ExitMeansOver, service, job, config, worker, Quiet, Local
<1>1. CASE ApiCall
  BY <1>0, <1>1 DEF ApiCall, Begin, PlaySensor, Accept, PlaySensorUnavailable, PlayTemperatureWarning,
              Cancel, UpdateSensors, UpdateVoiceConfig, Shutdown, EnqueueReminder, CancelReminder,
              ClearReminders, StopReminder, Signal
<1>2. CASE Query \/ Chat \/ ChatPlay \/ FinishOperation \/ ReportError \/ EndOperation
  BY <1>2 DEF Query, Listen, Capture, Captured, StartRecognition, Recognise, Recognised, Understood, Chat,
              ChatPlay, FinishOperation, ReportError, EndOperation, Show, Goto, Fail, Finish, StopHere,
              Carry, CarryFail, At
<1>3. CASE Reply
  BY <1>3 DEF Reply, Speak, Build, Unbuilt, Built, Speaking, Play, Played, Show, Goto, Fail, Finish,
              StopHere, Carry, CarryFail, At
<1>4. CASE IdleWait \/ Claim \/ Join \/ VoiceTimer \/ Over \/ Exit \/ UNCHANGED vars
  BY <1>0, <1>4 DEF IdleWait, Claim, Join, VoiceTimer, Over, Exit, vars
<1> QED BY <1>1, <1>2, <1>3, <1>4 DEF Next, Worker

\* Whenever the voice timer has nothing left to read, the panel shows the state
\* the service is in: no change of it leaves the sequence where it was
\* (routine_ui.c:2069-2125).
THEOREM PanelIsRight == Spec => []UiShowsService
<1>1. ASSUME Init PROVE PanelInv
  <2>1. ui.active = FALSE /\ ui.request = "NONE" /\ state = "IDLE" /\ request = "NONE" /\ pc = "woken"
    BY <1>1 DEF Init
  <2>2. (state \in Busy) = FALSE
    BY <2>1 DEF Busy
  <2> QED BY <2>1, <2>2 DEF PanelInv, UiShowsService, IdleMeansNone, ExitMeansOver
<1>2. ASSUME IInv, PanelInv, [Next]_vars
      PROVE  PanelInv'
  <2>1. IdleMeansNone' /\ ExitMeansOver'
    BY <1>2, IdleKept, ExitKept DEF PanelInv
  <2>2. UiShowsService'
    <3> SUFFICES ASSUME ~fresh', ~shutdown'
                 PROVE  /\ ui'.active = (state' \in Busy)
                        /\ ui'.request = request'
                        /\ state' # "IDLE" => ui'.label = Label'
      BY DEF UiShowsService
    <3>0. ~shutdown
      BY <1>2, ShutdownStays
    <3>1. CASE VoiceTimer
      <4>1. ui' = View /\ UNCHANGED <<state, error, request, queue>>
        BY <3>1 DEF VoiceTimer, service, job
      <4>2. Label' = Label
        BY <4>1 DEF Label
      <4>3. ui'.active = (state \in Busy) /\ ui'.request = request /\ ui'.label = Label
        BY <4>1 DEF View
      <4> QED BY <4>1, <4>2, <4>3
    <3>2. CASE Join
      BY <1>2, <3>0, <3>2 DEF Join, PanelInv, ExitMeansOver
    <3>3. CASE ~VoiceTimer /\ ~Join
      <4>1. UNCHANGED <<state, error, request, fresh, ui>>
        BY <1>2, <3>3, PanelFrame DEF PanelInv
      <4>2. state' # "IDLE" => Label' = Label
        BY <4>1, <1>2 DEF Label, IInv, TypeOK, States
      <4> QED BY <1>2, <3>0, <4>1, <4>2 DEF PanelInv, UiShowsService
    <3> QED BY <3>1, <3>2, <3>3
  <2> QED BY <2>1, <2>2 DEF PanelInv
<1>3. PanelInv => UiShowsService
  BY DEF PanelInv
<1> QED BY <1>1, <1>2, <1>3, InitKeeps, NextKeeps, PTL DEF Spec
=============================================================================
