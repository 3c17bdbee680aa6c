----------------------------- MODULE RoutineApp -----------------------------
(***************************************************************************)
(* The daily schedule of the desktop manager: the model (routine_model.c), *)
(* the one-second timer and the touch callbacks that drive it              *)
(* (routine_manager_main.c), the reminder popups (routine_ui.c), the voice *)
(* reminders handed to the audio worker, and the persisted state           *)
(* (routine_storage.c).                                                    *)
(*                                                                         *)
(* Timer and touch callbacks run on the LVGL thread, one after another, so *)
(* each is one action; the audio worker takes and finishes reminders in    *)
(* between.  The model's own due queue is filled and drained within one    *)
(* tick and is the value "events" below.                                   *)
(*                                                                         *)
(* Data abstracted away: time is counted in minutes, a day has DayLen of   *)
(* them and the ten minutes of a delay are Delay; texts are left out (an   *)
(* edited text acts as an edited time does); the order of items due at the *)
(* same minute, an accident of earlier sorting, is left open.  A sensor    *)
(* dialog behaves as the history dialog without its VIEW button.           *)
(*                                                                         *)
(* F_Fault is F with a plausible fault, for the mutants of PROJECT.json.   *)
(***************************************************************************)
EXTENDS Integers, Sequences, SequencesExt

CONSTANTS Ids,           \* the slots of the schedule, ROUTINE_SCHEDULE_MAX of them
          QueueMax,      \* length of the popup queue and of the voice queue
          Limit,         \* ROUTINE_REMINDER_LIMIT
          DayLen, Delay,
          DefaultTimes,  \* minute of the day of each slot
          FileTimes,     \* the schedules config.json may hold
          NoEvent,
          AudioStarted,  \* app->audio_started
          StorageReady,  \* app->storage_ready
          Jumps,         \* the times the clock may be set to
          MaxStep,       \* minutes between two ticks that are no clock step
          MaxTime, MaxGen  \* bounds on the clock, with it on repeated delays, and on writes

ASSUME IdsFinite == IsFiniteSet(Ids)
ASSUME Sizes ==
  /\ QueueMax \in Nat \ {0} /\ Limit \in Nat \ {0}
  /\ DayLen \in Nat \ {0} /\ Delay \in 1..DayLen
  /\ MaxStep \in Nat \ {0} /\ MaxTime \in Nat /\ MaxGen \in Nat
ASSUME Switches == AudioStarted \in BOOLEAN /\ StorageReady \in BOOLEAN /\ Jumps \subseteq Nat
ASSUME TimesKnown == DefaultTimes \in FileTimes /\ FileTimes \subseteq [Ids -> 0..(DayLen - 1)]

Item  == [due : Nat, carry : BOOLEAN, done : BOOLEAN, notified : BOOLEAN,
          seq : Nat, count : 0..Limit]
Event == [id : Ids, seq : Nat, count : 0..Limit]
ASSUME NoEventFresh == NoEvent \notin Event

VARIABLES
  running,   \* the manager runs
  clockOk,   \* snapshot.clock_valid
  now,       \* the wall clock, and the model's while clockOk
  items,     \* snapshot.schedule, by id
  seq,       \* snapshot.schedule_due_sequence
  times,     \* settings.schedule of the model
  gen,       \* snapshot.config_generation
  file,      \* config.json
  saved,     \* schedule.state
  dialog,    \* g_ui.dialog: its kind and what its buttons act on
  popups,    \* g_ui.due_queue
  voice,     \* service->reminder_queue of the audio service
  speaking,  \* the reminder the worker is in
  hushed     \* and whether that operation is cancelled

model == <<clockOk, items, seq, times, gen>>
screen == <<dialog, popups>>
audio == <<voice, speaking, hushed>>
vars == <<running, now, model, file, saved, screen, audio>>

Day(m) == m \div DayLen
NoDialog == [kind |-> "none", ev |-> NoEvent]

\* routine_set_default_item
Fresh(t, day) == [due |-> day * DayLen + t, carry |-> FALSE, done |-> FALSE,
                  notified |-> FALSE, seq |-> 0, count |-> 0]

\* routine_reset_schedule
Reset(its, ts, day, keepCarry) ==
  [i \in Ids |-> IF keepCarry /\ its[i].carry /\ Day(its[i].due) >= day
                   THEN its[i] ELSE Fresh(ts[i], day)]

\* routine_model_clear_due, of the items
Quiet(its) == [i \in Ids |-> [its[i] EXCEPT !.notified = FALSE, !.seq = 0]]

\* What routine_storage_save writes, as routine_storage_load restores it.
Persisted(its, g) == IF StorageReady THEN [items |-> Quiet(its), gen |-> g] ELSE saved
NoState == [items |-> Reset(<<>>, DefaultTimes, 0, FALSE), gen |-> -1]

Init ==
  /\ running = FALSE /\ clockOk = FALSE
  /\ now \in 0..(DayLen - 1)
  /\ items = Reset(<<>>, DefaultTimes, 0, FALSE)
  /\ seq = 0 /\ times = DefaultTimes /\ gen = 0
  /\ file = [gen |-> 0, times |-> DefaultTimes]
  /\ saved = NoState
  /\ dialog = NoDialog /\ popups = <<>>
  /\ voice = <<>> /\ speaking = NoEvent /\ hushed = FALSE

(***************************************************************************)
(* Falling due.                                                            *)
(***************************************************************************)
\* The items routine_detect_due hands to routine_enqueue_due, which takes them.
DueIn(its, old, new) ==
  {i \in Ids : /\ its[i].due > old /\ its[i].due <= new
               /\ ~its[i].notified /\ ~its[i].done /\ its[i].count < Limit}

DueOrders(its, ids) ==
  {q \in SetToSeqs(ids) : \A j, k \in DOMAIN q : j < k => its[q[j]].due <= its[q[k]].due}

\* The schedule after the reminders of q, numbered from s + 1, and their events.
Reminded(its, q, s) ==
  [i \in Ids |-> IF \E k \in DOMAIN q : q[k] = i
     THEN [its[i] EXCEPT !.notified = TRUE, !.count = @ + 1,
                         !.seq = s + (CHOOSE k \in DOMAIN q : q[k] = i)]
     ELSE its[i]]
Events(its, q, s) ==
  [k \in DOMAIN q |-> [id |-> q[k], seq |-> s + k, count |-> its[q[k]].count + 1]]

\* The items routine_model_update_clock looks at, and from which minute on: the
\* ones of a new day from midnight on.
Rolled(new) == IF Day(new) > Day(now) THEN Reset(items, times, Day(new), TRUE) ELSE items
Since_Midnight(new) == IF Day(new) > Day(now) THEN Day(new) * DayLen ELSE now
Since(new) == IF Day(new) > Day(now) THEN Day(new) * DayLen - 1 ELSE now

(***************************************************************************)
(* Reading the configuration: routine_reload_config, after the clock left  *)
(* the items its, the times ts and the generation g.                       *)
(***************************************************************************)
Edited(ts) == {i \in Ids : ts[i] # file.times[i]}
Applied(its, ts, g, m, ok) ==
  IF (g = file.gen /\ g # 0) \/ Edited(ts) = {} THEN its
  ELSE Quiet([i \in Ids |-> IF i \in Edited(ts)
                              THEN [Fresh(file.times[i], Day(m)) EXCEPT
                                      !.done = ok /\ Day(m) * DayLen + file.times[i] < m]
                              ELSE its[i]])
\* routine_model_apply_settings returns 1.
ConfigNew(ts, g) == g # file.gen \/ (g = 0 /\ Edited(ts) # {})
\* ... and it cleared the due queue as well.
DropsDue(ts, g) == (g # file.gen \/ g = 0) /\ Edited(ts) # {}

(***************************************************************************)
(* Handing reminders out: routine_dispatch_due.                            *)
(***************************************************************************)
Room(s) == SubSeq(s, 1, IF Len(s) < QueueMax THEN Len(s) ELSE QueueMax)
DueDialog(e) == [kind |-> "due", ev |-> e]

\* A reminder is known by its slot and its number, routine_due_equal.
Key(e) == <<e.id, e.seq>>
Keys(s) == {Key(s[k]) : k \in DOMAIN s}
KeysOnTop(d)  == IF d.kind = "due" THEN {Key(d.ev)} ELSE {}
KeysSpoken == IF speaking = NoEvent THEN {} ELSE {Key(speaking)}

\* The reminders of s other than those of K, in their order: SelectSeq without its
\* recursion.
Others(s, K) ==
  LET J == {j \in DOMAIN s : Key(s[j]) \notin K}
  IN [n \in 1..Cardinality(J) |-> s[CHOOSE j \in J : Cardinality({i \in J : i <= j}) = n]]

\* routine_ui_enqueue_due of every event, with d on the screen and q waiting.
Enqueue(d, q, evs) ==
  LET new == Others(evs, Keys(q) \cup KeysOnTop(d))
  IN IF d = NoDialog /\ new # <<>> /\ Len(q) < QueueMax
       THEN /\ dialog' = DueDialog(Head(q \o new))
            /\ popups' = Room(Tail(q \o new))
       ELSE dialog' = d /\ popups' = Room(q \o new)

\* routine_try_open_due, with q waiting.
OpenNext(q) ==
  IF q = <<>> THEN dialog' = NoDialog /\ popups' = q
              ELSE dialog' = DueDialog(Head(q)) /\ popups' = Tail(q)

\* audio_service_enqueue_reminder of every event.
Say(q, evs) ==
  voice' = IF AudioStarted
             THEN Room(q \o Others(evs, Keys(q) \cup KeysSpoken))
             ELSE q

ClearedScreen == IF dialog.kind = "due" THEN NoDialog ELSE dialog

(***************************************************************************)
(* routine_timer_cb: clock, configuration, dispatch.                       *)
(***************************************************************************)
Tick(new, ok, its, ts, s, g, evs, rebased) ==
  LET clear == rebased \/ ConfigNew(ts, g)
      out   == IF DropsDue(ts, g) THEN <<>> ELSE evs
  IN /\ now' = new /\ clockOk' = ok
     /\ items' = Applied(its, ts, g, IF ok THEN new ELSE 0, ok)
     /\ times' = file.times /\ gen' = file.gen
     /\ seq' = s
     /\ saved' = IF ConfigNew(ts, g) THEN Persisted(items', gen') ELSE saved
     /\ IF clear THEN Enqueue(ClearedScreen, <<>>, out) ELSE Enqueue(dialog, popups, out)
     /\ Say(IF clear THEN <<>> ELSE voice, out)
     /\ hushed' = (hushed \/ (clear /\ speaking # NoEvent))
     /\ UNCHANGED <<running, file, speaking>>

\* The clock moved on as it should.
ClockTick ==
  /\ running /\ clockOk
  /\ \E new \in now..(now + MaxStep) :
       /\ new <= MaxTime
       /\ \E q \in DueOrders(Rolled(new),
                             IF new = now THEN {} ELSE DueIn(Rolled(new), Since(new), new)) :
            Tick(new, TRUE, Reminded(Rolled(new), q, seq), times, seq + Len(q), gen,
                 Events(Rolled(new), q, seq), FALSE)

\* The wall clock went back or jumped ahead by more than
\* ROUTINE_CLOCK_REBASE_SECONDS: routine_model_init_live.
ClockStep ==
  /\ running /\ clockOk
  /\ \E new \in Jumps :
       Tick(new, TRUE, Reset(<<>>, DefaultTimes, Day(new), FALSE), DefaultTimes, 0, 0, <<>>, TRUE)

\* The first valid time after a start without one.
ClockArrives ==
  /\ running /\ ~clockOk
  /\ Tick(now, TRUE, Reset(<<>>, times, Day(now), FALSE), times, seq, gen, <<>>, TRUE)

\* Waiting for the time, the timer still reads the configuration.
NoClockTick ==
  /\ running /\ ~clockOk
  /\ Tick(now, FALSE, items, times, seq, gen, <<>>, FALSE)

(***************************************************************************)
(* Touches.                                                                *)
(***************************************************************************)
\* A tap on the curve button, on a schedule row; popups are modal.
OpenHistory ==
  /\ running /\ dialog = NoDialog
  /\ dialog' = [kind |-> "history", ev |-> NoEvent]
  /\ UNCHANGED <<running, now, model, file, saved, popups, audio>>

OpenItem ==
  /\ running /\ dialog = NoDialog
  /\ \E i \in Ids :
       dialog' = [kind |-> IF items[i].done THEN "doneItem" ELSE "item",
                  ev |-> [id |-> i, seq |-> 0, count |-> 0]]
  /\ UNCHANGED <<running, now, model, file, saved, popups, audio>>

\* CANCEL in a dialog that is no reminder.
CloseDialog ==
  /\ running /\ dialog.kind \in {"history", "item", "doneItem"}
  /\ OpenNext(popups)
  /\ UNCHANGED <<running, now, model, file, saved, audio>>

\* VIEW in the history dialog closes it and opens nothing.
ViewCurve ==
  /\ running /\ dialog.kind = "history"
  /\ dialog' = NoDialog
  /\ UNCHANGED <<running, now, model, file, saved, popups, audio>>

\* routine_model_apply_schedule_action, its error returns first.
Stale_ByFlagOnly(e) == e.seq # 0 /\ ~items[e.id].notified
Stale(e) == e.seq # 0 /\ (~items[e.id].notified \/ items[e.id].seq # e.seq)
Refused(e, action) ==
  action \in {"delay", "dismiss"} /\ items[e.id].done

Later(it, m) == [it EXCEPT !.due = m + Delay, !.carry = @ \/ Day(m + Delay) > Day(now)]
Latest(a, b) == IF a > b THEN a ELSE b
Completed(it, i) ==
  IF it.carry THEN [Fresh(times[i], Day(now)) EXCEPT
                      !.done = Day(now) * DayLen + times[i] < now]
              ELSE [it EXCEPT !.done = TRUE]
Delayed(it, e) ==
  IF e.seq = 0 /\ ~it.notified THEN [Later(it, Latest(it.due, now)) EXCEPT !.count = 0]
  ELSE IF it.count < Limit THEN Later(it, now) ELSE it
Dismissed(it) == IF it.count < Limit THEN Later(it, now) ELSE it

Acted_KeepsFlag(e, action) == [items EXCEPT ![e.id].done = (action = "complete")]
Acted(e, action) ==
  LET it  == items[e.id]
      new == CASE action = "complete" -> Completed(it, e.id)
               [] action = "delay"    -> Delayed(it, e)
               [] action = "dismiss"  -> Dismissed(it)
  IN [items EXCEPT ![e.id] = [new EXCEPT !.notified = FALSE, !.seq = 0]]

\* The reminder the action ended: the one it was about, or the item's own.
Ended(e) ==
  IF Stale(e) THEN <<e.id, e.seq>>
  ELSE IF items[e.id].notified THEN <<e.id, items[e.id].seq>> ELSE <<e.id, 0>>
Without(s, k) == IF k[2] = 0 THEN s ELSE Others(s, {k})

Press_Unsaved(action) ==
  LET e == dialog.ev IN
  /\ Stale(e) \/ ~Refused(e, action)
  /\ items' = IF Stale(e) THEN items ELSE Acted(e, action)
  /\ OpenNext(popups)
  /\ UNCHANGED <<running, now, clockOk, seq, times, gen, file, speaking, saved, voice, hushed>>

\* routine_schedule_action_cb and the button that called it.  A refused action
\* leaves the dialog open; the state is saved even for a stale popup.
Press(action) ==
  LET e == dialog.ev
      k == Ended(e)
  IN /\ Stale(e) \/ ~Refused(e, action)
     /\ items' = IF Stale(e) THEN items ELSE Acted(e, action)
     /\ OpenNext(Without(popups, k))
     /\ voice' = Without(voice, k)
     /\ hushed' = (hushed \/ k \in KeysSpoken)
     /\ UNCHANGED <<running, now, clockOk, seq, times, gen, file, speaking>>
     /\ saved' = Persisted(items', gen')

AnswerDue ==
  /\ running /\ clockOk /\ dialog.kind = "due"
  /\ \/ Press("complete")
     \/ dialog.ev.count < Limit /\ Press("delay")
     \/ Press("dismiss")

AnswerItem ==
  /\ running /\ clockOk /\ dialog.kind = "item"
  /\ Press("complete") \/ (items[dialog.ev.id].due <= MaxTime /\ Press("delay"))

(***************************************************************************)
(* The audio worker.                                                       *)
(***************************************************************************)
Speak ==
  /\ running /\ speaking = NoEvent /\ voice # <<>>
  /\ speaking' = Head(voice) /\ voice' = Tail(voice) /\ hushed' = FALSE
  /\ UNCHANGED <<running, now, model, file, saved, screen>>

Spoken ==
  /\ speaking # NoEvent
  /\ speaking' = NoEvent /\ hushed' = FALSE
  /\ UNCHANGED <<running, now, model, file, saved, screen, voice>>

(***************************************************************************)
(* The other programs, and the life of the manager.                        *)
(***************************************************************************)
ConfigWrite ==
  /\ file.gen < MaxGen
  /\ \E t \in FileTimes : file' = [gen |-> file.gen + 1, times |-> t]
  /\ UNCHANGED <<running, now, model, saved, screen, audio>>

\* main: default schedule, saved schedule, configuration (without notice).
Start ==
  /\ ~running
  /\ running' = TRUE
  /\ \E ok \in BOOLEAN, new \in {now} \cup {t \in Jumps : t > now} :
       LET m   == IF ok THEN new ELSE 0
           its == IF saved = NoState THEN Reset(<<>>, DefaultTimes, Day(m), FALSE)
                                        ELSE saved.items
           g   == IF saved = NoState THEN 0 ELSE saved.gen
       IN /\ clockOk' = ok /\ now' = new
          /\ items' = Applied(its, DefaultTimes, g, m, ok)
          /\ gen' = file.gen /\ times' = file.times
          /\ saved' = IF ConfigNew(DefaultTimes, g) THEN Persisted(items', gen') ELSE saved
  /\ seq' = 0
  /\ dialog' = NoDialog /\ popups' = <<>>
  /\ voice' = <<>> /\ speaking' = NoEvent /\ hushed' = FALSE
  /\ UNCHANGED file

\* The manager is stopped, or the power goes.
Stop ==
  /\ running
  /\ running' = FALSE /\ clockOk' = FALSE
  /\ items' = Reset(<<>>, DefaultTimes, 0, FALSE)
  /\ seq' = 0 /\ times' = DefaultTimes /\ gen' = 0
  /\ dialog' = NoDialog /\ popups' = <<>>
  /\ voice' = <<>> /\ speaking' = NoEvent /\ hushed' = FALSE
  /\ UNCHANGED <<now, file, saved>>

Next ==
  \/ ClockTick \/ ClockStep \/ ClockArrives \/ NoClockTick
  \/ OpenHistory \/ OpenItem \/ CloseDialog \/ ViewCurve
  \/ AnswerDue \/ AnswerItem
  \/ Speak \/ Spoken
  \/ ConfigWrite \/ Start \/ Stop

Spec == Init /\ [][Next]_vars

-----------------------------------------------------------------------------
\* The types of the variables.
TypeOK ==
  /\ running \in BOOLEAN /\ clockOk \in BOOLEAN /\ now \in Nat
  /\ items \in [Ids -> Item]
  /\ seq \in Nat /\ times \in FileTimes /\ gen \in Nat
  /\ file \in [gen : Nat, times : FileTimes]
  /\ saved \in [items : [Ids -> Item], gen : Nat \cup {-1}]
  /\ dialog \in [kind : {"none", "history", "item", "doneItem", "due"},
                 ev : Event \cup {NoEvent}]
  /\ popups \in Seq(Event) /\ Len(popups) <= QueueMax
  /\ voice \in Seq(Event) /\ Len(voice) <= QueueMax
  /\ speaking \in Event \cup {NoEvent} /\ hushed \in BOOLEAN

\* A reminder that can be answered is never of a completed item and carries a
\* number of its own, whatever edits, delays and answers came in between, so that
\* no button of its popup is refused (routine_model.c:795, :833, :865).
ReminderIsAnswerable ==
  /\ \A i \in Ids : items[i].notified => ~items[i].done /\ items[i].seq \in 1..seq
  /\ \A i, j \in Ids : items[i].notified /\ items[j].notified /\ i # j
                         => items[i].seq # items[j].seq

\* What waits to be spoken, or is being spoken and not cancelled, is a reminder the
\* user sees or will see once the dialogs above it are closed: whatever removes a
\* popup removes its voice (routine_manager_main.c:918-934, :585-593, :757-766).
SpokenIsOnScreen ==
  (Keys(voice) \cup (IF hushed THEN {} ELSE KeysSpoken)) \subseteq (Keys(popups) \cup KeysOnTop(dialog))

\* A completed item is completed in schedule.state too, so no crash forgets it
\* (routine_manager_main.c:936-942, :599-602).
CompletionIsSaved ==
  running /\ StorageReady => \A i \in Ids : items[i].done => saved.items[i].done

\* While the clock runs, every unfinished item whose minute comes is reminded, on
\* the minute, the first minute of a day and carried-over items included
\* (routine_model.c:498-538); a change of its own time aside.
DueOnTime ==
  [][ClockTick /\ now' > now
       => \A i \in Ids : ~items'[i].done /\ items'[i].due = now' /\ times'[i] = times[i] /\ gen' = gen
                           => items'[i].notified]_vars

\* An answer to a popup ends that reminder and no other: a popup left over from
\* an earlier reminder of the item, or from before midnight, changes nothing
\* (routine_model.c:795-799, routine_manager_main.c:906-911).
AnswerEndsWhatItShows ==
  [][AnswerDue => \A i \in Ids : items'[i] # items[i]
                    => Key(dialog.ev) = <<i, items[i].seq>> /\ items[i].notified]_vars

-----------------------------------------------------------------------------
\* A reminder waiting for the screen gets it once the screen is free
\* (README.md:27, "when due, a popup").
FreeScreenShowsPopup == dialog = NoDialog => popups = <<>>
=============================================================================
