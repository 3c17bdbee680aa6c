--------------------------- MODULE RoutineHistory ---------------------------
(***************************************************************************)
(* The temperature history of the routine manager: the curve in memory,    *)
(* its window on the screen, and history.jsonl with its copy on the SD     *)
(* card.  Everything here runs in the thread of the user interface: the    *)
(* timer once a second (routine_timer_cb), the buttons in between.  The    *)
(* clock may be unknown at first, may be set back or ahead, and runs fast  *)
(* in the demonstration; the interval may be changed on the screen or, by  *)
(* another program, in config.json.                                        *)
(***************************************************************************)
EXTENDS Integers, Sequences

CONSTANTS Intervals, Default,   \* seconds between two points; ROUTINE_DEFAULT_HISTORY_INTERVAL_SECONDS
          Points, Window,       \* ROUTINE_TREND_POINTS, ROUTINE_CHART_POINTS
          Rebase,               \* ROUTINE_CLOCK_REBASE_SECONDS
          DemoStep,             \* seconds of a tick of the demonstration
          MaxNow, MaxLines      \* bounds

Unknown == 0     \* the clock before the first answer of a time server
NoSlot == -1
NoLine == <<NoSlot, 0>>
VARIABLES
  demo,          \* clock_mode
  curve,         \* the model: at, interval, attached, points [at, live], slot, live
  last,          \* last_wall_time, 0 for none
  setting,       \* the interval in config.json
  used,          \* app->settings.history_interval_seconds
  lines, torn,   \* history.jsonl: <<slot, interval>> of its lines, NoLine for one that cannot be
                 \* read; a write stopped in its last line
  done,          \* the slot and the interval storage remembers
  copy,          \* lines of the last file on the card
  start, follow  \* history_start, history_follow_latest
storage == <<lines, torn, done>>
vars == <<demo, curve, last, setting, used, storage, copy, start, follow>>

Fresh(at) == [at |-> at, interval |-> Default, attached |-> FALSE, points |-> <<>>, slot |-> NoSlot, live |-> FALSE]
Init ==
  /\ demo \in BOOLEAN /\ setting \in Intervals /\ used = setting
  /\ \E t \in {Unknown, 1} : curve = [Fresh(IF demo THEN 1 ELSE t) EXCEPT !.interval = setting]
  /\ last = IF demo THEN 0 ELSE curve.at
  /\ lines = <<>> /\ torn = FALSE /\ done = NoLine /\ copy = 0
  /\ start = 0 /\ follow = TRUE

-----------------------------------------------------------------------------
(* The curve.                                                              *)

\* No more than the newest points are kept.
Newest(s) == IF Len(s) <= Points THEN s ELSE SubSeq(s, Len(s) - Points + 1, Len(s))
Empty(c) == [c EXCEPT !.points = <<>>, !.slot = NoSlot]
\* The slots without a sample, each at its beginning; too many of them empty the curve.
Missing(c, s) == [k \in 1..(s - c.slot - 1) |-> [at |-> (c.slot + k) * c.interval, live |-> FALSE]]
\* As if the points moved up alone, without those missing.
Bridged_Closed(c, s) == c.points
Bridged(c, s) ==
  IF c.slot = NoSlot THEN c.points
  ELSE IF Len(Missing(c, s)) >= Points THEN <<>>
  ELSE c.points \o Missing(c, s)
\* routine_history_sample_current
Sampled(c, live) ==
  LET s == c.at \div c.interval
      point == [at |-> c.at, live |-> live]
  IN IF c.at = Unknown THEN c
     ELSE IF c.slot = s /\ c.points # <<>> THEN [c EXCEPT !.points[Len(c.points)] = point]
     ELSE LET b == IF s < c.slot THEN Empty(c) ELSE c
          IN [b EXCEPT !.points = Newest(Append(Bridged(b, s), point)), !.slot = s]
\* A sample of the environment service; the first one begins the curve.
Applied(c, live) ==
  Sampled([(IF c.attached THEN c ELSE Empty(c)) EXCEPT !.attached = TRUE, !.live = live], live)
\* A minute or a second later: the last temperature is entered until the next sample comes.
Moved(c, t) ==
  IF c.at = Unknown THEN [c EXCEPT !.at = t]
  ELSE IF c.attached THEN Sampled([c EXCEPT !.at = t], c.live) ELSE [c EXCEPT !.at = t]
\* routine_model_apply_settings
Adopted_KeepsCurve(c, i) == [c EXCEPT !.interval = i]
Adopted(c, i) == IF c.interval = i THEN c ELSE [Empty(c) EXCEPT !.interval = i]

\* routine_ui_update: the first point of the window.
Latest(c) == IF Len(c.points) > Window THEN Len(c.points) - Window ELSE 0
Show(c) == start' = IF start > Latest(c) \/ follow THEN Latest(c) ELSE start

-----------------------------------------------------------------------------
(* The file.                                                               *)

\* routine_storage_append_history; a write may stop at its beginning or within the line.
Recorded(c, i) ==
  LET line == <<c.at \div i, i>>
  IN IF c.at = Unknown \/ done = line THEN UNCHANGED storage
     ELSE \/ /\ Len(lines) < MaxLines
             /\ lines' = Append(lines, IF torn THEN NoLine ELSE line)
             /\ torn' = FALSE /\ done' = line
          \/ torn' \in {torn, TRUE} /\ UNCHANGED <<lines, done>>

\* The wall clock was set: routine_timer_cb begins a model anew.
Stepped(t) == last # 0 /\ (t < last \/ t - last > Rebase)
\* routine_timer_cb; config.json may be one that is not accepted.
Tick(t, live, read) ==
  LET moved == IF ~demo /\ t = Unknown THEN curve
               ELSE IF ~demo /\ Stepped(t) THEN Fresh(t) ELSE Moved(curve, t)
      applied == Applied(moved, live)
      c == IF read THEN Adopted(applied, setting) ELSE applied
      i == IF read THEN setting ELSE used
  IN /\ curve' = c /\ used' = i
     /\ last' = IF demo \/ t = Unknown THEN last ELSE t
     /\ Recorded(c, i) /\ Show(c)
     /\ UNCHANGED <<demo, setting, copy, follow>>
\* A clock that was known is not forgotten.
Time == IF demo THEN {curve.at + DemoStep} \cap 1..MaxNow
        ELSE IF curve.at = Unknown THEN 0..MaxNow ELSE 1..MaxNow
Timer == \E t \in Time, live, read \in BOOLEAN : Tick(t, live, read)

\* routine_history_interval_cb and routine_history_action_cb: it is saved and read again.
ChangeInterval ==
  /\ \E i \in Intervals : setting' = i /\ used' = i /\ curve' = Adopted(curve, i) /\ Show(Adopted(curve, i))
  /\ UNCHANGED <<demo, last, storage, copy, follow>>
\* Another program saves.
OtherSaves ==
  /\ setting' \in Intervals
  /\ UNCHANGED <<demo, curve, last, used, storage, copy, start, follow>>

\* routine_storage_export_history: under a name of its own, or not at all.
Export ==
  /\ lines # <<>> \/ torn
  /\ \/ copy' = Len(lines)
     \/ UNCHANGED copy
  /\ UNCHANGED <<demo, curve, last, setting, used, storage, start, follow>>

\* The buttons beside the curve.
Previous ==
  /\ start > 0
  /\ start' = (IF start >= Window THEN start - Window ELSE 0) /\ follow' = FALSE
  /\ UNCHANGED <<demo, curve, last, setting, used, storage, copy>>
Forward ==
  /\ start < Latest(curve)
  /\ start' = IF start + Window < Latest(curve) THEN start + Window ELSE Latest(curve)
  /\ follow' = (start' = Latest(curve))
  /\ UNCHANGED <<demo, curve, last, setting, used, storage, copy>>

\* The manager is started again: what storage remembers of the file is gone.
Restart ==
  /\ curve.at # Unknown
  /\ curve' = [Fresh(IF demo THEN 1 ELSE curve.at) EXCEPT !.interval = setting] /\ used' = setting
  /\ last' = IF demo THEN 0 ELSE curve.at
  /\ done' = NoLine /\ start' = 0 /\ follow' = TRUE
  /\ UNCHANGED <<demo, setting, lines, torn, copy>>

Next == Timer \/ ChangeInterval \/ OtherSaves \/ Export \/ Previous \/ Forward \/ Restart
Spec == Init /\ [][Next]_vars

-----------------------------------------------------------------------------
(* Properties. *)

TypeOK ==
  /\ curve.at \in 0..MaxNow /\ {curve.interval, setting, used} \subseteq Intervals \cup {Default}
  /\ Len(curve.points) <= Points /\ Len(lines) <= MaxLines
  /\ {demo, torn, follow, curve.attached, curve.live} \subseteq BOOLEAN /\ start \in 0..Points

\* Through gaps, changes of the interval and clocks that are set, the curve has
\* one point for each slot up to the latest, none left out and none twice, and
\* the window lies on it (routine_model.c:207-310, routine_ui.c:1427-1449, :1900-1911).
CurveIsEven ==
  /\ \A k \in 1..Len(curve.points) :
       curve.points[k].at \div curve.interval = curve.slot - (Len(curve.points) - k)
  /\ start <= Latest(curve) /\ (follow => start = Latest(curve))
=============================================================================
