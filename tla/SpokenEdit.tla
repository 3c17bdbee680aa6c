----------------------------- MODULE SpokenEdit -----------------------------
(***************************************************************************)
(* Changing a slot of the schedule by a sentence to the assistant          *)
(* (agent_loop.c): the time and the text are found in the words, what is   *)
(* not said is taken from status.json, which the routine manager writes,   *)
(* and routine_schedule_update rewrites config.json.  Between them the     *)
(* panel saves, and reminders are put off.                                 *)
(***************************************************************************)
EXTENDS Integers, Sequences, SequencesExt

CONSTANTS
  Sentences,     \* records: slot, time and text meant (NoTime, NoText), tokens
  Slots, Times, Texts,  \* of the panel: pairs <<hour, minute>>; texts are sequences of tokens
  MaxText,       \* tokens new_text has room for
  MaxSaves, MaxDelays   \* bounds

\* Tokens: 0..9 are digits; words are below End.
Colon == -1
WideColon == -2
Dian == -3
Ban == -4
Space == -5
End == -9        \* punctuation
NewText == -7    \* "shixiang gaicheng" and the like
Change == -8     \* "gaicheng", "gaiwei", which may also introduce a time
NoTime == <<-1, -1>>
NoText == <<>>

VARIABLES
  pc, sentence,
  config, read, model, status,  \* slot -> [time, text]: config.json as it is and as it was last read,
                           \* the schedule of the day, status.json
  update,                  \* the arguments of routine_schedule_update
  reply, saves, delays
files == <<config, read, model, status>>
vars == <<pc, sentence, files, update, reply, saves, delays>>

Init ==
  /\ pc = "idle" /\ sentence \in Sentences
  /\ \E t \in Times, x \in Texts : config = [s \in Slots |-> [time |-> t, text |-> x]]
  /\ read = config /\ model = config /\ status = config
  /\ update = [time |-> NoTime, text |-> NoText, expected |-> NoText]
  /\ reply = "none" /\ saves = 0 /\ delays = 0

-----------------------------------------------------------------------------
(* The words.                                                              *)

Digit(s, q) == q \in DOMAIN s /\ s[q] \in 0..9
\* The next token that is not a space.
Skipped(s, q) == CHOOSE k \in q..Len(s) + 1 : (k > Len(s) \/ s[k] # Space) /\ \A j \in q..k - 1 : s[j] = Space
\* The end of the digits at q, no more than max of them; their number.
Past(s, q, max) == CHOOSE k \in q..q + max : (k = q + max \/ ~Digit(s, k)) /\ \A j \in q..k - 1 : Digit(s, j)
Value(s, q, max) == FoldLeft(LAMBDA n, d : 10 * n + d, 0, SubSeq(s, q, Past(s, q, max) - 1))

Minutes(s, q) == IF Digit(s, q) /\ Value(s, q, 2) <= 59 THEN Value(s, q, 2) ELSE -1
AfterHour(s, q) ==
  LET n == Skipped(s, q + 1)
  IN CASE s[q] \in {Colon, WideColon} -> Minutes(s, n)
       [] s[q] = Dian /\ Digit(s, n) -> Minutes(s, n)
       [] s[q] = Dian /\ ~Digit(s, n) -> IF n <= Len(s) /\ s[n] = Ban THEN 30 ELSE 0
       [] OTHER -> -1
TimeAt(s, p) ==
  LET q == Skipped(s, Past(s, p, 3))
      m == IF q <= Len(s) THEN AfterHour(s, q) ELSE -1
  IN IF Digit(s, p) /\ Value(s, p, 3) <= 23 /\ m >= 0 THEN <<Value(s, p, 3), m>> ELSE NoTime
\* routine_parse_time: the first place where a time can be read.
TimeIn(s) ==
  IF \A p \in DOMAIN s : TimeAt(s, p) = NoTime THEN NoTime
  ELSE TimeAt(s, CHOOSE p \in DOMAIN s : TimeAt(s, p) # NoTime /\ \A j \in 1..p - 1 : TimeAt(s, j) = NoTime)

\* routine_extract_text: the earliest marker; of a plain one only the first is looked at.
Begins(s, k) == CHOOSE j \in k + 1..Len(s) + 1 : (j > Len(s) \/ s[j] \notin {Space, Colon})
                  /\ \A i \in k + 1..j - 1 : s[i] \in {Space, Colon}
FirstOf(s, what) == {k \in DOMAIN s : s[k] \in what /\ \A j \in 1..k - 1 : s[j] \notin what}
Markers(s) == FirstOf(s, {NewText}) \cup {k \in FirstOf(s, {NewText, Change}) : s[k] = NewText \/ ~Digit(s, Begins(s, k))}
\* [state, text]: 0 without a text, -1 for one that is empty or too long.
TextIn(s) ==
  IF Markers(s) = {} THEN [state |-> 0, text |-> NoText]
  ELSE LET k == CHOOSE i \in Markers(s) : \A j \in Markers(s) : i <= j
           v == Begins(s, k)
           first == IF v <= Len(s) /\ s[v] = WideColon THEN v + 1 ELSE v
           end == CHOOSE j \in first..Len(s) + 1 : (j > Len(s) \/ s[j] = End) /\ \A i \in first..j - 1 : s[i] # End
           text == SubSeq(s, first, end - 1)
       IN IF text = <<>> \/ Len(text) > MaxText THEN [state |-> -1, text |-> NoText]
          ELSE [state |-> 1, text |-> text]

-----------------------------------------------------------------------------
(* handle_routine_edit_fast_path.                                          *)

Told(why) == pc' = "idle" /\ reply' = why
Hear ==
  /\ pc = "idle" /\ sentence' \in Sentences
  /\ IF TextIn(sentence'.tokens).state = -1 THEN Told("refused") ELSE pc' = "load" /\ reply' = "none"
  /\ UNCHANGED <<files, update, saves, delays>>
\* status.json may be missing, or not read as a whole by the shell.
Load ==
  LET s == sentence.tokens
      old == status[sentence.slot]
      said == TextIn(s)
  IN /\ pc = "load"
     /\ \/ Told("refused") /\ UNCHANGED update
        \* Neither a time nor a text: it is left to the language model.
        \/ TimeIn(s) = NoTime /\ said.state = 0 /\ Told("model") /\ UNCHANGED update
        \/ /\ TimeIn(s) # NoTime \/ said.state = 1
           /\ pc' = "execute" /\ UNCHANGED reply
           /\ update' = [time |-> IF TimeIn(s) = NoTime THEN old.time ELSE TimeIn(s),
                         text |-> IF said.state = 0 THEN old.text ELSE said.text,
                         expected |-> old.text]
     /\ UNCHANGED <<sentence, files, saves, delays>>
\* tool_routine_schedule_update_execute
Stale_Never(slot) == FALSE
Stale(slot) == config[slot].text # update.expected
Execute ==
  /\ pc = "execute"
  /\ \/ /\ ~Stale(sentence.slot)
        /\ config' = [config EXCEPT ![sentence.slot] = [time |-> update.time, text |-> update.text]]
        /\ Told("changed")
     \* The slot has another text, or the file cannot be read or written.
     \/ Told("unchanged") /\ UNCHANGED config
  /\ UNCHANGED <<sentence, read, model, status, update, saves, delays>>

-----------------------------------------------------------------------------
(* The routine manager and the panel.                                      *)

PanelSaves ==
  /\ saves < MaxSaves /\ saves' = saves + 1
  /\ \E s \in Slots, t \in Times, x \in Texts : config' = [config EXCEPT ![s] = [time |-> t, text |-> x]]
  /\ UNCHANGED <<pc, sentence, read, model, status, update, reply, delays>>
\* routine_model_apply_settings: the slots that were changed begin anew; the
\* schedule of the day is published.
Refresh ==
  /\ read # config /\ read' = config
  /\ model' = [s \in Slots |-> IF config[s] = read[s] THEN model[s] ELSE config[s]] /\ status' = model'
  /\ UNCHANGED <<pc, sentence, config, update, reply, saves, delays>>
\* routine_model_apply_schedule_action: ten minutes later, and published.
Later(t) == LET n == (60 * t[1] + t[2] + 10) % 1440 IN <<n \div 60, n % 60>>
Delay ==
  /\ delays < MaxDelays /\ delays' = delays + 1
  /\ \E s \in Slots : model' = [model EXCEPT ![s].time = Later(@)]
  /\ status' = model'
  /\ UNCHANGED <<pc, sentence, config, read, update, reply, saves>>

Next == Hear \/ Load \/ Execute \/ PanelSaves \/ Refresh \/ Delay
Spec == Init /\ [][Next]_vars

-----------------------------------------------------------------------------
(* Properties. *)

TypeOK ==
  /\ pc \in {"idle", "load", "execute"} /\ reply \in {"none", "refused", "model", "changed", "unchanged"}
  /\ \A s \in Slots : config[s].time[1] \in 0..23 /\ config[s].time[2] \in 0..59

\* What the assistant reports as changed is what was said and for whom it was
\* said; a text nobody mentioned stays, also when the panel saves another one
\* while the sentence is worked on (agent_loop.c:344-659, tool_routine.c:425-452).
SaidIsSaved ==
  [][reply' = "changed" /\ pc = "execute" =>
       LET s == sentence.slot
       IN /\ sentence.time # NoTime => config'[s].time = sentence.time
          /\ config'[s].text = (IF sentence.text # NoText THEN sentence.text ELSE config[s].text)
          /\ \A o \in Slots \ {s} : config'[o] = config[o]]_vars
\* tool_routine.h:28: "Optional expected_text prevents an update against a stale slot."
StaleIsRefused ==
  [][reply' = "changed" /\ pc = "execute" =>
       (sentence.time = NoTime => config'[sentence.slot].time = config[sentence.slot].time)]_vars
=============================================================================
