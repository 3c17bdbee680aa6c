----------------------------- MODULE VoiceIntent -----------------------------
(***************************************************************************)
(* mimo_integration.c: what the desktop does with a sentence the online    *)
(* recognition heard.  The limits of the temperature are searched for      *)
(* first, then a reminder.                                                 *)
(*                                                                         *)
(* A sentence is a sequence of words: "low" and "high" are the keywords of *)
(* the two limits, "set" the verbs between a keyword and its number, a     *)
(* number is one word, in digits or in characters.  Degrees are whole.     *)
(***************************************************************************)
EXTENDS Integers, Sequences, FiniteSets, SequencesExt, TLC

CONSTANTS Sentences,
          Digits, Characters,    \* [words for numbers -> the number]
          Bytes,                 \* [words -> their length]
          Limits                 \* the limits the other writers give

VARIABLES
  low, high,     \* temperature_low_x100 and temperature_high_x100 in the file
  items,         \* the schedule of the file: sequence of [id, hour, minute]
  heard,         \* the sentence worked on, <<>> for none
  asked,         \* the limits it makes of it
  result,        \* "none", "set", "range", "failed", "added"
  before         \* history: the limits it read

limits == <<low, high>>
vars == <<limits, items, heard, asked, result, before>>

MaxItems == 3    \* ROUTINE_SCHEDULE_MAX
Init ==
  /\ \E p \in Limits : low = p[1] /\ high = p[2]
  /\ items = [k \in 1..MaxItems |-> [id |-> k - 1, hour |-> 8 + k, minute |-> 0]]
  /\ heard = <<>> /\ asked = <<>> /\ result = "none" /\ before = limits

Says(s, w) == Contains(s, w)
At(s, w) == CHOOSE k \in DOMAIN s : s[k] = w /\ \A j \in 1..k - 1 : s[j] # w

-----------------------------------------------------------------------------
(* The numbers of a sentence. *)

\* Digits and minus signs that touch are read as one number, with atof.
Glued(w) == w \in DOMAIN Digits \cup {"-"}
Starts(s) == {k \in DOMAIN s : Glued(s[k]) /\ (k = 1 \/ ~Glued(s[k - 1]))}
Atof(s, k) ==
  IF s[k] # "-" THEN Digits[s[k]]
  ELSE IF k < Len(s) /\ s[k + 1] \in DOMAIN Digits THEN 0 - Digits[s[k + 1]] ELSE 0
InDigits(s) == LET at == SetToSortSeq(Starts(s), <) IN [n \in DOMAIN at |-> Atof(s, at[n])]

\* What follows the first keyword of a kind, without fillers.
Filler == {"threshold", "degrees", " "}
After(s, w) ==
  LET rest == {k \in At(s, w) + 1..Len(s) : s[k] \notin Filler}
      next == {k \in rest : \A j \in rest : k <= j}
  IN {Characters[s[k]] : k \in {j \in next : s[j] \in DOMAIN Characters}}
Found(s, w, numbers) == {n \in IF Says(s, w) THEN After(s, w) ELSE {} :
                           n \in 5..50 /\ \A k \in DOMAIN numbers : numbers[k] # n}
With(s, w, numbers) == numbers \o SetToSeq(Found(s, w, numbers))
\* Characters are looked at only where digits gave fewer than two numbers.
Numbers(s) ==
  LET d == InDigits(s)
  IN IF Len(d) >= 2 THEN d ELSE With(s, "set", With(s, "high", With(s, "low", d)))

\* The limits of a sentence with numbers, for the limits of the file.
OneLimit(s, n) == IF Says(s, "high") /\ ~Says(s, "low") THEN <<low, n>> ELSE <<n, high>>
TwoLimits(s, m, n) ==
  IF Says(s, "low") /\ Says(s, "high")
  THEN IF At(s, "low") < At(s, "high") THEN <<m, n>> ELSE <<n, m>>
  ELSE IF m < n THEN <<m, n>> ELSE <<n, m>>
Ordered_AsTheyAre(p) == p
Ordered(p) == IF p[1] >= p[2] THEN <<p[2], p[1]>> ELSE p
Asked(s) == LET n == Numbers(s) IN Ordered(IF Len(n) = 1 THEN OneLimit(s, n[1]) ELSE TwoLimits(s, n[1], n[2]))
OfTemperature(s) == (\E w \in {"temperature", "threshold", "low", "high"} : Says(s, w)) /\ Numbers(s) # <<>>

-----------------------------------------------------------------------------
(* The time of a reminder. *)

\* What is before the first "o'clock": digits, or characters where the scan of
\* twelve bytes begins, at the start of the sentence or four characters back.
Before(s, k) == FoldLeft(LAMBDA n, w : n + Bytes[w], 0, SubSeq(s, 1, k - 1))
Scan(s, k) == IF Before(s, k) <= 12 THEN 0 ELSE Before(s, k) - 12
OClock(s) ==
  IF ~Says(s, "o'clock") \/ At(s, "o'clock") = 1 THEN {}
  ELSE LET k == At(s, "o'clock")
       IN IF s[k - 1] \in DOMAIN Digits THEN {Digits[s[k - 1]]}
          ELSE {Characters[s[j]] : j \in {i \in 1..k - 1 : s[i] \in DOMAIN Characters /\ Characters[s[i]] \in 1..23 /\ Before(s, i) = Scan(s, k)}}
Half(s) == IF Says(s, "half") /\ Says(s, "o'clock") /\ At(s, "o'clock") < At(s, "half") THEN 30 ELSE 0
\* Otherwise hour and minute around a colon; of an hour beyond 23 the last digit counts.
Colons(s) == {k \in 2..Len(s) : s[k] = ":" /\ s[k - 1] \in DOMAIN Digits}
Hour(n) == IF n <= 23 THEN n ELSE n % 10
Minute(s, k) == IF k < Len(s) /\ s[k + 1] \in DOMAIN Digits THEN Digits[s[k + 1]] ELSE 0
Times(s) ==
  IF OClock(s) # {} THEN {<<h, Half(s)>> : h \in OClock(s)}
  ELSE {<<Hour(Digits[s[k - 1]]), Minute(s, k)>> : k \in {j \in Colons(s) : \A i \in Colons(s) : j <= i}}
OfReminder(s) == Says(s, "remind") /\ \E t \in Times(s) : t[1] \in 0..23

\* mimo_add_schedule_reminder takes the slot with id 0 for an empty one (every
\* schedule that can be loaded has one), and the highest id plus one.
NewId == 1 + FoldFunction(LAMBDA i, n : IF i.id > n THEN i.id ELSE n, 0, items)
Changed(t) == [k \in DOMAIN items |-> IF items[k].id = 0 THEN [id |-> NewId, hour |-> t[1], minute |-> t[2]] ELSE items[k]]
\* routine_config_save: ids below MaxItems, each but 0 once, and limits a degree apart.
Savable(list) ==
  /\ \A k \in DOMAIN list : list[k].id < MaxItems /\ list[k].minute \in 0..59
  /\ \A j, k \in DOMAIN list : j # k /\ list[j].id = list[k].id => list[j].id = 0
Sane(p) == p[2] - p[1] >= 1

-----------------------------------------------------------------------------
Hear(s) ==
  /\ heard = <<>> /\ heard' = s /\ before' = limits /\ result' = "none"
  /\ asked' = IF OfTemperature(s) THEN Asked(s) ELSE <<>>
  /\ UNCHANGED <<limits, items>>
\* mimo_set_temperature_threshold reads the file again and writes it.
SetLimits ==
  /\ asked # <<>> /\ UNCHANGED items
  /\ result' = IF {asked[1], asked[2]} \subseteq 0..50 THEN (IF Sane(asked) THEN "set" ELSE "failed") ELSE "range"
  /\ low' = IF result' = "set" THEN asked[1] ELSE low
  /\ high' = IF result' = "set" THEN asked[2] ELSE high
AddReminder ==
  /\ asked = <<>> /\ heard # <<>> /\ UNCHANGED limits
  /\ IF ~OfReminder(heard) THEN result' = "none" /\ UNCHANGED items
     ELSE \E t \in Times(heard) :
            /\ result' = IF Savable(Changed(t)) THEN "added" ELSE "failed"
            /\ items' = IF result' = "added" THEN Changed(t) ELSE items
Act == (SetLimits \/ AddReminder) /\ heard' = <<>> /\ asked' = <<>> /\ UNCHANGED before
\* Another writer, between any two steps.
OtherSaves == (\E p \in Limits : low' = p[1] /\ high' = p[2]) /\ UNCHANGED <<items, heard, asked, result, before>>
Next == (\E s \in Sentences : Hear(s)) \/ Act \/ OtherSaves
Spec == Init /\ [][Next]_vars

-----------------------------------------------------------------------------
(* Properties. *)

TypeOK ==
  /\ heard \in Sentences \cup {<<>>} /\ asked \in {<<>>} \cup (Int \X Int)
  /\ result \in {"none", "set", "range", "failed", "added"}

\* The first number after a limit is named, which a listener takes for it.
Number == Digits @@ Characters
Named(s, w) ==
  IF ~Says(s, w) THEN {}
  ELSE {Number[s[k]] : k \in {j \in DOMAIN s : /\ j > At(s, w) /\ s[j] \in DOMAIN Number
                               /\ \A i \in At(s, w) + 1..j - 1 : s[i] \notin DOMAIN Number \cup {"low", "high"}}}
\* Sentences as the guide gives them: one limit or both, every number after its
\* limit; between a limit and characters there is no verb but in the first form.
Plain(s) ==
  LET limit == {k \in DOMAIN s : s[k] \in {"low", "high"}}
      number == {k \in DOMAIN s : s[k] \in DOMAIN Number}
  IN /\ limit # {} /\ Cardinality(number) = Cardinality(limit) /\ ~Says(s, "-")
     /\ \A w \in {"low", "high"} : Says(s, w) => Named(s, w) # {} /\ \A j, k \in limit : s[j] = w /\ s[k] = w => j = k
     /\ Cardinality(limit) = 2 /\ Says(s, "set") => \A k \in number : s[k] \in DOMAIN Digits

\* Both limits are set to the two numbers, in whichever order and writing they
\* were said, and one alone leaves the other where it was when the sentence was
\* heard, if it can (mimo_integration.c:1197-1381; docs 35-50).
HeardIsSet ==
  [][heard # <<>> /\ heard' = <<>> /\ Plain(heard) =>
       \A l \in Named(heard, "low") \cup {before[1]}, h \in Named(heard, "high") \cup {before[2]} :
         (Says(heard, "low") => l \in Named(heard, "low")) /\ (Says(heard, "high") => h \in Named(heard, "high"))
         /\ {l, h} \subseteq 0..50 /\ (l < h \/ {"low", "high"} \subseteq Range(heard)) /\ l # h
         => result' = "set" /\ {low', high'} = {l, h} /\ low' < high']_vars
\* The guide's promise that a reminder can be given by voice.
ReminderIsAdded == result # "failed"
=============================================================================
