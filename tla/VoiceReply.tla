----------------------------- MODULE VoiceReply -----------------------------
(***************************************************************************)
(* The spoken answers of the audio service: what was measured becomes a    *)
(* sequence of recorded words (voice_reply.c), which are copied one after  *)
(* the other into one file, played and removed.  A word for a digit or a   *)
(* power of ten stands here for its number, every other one is negative.   *)
(***************************************************************************)
EXTENDS Integers, Sequences, SequencesExt

CONSTANT Readings   \* what may be asked for and measured, see Reading below

Cue == -1
Silence == -2
Point == -3
Cold == -4  \* temperature_low_warning, temperature_high_warning
Hot == -5
TempIs == -6
Below == -7
Degree == -8
HumidIs == -9
Percent == -10
LightIs == -11
Lux == -12
TimeIs == -13
Hour == -14
Minute == -15
Second == -16
Due == -17
Eco2Is == -18
Ppm == -19
TvocIs == -20
Ppb == -21
Kinds == {"temperature", "humidity", "sht40", "bh1750", "sgp30", "low", "high", "reminder"}

VARIABLES
  pc, reading,        \* the operation and what it is about
  parts,              \* the words
  there, file,        \* the reply file: whether it exists, the words in it
  ret
vars == <<pc, reading, parts, there, file, ret>>

Init ==
  /\ pc = "idle" /\ reading \in Readings /\ parts = <<>>
  /\ there = FALSE /\ file = <<>> /\ ret = "none"

-----------------------------------------------------------------------------
(* Numbers, from 0 to 65535.                                               *)

Digit(v, u) == (v \div u) % 10
\* zero_pending: the place before is empty, but not all before are.
Pending_NotAfterTenThousand(v, u) == Digit(v, 10 * u) = 0 /\ (v \div (10 * u)) % 1000 > 0 /\ v < 10000
Pending(v, u) == Digit(v, 10 * u) = 0 /\ v \div (10 * u) > 0
Place(v, u) ==
  IF Digit(v, u) = 0 THEN <<>>
  ELSE (IF Pending(v, u) THEN <<0>> ELSE <<>>) \o
       (IF u = 10 /\ v < 20 THEN <<10>> ELSE IF u = 1 THEN <<Digit(v, u)>> ELSE <<Digit(v, u), u>>)
Whole(v) ==
  IF v = 0 THEN <<0>>
  ELSE (IF v >= 10000 THEN <<v \div 10000, 10000>> ELSE <<>>) \o
       Place(v, 1000) \o Place(v, 100) \o Place(v, 10) \o Place(v, 1)
Decimal(v) == Whole(v \div 10) \o <<Point, v % 10>>
Hundredths(v) == Whole(v \div 100) \o <<Point, Digit(v, 10), v % 10>>

Begun == <<Cue, Silence>>
Temperature(r) ==
  <<TempIs>> \o (IF r.temp < 0 THEN <<Below>> ELSE <<>>) \o Hundredths(IF r.temp < 0 THEN -r.temp ELSE r.temp)
    \o <<Degree>>
Humidity(r) == <<HumidIs>> \o Hundredths(r.humid) \o <<Percent>>
Light(r) == <<LightIs>> \o Decimal(r.light) \o <<Lux>>
Reminder(r) ==
  <<TimeIs>> \o Whole(r.hour) \o <<Hour>> \o Whole(r.minute) \o <<Minute>> \o Whole(r.second) \o <<Second, Silence, Due>>
Gas(r) == <<Eco2Is>> \o Whole(r.eco2) \o <<Ppm, Silence, TvocIs>> \o Whole(r.tvoc) \o <<Ppb>>
\* What is out of range is not spoken.
Speakable(r) ==
  /\ r.kind \in {"temperature", "sht40"} => r.temp \in -4500..13000
  /\ r.kind \in {"humidity", "sht40"} => r.humid <= 10000
  /\ r.kind = "bh1750" => r.light \div 10 <= 65535
  /\ r.kind = "reminder" => r.hour <= 23 /\ r.minute <= 59 /\ r.second <= 59
Collected(r) ==
  Begun \o (CASE r.kind = "low" -> <<Cold>>
              [] r.kind = "high" -> <<Hot>>
              [] r.kind = "temperature" -> Temperature(r)
              [] r.kind = "sht40" -> Temperature(r) \o <<Silence>> \o Humidity(r)
              [] r.kind = "humidity" -> Humidity(r)
              [] r.kind = "bh1750" -> Light(r)
              [] r.kind = "reminder" -> Reminder(r)
              [] r.kind = "sgp30" -> Gas(r))

-----------------------------------------------------------------------------
(* The file.                                                               *)

Ends(why) == pc' = "idle" /\ ret' = why /\ there' = FALSE /\ file' = <<>> /\ UNCHANGED <<reading, parts>>
\* Cancelled before, out of range, or the file cannot be made.
Refuse ==
  /\ pc = "idle" /\ pc' = "idle" /\ ret' = (IF Speakable(reading) THEN "cancelled" ELSE "range")
  /\ UNCHANGED <<reading, parts, there, file>>
Begin ==
  /\ pc = "idle" /\ Speakable(reading)
  /\ pc' = "copy" /\ parts' = Collected(reading) /\ there' = TRUE /\ file' = <<>> /\ ret' = "none"
  /\ UNCHANGED reading
\* One word; its recording may be missing, the file full, or the operation cancelled.
Copy ==
  /\ pc = "copy" /\ Len(file) < Len(parts)
  /\ file' = Append(file, parts[Len(file) + 1])
  /\ UNCHANGED <<pc, reading, parts, there, ret>>
Abandon == pc = "copy" /\ \E why \in {"cancelled", "failed"} : Ends(why)
Close == pc = "copy" /\ Len(file) = Len(parts) /\ pc' = "play" /\ UNCHANGED <<reading, parts, there, file, ret>>
\* audio_service_speak_reply: whatever becomes of the playing, the file is removed.
Play == pc = "play" /\ \E why \in {"ok", "cancelled", "failed"} : Ends(why)

Next == Refuse \/ Begin \/ Copy \/ Abandon \/ Close \/ Play
Spec == Init /\ [][Next]_vars

-----------------------------------------------------------------------------
(* Properties. *)

TypeOK == pc \in {"idle", "copy", "play"} /\ there \in BOOLEAN /\ Len(parts) <= 40    \* VOICE_REPLY_MAX_PARTS

\* What a listener makes of the words of a number: a digit counts for the power
\* of ten after it; a last one without, unless a zero was said, for the place
\* next to that of the power before.
Listen(n, w) ==
  IF w = 0 THEN [n EXCEPT !.zero = TRUE]
  ELSE IF w < 10 THEN [n EXCEPT !.digit = w]
  ELSE IF w = 10000 THEN [sum |-> (n.sum + n.digit) * w, digit |-> 0, unit |-> w, zero |-> FALSE]
  ELSE [sum |-> n.sum + (IF n.digit = 0 THEN 1 ELSE n.digit) * w, digit |-> 0, unit |-> w, zero |-> FALSE]
Heard(words) ==
  LET n == FoldLeft(Listen, [sum |-> 0, digit |-> 0, unit |-> 1, zero |-> FALSE], words)
  IN n.sum + n.digit * (IF n.zero \/ n.unit <= 10 THEN 1 ELSE n.unit \div 10)
\* The number in front of a unit, its decimals read digit by digit.
IsNumber(w) == w >= 0 \/ w = Point
Before(k) == LET first == CHOOSE i \in 1..k : ~IsNumber(file[i]) /\ \A j \in i + 1..k - 1 : IsNumber(file[j])
             IN SubSeq(file, first + 1, k - 1)
Said(words) ==
  IF \E i \in DOMAIN words : words[i] = Point
  THEN LET p == CHOOSE i \in DOMAIN words : words[i] = Point
       IN FoldLeft(LAMBDA n, w : 10 * n + w, Heard(SubSeq(words, 1, p - 1)), SubSeq(words, p + 1, Len(words)))
  ELSE Heard(words)
\* Whatever is measured, the reply that is played says it, in words nobody takes
\* for another number, with its sign; and none is left behind to be played in
\* the place of a later one (voice_reply.c:90-269, :343-638, audio_service.c:421-481).
HeardIsMeasured ==
  LET says(unit, n) == \E k \in DOMAIN file : file[k] = unit /\ Said(Before(k)) = n
  IN /\ pc = "idle" => ~there
     /\ pc = "play" =>
          /\ reading.kind \in {"temperature", "sht40"} =>
               /\ says(Degree, IF reading.temp < 0 THEN -reading.temp ELSE reading.temp)
               /\ (reading.temp < 0) = (\E k \in DOMAIN file : file[k] = Below)
          /\ reading.kind \in {"humidity", "sht40"} => says(Percent, reading.humid)
          /\ reading.kind = "bh1750" => says(Lux, reading.light)
          /\ reading.kind = "sgp30" => says(Ppm, reading.eco2) /\ says(Ppb, reading.tvoc)
          /\ reading.kind = "reminder" =>
               says(Hour, reading.hour) /\ says(Minute, reading.minute) /\ says(Second, reading.second)
=============================================================================
