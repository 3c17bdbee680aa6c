----------------------------- MODULE AgentFiles ------------------------------
(***************************************************************************)
(* What the assistant keeps on disk: one file of lines for every chat      *)
(* (core/session_mgr.c), appended to and cut by the agent thread and       *)
(* removed by the command thread, and the settings of infra/config_store.c *)
(* which both threads change.  The power may fail between any two steps;   *)
(* what was written before is on disk then.                                *)
(*                                                                         *)
(* A line is its number in the chat.  A line of which only the beginning   *)
(* was written, because the power failed or nobody looks at what fputs and *)
(* fclose say, is Torn; the next one continues it, and the two do not      *)
(* parse.  A line longer than the buffer of its readers is read as pieces, *)
(* of which a later one may parse as a value that is no message.           *)
(*                                                                         *)
(* F_Fault is F with a plausible fault, for the mutants of PROJECT.json.   *)
(***************************************************************************)
EXTENDS Integers, Sequences, FiniteSets, Functions

CONSTANTS Chats,
          MaxMsgs,     \* AGENT_SESSION_MAX_MSGS, 20
          Every,       \* appends between two looks at the length, 10
          Keys,        \* settings
          MaxLines, MaxClears, MaxCrashes, MaxFaults, MaxSets   \* bounds

Torn == -1
Junk == 0
Stray == -2

VARIABLES
  there,    \* the chats whose file exists
  lines,    \* [Chats -> what the file at the path holds]
  tmp,      \* [Chats -> the shortened copy]
  pc, chat, \* the agent thread in session_append
  orphan,   \* the file it has open was removed from the path
  count,    \* s_append_count
  said,     \* history: lines appended to each chat
  config,   \* [Keys -> value] on disk
  lock,     \* the owner of s_lock
  at, copy, \* [Threads -> where it is in a change, and the settings it read]
  asked,    \* [Threads -> the values it gives, of one key or of all]
  wanted,   \* history: the value of each key last given with success
  clears, crashes, sets,
  faults    \* calls of the file system that failed unnoticed, and long lines

sessions == <<there, lines, tmp, pc, chat, orphan, count, said, clears>>
settings == <<config, lock, at, copy, asked, wanted, sets>>
vars == <<sessions, settings, crashes, faults>>

Threads == {"agent", "command"}
Nobody == "nobody"
Unset == 0
Blank == [k \in Keys |-> Unset]    \* what load_json makes of a file without JSON
Fault == faults < MaxFaults /\ faults' = faults + 1

Init ==
  /\ there = {} /\ lines = [c \in Chats |-> <<>>] /\ tmp = [c \in Chats |-> <<>>]
  /\ pc = "idle" /\ chat \in Chats /\ orphan = FALSE /\ count = 0
  /\ said = [c \in Chats |-> 0] /\ clears = 0 /\ crashes = 0 /\ sets = 0 /\ faults = 0
  /\ config = Blank /\ wanted = Blank /\ lock = Nobody
  /\ at = [t \in Threads |-> "out"] /\ copy = [t \in Threads |-> Blank]
  /\ asked = [t \in Threads |-> Blank]

-----------------------------------------------------------------------------
(* Sessions. *)

\* The lines of a file with one more written to its end.
Written(s, x) ==
  IF s # <<>> /\ s[Len(s)] = Torn THEN [s EXCEPT ![Len(s)] = IF x = Torn THEN Torn ELSE Junk] ELSE Append(s, x)
Said == FoldFunction(+, 0, said)

\* session_append opens the file, and makes it if it is not there.
Open ==
  /\ pc = "idle" /\ Said < MaxLines
  /\ \E c \in Chats : /\ chat' = c /\ there' = there \cup {c}
                      /\ lines' = IF c \in there THEN lines ELSE [lines EXCEPT ![c] = <<>>]
  /\ pc' = "write" /\ orphan' = FALSE
  /\ UNCHANGED <<tmp, count, said, clears, settings, crashes, faults>>
\* A line written to a file that was removed meanwhile is lost.  What fprintf and
\* fclose say is not looked at: the file may end without the line, or within it.
Write ==
  /\ pc = "write" /\ said' = [said EXCEPT ![chat] = @ + 1]
  /\ \/ /\ lines' = IF orphan THEN lines ELSE [lines EXCEPT ![chat] = Written(@, said[chat] + 1)]
        /\ UNCHANGED faults
     \/ /\ ~orphan /\ Fault
        /\ LET s == lines[chat] IN
           \E x \in {s, Written(s, Torn), Append(Written(s, Junk), Junk), Append(Written(s, Junk), Stray)} :
             lines' = [lines EXCEPT ![chat] = x]
  /\ count' = (count + 1) % Every
  /\ pc' = IF count + 1 = Every THEN "look" ELSE "idle"
  /\ UNCHANGED <<there, tmp, chat, orphan, clears, settings, crashes>>

\* session_truncate of the chat of every Every-th append: a file of more than
\* twice the messages is copied without its oldest lines.  It stays as it is when
\* one of the files does not open; how much of the copy was written is not looked at.
Shortened(s) == SubSeq(s, Len(s) - 2 * MaxMsgs + 1, Len(s))
Short(s) == {SubSeq(s, 1, n) : n \in 0..Len(s) - 1} \cup {Append(SubSeq(s, 1, n), Torn) : n \in 0..Len(s) - 1}
Look ==
  /\ pc = "look" /\ orphan' = FALSE
  /\ \/ UNCHANGED <<tmp, faults>> /\ pc' = "idle"
     \/ /\ chat \in there /\ Len(lines[chat]) > 2 * MaxMsgs /\ pc' = "remove"
        /\ \/ tmp' = [tmp EXCEPT ![chat] = Shortened(lines[chat])] /\ UNCHANGED faults
           \/ Fault /\ \E s \in Short(Shortened(lines[chat])) : tmp' = [tmp EXCEPT ![chat] = s]
  /\ UNCHANGED <<there, lines, chat, count, said, clears, settings, crashes>>
RemoveOld ==
  /\ pc = "remove" /\ there' = there \ {chat} /\ pc' = "rename"
  /\ UNCHANGED <<lines, tmp, chat, orphan, count, said, clears, settings, crashes, faults>>
\* A rename that fails is not noticed: the chat is gone.
Rename ==
  /\ pc = "rename" /\ pc' = "idle"
  /\ \/ /\ there' = there \cup {chat} /\ lines' = [lines EXCEPT ![chat] = tmp[chat]]
        /\ UNCHANGED faults
     \/ Fault /\ UNCHANGED <<there, lines>>
  /\ UNCHANGED <<tmp, chat, orphan, count, said, clears, settings, crashes>>

\* session_clear and session_clear_all remove without the lock.
Clear ==
  /\ clears < MaxClears /\ clears' = clears + 1
  /\ \E C \in {Chats} \cup {{c} : c \in Chats} :
       there' = there \ C /\ orphan' = (orphan \/ (pc = "write" /\ chat \in C))
  /\ UNCHANGED <<lines, tmp, pc, chat, count, said, settings, crashes, faults>>

\* session_get_history_json: the lines that parse, in their order, fill a ring of
\* MaxMsgs in a circle, which is read from its oldest.
Parsing(s) == {j \in 1..Len(s) : s[j] > 0 \/ s[j] = Stray}
Parsed(s) ==
  [k \in 1..Cardinality(Parsing(s)) |->
     s[CHOOSE j \in Parsing(s) : Cardinality(Parsing(s) \cap (1..j)) = k]]
Ring(s) ==
  [k \in 1..MaxMsgs |-> s[CHOOSE j \in 1..Len(s) : (j - k) % MaxMsgs = 0 /\ j + MaxMsgs > Len(s)]]
Rotated_FromFirst(s) == Ring(s)
Rotated(s) == [k \in 1..MaxMsgs |-> Ring(s)[((Len(s) + k - 1) % MaxMsgs) + 1]]
History(c) ==
  LET s == IF c \in there THEN Parsed(lines[c]) ELSE <<>>
  IN IF Len(s) < MaxMsgs THEN s ELSE Rotated(s)

-----------------------------------------------------------------------------
(* Settings: claw_config_set, config_del and config_erase_all. *)

Change(t, where) == at' = [at EXCEPT ![t] = where]
\* The file is read and changed in memory, under the lock.  Of a file that does
\* not open, of no memory and of text that does not parse load_json makes no settings.
Given(new, s) == [k \in Keys |-> IF k \in DOMAIN new THEN new[k] ELSE s[k]]
Changes == {Blank} \cup {[j \in {k} |-> v] : k \in Keys, v \in {Unset, sets + 1}}
Edit(t) ==
  /\ sets < MaxSets /\ sets' = sets + 1 /\ Change(t, "read")
  /\ \E new \in Changes :
       /\ asked' = [asked EXCEPT ![t] = new]
       /\ \/ copy' = [copy EXCEPT ![t] = Given(new, config)] /\ UNCHANGED faults
          \/ copy' = [copy EXCEPT ![t] = Given(new, Blank)] /\ Fault
  /\ UNCHANGED <<config, wanted, sessions, crashes>>
Load_Unlocked(t) == at[t] = "out" /\ Edit(t) /\ UNCHANGED lock
Load(t) == at[t] = "out" /\ lock = Nobody /\ lock' = t /\ Edit(t)
\* save_json opens the file with O_TRUNC, then writes it.  The caller is told when
\* it does not open, or gets no stream.
Truncate(t) ==
  /\ at[t] = "read"
  /\ \/ config' = Blank /\ Change(t, "cut") /\ UNCHANGED <<lock, faults>>
     \/ Change(t, "out") /\ lock' = Nobody /\ UNCHANGED <<config, faults>>
     \/ config' = Blank /\ Change(t, "out") /\ lock' = Nobody /\ Fault
  /\ UNCHANGED <<sessions, copy, asked, wanted, sets, crashes>>
\* OK whether all of the text was written or a part of it, which does not parse.
Save(t) ==
  /\ at[t] = "cut" /\ Change(t, "out") /\ lock' = Nobody
  /\ \/ config' = copy[t] /\ UNCHANGED faults
     \/ Fault /\ UNCHANGED config
  /\ wanted' = Given(asked[t], wanted)
  /\ UNCHANGED <<sessions, copy, asked, sets, crashes>>

-----------------------------------------------------------------------------
PowerFails ==
  /\ crashes < MaxCrashes /\ crashes' = crashes + 1
  /\ pc' = "idle" /\ count' = 0 /\ orphan' = FALSE
  /\ lock' = Nobody /\ at' = [t \in Threads |-> "out"]
  /\ \/ UNCHANGED <<lines, said>>
     \/ /\ pc = "write" /\ ~orphan /\ said' = [said EXCEPT ![chat] = @ + 1]
        /\ lines' = [lines EXCEPT ![chat] = Written(@, Torn)]
  /\ UNCHANGED <<there, tmp, chat, config, copy, asked, wanted, sets, clears, faults>>

Cut == Look \/ RemoveOld \/ Rename
Set(t) == Load(t) \/ Truncate(t) \/ Save(t)
Next == Open \/ Write \/ Cut \/ Clear \/ PowerFails \/ \E t \in Threads : Set(t)
Spec == Init /\ [][Next]_vars

-----------------------------------------------------------------------------
(* Properties. *)

TypeOK ==
  /\ there \subseteq Chats /\ chat \in Chats
  /\ \A c \in Chats : {lines[c], tmp[c]} \subseteq Seq({Torn, Junk, Stray} \cup 1..MaxLines)
  /\ pc \in {"idle", "write", "look", "remove", "rename"}
  /\ orphan \in BOOLEAN /\ count \in 0..Every - 1 /\ lock \in Threads \cup {Nobody}
  /\ at \in [Threads -> {"out", "read", "cut"}]
  /\ {config, wanted} \subseteq [Keys -> 0..MaxSets]

InOrder(s) == \A j, k \in 1..Len(s) : j < k /\ s[j] > 0 /\ s[k] > 0 => s[j] < s[k]
Running(s) == \A k \in 1..Len(s) - 1 : s[k] + 1 = s[k + 1]
Fewest(a, b) == IF a < b THEN a ELSE b
\* The lines of a chat that are left are in the order they were said, none of them
\* twice, whatever was cut, cleared, cut short or lost with the power.  And while
\* the file system does as it is told, what the model is given of a chat is a run
\* of lines, even when a command clears the chat in the middle of an append or a
\* cut, and the latest ones when nothing was cleared (session_mgr.c:72-241).
HistoryIsLatest ==
  /\ \A c \in Chats : InOrder(lines[c])
  /\ crashes = 0 /\ faults = 0 => \A c \in Chats : LET h == History(c) IN
       /\ Running(h)
       /\ clears = 0 /\ pc \in {"idle", "write"} =>
            /\ Len(h) = Fewest(said[c], MaxMsgs)
            /\ h # <<>> => h[Len(h)] = said[c]
\* Two threads change different settings at once, and neither takes the other's
\* change back: a setting is the one last given or, where the power or an
\* unnoticed failure took the file, none (config_store.c:57-158).
SettingsAreKept ==
  /\ \A k \in Keys : config[k] \in {wanted[k], Unset}
  /\ crashes = 0 /\ faults = 0 /\ at = [t \in Threads |-> "out"] => config = wanted
\* Cutting a file replaces it atomically (session_mgr.c:70 and :116): no power
\* failure in a cut loses the chat.  It does.
CutIsAtomic == clears = 0 /\ pc = "idle" => \A c \in Chats : said[c] > 0 => c \in there
=============================================================================
