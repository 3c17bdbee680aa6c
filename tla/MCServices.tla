----------------------------- MODULE MCServices -----------------------------
(***************************************************************************)
(* The parts around the schedule and the agent in one model: those of      *)
(* ServiceParts, on small instances that Services.cfg gives, and those     *)
(* that are only checked.  In every behaviour one part moves, chosen in    *)
(* its first state; a property is about the parts that keep the same       *)
(* promise.  A behaviour of MCSpec is one of PartsSpec.  The variables of  *)
(* ConfigFile are its own.                                                 *)
(***************************************************************************)
EXTENDS ServiceParts, ConfigFile, TLC

CONSTANT NoEvent

VARIABLES
  low, high, voiceItems, voiceHeard, voiceAsked, result, before,
  replyPc, reading, parts, replyThere, replyFile, replyRet,
  editPc, sentence, editConfig, editRead, model, editStatus, update, reply, editSaves, delays,
  dayRunning, clockOk, dayNow, dayItems, seq, times, gen, dayFile, daySaved, dialog, popups,
  voice, speaking, hushed

\* Two clients, who take both slots.
Asked == [a |-> {"open", "lock"}, b |-> {"lock", "mutex"}]
LightsRead == [lux : {0, 99, 100, 250, 1000, 1700, 2400}, threshold : {100, 500}, levels : {3, 5, 10}]
\* Two rows of the table, one of them the name of a built-in skill.
Rows == <<"desk", "notes">>
\* Two passwords for one network, the first of them wrong, and another network.
Networks == [typo |-> "home", right |-> "home", away |-> "school"]
\* A watch that connects twice, or a watch and a lamp where there is room for one.
IdsSaid == {<<"watch", "watch">>, <<"lamp", "watch">>}
DigitWords == "18" :> 18 @@ "25" :> 25 @@ "30" :> 30
CharacterWords == "eight" :> 8 @@ "eighteen" :> 18 @@ "twenty" :> 20
Lengths == [w \in {"18", "25", "30"} |-> 2] @@ [w \in {"-", ":"} |-> 1]
           @@ "eight" :> 3 @@ "morning" :> 6 @@ "remind" :> 9 @@ "eighteen" :> 6 @@ "twenty" :> 6
Pairs == {<<18, 26>>, <<10, 40>>}
Words == {"18", "25", "30", "eighteen", "twenty"}
Phrases == {<<k, n>> : k \in {"low", "high"}, n \in Words} \cup
           {<<k, "set", n, "degrees">> : k \in {"low", "high"}, n \in Words}
Spoken ==
  Phrases \cup {p \o q : p, q \in Phrases} \cup
  {<<"temperature", "threshold", "18", "to", "30", "degrees">>, <<"temperature", "18", "-", "30">>,
   <<"-", "18", "low">>, <<"low", "threshold">>,
   <<"eight", "o'clock", "half", "remind">>, <<"morning", "eight", "o'clock", "remind">>,
   <<"remind", "morning", "eight", "o'clock">>, <<"18", "o'clock", "remind">>,
   <<"18", ":", "25", "remind">>, <<"30", ":", "remind">>, <<"remind">>}
Tools == [x |-> <<"s", "t">>, y |-> <<"t">>]
Letter(chat, text, kind, sender, mention, stamped) ==
  [chat |-> chat, text |-> text, kind |-> kind, sender |-> sender, mention |-> mention, stamped |-> stamped]
Mail == <<Letter("g", "hi", "text", "bot", "other", FALSE),
          Letter("g", "yo", "post with image", "self", "self", TRUE),
          Letter("g", "hi", "image", "bot", "self", FALSE)>>
\* What may be measured: every number with up to five digits, some of them zero,
\* that are 1 or 2 otherwise; and the ends of the ranges.
Quiet == [kind |-> "low", temp |-> 0, humid |-> 0, light |-> 0, eco2 |-> 0, tvoc |-> 0,
          hour |-> 0, minute |-> 0, second |-> 0]
Numerals == {10000 * d[1] + 1000 * d[2] + 100 * d[3] + 10 * d[4] + d[5] : d \in [1..5 -> 0..2]}
Measured ==
  {[Quiet EXCEPT !.kind = "sgp30", !.eco2 = n, !.tvoc = 65535 - n] : n \in Numerals} \cup
  {[Quiet EXCEPT !.kind = k, !.temp = t, !.humid = 505] :
     k \in {"low", "high", "temperature", "sht40"}, t \in {-4501, -4500, -1005, -9, 0, 1, 110, 2010, 13000, 13001}} \cup
  {[Quiet EXCEPT !.kind = k, !.humid = h] : k \in {"humidity", "sht40"}, h \in {0, 7, 1000, 9999, 10000, 10001}} \cup
  {[Quiet EXCEPT !.kind = "bh1750", !.light = n] : n \in {0, 9, 10, 1001, 100100, 655359, 655360}} \cup
  {[Quiet EXCEPT !.kind = "reminder", !.hour = n, !.minute = m, !.second = 11] : n \in {0, 10, 20, 23, 24}, m \in {0, 19, 59, 60}}
\* Sentences about two slots, with the time and the text that are meant; the
\* tokens are those of SpokenEdit.
Drink == -11
Tea == -12
Meant(slot, time, text, tokens) == [slot |-> slot, time |-> time, text |-> text, tokens |-> tokens]
Edits ==
  LET none == <<-1, -1>>
      colon == -1  wide == -2  dian == -3  half == -4  space == -5  end == -9  text == -7  change == -8
  IN {Meant("drink", <<15, 30>>, <<>>, <<Drink, change, 1, 5, colon, 3, 0>>),
      Meant("drink", <<8, 30>>, <<Tea>>, <<Drink, change, 0, 8, space, dian, half, end, text, colon, Tea, end>>),
      Meant("focus", none, <<Tea>>, <<Drink, text, wide, Tea>>),
      Meant("focus", <<9, 5>>, <<Tea, Drink>>, <<Drink, change, 9, dian, 5, end, text, Tea, Drink>>),
      Meant("drink", none, <<>>, <<Drink, text, end>>),
      Meant("drink", none, <<>>, <<Drink, change, 4, end>>)}

\* What the recognition says: nothing, a word, and two.
TextsSaid == {<<>>, <<"a">>, <<"b", "c">>}
\* Two networks with a key.
NetworksSaid == {[ssid |-> "home", psk |-> "a"], [ssid |-> "school", psk |-> "b"]}

Intent == INSTANCE VoiceIntent WITH
  items <- voiceItems, heard <- voiceHeard, asked <- voiceAsked, Sentences <- Spoken,
  Digits <- DigitWords, Characters <- CharacterWords, Bytes <- Lengths, Limits <- Pairs
Reply == INSTANCE VoiceReply WITH
  pc <- replyPc, there <- replyThere, file <- replyFile, ret <- replyRet, Readings <- Measured
Edit == INSTANCE SpokenEdit WITH
  pc <- editPc, config <- editConfig, read <- editRead, status <- editStatus, saves <- editSaves,
  Sentences <- Edits, Slots <- {"drink", "focus"}, Times <- {<<15, 0>>}, Texts <- {<<Drink>>},
  MaxText <- 3, MaxSaves <- 1, MaxDelays <- 1
Day == INSTANCE RoutineApp WITH
  running <- dayRunning, now <- dayNow, items <- dayItems, file <- dayFile, saved <- daySaved,
  Ids <- {1, 2}, QueueMax <- 2, Limit <- 2, DayLen <- 4, Delay <- 2, DefaultTimes <- <<1, 3>>,
  FileTimes <- {<<1, 3>>, <<2, 3>>}, AudioStarted <- FALSE, StorageReady <- TRUE, Jumps <- {1, 4},
  MaxStep <- 1, MaxTime <- 4, MaxGen <- 1

\* The parts of this module, and all parts.
Rest == {"intent", "reply", "edit", "storage", "file"}
Parts == Rest \cup {"panel", "wifi", "nodes", "sessions", "settings", "capture", "wakeup", "asr", "tts",
                   "feishu", "weixin", "router", "mcp", "tls", "history", "skills", "main",
                   "client", "channel", "display", "mqtt"}
intentVars == <<low, high, voiceItems, voiceHeard, voiceAsked, result, before>>
replyVars == <<replyPc, reading, parts, replyThere, replyFile, replyRet>>
editVars == <<editPc, sentence, editConfig, editRead, model, editStatus, update, reply, editSaves,
              delays>>
storageVars == <<dayRunning, clockOk, dayNow, dayItems, seq, times, gen, dayFile, daySaved, dialog,
                 popups, voice, speaking, hushed>>
fileVars == <<dir, inode, pc, fd, report, saves, rpc, rsize, rfd, adopted, crashes, crossed>>
own == <<moving, intentVars, replyVars, editVars, storageVars, fileVars>>
\* Of the parts of this module, only what p owns changes.
Others(p) ==
  /\ IF p = "intent" THEN TRUE ELSE UNCHANGED intentVars
  /\ IF p = "reply" THEN TRUE ELSE UNCHANGED replyVars
  /\ IF p = "edit" THEN TRUE ELSE UNCHANGED editVars
  /\ IF p = "storage" THEN TRUE ELSE UNCHANGED storageVars
  /\ IF p = "file" THEN TRUE ELSE UNCHANGED fileVars

\* PartsInit and the rest; where a part may begin in several ways it does when it moves.
MCInit ==
  /\ part \in Parts
  /\ Panel!Init /\ (part # "panel" => light = "look")
  /\ Wifi!Init /\ (part # "wifi" => wifiFile = "missing" /\ wifiToken = FALSE)
  /\ Gateway!Init /\ (part # "nodes" => id = CHOOSE i \in NodeIds : TRUE)
  /\ Client!Init
  /\ Sessions!Init /\ (part # "sessions" => sesChat = "a")
  /\ Settings!Init
  /\ Capture!Init /\ (part # "capture" => pid = 1 /\ take = 1)
  /\ Intent!Init /\ (part # "intent" => low = 18)
  /\ Channel!Init
  /\ Wakeup!Init
  /\ Asr!Init
  /\ Tts!Init
  /\ Inbox!Init /\ (part # "feishu" => self = "self" /\ inboxMade = [m \in DOMAIN Mail |-> 1])
  /\ Weixin!Init
  /\ Router!Init /\ (part # "router" => proxy = "none")
  /\ Mcp!Init
  /\ Tls!Init
  /\ History!Init /\ (part # "history" => demo = FALSE /\ setting = Default /\ last = 0)
  /\ Reply!Init /\ (part # "reply" => reading = CHOOSE r \in Measured : TRUE)
  /\ Skills!Init /\ (part # "skills" => full = FALSE)
  /\ Display!Init
  /\ Edit!Init /\ (part # "edit" => sentence = CHOOSE s \in Edits : TRUE)
  /\ Mqtt!Init
  /\ Day!Init /\ (part # "storage" => dayNow = 0)
  /\ Init
  /\ Life!Init
MCNext ==
  \/ /\ part \notin Rest
     /\ PartsNext /\ Others("none")
  \/ /\ part \in Rest
     /\ UNCHANGED part /\ OthersStay("none") /\ Others(part)
     /\ \/ part = "intent" /\ Intent!Next
        \/ part = "reply" /\ Reply!Next
        \/ part = "edit" /\ Edit!Next
        \/ part = "storage" /\ Day!Next
        \/ part = "file" /\ Next
MCSpec == MCInit /\ [][MCNext]_<<part, own>>

\* Of the threads that were told to stop only those that are waited for matter: that
\* another is still there is asked by nothing but its own end.
lifeView == <<mainPc, shutdown, runs, alive \cap (runs \cup Life!Awaited), watch, cli, wish, joining,
              credentials, radio, mainCommands, restarts, mixed, tardy>>
\* What a part that does not move holds never changes: a state is known by the rest.
MCView == CASE part = "panel" /\ ~Panel!Init -> <<part, panelVars>>
            [] part = "wifi" /\ ~Wifi!Init -> <<part, wifiVars>>
            [] part = "nodes" /\ ~Gateway!Init -> <<part, nodesVars>>
            [] part = "client" /\ ~Client!Init -> <<part, clientVars>>
            [] part = "sessions" /\ ~Sessions!Init -> <<part, sessionsVars>>
            [] part = "settings" /\ ~Settings!Init -> <<part, settingsVars>>
            [] part = "capture" /\ ~Capture!Init -> <<part, captureVars>>
            [] part = "intent" /\ ~Intent!Init -> <<part, intentVars>>
            [] part = "channel" /\ ~Channel!Init -> <<part, channelVars>>
            [] part = "wakeup" /\ ~Wakeup!Init -> <<part, wakeupVars>>
            [] part = "asr" /\ ~Asr!Init -> <<part, asrVars>>
            [] part = "tts" /\ ~Tts!Init -> <<part, ttsVars>>
            [] part = "feishu" /\ ~Inbox!Init -> <<part, feishuVars>>
            [] part = "weixin" /\ ~Weixin!Init -> <<part, weixinVars>>
            [] part = "router" /\ ~Router!Init -> <<part, routerVars>>
            [] part = "mcp" /\ ~Mcp!Init -> <<part, mcpVars>>
            [] part = "tls" /\ ~Tls!Init -> <<part, tlsVars>>
            [] part = "history" /\ ~History!Init -> <<part, historyVars>>
            [] part = "reply" /\ ~Reply!Init -> <<part, replyVars>>
            [] part = "skills" /\ ~Skills!Init -> <<part, skillsVars>>
            [] part = "display" /\ ~Display!Init -> <<part, displayVars>>
            [] part = "edit" /\ ~Edit!Init -> <<part, editVars>>
            [] part = "mqtt" /\ ~Mqtt!Init -> <<part, mqttVars>>
            [] part = "storage" /\ ~Day!Init -> <<part, storageVars>>
            [] part = "file" /\ ~Init -> <<part, fileVars>>
            [] part = "main" /\ ~Life!Init -> <<part, lifeView>>
            [] OTHER -> <<part, own>>

-----------------------------------------------------------------------------
(* What all of them promise, and the parts that are only checked.          *)

\* Each part keeps its variables within their types and its tables within their
\* sizes.
TypesHold ==
  /\ part = "panel" => Panel!TypeOK
  /\ part = "wifi" => Wifi!TypeOK
  /\ part = "nodes" => Gateway!TypeOK
  /\ part = "client" => Client!TypeOK
  /\ part = "sessions" => Sessions!TypeOK
  /\ part = "settings" => Settings!TypeOK
  /\ part = "capture" => Capture!TypeOK
  /\ part = "intent" => Intent!TypeOK
  /\ part = "channel" => Channel!TypeOK
  /\ part = "wakeup" => Wakeup!TypeOK
  /\ part = "asr" => Asr!TypeOK
  /\ part = "tts" => Tts!TypeOK
  /\ part = "feishu" => Inbox!TypeOK
  /\ part = "weixin" => Weixin!TypeOK
  /\ part = "router" => Router!TypeOK
  /\ part = "mcp" => Mcp!TypeOK
  /\ part = "tls" => Tls!TypeOK
  /\ part = "history" => History!TypeOK
  /\ part = "reply" => Reply!TypeOK
  /\ part = "skills" => Skills!TypeOK
  /\ part = "display" => Display!TypeOK
  /\ part = "edit" => Edit!TypeOK
  /\ part = "mqtt" => Mqtt!TypeOK
  /\ part = "storage" => Day!TypeOK
  /\ part = "main" => Life!TypeOK
  /\ part = "file" => TypeOK

\* What is said or tapped is what is set and kept, and what is measured is what
\* is said: thresholds and slots of the schedule by voice, the completion of an
\* item, and the spoken answers (mimo_integration.c:1197-1381, agent_loop.c:344-659,
\* routine_manager_main.c:936-942, voice_reply.c:90-638).
WordsMeanIt ==
  /\ Intent!HeardIsSet
  /\ [](part = "reply" => Reply!HeardIsMeasured)
  /\ Edit!SaidIsSaved
  /\ [](part = "storage" => Day!CompletionIsSaved)
=============================================================================
