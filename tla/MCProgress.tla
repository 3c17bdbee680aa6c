----------------------------- MODULE MCProgress -----------------------------
(***************************************************************************)
(* The services that must go on, in one model: the choice of a model, the  *)
(* node client, the wake-up service, the recording calls, the Feishu link, *)
(* the panel's server, the Wi-Fi manager and the reader of config.json     *)
(* share no state, so a behaviour of the whole restricted to a part is one *)
(* of that part.  In every behaviour one part moves, chosen in its first   *)
(* state.                                                                  *)
(***************************************************************************)
EXTENDS Integers

VARIABLES part,
  llmSlots, profile, proxy, llmPc, idx, cx, body, called, retried, llmCommands, meddled,
  worker, running, socket, tls, connected, lost, silent, cmd, start, clientCommands,
  wakePc, wakeState, created, stopping, wakeStop, wakeFd, vad, recording, wakePost, clip, frame, spoken,
  mimo, enabled, backend, answer, wakeStarts,
  recState, cap, asr, buf, rec, thr, calls, ready, devices, streams, tts, ttsAbort, speakLock, speakers,
  recStarts, chunks, heard,
  app, linkToken, expired, self, poll, link, linkPost, cuts, posts,
  main, panelStop, panelSlots, backlog, conn, panelFd, promised, sent, path, size, lock, tmp, wifi,
  whole, accepted, light, led,
  file, saving, wifiPc, active, seen, backoff, retry, idle, due, synced, status, joined, addr,
  wifiToken, notified, shown, wifiSaves, drops,
  dir, inode, filePc, fileFd, report, fileSaves, rpc, rsize, rfd, adopted, crashes, crossed

Router == INSTANCE LlmRouter WITH
  slots <- llmSlots, pc <- llmPc, commands <- llmCommands, Slots <- {1, 2}, Services <- {"a", "b"},
  Tiers <- {0}, Recovery <- 3, Debounce <- 1, MaxBackoff <- 2, MaxFails <- 3, MaxCommands <- 1
Client == INSTANCE NodeClient WITH
  commands <- clientCommands, MaxCommands <- 3, MaxSilence <- 2, MaxLost <- 1
Wakeup == INSTANCE VoiceWakeup WITH
  pc <- wakePc, state <- wakeState, stop <- wakeStop, fd <- wakeFd, post <- wakePost,
  starts <- wakeStarts, SpeechFrames <- 2, SilenceFrames <- 2, PostFrames <- 2, Room <- 4,
  MaxStarts <- 2
Channel == INSTANCE VoiceChannel WITH
  state <- recState, starts <- recStarts, Callers <- {"c"}, Speakers <- {1}, MaxStarts <- 2,
  MaxChunks <- 1
Feishu == INSTANCE FeishuLink WITH
  token <- linkToken, post <- linkPost, Apps <- {1, 2}, MaxCuts <- 1, MaxPosts <- 1
\* One client that posts a configuration and one that asks for a file.
Panel == INSTANCE LanPanel WITH
  stop <- panelStop, slots <- panelSlots, fd <- panelFd, MaxWorkers <- 1, Clients <- {"a", "b"},
  Jobs <- [a |-> {"lock"}, b |-> {"open"}], MaxFiles <- 1, Lights <- {}
Wifi == INSTANCE WifiManager WITH
  pc <- wifiPc, token <- wifiToken, saves <- wifiSaves, Configs <- {"typo", "right"},
  Ssid <- [typo |-> "home", right |-> "home"], Works <- {"right"}, Quoted <- {}, BackoffMax <- 2,
  TimeRetry <- 1, TimeResync <- 1, MaxSaves <- 1, MaxDrops <- 1
\* The assistant, that truncates what a power failure left of its first save.
File == INSTANCE ConfigFile WITH
  pc <- filePc, fd <- fileFd, saves <- fileSaves, Writers <- {"agent"}, Kind <- [agent |-> "agent"],
  Tmp <- [agent |-> "config.json.ai-agent.tmp"], Config <- "config.json", Blocks <- [agent |-> 1],
  MaxBlocks <- 1, IoErrors <- TRUE, MaxSaves <- [agent |-> 2], MaxCrashes <- 1

Parts == {"router", "client", "wakeup", "channel", "feishu", "panel", "wifi", "file"}
routerVars == <<llmSlots, profile, proxy, llmPc, idx, cx, body, called, retried, llmCommands, meddled>>
clientVars == <<worker, running, socket, tls, connected, lost, silent, cmd, start, clientCommands>>
wakeupVars == <<wakePc, wakeState, created, stopping, wakeStop, wakeFd, vad, recording, wakePost, clip,
                frame, spoken, mimo, enabled, backend, answer, wakeStarts>>
channelVars == <<recState, cap, asr, buf, rec, thr, calls, ready, devices, streams, tts, ttsAbort,
                 speakLock, speakers, recStarts, chunks, heard>>
feishuVars == <<app, linkToken, expired, self, poll, link, linkPost, cuts, posts>>
panelVars == <<main, panelStop, panelSlots, backlog, conn, panelFd, promised, sent, path, size, lock,
               tmp, wifi, whole, accepted, light, led>>
wifiVars == <<file, saving, wifiPc, active, seen, backoff, retry, idle, due, synced, status, joined,
              addr, wifiToken, notified, shown, wifiSaves, drops>>
fileVars == <<dir, inode, filePc, fileFd, report, fileSaves, rpc, rsize, rfd, adopted, crashes, crossed>>
own == <<routerVars, clientVars, wakeupVars, channelVars, feishuVars, panelVars, wifiVars, fileVars>>
\* Only what p owns changes.
Others(p) ==
  /\ IF p = "router" THEN TRUE ELSE UNCHANGED routerVars
  /\ IF p = "client" THEN TRUE ELSE UNCHANGED clientVars
  /\ IF p = "wakeup" THEN TRUE ELSE UNCHANGED wakeupVars
  /\ IF p = "channel" THEN TRUE ELSE UNCHANGED channelVars
  /\ IF p = "feishu" THEN TRUE ELSE UNCHANGED feishuVars
  /\ IF p = "panel" THEN TRUE ELSE UNCHANGED panelVars
  /\ IF p = "wifi" THEN TRUE ELSE UNCHANGED wifiVars
  /\ IF p = "file" THEN TRUE ELSE UNCHANGED fileVars

\* Where a part may begin in several ways it does when it moves.
MCInit ==
  /\ part \in Parts
  /\ Router!Init /\ (part # "router" => proxy = "none")
  /\ Client!Init
  /\ Wakeup!Init
  /\ Channel!Init
  /\ Feishu!Init /\ (part # "feishu" => app = 0)
  /\ Panel!Init /\ (part # "panel" => light = "look")
  /\ Wifi!Init /\ (part # "wifi" => file = "missing" /\ wifiToken = FALSE)
  /\ File!Init
MCNext ==
  /\ UNCHANGED part /\ Others(part)
  /\ \/ part = "router" /\ Router!Next
     \/ part = "client" /\ Client!Next
     \/ part = "wakeup" /\ Wakeup!Next
     \/ part = "channel" /\ Channel!Next
     \/ part = "feishu" /\ Feishu!Next
     \/ part = "panel" /\ Panel!Next
     \/ part = "wifi" /\ Wifi!Next
     \/ part = "file" /\ File!Next

\* One of the fairness conditions of each part, of which only that of the part that moves matters.
Of(p, A) == part = p /\ A /\ Others(p)
Weak1 ==
  \/ Of("router", Router!Agent)
  \/ Of("client", Client!Worker)
  \/ Of("wakeup", Wakeup!Thread)
  \/ Of("channel", Channel!Caller("c"))
  \/ Of("feishu", Feishu!Check \/ Feishu!Leave)
  \/ Of("panel", Panel!Main)
  \/ Of("wifi", Wifi!Manage)
  \/ Of("file", File!Reader)
Weak2 ==
  \/ Of("router", Router!Tick)
  \/ Of("client", Client!Commanded)
  \/ Of("wakeup", Wakeup!Joined)
  \/ Of("channel", Channel!Recording(1))
  \/ Of("feishu", Feishu!Refresh)
  \/ Of("panel", Panel!Put)
  \/ Of("wifi", Wifi!Timer)
  \/ Of("file", filePc["agent"] # "idle" /\ File!Writer("agent"))
Weak3 ==
  \/ Of("channel", Channel!Recording(2))
  \/ Of("feishu", Feishu!Endpoint)
  \/ Of("panel", Panel!Off)
  \/ Of("wifi", Wifi!ScreenSaved)
Weak4 ==
  \/ Of("channel", Channel!Unregister(1))
  \/ Of("feishu", Feishu!Connect)
  \/ Of("panel", Panel!Work("a"))
Weak5 ==
  \/ Of("channel", Channel!Close(1))
  \/ Of("feishu", Feishu!Expire)
  \/ Of("panel", Panel!Work("b"))
Weak6 ==
  \/ Of("channel", Channel!Register(1))
Strong1 ==
  \/ Of("router", Router!Answered /\ llmPc' = "idle")
  \/ Of("channel", Channel!Silenced("c"))
  \/ Of("feishu", Feishu!Refresh /\ poll'.pc = "endpoint")
  \/ Of("panel", Panel!Take("a"))
  \/ Of("wifi", Wifi!Join /\ joined' # Wifi!None)
Strong2 ==
  \/ Of("channel", Channel!Turn(1))
  \/ Of("feishu", Feishu!Endpoint /\ poll'.pc = "connect")
  \/ Of("panel", Panel!Take("b"))
  \/ Of("wifi", Wifi!Dhcp /\ addr' # Wifi!None)
Strong3 ==
  \/ Of("feishu", Feishu!Connect /\ link'.connected)
Strong4 ==
  \/ Of("feishu", Feishu!ReadFails)
MCSpec ==
  /\ MCInit /\ [][MCNext]_<<part, own>>
  /\ WF_own(Weak1) /\ WF_own(Weak2) /\ WF_own(Weak3) /\ WF_own(Weak4) /\ WF_own(Weak5) /\ WF_own(Weak6)
  /\ SF_own(Strong1) /\ SF_own(Strong2) /\ SF_own(Strong3) /\ SF_own(Strong4)

\* Whoever waits for a thread gets it back, wherever that thread is: in a
\* connection attempt, a read, a sleep, a recording, a request of a client
\* (node_client.c:773-850, voice_wakeup_service.c:480-502, voice_channel.c:700-830,
\* lan_panel_main.c:2165-2247).
ThreadsReturn ==
  Client!CommandsEnd /\ Wakeup!StopReturns /\ Channel!CallsReturn /\ Panel!StopEnds
\* After failures the service is there again: a model is asked, the Feishu link
\* is up with the last credentials, a right Wi-Fi configuration is joined and
\* shown, the manager uses the config.json there is (llm_router.c:371-449,
\* feishu_bot.c:142-420, wifi_manager_main.c:462-565, routine_config.c:166-196).
WorkResumes ==
  /\ part = "router" => Router!KeepsTrying
  /\ part = "feishu" => Feishu!LinkComesBack
  /\ part = "wifi" => Wifi!RightIsJoined /\ Wifi!ScreenFollows
  /\ part = "file" => File!LatestIsRead
=============================================================================
