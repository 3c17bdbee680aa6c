---------------------------- MODULE ServiceParts -----------------------------
(***************************************************************************)
(* The parts around the schedule and the agent that theorems are about,    *)
(* in one model: they share no state, so a behaviour of the system         *)
(* restricted to a part is a behaviour of that part.  In every behaviour   *)
(* one part moves, chosen in its first state, or none of these; a property *)
(* is about the parts that keep the same promise.  The variables are       *)
(* listed part by part.  The constants of the parts are constants here     *)
(* too, with what the code guarantees of them; MCServices adds the parts   *)
(* that are checked only, and Services.cfg has the values.                 *)
(***************************************************************************)
EXTENDS Integers, Sequences, FiniteSets

CONSTANTS
  MaxWorkers, Clients, Jobs, MaxFiles, Lights,                               \* LanPanel
  Configs, Ssid, Known, Quoted, BackoffMax, TimeRetry, TimeResync, MaxWifiSaves, MaxDrops,
  Conns, Nodes, NodeIds, MaxNodes, NodeCallers, NodeSlots, MaxCalls,         \* NodeLink
  Chats, MaxMsgs, Every, MaxSesLines, MaxClears, MaxFileCrashes, MaxFileFaults,  \* AgentFiles
  SetKeys, MaxSets,
  Pids, TakeNumbers, Samples, MaxRecords, MaxKwsCuts,                        \* KwsCapture
  SpeechFrames, SilenceFrames, PostFrames, ClipRoom, MaxWakeups,             \* VoiceWakeup
  AsrUsers, AsrTexts, MaxResponses, MaxAsrAhead, MaxSessions,                \* VolcAsr
  Pieces, MaxTimeouts, MaxTtsAhead, MaxOthers, MaxStalls,                    \* VolcTts
  Message, InboxRing, RateSlots, RateMax, RateWindow, StaleAfter, ContentWindow, MaxInboxNow, MaxEvents,
  PollRing, PollLimit, MaxMessages, MaxLogins, MaxPolls,                     \* WeixinPoll
  LlmSlots, Services, Tiers, Recovery, Debounce, MaxBackoff, MaxFails, MaxLlmCommands,
  McpNames, Urls, Offers, MaxServers, MaxTools, MaxMcpCommands,              \* McpClient
  TlsThreads, Hosts, TlsSlots, Raws, MaxRequests,                            \* TlsPool
  Intervals, Default, Points, CurveWindow, Rebase, DemoStep, MaxCurveNow, MaxCurveLines,
  Table, Managed, Shipped, Retired, Pushed, SkillSyncs, SkillRoom, MaxVersion, MaxSkillCuts, MaxSkillShorts,
  NetworksGiven, MayFail, MaxMainCommands, MaxRestarts,                      \* AgentMain
  MaxClientCommands, MaxSilence, MaxLost,                                    \* NodeClient
  Recorders, Speakers, MaxRecordings, MaxChunks,                             \* VoiceChannel
  ChatSlots, MaxChatSent, MaxInits,                                          \* LvglChat
  MaxMqttStarts, MaxSockets, MaxMails                                        \* MqttChannel

\* load_light_config takes nothing else from light.cfg, and a
\* lux is what the sensor measured (lan_panel_main.c:1755-1788, :1790-1842).
ASSUME LightsAssumption ==
  \A l \in Lights : l.lux \in Nat /\ l.threshold \in Nat \ {0} /\ l.levels \in Nat \ {0, 1}
\* The connections there will be are counted, none is nobody, and a request leads
\* to a file, the lock for a configuration or the one for an export
\* (lan_panel_main.c:1061-1660).
ASSUME ClientsAssumption ==
  /\ IsFiniteSet(Clients) /\ "none" \notin Clients /\ MaxWorkers \in Nat
  /\ Jobs \in [Clients -> SUBSET {"open", "lock", "mutex"}]
\* An interval is in 5..3600 seconds, and ROUTINE_TREND_POINTS and
\* ROUTINE_CHART_POINTS are sizes (routine_model.h:15-29, routine_config.c:243).
ASSUME CurveAssumption ==
  /\ Intervals \subseteq Nat \ {0} /\ Default \in Intervals
  /\ Points \in Nat \ {0} /\ CurveWindow \in Nat
\* A thread is no slot of s_pool and none of them is nobody; a host has a name
\* (vela_tls.c:155-213).
ASSUME TlsAssumption ==
  /\ TlsSlots \subseteq Nat \ {0} /\ TlsSlots \cap TlsThreads = {} /\ 0 \notin TlsThreads
  /\ "none" \notin Hosts

\* An id is one node's name, and 0 is no descriptor of a client (node_manager.c:237-290).
ASSUME NodesAssumption == NodeIds \subseteq [Conns -> Nodes] /\ 0 \notin Conns
\* The slots are numbered, a tier is eco, standard or premium, the waits and counts
\* are natural numbers, and a service has a name (llm_router.h:25-60).
ASSUME RouterAssumption ==
  /\ LlmSlots \subseteq Nat \ {0} /\ 1 \in LlmSlots /\ "none" \notin Services
  /\ Tiers \subseteq 0..3 /\ {Recovery, MaxBackoff, MaxFails} \subseteq Nat
\* A server lists a tool once, under some name (mcp_client.c:376-424).
ASSUME McpAssumption ==
  /\ \A url \in Urls : /\ Offers[url] \in Seq(STRING)
                       /\ \A i, j \in DOMAIN Offers[url] : Offers[url][i] = Offers[url][j] => i = j
  /\ {MaxServers, MaxTools} \subseteq Nat

\* A ring holds AGENT_SESSION_MAX_MSGS lines (agent_config.h:195).
ASSUME ChatsAssumption == MaxMsgs \in Nat \ {0}
\* A configuration names a network, and the waits are bounded by
\* WIFI_MANAGER_BACKOFF_MAX_SEC (wifi_manager_main.c:31).
ASSUME WifiAssumption == "none" \notin Configs /\ BackoffMax \in Nat \ {0}
\* The buffer of a recording has room for a number of frames (voice_wakeup_service.c:241-250).
ASSUME WakeupAssumption == ClipRoom \in Nat
\* A text is a sequence of words; the frames of a text and the timeouts that end it
\* are counted (volc_tts_ws.c:500-640).
ASSUME SpeechAssumption ==
  /\ \A t \in AsrTexts : t \in Seq(STRING)
  /\ {Pieces, MaxTimeouts} \subseteq Nat
\* DEDUP_RING_SIZE, BOT_RATE_SLOTS and BOT_RATE_WINDOW_S are sizes, at least one message
\* of a bot is let through, and a message is in a chat with an id (feishu_recv.c:29-60,
\* :880-902).
ASSUME InboxAssumption ==
  /\ IsFiniteSet(DOMAIN Message) /\ \A m \in DOMAIN Message : Message[m].chat # ""
  /\ {InboxRing, RateSlots, RateWindow} \subseteq Nat /\ RateMax \in Nat \ {0}
\* The ring has a size, and messages are counted (weixin_channel.c:63, :83).
ASSUME PollAssumption == {PollRing, MaxMessages} \subseteq Nat
\* The table is a list of rows; the map and a version are counted (skill_sync.c:47-57).
ASSUME SkillsAssumption ==
  Table \in Seq({Table[i] : i \in DOMAIN Table}) /\ {SkillRoom, MaxVersion} \subseteq Nat
\* set_wifi takes a name and a key, two words of the line (nsh_commands.c:79-90, :332-344).
ASSUME LifeAssumption ==
  \A g \in NetworksGiven : g = [ssid |-> g.ssid, psk |-> g.psk] /\ g.ssid # "" /\ g.psk # ""

\* Recordings and threads of MQTT are counted, 0 is none (a null pointer,
\* voice_channel.c:209-217), and CHAT_HISTORY_MAX is the size of a ring (lvgl_ui_channel.c:58, :77).
ASSUME CountsAssumption == {MaxMqttStarts, MaxRecordings} \subseteq Nat /\ ChatSlots \in Nat \ {0}

VARIABLES part,
  panelMain, panelStop, panelSlots, backlog, conn, panelFd, promised, panelSent, panelPath,
  panelSize, panelLock, panelTmp, wifi, whole, accepted, light, led,
  wifiFile, saving, wifiPc, active, wifiSeen, backoff, retry, idle, due, synced, wifiStatus,
  joined, addr, wifiToken, notified, wifiShown, wifiSaves, drops,
  nodeTable, nodeAt, id, latest, nodeJson, dirty, mtx, nodeRead, nodeSlot, nodePc, mine, call,
  to, nodeAsked, found, nodeCalls,
  sesThere, sesLines, sesTmp, sesPc, sesChat, sesOrphan, sesCount, sesSaid, sesConfig, sesLock,
  sesAt, sesCopy, sesAsked, sesWanted, sesClears, sesCrashes, sesSets, sesFaults,
  setThere, setLines, setTmp, setPc, setChat, setOrphan, setCount, setSaid, setConfig, setLock,
  setAt, setCopy, setAsked, setWanted, setClears, setCrashes, setSets, setFaults,
  pcm, kwsJson, pcmPart, jsonPart, kwsPc, pid, take, completed, kwsRec, cancelled, records,
  kwsCuts, kwsSaved,
  wakePc, wakeState, created, stopping, wakeStop, wakeFd, vad, wakeRecording, post, clip, frame,
  spoken, mimo, enabled, backend, answer, wakeStarts,
  confirmed, asrUser,
  ttsPc, ttsRet, played, timeouts, ttsTold, wire, ttsMade, over, others, stalls, quiet, aligned,
  inboxNow, inboxMade, events, messages, texts, rate, self, inboxOut,
  task, wxRunning, wxToken, wxSaved, cursor, ring, valid, written, wxOut, refused, wxStarts,
  llmSlots, profile, proxy, llmPc, idx, cx, body, called, retried, llmCommands, meddled,
  servers, tools, mcpUser, agent, mcpCommands,
  pool, ctx, raw, tlsThr, tlsAsked, requests,
  demo, histCurve, last, setting, used, histLines, torn, done, histCopy, histStart, follow,
  full, skillTable, files, versions, booting, todo, skillOpen, skillPc, page, map, skillSeen,
  skillBad, skillCuts, skillShorts, spoilt, skillsCrossed,
  mainPc, shutdown, runs, alive, watch, cli, wish, joining, credentials, radio, mainCommands, restarts,
  mixed, tardy,
  worker, clientRunning, clientSocket, tls, connected, lost, silent, cmd, clientStart,
  clientCommands,
  recState, cap, asr, buf, recRec, recThr, recCalls, ready, devices, streams, tts, ttsAbort,
  speakLock, speakers, recStarts, chunks, recHeard,
  initialized, lvglRunning, lvglRecording, visible, screen, history, live, bubbles, lvglShown,
  lvglLock, sem, queue, posts, ui, lvglSender, lvglMain, mic, lvglSent, inits, late, lvglBad,
  mqttRunning, mqttFd, mqttSocket, error, queued, unacked, acks, opened, mqttOpen, listens, mqttPc, mqttMain,
  mqttStarts, mails, taken, replies, mqttTold

Panel == INSTANCE LanPanel WITH
  main <- panelMain, stop <- panelStop, slots <- panelSlots, fd <- panelFd, sent <- panelSent,
  path <- panelPath, size <- panelSize, lock <- panelLock, tmp <- panelTmp
Wifi == INSTANCE WifiManager WITH
  file <- wifiFile, pc <- wifiPc, seen <- wifiSeen, status <- wifiStatus, token <- wifiToken,
  shown <- wifiShown, saves <- wifiSaves, Works <- Known, MaxSaves <- MaxWifiSaves
Gateway == INSTANCE NodeLink WITH
  table <- nodeTable, at <- nodeAt, json <- nodeJson, read <- nodeRead, slot <- nodeSlot, pc <- nodePc,
  asked <- nodeAsked, calls <- nodeCalls, Ids <- NodeIds, Callers <- NodeCallers, Slots <- NodeSlots
Sessions == INSTANCE AgentFiles WITH
  there <- sesThere, lines <- sesLines, tmp <- sesTmp, pc <- sesPc, chat <- sesChat,
  orphan <- sesOrphan, count <- sesCount, said <- sesSaid, config <- sesConfig, lock <- sesLock,
  at <- sesAt, copy <- sesCopy, wanted <- sesWanted, clears <- sesClears, crashes <- sesCrashes,
  sets <- sesSets, asked <- sesAsked, faults <- sesFaults, Keys <- {"k"}, MaxLines <- MaxSesLines,
  MaxCrashes <- MaxFileCrashes, MaxFaults <- MaxFileFaults, MaxSets <- 0
Settings == INSTANCE AgentFiles WITH
  there <- setThere, lines <- setLines, tmp <- setTmp, pc <- setPc, chat <- setChat,
  orphan <- setOrphan, count <- setCount, said <- setSaid, config <- setConfig, lock <- setLock,
  at <- setAt, copy <- setCopy, wanted <- setWanted, clears <- setClears, crashes <- setCrashes,
  sets <- setSets, asked <- setAsked, faults <- setFaults, Chats <- {"a"}, Keys <- SetKeys, MaxLines <- 0,
  MaxClears <- 0, MaxCrashes <- MaxFileCrashes, MaxFaults <- MaxFileFaults
Capture == INSTANCE KwsCapture WITH
  json <- kwsJson, pc <- kwsPc, rec <- kwsRec, cuts <- kwsCuts, saved <- kwsSaved, Takes <- TakeNumbers, Count <- Samples,
  MaxCuts <- MaxKwsCuts
Wakeup == INSTANCE VoiceWakeup WITH
  pc <- wakePc, state <- wakeState, stop <- wakeStop, fd <- wakeFd, recording <- wakeRecording,
  starts <- wakeStarts, Room <- ClipRoom, MaxStarts <- MaxWakeups
Asr == INSTANCE VolcAsr WITH
  user <- asrUser, Users <- AsrUsers, Texts <- AsrTexts, MaxAhead <- MaxAsrAhead
Tts == INSTANCE VolcTts WITH
  pc <- ttsPc, ret <- ttsRet, told <- ttsTold, made <- ttsMade, MaxAhead <- MaxTtsAhead
Inbox == INSTANCE FeishuInbox WITH
  now <- inboxNow, made <- inboxMade, out <- inboxOut, Ring <- InboxRing, Window <- ContentWindow,
  MaxNow <- MaxInboxNow
Weixin == INSTANCE WeixinPoll WITH
  running <- wxRunning, token <- wxToken, saved <- wxSaved, out <- wxOut, starts <- wxStarts,
  Ring <- PollRing, Limit <- PollLimit, MaxStarts <- MaxPolls
Router == INSTANCE LlmRouter WITH
  slots <- llmSlots, pc <- llmPc, commands <- llmCommands, Slots <- LlmSlots,
  MaxCommands <- MaxLlmCommands
Mcp == INSTANCE McpClient WITH
  user <- mcpUser, commands <- mcpCommands, Users <- {1}, Names <- McpNames, MaxCommands <- MaxMcpCommands
Tls == INSTANCE TlsPool WITH
  thr <- tlsThr, asked <- tlsAsked, Threads <- TlsThreads, Slots <- TlsSlots
History == INSTANCE RoutineHistory WITH
  curve <- histCurve, lines <- histLines, copy <- histCopy, start <- histStart,
  Window <- CurveWindow, MaxNow <- MaxCurveNow, MaxLines <- MaxCurveLines
Skills == INSTANCE SkillSync WITH
  table <- skillTable, open <- skillOpen, pc <- skillPc, seen <- skillSeen, bad <- skillBad,
  cuts <- skillCuts, shorts <- skillShorts, crossed <- skillsCrossed, Syncs <- SkillSyncs, Room <- SkillRoom,
  MaxCuts <- MaxSkillCuts, MaxShorts <- MaxSkillShorts
Life == INSTANCE AgentMain WITH
  main <- mainPc, pc <- joining, saved <- credentials, commands <- mainCommands, cuts <- restarts,
  meddled <- mixed, Given <- NetworksGiven, Failing <- MayFail,
  MaxCommands <- MaxMainCommands, MaxCuts <- MaxRestarts
Client == INSTANCE NodeClient WITH
  running <- clientRunning, socket <- clientSocket, start <- clientStart, commands <- clientCommands,
  MaxCommands <- MaxClientCommands
Channel == INSTANCE VoiceChannel WITH
  state <- recState, rec <- recRec, thr <- recThr, calls <- recCalls, starts <- recStarts,
  heard <- recHeard, Callers <- Recorders, MaxStarts <- MaxRecordings
Display == INSTANCE LvglChat WITH
  running <- lvglRunning, recording <- lvglRecording, shown <- lvglShown, lock <- lvglLock,
  sender <- lvglSender, main <- lvglMain, sent <- lvglSent, bad <- lvglBad, Slots <- ChatSlots,
  MaxSent <- MaxChatSent
Mqtt == INSTANCE MqttChannel WITH
  running <- mqttRunning, fd <- mqttFd, socket <- mqttSocket, open <- mqttOpen, pc <- mqttPc,
  main <- mqttMain, starts <- mqttStarts, told <- mqttTold, MaxStarts <- MaxMqttStarts

panelVars == <<panelMain, panelStop, panelSlots, backlog, conn, panelFd, promised, panelSent, panelPath,
               panelSize, panelLock, panelTmp, wifi, whole, accepted, light, led>>
wifiVars == <<wifiFile, saving, wifiPc, active, wifiSeen, backoff, retry, idle, due, synced, wifiStatus,
              joined, addr, wifiToken, notified, wifiShown, wifiSaves, drops>>
nodesVars == <<nodeTable, nodeAt, id, latest, nodeJson, dirty, mtx, nodeRead, nodeSlot, nodePc, mine,
               call, to, nodeAsked, found, nodeCalls>>
sessionsVars == <<sesThere, sesLines, sesTmp, sesPc, sesChat, sesOrphan, sesCount, sesSaid, sesConfig,
                  sesLock, sesAt, sesCopy, sesAsked, sesWanted, sesClears, sesCrashes, sesSets, sesFaults>>
settingsVars == <<setThere, setLines, setTmp, setPc, setChat, setOrphan, setCount, setSaid, setConfig,
                  setLock, setAt, setCopy, setAsked, setWanted, setClears, setCrashes, setSets, setFaults>>
captureVars == <<pcm, kwsJson, pcmPart, jsonPart, kwsPc, pid, take, completed, kwsRec, cancelled,
                 records, kwsCuts, kwsSaved>>
wakeupVars == <<wakePc, wakeState, created, stopping, wakeStop, wakeFd, vad, wakeRecording, post, clip,
                frame, spoken, mimo, enabled, backend, answer, wakeStarts>>
asrVars == <<confirmed, asrUser>>
ttsVars == <<ttsPc, ttsRet, played, timeouts, ttsTold, wire, ttsMade, over, others, stalls, quiet,
             aligned>>
feishuVars == <<inboxNow, inboxMade, events, messages, texts, rate, self, inboxOut>>
weixinVars == <<task, wxRunning, wxToken, wxSaved, cursor, ring, valid, written, wxOut, refused,
                wxStarts>>
routerVars == <<llmSlots, profile, proxy, llmPc, idx, cx, body, called, retried, llmCommands, meddled>>
mcpVars == <<servers, tools, mcpUser, agent, mcpCommands>>
tlsVars == <<pool, ctx, raw, tlsThr, tlsAsked, requests>>
historyVars == <<demo, histCurve, last, setting, used, histLines, torn, done, histCopy, histStart,
                 follow>>
skillsVars == <<full, skillTable, files, versions, booting, todo, skillOpen, skillPc, page, map,
                skillSeen, skillBad, skillCuts, skillShorts, spoilt, skillsCrossed>>
mainVars == <<mainPc, shutdown, runs, alive, watch, cli, wish, joining, credentials, radio,
              mainCommands, restarts, mixed, tardy>>
clientVars == <<worker, clientRunning, clientSocket, tls, connected, lost, silent, cmd, clientStart,
                clientCommands>>
channelVars == <<recState, cap, asr, buf, recRec, recThr, recCalls, ready, devices, streams, tts,
                 ttsAbort, speakLock, speakers, recStarts, chunks, recHeard>>
displayVars == <<initialized, lvglRunning, lvglRecording, visible, screen, history, live, bubbles,
                 lvglShown, lvglLock, sem, queue, posts, ui, lvglSender, lvglMain, mic, lvglSent, inits,
                 late, lvglBad>>
mqttVars == <<mqttRunning, mqttFd, mqttSocket, error, queued, unacked, acks, opened, mqttOpen, listens, mqttPc,
              mqttMain, mqttStarts, mails, taken, replies, mqttTold>>
moving == <<panelVars, wifiVars, nodesVars, sessionsVars, settingsVars, captureVars, wakeupVars,
           asrVars, ttsVars, feishuVars, weixinVars, routerVars, mcpVars, tlsVars, historyVars,
           skillsVars, mainVars, clientVars, channelVars, displayVars, mqttVars>>
\* Of these parts, only what p owns changes.
OthersStay(p) ==
  /\ IF p = "panel" THEN TRUE ELSE UNCHANGED panelVars
  /\ IF p = "wifi" THEN TRUE ELSE UNCHANGED wifiVars
  /\ IF p = "nodes" THEN TRUE ELSE UNCHANGED nodesVars
  /\ IF p = "sessions" THEN TRUE ELSE UNCHANGED sessionsVars
  /\ IF p = "settings" THEN TRUE ELSE UNCHANGED settingsVars
  /\ IF p = "capture" THEN TRUE ELSE UNCHANGED captureVars
  /\ IF p = "wakeup" THEN TRUE ELSE UNCHANGED wakeupVars
  /\ IF p = "asr" THEN TRUE ELSE UNCHANGED asrVars
  /\ IF p = "tts" THEN TRUE ELSE UNCHANGED ttsVars
  /\ IF p = "feishu" THEN TRUE ELSE UNCHANGED feishuVars
  /\ IF p = "weixin" THEN TRUE ELSE UNCHANGED weixinVars
  /\ IF p = "router" THEN TRUE ELSE UNCHANGED routerVars
  /\ IF p = "mcp" THEN TRUE ELSE UNCHANGED mcpVars
  /\ IF p = "tls" THEN TRUE ELSE UNCHANGED tlsVars
  /\ IF p = "history" THEN TRUE ELSE UNCHANGED historyVars
  /\ IF p = "skills" THEN TRUE ELSE UNCHANGED skillsVars
  /\ IF p = "main" THEN TRUE ELSE UNCHANGED mainVars
  /\ IF p = "client" THEN TRUE ELSE UNCHANGED clientVars
  /\ IF p = "channel" THEN TRUE ELSE UNCHANGED channelVars
  /\ IF p = "display" THEN TRUE ELSE UNCHANGED displayVars
  /\ IF p = "mqtt" THEN TRUE ELSE UNCHANGED mqttVars

PartsInit ==
  /\ Panel!Init
  /\ Wifi!Init
  /\ Gateway!Init
  /\ Sessions!Init
  /\ Settings!Init
  /\ Capture!Init
  /\ Wakeup!Init
  /\ Asr!Init
  /\ Tts!Init
  /\ Inbox!Init
  /\ Weixin!Init
  /\ Router!Init
  /\ Mcp!Init
  /\ Tls!Init
  /\ History!Init
  /\ Skills!Init
  /\ Life!Init
  /\ Client!Init
  /\ Channel!Init
  /\ Display!Init
  /\ Mqtt!Init
PartsNext ==
  /\ UNCHANGED part /\ OthersStay(part)
  /\ \/ part = "panel" /\ Panel!Next
     \/ part = "wifi" /\ Wifi!Next
     \/ part = "nodes" /\ Gateway!Next
     \/ part = "sessions" /\ Sessions!Next
     \/ part = "settings" /\ Settings!Next
     \/ part = "capture" /\ Capture!Next
     \/ part = "wakeup" /\ Wakeup!Next
     \/ part = "asr" /\ Asr!Next
     \/ part = "tts" /\ Tts!Next
     \/ part = "feishu" /\ Inbox!Next
     \/ part = "weixin" /\ Weixin!Next
     \/ part = "router" /\ Router!Next
     \/ part = "mcp" /\ Mcp!Next
     \/ part = "tls" /\ Tls!Next
     \/ part = "history" /\ History!Next
     \/ part = "skills" /\ Skills!Next
     \/ part = "main" /\ Life!Next
     \/ part = "client" /\ Client!Next
     \/ part = "channel" /\ Channel!Next
     \/ part = "display" /\ Display!Next
     \/ part = "mqtt" /\ Mqtt!Next
PartsSpec == PartsInit /\ [][PartsNext]_<<part, moving>>

-----------------------------------------------------------------------------
(* What the parts promise, by the kind of the promise.                     *)

\* What is asked goes to whom it is meant for, through reconnections, failovers
\* and tables that change in between (vela_tls.c:159-230, mcp_client.c:496-660,
\* node_manager.c:237-338, agent_loop.c:1346-1405).
OwnAddressee ==
  /\ part = "tls" => Tls!OwnConnection
  /\ part = "mcp" => Mcp!CalledWhereListed
  /\ part = "nodes" => Gateway!ReconnectedIsFound
  /\ part = "router" => Router!ChargedIsCalled
\* What comes in pieces, over a line or from a microphone, is passed on as a whole
\* or not at all, with no piece missing in the middle (lan_http.c:387-463,
\* kws_capture.c:594-738, voice_wakeup_service.c:264-351, volc_asr.c:731-790, volc_tts_ws.c:500-640).
WholeOnly ==
  /\ part = "panel" => Panel!ReplyIsWhole
  /\ part = "capture" => Capture!CorpusIsWhole
  /\ part = "wakeup" => Wakeup!ClipIsWhole /\ Wakeup!PlayedIsWhole
  /\ part = "asr" => Asr!LastIsReturned
  /\ part = "tts" => Tts!StallsAreForgiven
\* What is shared between threads is neither used after it was given up nor lost
\* to everybody: the streams of a recording, the connections and threads of a
\* node and of MQTT, the widgets of the chat, the slots of the panel and of the
\* calls to nodes, the services after quit (voice_channel.c:290-385, node_client.c:466-535,
\* mqtt_channel.c:179-246, lvgl_ui_channel.c:155-179, lan_panel_main.c:1672-1733,
\* node_manager.c:203-224, agent_main.c:711-762).
ResourcesAreHeld ==
  /\ [](part = "channel" => Channel!NoDangling)
  /\ [](part = "mqtt" => Mqtt!LinkIsWhole)
  /\ [](part = "display" => Display!ScreenHolds)
  /\ [](part = "panel" => Panel!SlotsAreKept)
  /\ [](part = "nodes" => Gateway!SlotsComeBack)
  /\ [](part = "main" => Life!NothingIsLeft)
  /\ Client!ReaderIsAlone
\* A message that a service sends again is handled once, and bots do not keep
\* each other busy (feishu_recv.c:90-330, weixin_channel.c:300-420).
HandledOnce ==
  /\ part = "feishu" => Inbox!AnsweredOnce /\ Inbox!BotsAreLimited
  /\ part = "weixin" => Weixin!HandledOnce
\* What somebody was told is kept is on disk: the lines of a chat and the settings
\* two threads change, the Wi-Fi configuration answered with 202, the recorded
\* sample, the network the assistant joined (session_mgr.c:72-241,
\* config_store.c:126-158, lan_panel_main.c:301-366, kws_capture.c:684-948,
\* network_manager.c:806-894).
SavedIsKept ==
  /\ part = "sessions" => Sessions!HistoryIsLatest
  /\ part = "settings" => Settings!SettingsAreKept
  /\ part = "panel" => Panel!AcceptedIsSaved
  /\ part = "capture" => Capture!KeptIsSaved
  /\ part = "main" => Life!SavedIsTold
\* A call that reports success leaves no skill half-written but by a write that was
\* taken for done, until two calls cross (skill_sync.c:203-217 and :307-501).
SyncedUnlessSpoilt == Skills!SyncedUnlessSpoilt
\* The curve has one point for each slot (routine_model.c:207-310).
CurveIsEven == part = "history" => History!CurveIsEven
\* Between two attempts lies the wait that was published (wifi_manager_main.c:489-565).
WaitsAsPublished == Wifi!WaitsAsPublished
\* The LED follows the light and is off when the panel is gone (lan_panel_main.c:1920-2062).
LightIsRight == part = "panel" => Panel!LedIsOff /\ Panel!DutyFalls
=============================================================================
