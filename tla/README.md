# TLA+ for the desktop manager and its assistant

This directory models the programs of the repository that share state with each
other or run threads of their own, checks the models with TLC on small
instances, and proves part of what is checked for every size with TLAPS. Nearly
every component with state of its own has a module; the centre are the audio
service, the schedule, the configuration, the jobs and the assistant's loop.
Source paths below are relative to `src/`.

- [The system](#the-system)
- [Modules and code](#modules-and-code)
- [Runs](#runs)
- [Bounds](#bounds)
- [Fairness](#fairness)
- [Proofs](#proofs)
- [Where code and documents disagree](#where-code-and-documents-disagree)
- [What is not modelled](#what-is-not-modelled)
- [Plan](#plan)

## The system

A desktop device runs four programs on NuttX:

| program | directory | threads | state it keeps |
|---|---|---|---|
| `routine_mgr`, the desktop | `app/routine_manager` | LVGL loop (timers, touch), audio worker, environment thread, Wi-Fi monitor | today's schedule, popups, voice reminders, sensor sample, settings; `schedule.state`, `config.json` |
| `lan_panel`, the web panel | `app/lan_panel` | accept loop and up to four connection workers, a light thread | sessions, worker slots; writes `config.json` and `wifi.conf` |
| `wifi_manager` | `app/wifi_manager` | one loop | connection, back-off; writes the status file the others read |
| `ai_agent`, the assistant | `packages/ai_agent` | agent loop, dispatcher, job thread, channels, network and voice threads | message queues, jobs (`cron.json`), session and memory files, router and cache; writes `config.json` through a tool |

They meet in files and messages. `/data/routine/config.json` (thresholds, history interval,
schedule, voice mode and key, a generation number) is read by the desktop once a
second and replaced by the mode button and the history page of the desktop, by
its voice assistant, by two pages of the panel and by a tool of the assistant,
with no lock between the programs.

The assistant's threads meet in two bounded queues (`core/message_bus.c`):
channels and jobs push into the inbound one, the agent thread takes from it and
pushes answers into the outbound one, from which a dispatch thread hands them to
the channel they are for. The desktop follows the status file of `wifi_manager` and
asks the assistant through the local client.

### Components, what is hard about them, and what makes them correct

**Audio service** (`audio_service.c`). A worker records, recognises and speaks;
the LVGL thread asks, cancels, queues reminders, preempts with warnings, changes
the mode and shuts down. The mutex is held only for short regions and is free
while a device or the network is used. Hard: a cancel that meets the end of an
operation, a retry that puts a reminder back after the lock was released, one
condition variable for three reasons to wake, a display that is redrawn only
when a counter moved. Correct means: a cancellation hits the operation it was
meant for, a reminder is spoken or given up and never duplicated, the display
shows what the service does, nothing waits for ever, and what is said is what was
measured (`voice_reply.c`).

**Schedule, popups, storage and history** (`routine_model.c`,
`routine_manager_main.c`, `routine_ui.c`, `routine_storage.c`). Three items a day
fall due by the minute, are shown, spoken, completed, delayed, carried over
midnight, edited remotely and restored after a restart; a curve of the
temperature grows by slots of time. Hard: the order of tick, answer, edit,
midnight and clock step; popups, voice queue and items name each other by slot
and number; two copies of a growing file. Correct means: each waiting item is
reminded on its minute, an answer ends the reminder it shows, what is spoken can
be answered, completion survives, the curve has one point for each slot.

**Configuration** (`routine_config.c`, `lan_panel_main.c`, `voice_config_api.c`,
`mimo_integration.c`, `tool_routine.c`, `routine_ui.c`). Read, modify, write by
five writers; write, sync, rename under three temporary names of which two are
the same; two of the writers take what they write from a sentence. Correct means:
the file is always a whole document, a save says the truth, the manager ends up
with what is in the file, a sentence sets what it says, and the recording goes to
the cloud only if the configuration asks for it.

**Environment and warnings** (`environment_service.c`, `envmon_*.c`,
`routine_check_temperature_warning`). Three sensors on one bus, each with
failures, back-off, warm-up and ageing readings. Correct means: a label says what
is true of its reading, a sensor comes back, a warning is about a reading that is
recent, is not repeated by a value that wavers, and is not lost to a busy voice.

**Wake-up and training samples** (`voice_wakeup_service.c`, `kws_capture.c`). A
thread cuts speech out of what the microphone gives, while start and stop come
from elsewhere; a batch publishes pairs of files by renaming, through power
failures. Correct means: a clip is whole, the corpus holds no half sample and
none that was kept is missing, stop returns.

**Web panel** (`lan_panel_main.c`, `lan_http.c`). Four workers share a lock of
changes and files that are replaced while they are sent; a signal stops everyone.
Correct means: a reply is as long as it said, a slot comes back, what was answered
with 202 is on disk, the stop ends, the LED is off afterwards.

**Wi-Fi manager** (`app/wifi_manager`, `wifi_status_monitor.c`, `wifi_ui.c`). A
loop associates, asks for an address and the time, backs off, and starts over when
its configuration changes. Correct means: the waits are those it publishes, the
right configuration is joined in the end, and the screen shows it.

**Agent loop and message bus** (`core/agent_loop.c`, `core/message_bus.c`,
`llm/llm_cache.c`, `sdk/velaclaw_client_local.c`). One turn at a time: fast paths,
cache, rounds of model and tools cut short by limits on rounds, repeats and time,
and queues that may be full or shut down at any moment. Correct means: a message
is accepted or refused, answered once and in its turn, and no turn goes on for
ever.

**Start, network and stop of the assistant** (`agent_main.c`,
`infra/network_manager.c`, `channels/nsh_commands.c`). The main thread starts
everything, a watcher joins the saved network and then starts the services of the
cloud, the command line joins networks, resets the configuration and quits. Hard:
the watcher and a command join at once, name and key are two writes, a quit comes
while the watcher is still starting services. Correct means: what the next boot
joins is one network that was given, and what has a stop does not run after it.

**Scheduled jobs** (`infra/cron_service.c`, `tools/tool_cron.c`). A thread fires
jobs while it holds the lock that the agent needs to add and remove them, pushes
into a bounded queue, and saves by truncating the file. Correct means: a one-shot
fires once, a removed job stays away, no due job is skipped, the agent gets its
answer.

**Sessions, settings and skills** (`core/session_mgr.c`, `infra/config_store.c`,
`tools/skill_sync.c`, `tools/skill_loader.c`). Files appended to, cut, replaced and
removed by two threads, with the power failing in between. Correct means: what was
reported saved is there, a history holds the last lines, a sync that reports
success leaves no skill half-written.

**Language model access** (`llm/llm_router.c`, `llm/llm_proxy.c`). Slots with
failures, waiting times and one shared configuration that is overwritten for each
request. Correct means: the slot that is charged is the one that was called, and a
model is asked again after any run of failures.

**Channels** (`channels/`): Feishu's connection with its tokens and its inbox,
WeChat's polling, MQTT, the WebSocket gateway. Services repeat, reorder and cut
off what they send. Correct means: a message sent again is handled once, bots do
not keep each other busy, a connection that broke is there again.

**Nodes** (`node/node_manager.c`, `channels/ws_server.c`, `node/node_client.c`,
`tools/tool_registry.c`). Devices register, drop, come back under another
descriptor, and answer late. Correct means: a call goes to the device of that
name, a slot of the pending calls is given back, a reader is alone on its socket.

**Remote tools and TLS** (`tools/mcp_client.c`, `infra/vela_tls.c`). Tables that
change while a request is under way; connections shared by threads. Correct means:
a tool is called where it was listed, and no two threads are on one connection.

**Voice and display of the assistant** (`voice/`, `ui/lvgl_ui_channel.c`).
Recording threads, streams, speech, and a screen whose thread may be busy when it
is stopped. Correct means: a stream is not used after it was freed, an answer is
whole, a stalled speech is forgiven, every caller gets its thread back.

## Modules and code

`F_Fault` beside an operator `F` is `F` as a plausible bug would have it: it is
used by the mutants of `PROJECT.json`, each of which must violate a property. A few
faults are not there: a property of `services` or `progress` joins the promises of
several parts and has one mutant, and the faults of its other conjuncts stand
beside the code they change. The properties that no run names and no joint property
contains are those the code breaks; they are listed
[below](#where-code-and-documents-disagree). `map` in `PROJECT.json` gives the
lines of every definition.

The desktop, its panel and its network:

| module | models |
|---|---|
| `AudioService` | `audio_service.c`: every call of the API under the lock is an action, the worker is one action per locked region and per device call |
| `VoiceReply` | `voice_reply.c`: what was measured becomes words, the words a file, played and removed |
| `RoutineApp` | the model, its timer and touch callbacks, popups, the hand-over to the voice, `schedule.state` |
| `RoutineHistory` | the curve, its window, `history.jsonl` and the copy on the card |
| `ConfigSync` | what five writers do to the contents of `config.json` and how the manager follows |
| `ConfigFile` | one replacement of `config.json`, system call by system call, and one read |
| `AtomicFile` | abstract: the register of whole documents that such a file should be |
| `VoiceIntent` | `mimo_integration.c`: what a sentence does to limits and reminders |
| `VoiceWakeup` | `voice_wakeup_service.c`, `vad_detector.c`: the wake-up thread, its start and stop |
| `KwsCapture` | `kws_capture.c`: batches of samples and their names on the card |
| `EnvironmentService` | the sampling thread, for any one of the three sensors |
| `Climate` | extends it: sampling thread, manager's tick, the part of the audio service a warning meets |
| `LanPanel` | slots, workers, file replies, the lock of changes, the LED, the stop |
| `WifiManager` | the manager's loop, its status file, and the screen and panel that write its configuration |

The assistant:

| module | models |
|---|---|
| `AgentLoop` | both queues, the agent's turns, dispatch, shutdown, the local client |
| `AgentPromise` | abstract: what the loop promises for each message |
| `AgentMain` | start and stop of the assistant, the network watcher, joining a network, the command line |
| `CronService` | job thread, agent, bounded queue, `cron.json` and restarts |
| `AgentFiles` | sessions and settings on disk |
| `LlmRouter` | slots, failover, second opinion, the proxy's one configuration and the commands that change it |
| `SpokenEdit` | the change of a slot of the schedule by a sentence |
| `SkillSync` | skills on disk, the synchronisation page by page |
| `McpClient` | remote servers, their tools, discovery and calls |
| `TlsPool` | the shared connections, retries, read buffers |
| `NodeLink` | the gateway's table, pending calls, the cached list of tools |
| `NodeClient` | this device as a node of another gateway |
| `FeishuLink`, `FeishuInbox` | the connection and tokens; what becomes of one event |
| `WeixinPoll`, `MqttChannel` | the other channels with state |
| `VoiceChannel`, `VolcAsr`, `VolcTts` | push to talk and speech; recognition and speech in the cloud, frame by frame |
| `LvglChat` | the chat screen, its callbacks and its stop |

`MCRoutineApp` gives values for TLC; the other modules with a run of their own need
none but those of their `.cfg`. `ServiceParts` holds the 21 parts the proofs are about,
`MCServices` these and 5 more, `MCProgress` 8 (below). `*Proofs` hold the theorems.

### AudioService

`pc` is where the worker is between two locked regions; `pending`, `active`,
`queue`, `cancelled`, `generation`, `shutdown` are the fields of the same meaning
in `struct audio_service_s`. The change counter `sequence` is kept as `fresh`,
whether the panel's timer has something to read; `ui` is what it drew last.
`audio_service_publish` is ignored by a cancelled operation, but
`audio_service_finish_operation` is not: `Publish` and `FinishOperation` keep the
difference. The retry of a reminder happens at `EndOperation`, in one region with
the reset of `cancelled_operation`; between it and the next `Claim` the lock is
free (`"next"`), as in the code. `revoked` is a history variable: the reminders
that were given up since they were last accepted. Recorder, recogniser, player
and online service are external: each may succeed, fail or be cancelled.

### RoutineApp

The timer and touch callbacks run one after another on the LVGL thread, so each
is one action; the audio worker takes and finishes reminders in between (`Speak`,
`Spoken`). A tick is the whole of `routine_timer_cb`: clock, roll-over, due
detection, hand-over to popups and voice, configuration, save. `seq` numbers
reminders; popups and voice entries are known by slot and number, as
`routine_due_equal` compares them. Time is in minutes of a short day.

### ConfigSync and ConfigFile

`ConfigSync` has one read and one write action per writer with the copy it holds
in between, each writer changing and losing the fields its code changes and
loses, and the manager's life: start (configuration read before the audio service
exists), reload, draw, the mode button, stop, reboot. `ConfigFile` looks inside
one write: `open` (exclusive, or truncating), `unlink` and reopen, block writes,
`fsync`, `rename`, clean-up after an error, and the reader's `lstat`, `open`,
`read`; inodes and names are apart, a power failure keeps any beginning of what
was not synced. `ConfigSync` relies on `ConfigFile` for taking one write as
atomic. The programs share a temporary name, and run `file_shared` shows what comes
of it when two saves through it are under way at once. The history variable `crossed`
holds the names to which that has happened. What was written under any other is whole
and what its saves report is true; and as long as `crossed` is empty, `ConfigFile`
implements `AtomicFile`, whose `value` is the file under `config.json` and whose
`snapshot` and `adopted` are what the reader opened and uses (`Register`). This is the
part `file` of run `services`, and it is proved.

### EnvironmentService and Climate

One behaviour follows one sensor, whichever: they share only the length of a
round. Ages and back-off are seconds and every access may take some. A label set
is the masks of the sample as they concern this sensor. `Climate` adds the value,
the zones of `routine_check_temperature_warning` and of the audio service what
refuses or accepts a warning; the zone moves when a warning was accepted.

### CronService

The thread is one action per critical step: waking reads the time before the lock
is taken (`Wake`, `Acquire`), `Scan` finds the next due job, `Tool` and `Push` act
for it, `Settle` deletes, disables or reschedules it, the file is truncated
(`OpenToWrite`) and written (`Write`) before the lock is given back. The agent's
`AddJob` and `RemoveJob` do the same under the same lock. `file` is what a load
would find, nothing for a file cut short. `Restart` may come between any two
actions. What the queue's readers do is external: `Dispatch` may never happen; that the
agent empties the queue is for `AgentLoop` to show.

### AgentLoop and AgentPromise

A message is a number with a channel and a kind. `pc` is where the agent thread is:
at the top of its loop, at the queue (`"pop"`), waiting for a signal (`"asleep"`, so
that one can be missed), with a message in hand (`"check"`), about to ask
(`"ask"`), past the last round (`"force"`), asked to confirm, sending. `asks` holds
what ends a turn early: the rounds, the last call, how often it or its name was
repeated. What is answered without the model (`Quick`), a picture and a cached
answer (`Hit`) are ways of their own through a turn. `Receive` is a channel;
`ClientAsks` and `ClientPushes` are the local client, which sets its tap before it
pushes. `Quit`, `Flag` and `WakeUp` are the shutdown with its three steps.
`AgentPromise` knows of a message only its fate - unsent, waiting, working,
answered, lost - the queue, and whether the assistant is open; `Fate` in `AgentLoop`
is the refinement mapping, `KeepsPromise` and `AnswersAll` are the abstract
specification's safety and liveness under it.

### AgentMain

One action per call of `network_wifi_connect` and `network_wifi_reconnect` that
another caller can come between: the two reads of what was saved, the two things
`wapi` is told, the question whether it is associated, the two writes. The answer is
free, since a build without `popen` does not ask, and so is the result of a write,
which nobody looks at. Any service in `Failing` may fail to start; the others are
those whose start returns nothing but success. Two history variables mark what the
code leaves open: `meddled`, that two callers ran at once, a write was lost or the
device restarted between the two, and `tardy`, the services that the watcher started
after quit. `runs` is what is told to run and `alive` whose thread is there: of those
that have a stop only WeChat and the node client are waited for (`Awaited`), cron,
heartbeat, WebSocket and MQTT have a flag cleared or a socket closed, and the display
is given two seconds. Such a thread ends in its own time (`Leaves`), which may be after
the half second at `"pause"` and the destruction of the bus (`Destroys`).
`NothingIsLeft` says no more than that: what it excepts is seen below under "Loop".

### Files: AgentFiles, KwsCapture, SkillSync, RoutineHistory

Each step is a system call, or a region in which neither another thread nor a power
failure makes a difference. Contents are line numbers, versions or blocks, with one
value for what was cut short. `AgentFiles` is instantiated twice, for the sessions
and for the settings, which are truncated and written in place.

Most of this code does not look at what `fputs`, `fprintf`, `fclose` and `rename`
return, so writes fail unnoticed. In `AgentFiles`, `MaxFaults` times a line may be
missing, half there (`Torn`, which the next line continues) or longer than the 8191
bytes its readers take at once, when its pieces are `Junk` or one of them parses as
something that is no message (`Stray`); the copy of a cut may be `Short`; a load may
find nothing; and the settings may be lost with OK for an answer. `asked` is what a
change gives, so that what was promised is told from what was read. In `SkillSync`,
`MaxShorts` times a skill, a built-in one or the version map is written in part and
taken for done; `spoilt` remembers the skills, and `crossed` that two calls were under
way at once, when both may have one file open.

### Connections: NodeLink, NodeClient, FeishuLink, WeixinPoll, MqttChannel, TlsPool, McpClient

A connection is a number: a descriptor, which the system gives out again, or the
count of what was opened, where the code could mix up two. What the other side
does is external: it may answer, answer late, stay silent, close, repeat. A step is
what a thread does while it holds the lock of the tables; `FeishuLink` has no lock,
and one step for each read or write of the token that its threads share. Replies over
MQTT are published with QoS 1: a reply sent is `unacked` until one of the
acknowledgements under way, `acks`, is taken for it, and a thread may publish it again
(`Resends`) while it waits; a reconnection forgets both.

### LlmRouter

The router hands out a slot, the proxy is configured from it under another lock,
and the request is made from the proxy: steps of the agent between which the
commands of another thread may change slots. Failures and waiting times are counted
in units of the shortest wait. A request refused with 429 is sent again with what
the proxy was configured with (`RateLimited`); how often is not counted.

### Voice: VoiceChannel, VoiceWakeup, VolcAsr, VolcTts, LvglChat

Recordings are numbered by their start and the number names device, thread and
stream, so that a use of the wrong one shows. The protocol modules take one frame
per step; a read may time out in the middle of one. In `LvglChat` the LVGL thread
runs buttons and posted callbacks in any order, which `lv_async_call` without
LVGL's lock allows.

### Words: VoiceIntent, SpokenEdit, VoiceReply

These are translations more than threads: a sentence is a sequence of words or
characters, searched as the code searches it, and the properties compare what is
stored or said with what the sentence or the measurement means. `VoiceReply` also
keeps the files it makes and the failures of each copy.

### LanPanel and WifiManager

`LanPanel` has the accept loop with its slots, a worker per client through one
request, and files that `routine_mgr` replaces while they are sent. `WifiManager`
counts time in polls; the association, DHCP and the clock may fail at any attempt,
the link may drop, and the configuration may be replaced at any step.

### Many parts in one model: ServiceParts, MCServices and MCProgress

The parts share no state with each other: what they exchange is an input or an
output that each of them chooses freely. `ServiceParts` instantiates 21 of them in
one module (`PartsSpec`), and `MCServices`, which extends it, 5 more (`MCSpec`); the
first state chooses which one moves and the others stay where they began, so a
behaviour of the model is a behaviour of one part, and the state space is the sum of
theirs and not the product. A behaviour of `MCSpec` is one of `PartsSpec` as far as the
21 go: while another part moves, they stay. The properties are put together by what
they promise, as `part = "tls" => Tls!OwnConnection` and the like. `MCProgress` does
the same for liveness, where a fairness condition of the model is one condition of
each part, guarded by its name.


## Runs

| run | asks | properties |
|---|---|---|
| `audio_safety` | do interleaved calls keep cancellations, reminders and display consistent? | `CancelTargetsActive`, `RequestNamesActive`, `NoDuplicateReminder`, `UiShowsService`, `RevokedStaysSilent`, `OnlyHeardRemindersLeave` |
| `audio_liveness` | can a wake-up be lost? | `WorkIsServed`, `ShutdownReturns` |
| `app_day` | two days of ticks, answers, an edit, clock steps and restarts | `ReminderIsAnswerable`, `SpokenIsOnScreen`, `DueOnTime`, `AnswerEndsWhatItShows` |
| `config_sync` | do voice settings reach manager and service, whoever writes? | `CloudOnlyIfConfigured`, `AdoptedIsApplied`, `FileIsAdopted` |
| `config_panel` | does saving thresholds keep the voice settings? **violated** | `PanelKeepsVoice` |
| `file_shared` | is replacing atomic with the names the programs use? **violated** | `ConfigIsWhole` |
| `climate` | labels, recovery and warnings with a sensor pulled and plugged in at any access | `LiveIsRecent`, `OneLabel`, `WarningIsEarned`, `Recovers` |
| `cron` | jobs added, removed, fired and saved by two threads, restarts at any step | `OneShotOnce`, `RemovedStaysAway`, `RoundFiresAll`, `AgentReturns` |
| `agent_loop` | does the assistant's loop implement `AgentPromise`? | `KeepsPromise`, `AnswersAll` |
| `services` | the 21 parts of `ServiceParts` and 5 more in `MCServices`: what they keep safe | `TypesHold` to `WaitsAsPublished` below |
| `progress` | the 8 parts of `MCProgress`: what must go on | `ThreadsReturn`, `WorkResumes` |
| `display_stop` | does stopping the display leave no callback with what was freed? **violated** | `CallbacksLetGo` |

The properties of `services` and `progress` join promises of one kind:

| property | parts and their promises |
|---|---|
| `TypesHold` | the `TypeOK` of every part, with the sizes of its tables |
| `SavedIsKept` | sessions `HistoryIsLatest`, settings `SettingsAreKept`, network `SavedIsTold`, panel `AcceptedIsSaved`, samples `KeptIsSaved` |
| `WholeUnlessCrossed`, `SavesReport` | `config.json`: whole; `SavesSucceed`, `ReportIsTrue`, `IsRegister` |
| `SyncedUnlessSpoilt` | skills |
| `WholeOnly` | panel `ReplyIsWhole`, samples `CorpusIsWhole`, wake-up `ClipIsWhole`, `PlayedIsWhole`, recognition `LastIsReturned`, speech `StallsAreForgiven` |
| `ResourcesAreHeld` | voice channel `NoDangling`, MQTT `LinkIsWhole`, display `ScreenHolds`, panel `SlotsAreKept`, gateway `SlotsComeBack`, node client `ReaderIsAlone`, assistant `NothingIsLeft` |
| `OwnAddressee` | TLS `OwnConnection`, remote tools `CalledWhereListed`, gateway `ReconnectedIsFound`, router `ChargedIsCalled` |
| `HandledOnce` | Feishu `AnsweredOnce`, `BotsAreLimited`, WeChat `HandledOnce` |
| `WordsMeanIt` | desktop by voice `HeardIsSet`, spoken answers `HeardIsMeasured`, schedule by sentence `SaidIsSaved`, storage of the schedule `CompletionIsSaved` |
| `CurveIsEven`, `LightIsRight`, `WaitsAsPublished` | history; panel `LedIsOff`, `DutyFalls`; Wi-Fi |
| `ThreadsReturn` | node client `CommandsEnd`, wake-up `StopReturns`, voice channel `CallsReturn`, panel `StopEnds` |
| `WorkResumes` | router `KeepsTrying`, Feishu `LinkComesBack`, Wi-Fi `RightIsJoined`, `ScreenFollows`, `config.json` `LatestIsRead` |

A violated run checks one statement of a document or comment; the finding in
`PROJECT.json` quotes it. What the passing runs say beyond their names:

- `RevokedStaysSilent` and `OnlyHeardRemindersLeave` together fix the fate of a
  reminder: given up, it is not spoken before it is accepted anew; not given up,
  it leaves only spoken, failed twice, or for lack of room for the retry.
- `UiShowsService` excludes the pending count of an idle panel, which the code
  does not announce (see below).
- `DueOnTime` is about ticks no more than a minute apart. `CompletionIsSaved`
  compares memory with what a restart would find; restarts, clock steps and
  midnight may take a completion away, since the code resets the schedule there.
- `AdoptedIsApplied` starts with the first change of the voice settings after the
  start: before it, a stored online mode is not applied.
- `Recovers` has three conjuncts: `PluggedRecovers`; `PulledIsOffline`, a recurrence
  and not stability, because the SHT40's failure counter, a byte, wraps and an
  absent sensor is then shown stale for a while; and `HotIsSaid`, which assumes that
  nothing else keeps the voice busy at every tick, since a pending request refuses
  the warning each time.
- `SavesReport` joins `SavesSucceed`, `ReportIsTrue` and the refinement `IsRegister`;
  with `WholeUnlessCrossed` it says all that `file_shared` refutes, of every save that
  no other crosses under its name.
- `HistoryIsLatest` and `SettingsAreKept`, in `SavedIsKept`, each have two halves. One
  holds whatever fails: the lines of a chat are in their order and none is there twice,
  and a setting is the one last given or none. The other, that nothing is lost, holds
  while the file system does as it is told and the power stays.
- `SyncedUnlessSpoilt` leaves out what a short write has spoilt and what comes after
  two calls have crossed, since there the code breaks its promise (`SyncedIsWhole`,
  below).
- `LinkIsWhole`, in `ResourcesAreHeld`, counts a reply once however often it is
  published; that the broker gets it at least once is not claimed, since a reconnection
  forgets it.
- `OneShotOnce` holds with the clock going forward over a restart. If the device
  comes up with an earlier time than it stopped with, the guard at
  `cron_service.c:500` does not see that a job is past, and it fires again.
- `AgentReturns` is for jobs whose action does not itself take the jobs' lock.
- `KeepsPromise` counts a reply when the agent pushes it: the outbound queue may be
  full and drop it, as in the code, and `AgentPromise` says nothing of the way from
  there to the user.
- `HeardIsSet` and `SaidIsSaved` are about the sentences of the instances and have
  preconditions that the code needs; what falls outside is listed below.
- `CallsReturn` is for one caller: another's start may take the post that a start is
  about to wait for (`voice_channel.c:399-416`).

## Bounds

| run | bounds | why enough |
|---|---|---|
| `audio_safety` | two reminders, queue of one, one sensor, three operations | a running, a queued and a refused reminder at once; the retry meets a full queue; an operation before, during and after a cancel. All of it is proved without the bounds. |
| `audio_liveness` | one reminder, two operations | a wake-up can be lost by any single pair of calls. |
| `app_day` | two items, two reminders per item, a day of four minutes, delay two, eight minutes (two days), one write of the configuration, clock set to two times, no storage | two items due in the same or consecutive minutes, one delayed into the next day, one edited while the other is open, the reminder limit reached. A third item adds a third popup to the queue. |
| `config_sync` | all five writers, two of them between read and write, two generations, one value of thresholds and of times | every pair of writers overlaps; the properties speak of mode and key only, and no guard reads the other values. `config_panel` has two values of each. |
| `file_shared` | two writers, documents of one or two blocks, one save each | the shortest way to share a name. |
| `climate` | stale after 3 s, two failures to back-off, back-off 2 to 7 s, warm-up 3 s, counter wrapping at 4, an access or the rest of a round up to 1 s, five temperatures about limits 1 and 3 with hysteresis 1 | the order of the constants is the code's (3, 3, 5 to 60, 15, 256, 1°C); in particular failures and first back-off outlast the staleness limit, which is all the argument needs. The proofs hold for all constants with that order. |
| `cron` | three jobs for a table of two, queue of one, intervals of a second, two seconds of work, one restart, no action that takes the jobs' lock | the proofs remove the bounds for all but `AgentReturns`; a full table, a full queue, a deleted job before a due one, a restart between firing and saving and between truncating and writing. |
| `agent_loop` | two messages, two channels (one the local client), queues of one, three rounds, two repeats, one tick with a cache that outlives none | a full queue in both directions, a cached answer that is fresh and one that is not, each way out of a turn, a shutdown at every step. The proof removes the bounds for `KeepsPromise`. |
| `services` | per part: two of each thing that can be mixed up (clients, networks, devices, threads, chats, servers), a table for one fewer where a full one matters, one or two crashes, cuts, short writes or lost messages | the smallest instance at which a name, a slot or a descriptor is used twice, a table is full, and something comes late. The constants of the panel, the Wi-Fi, the gateway, the router, the remote tools, the connections, the history, the skills, the voice channel, the chat and MQTT are in `Services.cfg`, those of the other parts in `MCServices`; the proofs remove the bounds for all of its properties but `TypesHold` and `WordsMeanIt`. `file` is the manager and the voice page saving through one name and the assistant through its own, once each, documents of one or two blocks, errors of the medium and one power failure. `main` takes two states for one that differ only in threads that were told to stop and are not waited for (`lifeView`). `storage` is `RoutineApp` over five minutes, with the storage and without the voice, with which it shares no action. |
| `progress` | per part, in `MCProgress`: one or two of each, one loss | waiting for ever takes a single loss or a single missed wake-up; more of the same repeats it. |

The constants that a module declares as bounds (most begin with `Max`) are in the
guards of its actions; those whose declaration names a constant of the code
(`MaxIter`, `MaxJobs`, `MaxWorkers` and others) stand for it, made smaller.

Two branches of the code are in the models but cannot be taken, since what is
before them excludes it: the second look for a published take (`Check` in
`KwsCapture`), and a file that ends before its own length (`Send` in `LanPanel`).

## Fairness

- `AudioService`: the worker goes on (device calls are bounded loops, requests
  time out), the LVGL timer runs, the join returns. No call of the API is fair.
- `ConfigSync`: the manager's tick (strongly, since it shares its thread with the
  button) and what follows it. No writer is fair: a program may stop in between.
- `Climate`: the sampling thread, the tick with unchanged settings, and the end of
  what the voice is busy with. Whether a sensor answers is not fair.
- `CronService`: the job thread and a save under way, weakly; the agent's waiting
  call strongly, because the lock is released again and again and NuttX hands a
  mutex to a waiter. Nothing is assumed of the queue's reader or of the clock.
- `AgentLoop`: the agent thread (model and tools answer or time out), the main
  thread once it shuts down, the dispatch thread, and a client between setting its
  tap and pushing. No user, no tick and no shutdown is fair.
- `MCProgress`, weakly: each thread, timer and join of a part, and a save that has
  begun. Strongly: a lock that is released again and again (`Take`, `Silenced`,
  `Turn`), and what lies outside and accepts again and again - a model that answers,
  a token service, an endpoint, an access point, a DHCP server, and a broken
  connection that is noticed. Without these "is there again" would be false for want
  of anything to come back to. A loss, a client and a command are never fair.
- `RoutineApp` and the parts of `services` have safety and action properties only.

## Proofs

`tlapm` proves the following for every value of the constants that satisfies the
modules' assumptions. Each module states an inductive invariant `IInv`, one lemma
per group of actions that it is kept, and the theorems.

**`AudioServiceProofs`** - for any reminders, sensors and queue length:
`TypeCorrect`, `CancellationIsPrecise` (`CancelTargetsActive`), `RequestIsHonest`
(`RequestNamesActive`), `RemindersAreSingle` (`NoDuplicateReminder`), `SilenceIsKept`
(`RevokedStaysSilent`), `RemindersAreHeard` (`OnlyHeardRemindersLeave`) and
`PanelIsRight` (`UiShowsService`).
`CancelTargetsActive` alone is not inductive: that the operation which ends clears
its own cancellation is known only because `worker_active` holds exactly between
claim and end (`ActiveWhileWorking`), that the request shown is the worker's needs
that a pending operation is never a reminder (`ReminderNamed`), and the types need
that what the worker is about to report is of the right kind (`ReportTyped`). The
queue needs `CutOut`, what is left of a sequence when one element is taken out of
its middle. Silence needs `GivenUp`: a reminder that was given up is in the queue no
more, and if the worker has it in its hands, its operation is cancelled; that
nothing takes a cancellation back while the operation runs is `CancellationStays`.
That the others are heard needs `HeardInv`: a shutdown has cancelled what runs
(`Stops`), a reminder is cancelled only by giving it up (`Meant`), the queue keeps
within its length (`HasRoom`), and an operation ends completed or failed unless it
was cancelled (`Fated`). The panel needs that an idle service has no request (`IdleMeansNone`) and that the
worker leaves only after a shutdown (`ExitMeansOver`): going idle and the join write
the state without moving the sequence.

**`ConfigSyncProofs`** - `CloudNeedsConsent` (`CloudOnlyIfConfigured`) and
`ChangesAreFollowed` (`AdoptedIsApplied`), for any subset of the writers and any
values. The two and the types are inductive together: a reload that leaves the
mode alone is harmless only because the mode was right before.

**`ClimateProofs`** - `LiveReadingsAreRecent`, `LabelsExclude` (`OneLabel`) and
`WarningsAreEarned`, from the assumptions that failures and first back-off
outlast the staleness limit and that the limits lie at least a hysteresis apart
(`routine_config_validate`). `Paced` counts the seconds that failures and
back-off must have taken since the last reading; without it a sensor could be set
up anew while its last reading still counts as live, and be shown live and
warming up at once. `Remembered` says that a direction warned about and not due
again is the zone.

**`CronServiceProofs`** - `TypeCorrect`, `FiresOnce` (`OneShotOnce`),
`RemovalLasts` (`RemovedStaysAway`) and `RoundIsComplete` (`RoundFiresAll`), for
tables and queues of any length, any intervals and actions (`"cron"` among them)
and any number of additions and restarts. A restart replaces the jobs in memory by
those of the file, so the invariant must speak of both: in each table the ids are
unique, were given out and not removed (`Unique`, `Known`), and a one-shot that
fired is disabled or has a time that is past (`Spent`). That firing keeps `Spent`
for the file, which still holds the job as it was, needs `Agree`: the two tables
give one job one time. `Silent` is what the start makes of `Spent`. `Pointing` and
`Passed` follow the index through the deletions of a round. The theorems of
`SequenceTheorems` on `SubSeq` and `\o` give what `RemoveAt` does (`Removal`).

**`AgentLoopProofs`** - `TypeCorrect` and `LoopKeepsPromise` (`KeepsPromise`): the
loop implements `AgentPromise`, for queues and limits of any size, any messages and
anything the model and its tools may answer. The mapping takes `fate` to `Fate`,
`queue` to `inbound` and `open` to `~Stopping`. What makes it go through is
`OnePlace`, that no message is in two places - answered, in the agent's hands,
waiting - with `OnlySent`, that what is anywhere was sent and is not the question
the client is about to push, and `InTurn`, that the agent has a message in its hands
exactly in the middle of a turn. `Moves` reduces the actions of the loop to the
kinds of move a message can make, and `Simulation` maps each kind to a step of
`AgentPromise` or to a stutter.

**`RoutineAppProofs`** - `TypeCorrect`, `RemindersAreAnswerable`
(`ReminderIsAnswerable`), `CompletionsAreSaved` (`CompletionIsSaved`),
`SpokenIsShown` (`SpokenIsOnScreen`), `AnswersEndWhatIsShown`
(`AnswerEndsWhatItShows`) and `ItemsAreReminded` (`DueOnTime`), for any finite set of
slots (`IdsFinite`), any length of the day and of the queues, any schedules in the
file and any clock steps. The first is inductive together with the types and `Restful`, that what was
saved holds no open reminder: a start numbers from 0 again, so a reminder restored
with its number would share it with the next one. `DueOnce` says that an order of
the due items holds each of them once (a sequence without repetition as long as
its set is large is onto, `FS_Injection`), from which `RemindedItems` gives each
new reminder a number of its own. The second needs that a configuration the model
takes over without changing its generation completes nothing (`TickSaves`), and
that a reset, of a new day or of a set clock, completes nothing (`ResetUndone`).
What waits in a queue is a reminder with a number (`Reminder`, `Shown`); that is
why a popup is stale or shows the open reminder of its item. Popups and voice stay
together because both lose the same keys (`WithoutIs`) and because the voice is given
nothing that the screen is not (`EnqueueShows`, `SayAdds`); `OthersAre` says what
taking reminders out of a queue leaves. `SpokenIsShown` has the hypothesis
`[](Len(popups) < QueueMax)`: a full popup queue drops a reminder that the voice may
still take, as in the code. `ItemsAreReminded` needs `Spent`, that an item which was
reminded as often as it may be is in the past, in memory and in what was saved; a
clock that is set back between a save and a start breaks the second half, so the
theorem is for a device without storage or a clock that only goes forward.

**`ServicesProofs`** - about the parts of `ServiceParts`: `AskedIsMeant`
(`OwnAddressee`, with `ConnectionsAreOwn` for its first part), `SavedStays`
(`SavedIsKept`, with `HistoriesAreLatest` and `SettingsAreSaved`), `PiecesAreWhole`
(`WholeOnly`), `SkillsAreWhole` (`SyncedUnlessSpoilt`), `WaitsAreKept`
(`WaitsAsPublished`), `CurveStaysEven` (`CurveIsEven`), `LampIsRight`
(`LightIsRight`) and `SlotsComeFree` (the panel's `SlotsAreKept`).
A behaviour of `PartsSpec` moves one part, so each proof has two
halves: a step of the model is a step of the part or none (`TlsMoves` and the like),
and an invariant of the part is kept by its own actions; the theorems about a kind of
promise put the parts together.

- Connections (`TlsInv`), for any threads, hosts and slots: a thread at work has a
  slot, or a connection outside the pool, that no other has and that leads to the
  host of its request (`Serves`); a slot nobody uses says of its connection what is
  true (`Rests`). The number of times a request is sent is bounded by what it has
  left to try, which falls when it is reused.
- Gateway (`NodesInv`), for any connections and nodes: the entry of a node is that
  of its latest connection, and only the end of this one is on its way to take it away.
- Router (`RouterInv`), for any slots, waits and number of commands: as long as no
  command came in between, slot, configuration, request and call are one and the
  same (`OnItsWay`). That the selection is not empty and the same slot wins again
  (`FirstIs`) is an argument by the least number (`LeastNumber`), since the order of
  the slots is one of priority, tier and position.
- Remote tools (`McpInv`), for any servers and lists, one thread that asks: each
  tool of the table has a server of that name and address, and so does what a
  discovery under way has found so far (`Finds`).
- History (`HistoryInv`), for any intervals, windows and clocks: the points end at
  the latest slot and count down one slot each (`EvenTo`), through gaps, changed
  intervals and a restored file; the facts about quotients are lemmas.
- LED (`LampInv`): it is off once its thread is done, and the end waits for that;
  `DutyFalls` is arithmetic of the two divisions (`DutyRange`).
- Panel (`PanelInv`), for any clients, jobs and files: what was promised of a file is
  no more than the version of it that the worker has open (`ReplyInv`), so a file that
  is replaced meanwhile does not shorten a reply; who writes the configuration holds
  the lock and owns the temporary file, and what is in place is what was answered with
  202 (`SavingInv`); the slots in use are as many as workers, and one more around
  `accept` (`SlotsInv`).
- Wi-Fi (`WaitInv`): waiting so far and what is left of the wait are together at least
  the wait that was published.
- Files: that a change is not lost needs that who is between reading and writing has
  the lock and a copy of what all meant so far, or of nothing (`SettingsInv`). The lines
  of a chat and of its shortened copy are in order and none is above what was said
  (`OrderInv`), which every failure keeps: what is lost leaves the others where they
  were (`OrderShort`), and what is joined is no line (`OrderGrows`). While nothing
  fails they end with the last that was said, one number each (`SessionsInv`); the ring
  is read in order (`RingIsRotated`).
- Samples (`CaptureInv`), for any takes and any number of cuts: a description under a
  temporary name has its sound under one or is published already (`PartsInv`), and
  what a batch has of its take is known at every step (`TakeInv`), so a cut leaves
  nothing that a later batch would take for its own.
- Start and stop (`LifeInv`): between the steps of a join the stored name and key are
  those of the wish as far as the steps have come, unless a command of another thread
  came in between.
- Wake-up (`WakeupInv`): the clip is the frames from the first on, and the speech lies
  in it.
- Recognition (`AsrInv`): the text of a session is what was heard, and a new buffer
  begins with the offset at its start. The offset is one for all sessions, so this has
  the hypothesis `OneAsrUser`; with two the code mixes the texts (below).
- Speech (`TtsInv`): the pieces on the wire follow the ones that were played, in order,
  as long as the framing holds, so none is missing when the end comes.
- Skills (`SkillsInv`), for any number of threads that may synchronise: where the
  recorded version is the table's present one, the file has it, or is gone, the user's
  own or spoilt, and the same holds of what a call has met and recorded so far, but for
  the skill it is writing. Of the threads at most one is busy until two calls cross
  (`OneBusy`), and nothing is said after that, as the code does not keep its promise then.

**`SharingProofs`** - which extends it, about what several programs, senders or
threads work on at once: `OnlyCrossedSavesTear` (`WholeUnlessCrossed`),
`SavesAreReported` (`SavesReport`), `FileTypeCorrect` (`TypeOK` of `ConfigFile`),
`MessagesAreHandledOnce` (`HandledOnce`) and `ResourcesStay` (`ResourcesAreHeld`).

- `config.json`, for any number of writers, any temporary names, shared ones included,
  document lengths, media errors and power failures: `OnlyCrossedSavesTear`,
  `SavesOnlyFailForTheMedium` (`SavesSucceed`), `ReportsAreTrue` (`ReportIsTrue`), and
  `IsARegister`, that the programs and the file system implement `AtomicFile`; the last
  three together are `SavesReport` (`SavesAreReported`). There is no hypothesis: what
  the code breaks when two saves through one name cross is excepted in the properties,
  for that name and from that moment on.
  What a writer may do to another is the point (`SaveInv`): two that save through one
  name that was not crossed are not both under way (`Apart`); `Owns` says that a writer
  in the middle of such a save still finds its own inode under its name, `OneName` that
  no inode has two names, so that installing one cannot change another under its
  feet, and `ByName` that what lies under a temporary name was written through it.
  `Place` adds that a writer which found its name taken has made it free before
  it opens again, and `Frozen` that what a reader has open is whole, synced and under
  no writer's hand, so that no write reaches it, unless it was born under a crossed
  name (`Born`). `Effect` is what any step of a writer amounts to for the others, and
  every action is reduced to it before the facts are drawn from it. Crossed saves are
  in all of this: they may tear each other's files and no others.
- WeChat (`WeixinInv`) and Feishu (`InboxInv`): what was handed on is in the ring, and
  the ring holds nothing twice. Both rings forget their oldest entry, so the theorem
  has the hypotheses that they have room for all messages that are sent again
  (`MaxMessages <= PollRing`, `RoomForAll`), which is what a ring of that size
  promises. The limit of bots needs `Rating`: the stamps of a chat's entry are in the
  order the circle is read, and at least as many of them are recent as messages of
  bots were handed on, or all are.
- Voice channel (`ChannelInv`), for any callers, speakers, recordings and chunks: a
  stream is held by `s_voice`, by one thread or by one call, and what is held is open
  (`HeldInv`); a number that has not begun has neither stream nor thread
  (`NumberInv`), so a thread that comes late cannot meet what is not there yet.
- MQTT (`MqttInv`), for any number of connections and messages: the one open socket is
  `s_sockfd`, and none is while a connection is made (`SocketInv`); the queue begins
  with what a connection needs and goes on with replies, no more than were accepted
  (`QueueInv`); with those that wait for their acknowledgement and those that have it
  they still are no more, however often they were published. The hypothesis
  `OneSynchronises`, that a thread of an earlier start has
  left before the next one synchronises, is needed: two threads connect at once and
  one of the sockets stays open (below). The run has one start, where it holds.
- Chat (`DisplayInv`), for any size of the ring: the screen exists from start to stop
  and is deleted only while no callback can use it (`ScreenInv`); the bubbles are the
  messages of the ring that were made into one, in their order. This is stated with the
  increasing positions `at` (`Fits`), since `SelectSeq` is defined by recursion: a
  message that comes extends `at` (`BothGrow`, `LostGrows`), the oldest that goes
  shifts it (`OldestGoes`). As in the run, all of it holds until a stop gives up
  waiting (`display_stop`).
- Calls to nodes (`CallInv`): a slot that is taken is that of a caller who sends or
  waits.
- Node client (`ClientInv`): a command frees the connection or starts a thread only
  after the last thread has ended.
- Services after quit (`RunInv`): what the teardown has passed stays told to stop, and
  of those it waits for the thread is gone, unless the network watcher started it after
  quit.

The assumptions are those of `ServiceParts` on the constants of these parts
(`LightsAssumption` to `CountsAssumption`): numbers are numbers, sets that the code
holds in tables are finite, names of networks and chats are not empty.

Only model-checked: all liveness, which is beyond the prover, `AnswersAll` of the
refinement among it; and of `services` two properties. `WordsMeanIt` is about what a
search in a sentence returns for the sentences of the instances, an induction over
data. `TypesHold` speaks of the parts outside `ServiceParts` too, of which only the types
of `config.json` are proved; of the others the invariants above have the types they need.

## Where code and documents disagree

With a run (findings in `PROJECT.json`):

1. Saving thresholds or schedule in the panel erases the voice settings
   (`lan_panel_main.c:711`), the "cause to be located" of
   `docs/在线语音模式功能说明.md:217`.
2. `config.json.tmp` is shared by programs that take it from each other
   (`routine_config.c:495`); the guide calls the update atomic.
3. Stopping the display while its thread is busy leaves the talk button's callback
   with widgets and a lock that are gone (`lvgl_ui_channel.c:481`).

Met while modelling, without a run of their own. The models have the behaviour
unless a line says otherwise; a name in parentheses is a property that states what
was expected and that the model violates.

The desktop and its programs:

- Audio: between the end of an operation and the next claim a cancel publishes
  IDLE though a reminder waits (`audio_service.c:918`; the comment at `:864-866`
  excludes it). Emptying the reminder queue moves no sequence (`:1236`), so the
  status line keeps "processing".
- Start: `main` reads the configuration (`routine_manager_main.c:1155`) before the
  audio service exists, so a stored online mode is not applied
  (`docs/实现完成报告.md:200` says a restart applies it). The mode button is not
  refreshed after a restart with the same generation: its cache is a function
  static (`routine_ui.c:1816`).
- Configuration: two writers with one generation, and the second schedule's times
  are not taken (`routine_model.c:609`, `GenerationTellsChanges` of `ConfigSync`).
  The voice page creates a missing file with 1800/2600 and 300 s
  (`voice_config_api.c:242`), not the defaults in effect (`routine_config.c:126`).
  It removes the temporary file outside the panel's lock (`:400`), so a save in
  progress can report success for a lost document.
- Storage: completion is restored (`routine_storage.c:253`) though
  `app/routine_manager/README.md:70` says it is not kept; a start without a valid
  clock drops what was restored (`routine_model.c:492`); a start on a later day
  keeps the saved day's dates, and nothing is due until midnight.
- Schedule: VIEW in the history dialog leaves a due reminder undisplayed
  (`routine_ui.c:1047`, `FreeScreenShowsPopup`). An edit of one item withdraws open
  reminders of the others (`routine_model.c:692`); an item in the last minute of the
  day is lost when the tick crosses midnight late (`:518`); popups left unanswered
  stay over midnight and a full queue drops the next (`routine_ui.c:679`).
- History: the curve of the demonstration always has one point; a short write
  leaves a torn line that the retry is joined to.
- MiMo: a reminder added by voice gets an id that `routine_config_save` refuses
  (`mimo_integration.c:366`, `ReminderIsAdded`; `docs/在线语音模式功能说明.md:57`);
  the generation wraps at three different values; limits and reminders are changed
  by reading, changing and writing, so a save of the panel in between is lost.
  "18-26" is read as one number, one limit set beyond the other swaps the two, and an
  hour in characters is found only at the start of a sentence or exactly twelve
  bytes before 点.
- Wake-up: the count of frames after speech is not reset and a recording of more
  than 7 s is thrown away; "Only wakeword" is ignored
  (`voice_wakeup_service.c:174`); the device is closed twice on one path; a failed
  open leaves the thread counted as created.
- Samples: the flag of a cancelled batch is global; a failed roll-back leaves a
  recording without its description.
- Environment: an unplugged sensor is shown offline after three failures
  (`routine_ui.c:364`) where `app/routine_manager/README.md:110` says stale. A
  swing from beyond one limit to beyond the other while the voice is busy keeps
  the zone, and the swing back is not warned about.
- Panel: an error of `accept` other than an interrupted call ends the server; a
  signal just before `accept` is noticed with the next client only.
- Wi-Fi: a configuration changed while associated is published as connected under
  the new name before it was joined (`ConnectedIsConfigured`;
  `docs/网络面板使用指南.md:106`). `app/wifi_manager/README.md` gives a back-off of
  up to 60 s, the code goes to 300 s. The screen writes `wifi.cfg` in place and
  unescaped.

The assistant:

- Loop: a timeout's text is cached as the answer to a greeting; the teardown
  destroys the bus under an agent that is still in a call (`agent_main.c:758`) and
  under threads it has only told to stop (`cron_service.c:540` and others), and
  the watcher may start services after they were stopped (`:163`); the network is waited
  for once, for 30 s, and without one the cloud stays away (`:145-204`). Name and key
  of a network are written one after the other, and whether it worked is not asked
  (`network_manager.c:885`). `wifi_reconnect` says that nothing is saved whatever
  failed (`nsh_commands.c:352`).
- Router: the second failure of a request and a failed second opinion are charged to
  nobody, the first failure of a slot has no waiting time, and disabled slots come
  back after 300 s only.
- Jobs: an action that is a job tool waits for the lock of its own thread
  (`cron_service.c:333`), and nothing in `tool_cron.c:186` refuses it. A restart
  between truncation and write loses every job; the result of the save is
  ignored (`:598`).
- Sessions: cutting a file removes it before its copy takes its place
  (`session_mgr.c:117`, `CutIsAtomic`), so a power failure loses the chat, where the
  comments at `:70` and `:116` call it atomic; the counter that decides when to shorten is shared by all chats; a line
  longer than 8191 bytes is read as several (`session_mgr.c:189`), of which one may
  parse as a message without a role. The settings are truncated in place, and what did
  not fit is reported as saved (`config_store.c:94-97`).
- Sentences to the assistant: a change of the text alone saves the delayed time of
  `status.json` as the daily one (`StaleIsRefused`, `tool_routine.h:28`); "25:30" is
  read as 5:30 and "100点" as 00 (`agent_loop.c:344-431`).
- Skills: a skill whose write is cut short is taken for synchronised and is not
  written again (`skill_sync.c:214`; `skill_sync.h:39` promises ERROR on failure), and
  two synchronisations at once leave one mixed of two versions (`:208`; `skill_sync.h:32`
  says "Safe to call from any thread."): `SyncedIsWhole`. A full synchronisation deletes local skills after a page that failed or
  beyond 128 rows (`skill_sync.c:420`; `agent_main.c:159`); a cut while a built-in skill is
  installed leaves it torn for good (`skill_loader.c:308-344`).
- Nodes: the list of tools can miss a node's commands for good
  (`tool_registry.c:99`, `ToolsFollowNodes`); any client that leaves fails all
  pending calls; a descriptor that registers twice leaves a node nobody answers for;
  a reply can go out on a descriptor that was closed and given out again.
- Node client: a gateway that is gone without closing is not noticed
  (`node_client.c:745`, `DeadPeerIsNoticed`); a failed handshake leaks its socket.
- Remote tools: the tools of a server that was removed come back when another thread
  merges what it found (`mcp_client.c:515`).
- TLS: a POST whose answer failed on a used connection is sent twice
  (`vela_tls.c:686-703`); a body that was cut is returned as complete.
- Feishu: a lost connection is noticed when the token expires
  (`feishu_bot.c:142-156`); an event is acknowledged before the bus has taken it; the
  bot's own id is learnt from another's mention (`feishu_recv.c:663-678`).
- WeChat: the refusal of an old request drops the token of a new login
  (`weixin_channel.c:374-384`, `RefusedIsDropped`); a message the bus refuses is gone.
- MQTT: a stop during a connection attempt leaves a socket open
  (`mqtt_channel.c:395-413`, `StoppedIsClosed`); a start soon after leaves two
  threads; replies accepted before a reconnection are lost.
- Voice: an answer is heard while a recording runs (`voice_channel.c:1012`,
  `NoEcho`); with two callers a stream may miss what was recorded before
  (`StreamedInFull`). The offset of recognised text is shared by all sessions
  (`volc_asr.c:731-737`). A stall in the middle of a frame loses the framing of the
  speech (`volc_tts_ws.c:540-548`).
- Display: an external stop leaves the recording on; once closed, nothing brings the
  screen back.
- Seen in code that is not modelled: a restarted heartbeat runs in two threads, and
  `network_acquire_resource` waits for the lock it holds, but nothing starts that
  manager.

## What is not modelled

- Texts, layout, fonts, JSON and HTTP syntax, authentication, audio and image
  data: no property of this project is about them. Sentences are words or
  characters of a few kinds.
- Field validation of the configuration. A document that parses is valid.
- The drivers' registers and checksums: a read succeeds or fails.
- The A/B slots and checksums of `schedule.state` (`routine_storage.c`): a save
  is atomic and a load finds the last one.
- The unlocked read of `online_mode` at `audio_service.c:567` is a read at some
  moment; the MiMo service's own initialisation and its HTTP dialogue are outside.
- Of the assistant: prompts and their trimming, the parsing of models' answers,
  `memory_store.c` (one file, one writer), the tools that take arguments and return
  text, the shell's commands beyond those that change a modelled state, codecs;
  Bluetooth and proxies, which nothing starts or which are conversations with
  hardware and services; the branch of `network_manager.c` that asks another core, whose
  header `config/config_store.h` is not in the repository.
- Offline recognition: a function of one buffer whose generated weights are data
  (`kws_model_data.cc`); the audio service sees its result, which is any.
- Board support: register sequences without concurrent state. Training, asset and
  build scripts, vendor patches, logs.

`PROJECT.json` says for every component which part of it is modelled.

## Plan

Done, in this order: `AudioService` with its proofs; `ConfigSync` and its proofs;
`RoutineApp`; `ConfigFile` and its proofs; `EnvironmentService`, `Climate` and
their proofs; `CronService` and its proofs; `AgentLoop` with the abstract
`AgentPromise`, the refinement checked and proved; the parts of `MCServices` and
`MCProgress`; the fate of a reminder in `AudioServiceProofs`; `RoutineAppProofs`;
`PanelIsRight`, the last safety property of the audio service; the register of
`ConfigFile`; the proofs about the services; `AgentMain`; all that `app_day` checks.

Then `ServiceParts`, split from `MCServices` for the proofs, and what its parts save,
pass on whole, handle once and wait for; at last the voice channel, MQTT, the chat and
the node client, for what threads share.

Next:

1. The types of all parts, for which the parts outside `ServiceParts` would join it.
2. The composition of `CronService` and `FeishuInbox` with `AgentLoop`, whose queue
   they share; today each sees the other end as external.
