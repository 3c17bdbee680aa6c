------------------------------ MODULE AgentMain ------------------------------
(***************************************************************************)
(* The life of the assistant (agent_main.c): the main thread starts the    *)
(* threads and the local services, waits for quit and stops them; the      *)
(* network watcher joins the saved network and starts the services of the  *)
(* cloud; the command line joins networks too (channels/nsh_commands.c).   *)
(* Joining a network tells the radio and saves the name and the key one    *)
(* after the other (infra/network_manager.c), and nothing keeps two        *)
(* callers apart.  Whether the radio is associated, and whether there is   *)
(* an address, is up to the radio and the network.                         *)
(*                                                                         *)
(* F_Fault is F with a plausible fault, for the mutants of PROJECT.json.   *)
(***************************************************************************)
EXTENDS Naturals, Sequences

CONSTANTS Given,        \* the networks set_wifi is given: records of ssid and psk
          Failing,      \* the services whose start may fail
          MaxCommands,  \* bound on commands
          MaxCuts       \* bound on restarts

Callers == {"watch", "cli"}
Unset == [ssid |-> "", psk |-> ""]

VARIABLES
  main,      \* the main thread
  shutdown,  \* g_shutdown_requested
  runs,      \* the services that are told to run
  alive,     \* those whose thread, of lvgl the screen, is there
  watch,     \* the network watcher
  cli,       \* the command line
  wish,      \* the network each caller joins
  pc,        \* and how far it is
  saved,     \* AGENT_CFG_KEY_WIFI_SSID and _PASS
  radio,     \* what wapi was told
  commands, cuts,
  meddled,   \* history: two callers at once, a lost write, or a restart between two
  tardy      \* history: the services the watcher started after quit

threads == <<main, shutdown, runs, alive, watch, cli, tardy>>
vars == <<threads, wish, pc, saved, radio, commands, cuts, meddled>>

Local == {"loop", "ws", "cron", "heartbeat", "lvgl"}
Cloud == <<"feishu", "node", "mqtt", "weixin">>
\* The loop and the Feishu bot have no stop, and of the others two wait until the
\* thread is over; the rest only tell it, or give up waiting after a time.
Stops == <<"weixin", "node", "mqtt", "ws", "lvgl", "cron", "heartbeat">>
Awaited == {"weixin", "node"}

Init ==
  /\ main = "init" /\ shutdown = FALSE /\ runs = {} /\ alive = {} /\ watch = "none" /\ cli = "none"
  /\ wish = [c \in Callers |-> Unset] /\ pc = [c \in Callers |-> "idle"]
  /\ saved = Unset /\ radio = Unset
  /\ commands = 0 /\ cuts = 0 /\ meddled = FALSE /\ tardy = {}

-----------------------------------------------------------------------------
(* network_wifi_connect and network_wifi_reconnect, of caller c.           *)

Joins(c, from, to) == pc[c] = from /\ pc' = [pc EXCEPT ![c] = to]
Forgets(c) == wish' = [wish EXCEPT ![c] = Unset]
Alone(c) == \A d \in Callers \ {c} : pc[d] = "idle"

\* The name and the key are read one after the other.
ReadSsid(c) ==
  /\ Joins(c, "idle", "read") /\ saved.ssid # ""
  /\ wish' = [wish EXCEPT ![c] = [ssid |-> saved.ssid, psk |-> ""]]
  /\ meddled' = (meddled \/ ~Alone(c))
  /\ UNCHANGED <<saved, radio>>
ReadPass(c) ==
  /\ Joins(c, "read", "psk")
  /\ wish' = [wish EXCEPT ![c].psk = saved.psk]
  /\ UNCHANGED <<saved, radio, meddled>>
\* An empty key leaves the one the radio has.
TellPsk(c) ==
  /\ Joins(c, "psk", "essid")
  /\ radio' = IF wish[c].psk = "" THEN radio ELSE [radio EXCEPT !.psk = wish[c].psk]
  /\ UNCHANGED <<wish, saved, meddled>>
TellEssid(c) ==
  /\ Joins(c, "essid", "status")
  /\ radio' = [radio EXCEPT !.ssid = wish[c].ssid]
  /\ UNCHANGED <<wish, saved, meddled>>
\* Where wapi says Not-Associated the call fails and nothing is saved; a build
\* without popen does not ask.
NotAssociated(c) ==
  /\ Joins(c, "status", "idle") /\ Forgets(c) /\ UNCHANGED <<saved, radio, meddled>>
Associated(c) ==
  /\ Joins(c, "status", "ssid") /\ UNCHANGED <<wish, saved, radio, meddled>>
\* The result of agent_config_set is not looked at.
SaveSsid(c) ==
  /\ Joins(c, "ssid", "pass")
  /\ \/ saved' = [saved EXCEPT !.ssid = wish[c].ssid] /\ UNCHANGED meddled
     \/ UNCHANGED saved /\ meddled' = TRUE
  /\ UNCHANGED <<wish, radio>>
SavePass(c) ==
  /\ Joins(c, "pass", "wait")
  /\ \/ saved' = [saved EXCEPT !.psk = wish[c].psk] /\ UNCHANGED meddled
     \/ UNCHANGED saved /\ meddled' = TRUE
  /\ UNCHANGED <<wish, radio>>
\* An address, or fifteen seconds without one.
Waited(c) ==
  /\ Joins(c, "wait", "idle") /\ Forgets(c) /\ UNCHANGED <<saved, radio, meddled>>

Joining(c) ==
  /\ \/ ReadPass(c) \/ TellPsk(c) \/ TellEssid(c) \/ NotAssociated(c) \/ Associated(c)
     \/ SaveSsid(c) \/ SavePass(c) \/ Waited(c)
  /\ UNCHANGED <<threads, commands, cuts>>

-----------------------------------------------------------------------------
(* The main thread. *)

network == <<wish, pc, saved, radio, commands, cuts, meddled>>
Goes(from, to) == main = from /\ main' = to

\* Everything is initialised in order; without a message bus there is no assistant.
Initialised ==
  /\ main = "init" /\ main' \in {"dispatch", "failed"}
  /\ UNCHANGED <<shutdown, runs, alive, watch, cli, tardy, network>>
\* The dispatcher's thread first, so that nothing waits in the outbound queue.
StartDispatch ==
  /\ main = "dispatch" /\ main' \in {"local", "failed"}
  /\ UNCHANGED <<shutdown, runs, alive, watch, cli, tardy, network>>
\* A service that does not start is only logged.
StartLocal ==
  /\ Goes("local", "watch") /\ \E F \in SUBSET (Failing \cap Local) : runs' = Local \ F
  /\ alive' = runs'
  /\ UNCHANGED <<shutdown, watch, cli, tardy, network>>
StartWatcher ==
  /\ Goes("watch", "cli") /\ watch' \in {"none", "reconnect"}
  /\ UNCHANGED <<shutdown, runs, alive, cli, tardy, network>>
StartCli ==
  /\ Goes("cli", "ready") /\ cli' \in {"none", "prompt"}
  /\ UNCHANGED <<shutdown, runs, alive, watch, tardy, network>>
\* One stop after another, whether the service runs or not.
Left(n) == IF n = Len(Stops) THEN "pause" ELSE Stops[n + 1]
Quits ==
  /\ Goes("ready", Left(0)) /\ shutdown
  /\ UNCHANGED <<shutdown, runs, alive, watch, cli, tardy, network>>
Stop ==
  /\ \E n \in DOMAIN Stops :
       /\ Goes(Stops[n], Left(n)) /\ runs' = runs \ {Stops[n]}
       /\ alive' = alive \ ({Stops[n]} \cap Awaited)
  /\ UNCHANGED <<shutdown, watch, cli, tardy, network>>
\* Half a second later the tools and the bus are destroyed, whoever is still there.
Destroys ==
  /\ Goes("pause", "over") /\ UNCHANGED <<shutdown, runs, alive, watch, cli, tardy, network>>
\* A thread that was told to stop ends in its own time; the loop asks for shutdown itself.
Leaves ==
  /\ \E s \in alive :
       /\ s \notin runs \/ (s = "loop" /\ shutdown)
       /\ alive' = alive \ {s} /\ runs' = runs \ {s}
  /\ UNCHANGED <<main, shutdown, watch, cli, tardy, network>>

-----------------------------------------------------------------------------
(* The network watcher. *)

Watches(from, to) == watch = from /\ watch' = to
rest == <<main, shutdown, cli, wish, pc, saved, radio, commands, cuts, meddled>>

WatchReads ==
  /\ watch = "reconnect" /\ ReadSsid("watch") /\ watch' = "join"
  /\ UNCHANGED <<main, shutdown, runs, alive, cli, tardy, commands, cuts>>
NothingSaved ==
  /\ Watches("reconnect", "address") /\ saved.ssid = "" /\ UNCHANGED <<runs, alive, tardy, rest>>
Joined ==
  /\ Watches("join", "address") /\ pc["watch"] = "idle" /\ UNCHANGED <<runs, alive, tardy, rest>>
\* An address, then the skills are fetched; or thirty seconds without one, and
\* the cloud stays away until the next start.
Connected ==
  /\ Watches("address", Cloud[1]) /\ UNCHANGED <<runs, alive, tardy, rest>>
Offline ==
  /\ Watches("address", "over") /\ UNCHANGED <<runs, alive, tardy, rest>>
\* Nothing asks whether the teardown has begun.
StartCloud ==
  /\ \E n \in DOMAIN Cloud :
       /\ Watches(Cloud[n], IF n = Len(Cloud) THEN "over" ELSE Cloud[n + 1])
       /\ \/ /\ runs' = runs \cup {Cloud[n]} /\ alive' = alive \cup {Cloud[n]}
             /\ tardy' = IF shutdown THEN tardy \cup {Cloud[n]} ELSE tardy
          \/ Cloud[n] \in Failing /\ UNCHANGED <<runs, alive, tardy>>
  /\ UNCHANGED rest

-----------------------------------------------------------------------------
(* The command line and the power. *)

Command == /\ cli = "prompt" /\ pc["cli"] = "idle"
           /\ commands < MaxCommands /\ commands' = commands + 1 /\ UNCHANGED cuts
SetWifi ==
  /\ Command /\ Joins("cli", "idle", "psk")
  /\ \E g \in Given : wish' = [wish EXCEPT !["cli"] = g]
  /\ meddled' = (meddled \/ ~Alone("cli")) /\ UNCHANGED <<threads, saved, radio>>
WifiReconnect == Command /\ ReadSsid("cli") /\ UNCHANGED threads
ConfigReset ==
  /\ Command /\ saved' = Unset /\ meddled' = (meddled \/ ~Alone("cli"))
  /\ UNCHANGED <<threads, wish, pc, radio>>
\* quit ends the command line as well.
Quit ==
  /\ cli = "prompt" /\ pc["cli"] = "idle" /\ cli' = "over" /\ shutdown' = TRUE
  /\ UNCHANGED <<main, runs, alive, watch, tardy, network>>
\* The end of the input ends the command line only.
InputEnds ==
  /\ cli = "prompt" /\ pc["cli"] = "idle" /\ cli' = "over"
  /\ UNCHANGED <<main, shutdown, runs, alive, watch, tardy, network>>
\* restart, or a loss of power: what was saved remains.
Restart ==
  /\ cuts < MaxCuts /\ cuts' = cuts + 1
  /\ meddled' = (meddled \/ \E c \in Callers : pc[c] = "pass")
  /\ main' = "init" /\ shutdown' = FALSE /\ runs' = {} /\ alive' = {} /\ watch' = "none" /\ cli' = "none"
  /\ wish' = [c \in Callers |-> Unset] /\ pc' = [c \in Callers |-> "idle"]
  /\ radio' = Unset /\ tardy' = {} /\ UNCHANGED <<saved, commands>>

Main == Initialised \/ StartDispatch \/ StartLocal \/ StartWatcher \/ StartCli \/ Quits \/ Stop \/ Destroys
Watcher == WatchReads \/ NothingSaved \/ Joined \/ Connected \/ Offline \/ StartCloud
Cli == SetWifi \/ WifiReconnect \/ ConfigReset \/ Quit \/ InputEnds
Next == Main \/ Leaves \/ Watcher \/ Cli \/ Restart \/ \E c \in Callers : Joining(c)
Spec == Init /\ [][Next]_vars

-----------------------------------------------------------------------------
(* Properties. *)

TypeOK ==
  /\ main \in {"init", "dispatch", "local", "watch", "cli", "ready", "pause", "over", "failed"} \cup {Stops[n] : n \in DOMAIN Stops}
  /\ watch \in {"none", "reconnect", "join", "address", "over"} \cup {Cloud[n] : n \in DOMAIN Cloud}
  /\ cli \in {"none", "prompt", "over"} /\ {shutdown, meddled} \subseteq BOOLEAN
  /\ runs \subseteq alive /\ alive \subseteq Local \cup {Cloud[n] : n \in DOMAIN Cloud}
  /\ tardy \subseteq {Cloud[n] : n \in DOMAIN Cloud}
  /\ pc \in [Callers -> {"idle", "read", "psk", "essid", "status", "ssid", "pass", "wait"}]
  /\ {saved, radio} \cup {wish[c] : c \in Callers} \subseteq
       [ssid : {g.ssid : g \in Given} \cup {""}, psk : {g.psk : g \in Given} \cup {""}]
  /\ commands \in 0..MaxCommands /\ cuts \in 0..MaxCuts

\* What the next boot joins is one network that was given, and the one the radio
\* was told of last, unless two calls ran at once, a write was lost, or the device
\* restarted between the two writes (network_manager.c:812-894).
SavedIsTold ==
  ~meddled =>
    /\ (\A c \in Callers : pc[c] # "pass") => saved \in Given \cup {Unset}
    /\ \A c \in Callers : pc[c] = "wait" => saved = radio
\* When the main thread has stopped everybody, only what has no stop is told to run,
\* and of those that are waited for no thread is there, but for what the watcher
\* started after quit.  Other threads may outlive the bus (agent_main.c:711-762).
NothingIsLeft ==
  main \in {"pause", "over"} =>
    runs \ {"loop", "feishu"} \subseteq tardy /\ alive \cap Awaited \subseteq tardy
=============================================================================
