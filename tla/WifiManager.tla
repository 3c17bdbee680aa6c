----------------------------- MODULE WifiManager -----------------------------
(***************************************************************************)
(* app/wifi_manager joins the network of /data/wifi.cfg, asks for an       *)
(* address and for the time, and publishes what came of it; the screen     *)
(* (routine_manager/wifi_status_monitor.c, wifi_ui.c) shows what is        *)
(* published.  The file is written by the screen and by the web panel.     *)
(*                                                                         *)
(* A network is the configuration that joins it.  Time is counted in polls *)
(* of WIFI_MANAGER_CONFIG_POLL_SEC.                                        *)
(***************************************************************************)
EXTENDS Integers

CONSTANTS Configs,      \* what wifi.cfg may say
          Ssid,         \* [Configs -> the network it names]
          Works,        \* those some access point accepts
          Quoted,       \* those with a character that the screen does not escape
          BackoffMax,   \* WIFI_MANAGER_BACKOFF_MAX_SEC, 60 polls
          TimeRetry, TimeResync,   \* polls between two requests for the time
          MaxSaves, MaxDrops       \* bounds

Missing == "missing"
Bad == "invalid"
None == "none"
NotValid == {Missing, Bad}
Quiet == [config |-> "unknown", ssid |-> None, up |-> FALSE, ready |-> FALSE, retry |-> 0]

VARIABLES
  file, saving,          \* wifi.cfg, and what the screen is about to write there
  pc, active, seen,      \* the manager's place, configuration and `associated`
  backoff, retry,        \* the next wait, and what is left of this one
  idle,                  \* history: polls since the last failure
  due, synced,           \* polls until the time is asked again; it was once given
  status,                \* wifi.status
  joined, addr,          \* the network of the interface and the network of its address
  token,                 \* the panel's token can be read
  notified, shown,       \* the monitor's flag; what the screen says
  saves, drops

manager == <<pc, active, seen, backoff, retry, idle, due, synced, status>>
radio == <<joined, addr, drops>>
screen == <<notified, shown>>
vars == <<file, saving, manager, radio, token, screen, saves>>

Init ==
  /\ file \in Configs \cup NotValid /\ saving = None
  /\ pc = "read" /\ active = None /\ seen = FALSE /\ backoff = 1 /\ retry = 0 /\ idle = 0
  /\ due = 0 /\ synced = FALSE /\ status = Quiet
  /\ joined = None /\ addr = None /\ drops = 0 /\ token \in BOOLEAN
  /\ notified = FALSE /\ shown = "nothing" /\ saves = 0

-----------------------------------------------------------------------------
(* Who writes the file. *)

PanelSaves ==
  /\ saves < MaxSaves /\ saves' = saves + 1 /\ saving = None
  /\ \E c \in Configs : file' = c
  /\ UNCHANGED <<saving, manager, radio, token, screen>>
\* fopen("w") leaves an empty file for the moment.
ScreenSaves ==
  /\ saves < MaxSaves /\ saves' = saves + 1 /\ saving = None
  /\ \E c \in Configs : saving' = c
  /\ file' = Bad
  /\ UNCHANGED <<manager, radio, token, screen>>
ScreenSaved ==
  /\ saving # None /\ saving' = None
  /\ file' = IF saving \in Quoted THEN Bad ELSE saving
  /\ notified' = FALSE /\ shown' = "saved"
  /\ UNCHANGED <<manager, radio, token, saves>>

-----------------------------------------------------------------------------
(* One round of the manager's loop, and the sleep at its end. *)

Status(up, ready, wait) ==
  [config |-> "valid", ssid |-> Ssid[active], up |-> up, ready |-> ready, retry |-> wait]
Sleep == due' = IF due = 0 THEN 0 ELSE due - 1
Least(a, b) == IF a < b THEN a ELSE b

Changed_BySsid(c) == active = None \/ Ssid[c] # Ssid[active]
Changed(c) == active = None \/ c # active

Idle ==
  /\ pc = "read" /\ file \in NotValid
  /\ active' = None /\ retry' = 0 /\ status' = [Quiet EXCEPT !.config = file]
  /\ idle' = 0 /\ Sleep
  /\ UNCHANGED <<pc, seen, backoff, synced, file, saving, radio, token, screen, saves>>
Waited_Less(wait) == IF wait > 1 THEN wait - 2 ELSE 0
Waited(wait) == wait - 1
ReadConfig ==
  /\ pc = "read" /\ file \notin NotValid
  /\ LET new == Changed(file)
         wait == IF new THEN 0 ELSE retry
     IN /\ active' = IF new THEN file ELSE active
        /\ backoff' = IF new THEN 1 ELSE backoff
        /\ IF wait > 0 THEN /\ retry' = Waited(wait) /\ Sleep
                            /\ idle' = Least(idle + 1, BackoffMax) /\ UNCHANGED pc
           ELSE pc' = "look" /\ retry' = 0 /\ UNCHANGED <<due, idle>>
  /\ UNCHANGED <<seen, synced, status, file, saving, radio, token, screen, saves>>

\* wifi_time_sync asks the four servers in turn, and one of them answers or none.
AskTime == \/ due' = TimeResync - 1 /\ synced' = TRUE
           \/ due' = TimeRetry - 1 /\ UNCHANGED synced
SyncTime == IF due > 0 THEN Sleep /\ UNCHANGED synced ELSE AskTime
Success(ready) ==
  /\ backoff' = 1 /\ status' = Status(TRUE, ready, 0) /\ pc' = "read"
  /\ IF ready THEN SyncTime ELSE Sleep /\ UNCHANGED synced
Grown_NotCapped(b) == 2 * b
Grown(b) == Least(2 * b, BackoffMax)
Failure ==
  /\ retry' = backoff /\ status' = Status(seen, FALSE, backoff)
  /\ backoff' = Grown(backoff) /\ idle' = 0 /\ pc' = "read" /\ UNCHANGED <<due, synced>>

Look ==
  /\ pc = "look" /\ seen' = (joined # None)
  /\ IF joined # None /\ addr # None THEN Success(TRUE)
     ELSE /\ pc' = IF joined # None THEN "dhcp" ELSE "join"
          /\ UNCHANGED <<backoff, status, due, synced>>
  /\ UNCHANGED <<active, retry, idle, file, saving, radio, token, screen, saves>>
\* wifi_manager_connect: interface, keys and name, then ten looks for the AP.
Join ==
  /\ pc = "join"
  /\ \/ active \in Works /\ joined' = active /\ pc' = "dhcp" /\ UNCHANGED <<backoff, retry, idle, due, synced, status>>
     \/ joined' = None /\ Failure
  /\ UNCHANGED <<active, seen, addr, drops, file, saving, token, screen, saves>>
\* A request that fails leaves the address there was, or none; one that succeeded
\* may have lost it again when the address is asked for.
Dhcp ==
  /\ pc = "dhcp"
  /\ \/ joined # None /\ addr' = joined /\ Success(TRUE) /\ UNCHANGED <<retry, idle>>
     \/ joined # None /\ addr' = None /\ Success(FALSE) /\ UNCHANGED <<retry, idle>>
     \/ addr' \in {addr, None} /\ Failure
  /\ UNCHANGED <<active, seen, joined, drops, file, saving, token, screen, saves>>
Manage == Idle \/ ReadConfig \/ Look \/ Join \/ Dhcp

\* The access point goes away.
Drop ==
  /\ drops < MaxDrops /\ drops' = drops + 1 /\ joined # None /\ joined' = None
  /\ UNCHANGED <<file, saving, manager, addr, token, screen, saves>>
TokenAppears == token = FALSE /\ token' = TRUE /\ UNCHANGED <<file, saving, manager, radio, screen, saves>>

-----------------------------------------------------------------------------
(* The screen: wifi_status_timer_cb, and a visit of the Wi-Fi page. *)

Connected(s) == s.up /\ s.ready
Forget_Never == notified
Forget == FALSE
\* The dialog with the address and the token, once the token can be read.
Told == IF token THEN "connected" ELSE "preparing"
Timer ==
  /\ \/ Connected(status) /\ ~notified /\ notified' = token /\ shown' = Told
     \/ /\ ~Connected(status) /\ status.config # "unknown" /\ notified' = Forget
        /\ shown' = IF status.config # "valid" THEN status.config
                    ELSE IF status.retry > 0 THEN "failed"
                    ELSE IF status.up THEN "associated" ELSE "connecting"
  /\ UNCHANGED <<file, saving, manager, radio, token, saves>>
Visit == notified /\ notified' = FALSE /\ UNCHANGED <<file, saving, manager, radio, token, shown, saves>>

Next == PanelSaves \/ ScreenSaves \/ ScreenSaved \/ Manage \/ Drop \/ TokenAppears \/ Timer \/ Visit
Spec == Init /\ [][Next]_vars
\* The loop and the timer run, a save ends, and an access point that accepts a
\* configuration does not refuse it, nor an address, for ever.
FairSpec ==
  /\ Spec /\ WF_vars(Manage) /\ WF_vars(Timer) /\ WF_vars(ScreenSaved)
  /\ SF_vars(Join /\ joined' # None) /\ SF_vars(Dhcp /\ addr' # None)

-----------------------------------------------------------------------------
(* Properties. *)

TypeOK ==
  /\ file \in Configs \cup NotValid /\ saving \in Configs \cup {None}
  /\ pc \in {"read", "look", "join", "dhcp"} /\ active \in Configs \cup {None}
  /\ backoff \in 1..BackoffMax /\ {retry, idle} \subseteq 0..BackoffMax
  /\ due \in 0..TimeResync /\ {seen, synced, token, notified} \subseteq BOOLEAN
  /\ {joined, addr} \subseteq Works \cup {None}
  /\ status.config \in {"unknown", "valid"} \cup NotValid
  /\ shown \in {"nothing", "saved", "connected", "preparing", "failed", "associated", "connecting"} \cup NotValid

\* Between a failure and the next attempt with the same configuration lies the
\* wait that was published, and the wait stays within its bounds, whatever is
\* saved or dropped meanwhile (wifi_manager_main.c:489-565).
WaitsAsPublished ==
  [][pc = "read" /\ pc' = "look" /\ active' = active => idle >= status.retry /\ status.retry <= BackoffMax]_vars
\* A configuration that stays and is right is connected to in the end, though
\* one with the same name or with a long back-off was tried before, unless the
\* interface stays in a network (wifi_manager_main.c:462-483).
RightIsJoined == \A c \in Works : file = c ~> (file # c \/ joined # None)
\* When nothing changes any more the screen says connected exactly when the
\* status does, whatever it said in between (wifi_status_monitor.c:169-286).
ScreenFollows == <>[](Connected(status) /\ token) => <>[](shown = "connected")
\* "applies the configuration and reconnects": what is published as connected
\* is the network that was joined.
ConnectedIsConfigured ==
  [][status' # status /\ Connected(status') => joined' = None \/ Ssid[joined'] = status'.ssid]_vars
=============================================================================
