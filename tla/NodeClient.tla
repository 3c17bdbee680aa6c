----------------------------- MODULE NodeClient ------------------------------
(***************************************************************************)
(* node/node_client.c: the thread that keeps this device connected to a    *)
(* gateway as a node, and the commands that start and stop it.  A command  *)
(* closes the socket to wake the thread, waits for its end, and only then  *)
(* frees what TLS keeps.                                                   *)
(***************************************************************************)
EXTENDS Integers

CONSTANTS MaxCommands, MaxSilence, MaxLost    \* bounds

VARIABLES
  worker,      \* where the thread is, "gone" when there is none
  running,     \* s_running
  socket,      \* "none", "hidden" in do_connect, "open" in s_ws.fd, "shut"
  tls,         \* "none", or s_ws.tls_init: "live"
  connected,   \* s_ws.connected
  lost,        \* sockets nobody will close, counted to MaxLost
  silent,      \* receive timeouts since something was received
  cmd, start,  \* where a command is, and whether it is a start
  commands

client == <<worker, socket, tls, connected, lost, silent>>
command == <<cmd, start, commands>>
vars == <<client, running, command>>

Init ==
  /\ worker = "gone" /\ running = FALSE /\ socket = "none" /\ tls = "none" /\ connected = FALSE
  /\ lost = 0 /\ silent = 0 /\ cmd = "idle" /\ start = FALSE /\ commands = 0

-----------------------------------------------------------------------------
(* The thread. *)

Goes(from, to) == worker = from /\ worker' = to
Stays == UNCHANGED <<running, command>>

Continues_Always == TRUE
Continues == running
Top ==
  /\ Goes("top", IF Continues THEN "connect" ELSE "gone")
  /\ UNCHANGED <<socket, tls, connected, lost, silent>> /\ Stays
\* do_connect starts from nothing; with TLS the socket is not in s_ws.fd yet.
Connect ==
  /\ tls' = "none" /\ connected' = FALSE
  /\ \/ Goes("connect", "handshake") /\ socket' = "hidden"
     \/ Goes("connect", "upgrade") /\ socket' = "open"
     \/ Goes("connect", "sleep") /\ socket' = "none"
  /\ UNCHANGED <<lost, silent>> /\ Stays
\* A handshake that fails is cleaned up as if there were neither socket nor TLS.
Handshake ==
  /\ \/ Goes("handshake", "upgrade") /\ tls' = "live" /\ socket' = "open" /\ UNCHANGED lost
     \/ Goes("handshake", "sleep") /\ socket' = "none" /\ UNCHANGED tls
        /\ lost' = IF lost < MaxLost THEN lost + 1 ELSE lost
  /\ UNCHANGED <<connected, silent>> /\ Stays
Upgrade ==
  /\ \/ socket = "open" /\ Goes("upgrade", "recv") /\ connected' = TRUE /\ UNCHANGED <<socket, tls>>
     \/ Goes("upgrade", "sleep") /\ socket' = "none" /\ tls' = "none" /\ connected' = FALSE
  /\ silent' = 0 /\ UNCHANGED lost /\ Stays
Receive ==
  /\ running /\ connected /\ socket = "open" /\ worker = "recv" /\ silent' = 0
  /\ UNCHANGED <<worker, socket, tls, connected, lost>> /\ Stays
\* Thirty seconds without a byte: a ping is written, and the wait begins again.
Silence ==
  /\ running /\ connected /\ socket = "open" /\ worker = "recv"
  /\ silent < MaxSilence /\ silent' = silent + 1
  /\ UNCHANGED <<worker, socket, tls, connected, lost>> /\ Stays
\* A close frame, an error, a ping that cannot be written, or a flag.
Leave ==
  /\ Goes("recv", "close")
  /\ UNCHANGED <<socket, tls, connected, lost, silent>> /\ Stays
Disconnect ==
  /\ Goes("close", IF running THEN "sleep" ELSE "gone")
  /\ socket' = "none" /\ tls' = "none" /\ connected' = FALSE
  /\ UNCHANGED <<lost, silent>> /\ Stays
Wake == Goes("sleep", "top") /\ UNCHANGED <<socket, tls, connected, lost, silent>> /\ Stays
Worker == Top \/ Connect \/ Handshake \/ Upgrade \/ Receive \/ Silence \/ Leave \/ Disconnect \/ Wake

-----------------------------------------------------------------------------
(* node_client_start and node_client_stop. *)

Begin ==
  /\ cmd = "idle" /\ commands < MaxCommands /\ commands' = commands + 1
  /\ start' \in BOOLEAN /\ running' = FALSE
  /\ cmd' = IF start' /\ ~running THEN "spawn" ELSE "shut"
  /\ UNCHANGED client
\* do_shutdown_fd sees only the socket that is in s_ws.
Shut ==
  /\ cmd = "shut" /\ cmd' = "join" /\ connected' = FALSE
  /\ socket' = IF socket = "open" THEN "shut" ELSE socket
  /\ UNCHANGED <<worker, tls, lost, silent, running, start, commands>>
Joined_Skipped == TRUE
Joined == worker = "gone"
Join == cmd = "join" /\ Joined /\ cmd' = "free" /\ UNCHANGED <<client, running, start, commands>>
FreeTls ==
  /\ cmd = "free" /\ cmd' = (IF start THEN "spawn" ELSE "idle") /\ tls' = "none"
  /\ UNCHANGED <<worker, socket, connected, lost, silent, running, start, commands>>
\* No gateway is configured, or the thread cannot be made; or it is made.
Spawn ==
  /\ cmd = "spawn" /\ cmd' = "idle"
  /\ \/ UNCHANGED <<worker, running>>
     \/ running' = TRUE /\ worker' = "top"
  /\ UNCHANGED <<socket, tls, connected, lost, silent, start, commands>>

Commanded == Shut \/ Join \/ FreeTls \/ Spawn
Command == Begin \/ Commanded
Next == Worker \/ Command
Spec == Init /\ [][Next]_vars
\* The threads run, and neither a sleep nor a read that was shut lasts for ever.
FairSpec == Spec /\ WF_vars(Worker) /\ WF_vars(Commanded)

-----------------------------------------------------------------------------
(* Properties. *)

TypeOK ==
  /\ worker \in {"gone", "top", "connect", "handshake", "upgrade", "recv", "close", "sleep"}
  /\ socket \in {"none", "hidden", "open", "shut"} /\ tls \in {"none", "live"}
  /\ {running, connected, start} \subseteq BOOLEAN /\ silent \in 0..MaxSilence
  /\ cmd \in {"idle", "shut", "join", "free", "spawn"}

\* While the thread may be reading through TLS nobody frees it, and no second
\* thread is started beside it (node_client.c:466-535 and :773-850).
ReaderIsAlone ==
  [][(cmd = "free" \/ (running' # running /\ running')) => worker = "gone"]_vars
\* Every command comes to its end, wherever the thread was when the flag was
\* cleared: in a connection attempt, a read or a sleep.
CommandsEnd == cmd # "idle" ~> cmd = "idle"
\* "second timeout without pong" ends the connection: a gateway that is gone is
\* noticed by its silence.
DeadPeerIsNoticed == silent < 2
=============================================================================
