----------------------------- MODULE MqttChannel -----------------------------
(***************************************************************************)
(* The MQTT channel (mqtt_channel.c) over MQTT-C: a thread synchronises,   *)
(* and in it the callbacks run that connect again after an error and take  *)
(* messages; replies are queued by the dispatcher; the main thread starts  *)
(* and stops the channel.  Sessions are clean: a broker knows of a         *)
(* connection only what was sent on it.  Replies go with QoS 1: they are   *)
(* published again until they are acknowledged, and every copy is.         *)
(***************************************************************************)
EXTENDS Integers, Sequences, FiniteSets

CONSTANTS MaxStarts, MaxSockets, MaxMails   \* bounds: runs of the assistant, connections, messages each way

None == 0
Threads == 1..MaxStarts
VARIABLES
  running,       \* s_running
  fd,            \* s_sockfd
  socket, error, \* the client of MQTT-C: its socket, and whether it is in error
  queued,        \* what it has to send: "connect", "subscribe", replies
  unacked, acks, \* replies sent and not acknowledged, acknowledgements on their way
  opened, open,  \* sockets ever made, those that are open
  listens,       \* connections whose broker was asked for s_topic_in
  pc,            \* of the synchronising threads
  main, starts,
  mails, taken,  \* messages published by the broker, and pushed on the bus
  replies, told  \* mqtt_channel_send: answered OK, acknowledged by the broker
pending == <<unacked, acks>>
client == <<socket, error, queued, pending>>
net == <<opened, open, listens>>
counts == <<mails, taken, replies, told>>
vars == <<running, fd, client, net, pc, main, starts, counts>>

Init ==
  /\ running = FALSE /\ fd = None
  /\ socket = None /\ error = FALSE /\ queued = <<>> /\ unacked = 0 /\ acks = 0
  /\ opened = 0 /\ open = {} /\ listens = {}
  /\ pc = [t \in Threads |-> "none"] /\ main = "idle" /\ starts = 0
  /\ mails = 0 /\ taken = 0 /\ replies = 0 /\ told = 0

Forgotten == unacked' = 0 /\ acks' = 0

-----------------------------------------------------------------------------
(* The main thread.                                                        *)

\* mqtt_init_reconnect: the first synchronisation connects.
Start ==
  /\ main = "idle" /\ starts < MaxStarts /\ ~running /\ starts' = starts + 1
  /\ error' = TRUE /\ socket' = None /\ queued' = <<>> /\ Forgotten
  /\ \/ running' = TRUE /\ pc' = [pc EXCEPT ![starts'] = "loop"]
     \/ UNCHANGED <<running, pc>>
  /\ UNCHANGED <<fd, net, main, counts>>
Stop ==
  /\ main = "idle" /\ running /\ running' = FALSE /\ main' = "close"
  /\ UNCHANGED <<fd, client, net, pc, starts, counts>>
Close ==
  /\ main = "close" /\ main' = "idle"
  /\ open' = open \ {fd} /\ fd' = None
  /\ UNCHANGED <<running, client, opened, listens, pc, starts, counts>>

-----------------------------------------------------------------------------
(* mqtt_sync_thread.                                                       *)

Leave(t) ==
  /\ pc[t] = "loop" /\ ~running /\ pc' = [pc EXCEPT ![t] = "gone"]
  /\ UNCHANGED <<running, fd, client, net, main, starts, counts>>
\* on_reconnect: the old socket is closed before a new one is made.
Dropped_Kept == open
Dropped == open \ {fd}
Reconnect(t) ==
  /\ pc[t] = "loop" /\ running /\ error
  /\ open' = Dropped /\ fd' = None /\ pc' = [pc EXCEPT ![t] = "connect"]
  /\ UNCHANGED <<running, client, opened, listens, main, starts, counts>>
Asked_Once == IF listens = {} THEN <<"connect", "subscribe">> ELSE <<"connect">>
Asked == <<"connect", "subscribe">>
\* tcp_connect, mqtt_reinit: what was queued or not yet acknowledged is forgotten.
Connect(t) ==
  /\ pc[t] = "connect" /\ pc' = [pc EXCEPT ![t] = "loop"] /\ Forgotten
  /\ \/ /\ opened < MaxSockets /\ opened' = opened + 1 /\ open' = open \cup {opened'}
        /\ fd' = opened' /\ socket' = opened' /\ error' = FALSE /\ queued' = Asked
     \* Refused: the next synchronisation tries again.
     \/ socket' = None /\ error' = TRUE /\ queued' = <<>> /\ UNCHANGED <<opened, open, fd>>
  /\ UNCHANGED <<running, listens, main, starts, counts>>
Syncs(t) == pc[t] = "loop" /\ running /\ ~error
\* A socket that is closed or cut off is an error of the client.
Breaks(t) ==
  /\ Syncs(t) /\ error' = TRUE
  /\ UNCHANGED <<running, fd, socket, queued, pending, net, pc, main, starts, counts>>
Sends(t) ==
  /\ Syncs(t) /\ socket \in open /\ queued # <<>> /\ queued' = Tail(queued)
  /\ listens' = IF Head(queued) = "subscribe" THEN listens \cup {socket} ELSE listens
  /\ IF Head(queued) = "reply" THEN unacked' = unacked + 1 /\ acks' = acks + 1 ELSE UNCHANGED pending
  /\ UNCHANGED <<running, fd, socket, error, opened, open, pc, main, starts, counts>>
\* A reply that waited too long for its acknowledgement goes again as it is; one
\* acknowledgement more than replies are waited for is the bound.
Resends_Anew(t) ==
  /\ Syncs(t) /\ socket \in open /\ unacked > 0 /\ acks = unacked
  /\ unacked' = unacked + 1 /\ acks' = acks + 1
  /\ UNCHANGED <<running, fd, socket, error, queued, net, pc, main, starts, counts>>
Resends(t) ==
  /\ Syncs(t) /\ socket \in open /\ unacked > 0 /\ acks = unacked
  /\ acks' = acks + 1
  /\ UNCHANGED <<running, fd, socket, error, queued, unacked, net, pc, main, starts, counts>>
\* The acknowledgement of a reply that is waited for, or of the copy of one that is
\* not, which MQTT-C may take for an error.
Acknowledged(t) ==
  /\ Syncs(t) /\ socket \in open /\ acks > 0 /\ acks' = acks - 1
  /\ \/ unacked > 0 /\ unacked' = unacked - 1 /\ told' = told + 1 /\ UNCHANGED error
     \/ acks > unacked /\ error' \in BOOLEAN /\ UNCHANGED <<unacked, told>>
  /\ UNCHANGED <<running, fd, socket, queued, net, pc, main, starts, mails, taken, replies>>
\* on_publish: the bus may be full.
Receives(t) ==
  /\ Syncs(t) /\ socket \in open \cap listens /\ mails < MaxMails /\ mails' = mails + 1
  /\ taken' \in {taken, taken + 1}
  /\ UNCHANGED <<running, fd, client, net, pc, main, starts, replies, told>>

\* mqtt_channel_send
Send ==
  /\ running /\ fd # None /\ replies < MaxMails
  /\ replies' = replies + 1 /\ queued' = Append(queued, "reply")
  /\ UNCHANGED <<running, fd, socket, error, pending, net, pc, main, starts, mails, taken, told>>

Next ==
  \/ Start \/ Stop \/ Close \/ Send
  \/ \E t \in Threads : \/ Leave(t) \/ Reconnect(t) \/ Connect(t) \/ Breaks(t)
                         \/ Sends(t) \/ Resends(t) \/ Acknowledged(t) \/ Receives(t)
Spec == Init /\ [][Next]_vars

-----------------------------------------------------------------------------
(* Properties. *)

TypeOK ==
  /\ {running, error} \subseteq BOOLEAN /\ {fd, socket} \cup open \cup listens \subseteq 0..MaxSockets
  /\ taken <= mails /\ unacked \in Nat /\ acks \in unacked..unacked + 1

\* However often the line breaks, no more than one connection is open, and on
\* the one in use the topic is or will be asked for, so that messages come
\* again; and a reply is queued, waited for or acknowledged once, however often
\* it is published (mqtt_channel.c:179-246, :333-413).
Waiting == Cardinality({i \in DOMAIN queued : queued[i] = "reply"})
LinkIsWhole ==
  /\ Cardinality(open) <= 1 /\ Waiting + unacked + told <= replies
  /\ running /\ ~error /\ socket \in open =>
       socket \in listens \/ \E i \in DOMAIN queued : queued[i] = "subscribe"
\* mqtt_channel.c:402: the socket is closed to unblock the thread, which exits.
StoppedIsClosed == ~running /\ main = "idle" /\ (\A t \in Threads : pc[t] \in {"none", "gone"}) => open = {}
==============================================================================
