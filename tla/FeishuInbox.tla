----------------------------- MODULE FeishuInbox -----------------------------
(***************************************************************************)
(* What becomes of an event that the chat service pushes                   *)
(* (feishu_process_binary_frame): it is acknowledged first, then passes    *)
(* the checks for events and messages seen already, for the sender, for    *)
(* other bots that talk too much, for old messages and for text repeated   *)
(* in the same chat; what is left goes to the assistant.  The service      *)
(* sends an event again when the acknowledgement is late, or as a new      *)
(* event with the same message in it.                                      *)
(***************************************************************************)
EXTENDS Integers, Sequences, FiniteSets, FiniteSetsExt

CONSTANTS Message,     \* the messages there may be, by their id: chat, text, kind, sender, mention, stamped
          Ring,        \* DEDUP_RING_SIZE
          RateSlots, RateMax, RateWindow,   \* BOT_RATE_SLOTS, BOT_RATE_MAX, BOT_RATE_WINDOW_S
          StaleAfter,  \* 60 seconds
          Window,      \* CONTENT_DEDUP_WINDOW_MS
          MaxNow, MaxEvents   \* bounds: the clock, and events of one message

Ids == DOMAIN Message
VARIABLES
  now,
  made,        \* when the message was written, if it says so
  events, messages, texts,   \* s_dedup_ring, s_msgid_ring, s_content_dedup, newest last
  rate,        \* s_bot_rate
  self,        \* s_bot_open_id: "" , "self" or of somebody else
  out          \* messages given to the assistant, with the time (a ghost)
vars == <<now, made, events, messages, texts, rate, self, out>>

Init ==
  /\ now = 1
  /\ made \in {f \in [Ids -> 1..MaxNow] : \A m \in Ids : Message[m].stamped \/ f[m] = 1}
  /\ events = <<>> /\ messages = <<>> /\ texts = <<>>
  /\ rate = [i \in 1..RateSlots |-> [chat |-> "", stamps |-> [j \in 1..RateMax |-> 0], next |-> 1]]
  /\ self \in {"", "self"}
  /\ out = <<>>

\* A ring keeps the newest entries.
Recorded(ring, x) == LET all == Append(ring, x) IN
  IF Len(all) > Ring THEN Tail(all) ELSE all
Has(ring, x) == \E i \in 1..Len(ring) : ring[i] = x
Repeated(m) == \E i \in 1..Len(texts) :
  texts[i].chat = Message[m].chat /\ texts[i].text = Message[m].text /\ now - texts[i].at < Window

(* The limit of messages of bots in a chat. *)
Oldest(i) == Min({rate[i].stamps[j] : j \in 1..RateMax})
\* The entry of the chat, else the first unused one, else the one with the oldest stamp.
Slot(chat) ==
  LET own == {i \in 1..RateSlots : rate[i].chat = chat}
      unused == {i \in 1..RateSlots : rate[i].chat = ""}
      rest == {i \in 1..RateSlots : \A k \in 1..RateSlots : Oldest(i) <= Oldest(k)} IN
  Min(IF own # {} THEN own ELSE IF unused # {} THEN unused ELSE rest)
Entry(chat) ==
  LET e == rate[Slot(chat)] IN
  IF e.chat = chat THEN e ELSE [chat |-> chat, stamps |-> [j \in 1..RateMax |-> 0], next |-> 1]
Limited(chat) ==
  Cardinality({j \in 1..RateMax : Entry(chat).stamps[j] > 0 /\ now - Entry(chat).stamps[j] < RateWindow}) >= RateMax
\* A mutant: the stamp is not moved on.
Stamped_InPlace(e) == [e EXCEPT !.stamps[e.next] = now]
Stamped(e) == [e EXCEPT !.stamps[e.next] = now, !.next = IF e.next = RateMax THEN 1 ELSE e.next + 1]
Rated(chat, limited) ==
  rate' = [rate EXCEPT ![Slot(chat)] = IF limited THEN Entry(chat) ELSE Stamped(Entry(chat))]

(* The checks, each after the one before. *)
SenderIsHeard(m) ==
  /\ Message[m].sender \in {"user", "bot", "self"}
  /\ ~(Message[m].sender = "self" /\ self = "self")
ByBot(m) == Message[m].sender \in {"bot", "self"}
Stale(m) == Message[m].stamped /\ now - made[m] > StaleAfter
\* In a group only messages that mention someone are taken.
Addressed(m) == Message[m].mention # "missing"
\* A mutant: a message in a new event is taken for a new one.
Seen_Never(m) == FALSE
Seen(m) == Has(messages, m)
\* Without an id of its own the bot takes the first one mentioned for its own.
Learned(m) ==
  IF self = "" /\ Message[m].mention \in {"self", "other"} THEN Message[m].mention ELSE self

New(m, n) == ~Has(events, <<m, n>>)
Textual(m) == Message[m].kind \in {"text", "post with image"} /\ Addressed(m)
Pictured(m) == Message[m].kind = "image" /\ Addressed(m)

Arrive(m, n) ==
  LET msg == Message[m]
      heard == New(m, n) /\ SenderIsHeard(m)
      limited == ByBot(m) /\ Limited(msg.chat)
      taken == heard /\ ~limited /\ ~Stale(m)
      text == taken /\ Textual(m)
      first == text /\ ~Seen(m)
      given == first /\ (msg.kind = "post with image" \/ ~Repeated(m))
      image == taken /\ Pictured(m) IN
  /\ made[m] <= now
  /\ events' = IF New(m, n) THEN Recorded(events, <<m, n>>) ELSE events
  /\ IF heard /\ ByBot(m) THEN Rated(msg.chat, limited) ELSE UNCHANGED rate
  /\ self' = IF text THEN Learned(m) ELSE self
  /\ messages' = IF first THEN Recorded(messages, m) ELSE messages
  /\ texts' = IF given /\ msg.kind = "text"
                THEN Recorded(texts, [chat |-> msg.chat, text |-> msg.text, at |-> now]) ELSE texts
  \* the bus may be full, the download of an image fail
  /\ out' \in {out} \cup (IF given \/ image THEN {Append(out, [id |-> m, at |-> now])} ELSE {})
  /\ UNCHANGED <<now, made>>

Tick == now < MaxNow /\ now' = now + 1 /\ UNCHANGED <<made, events, messages, texts, rate, self, out>>

Next == Tick \/ \E m \in Ids, n \in 1..MaxEvents : Arrive(m, n)
Spec == Init /\ [][Next]_vars

\* The types of the variables; the rings hold no more than their size.
TypeOK ==
  /\ now \in 1..MaxNow /\ made \in [Ids -> 1..MaxNow]
  /\ Len(events) <= Ring /\ Len(messages) <= Ring /\ Len(texts) <= Ring
  /\ \A i \in 1..RateSlots : rate[i].next \in 1..RateMax /\ rate[i].stamps \in [1..RateMax -> 0..MaxNow]

Texts == {m \in Ids : Message[m].kind # "image"}
(***************************************************************************)
(* A text is answered once, however often and in however many events the   *)
(* service sends it, as long as the ring has room for the ids of all.      *)
(***************************************************************************)
AnsweredOnce ==
  \A i, j \in 1..Len(out) : i < j /\ out[i].id = out[j].id => out[i].id \notin Texts
(***************************************************************************)
(* Two bots do not keep each other busy: in no window does a chat get more *)
(* than the limit of messages of bots, as long as there is an entry for    *)
(* each chat.                                                              *)
(***************************************************************************)
BotsAreLimited ==
  \A i \in 1..Len(out) :
    Cardinality({j \in i..Len(out) : /\ ByBot(out[j].id) /\ Message[out[j].id].chat = Message[out[i].id].chat
                                     /\ out[j].at - out[i].at < RateWindow}) <= RateMax
=============================================================================
