------------------------------ MODULE AgentLoop ------------------------------
(***************************************************************************)
(* The assistant's conversation: the two queues of core/message_bus.c, the *)
(* agent thread of core/agent_loop.c that takes one message at a time and  *)
(* asks the language model in rounds of tool calls, the cache of answers   *)
(* to greetings (llm/llm_cache.c), the dispatch thread and the shutdown of *)
(* agent_main.c, and the program that asks through                         *)
(* sdk/velaclaw_client_local.c and taps the outbound queue.                *)
(*                                                                         *)
(* A message is a number, with the channel it came from and a kind.  What  *)
(* the model and the tools answer is chosen freely.  The router's choice   *)
(* of a backend is left to LlmRouter; a call here is the call with its     *)
(* failover.  Memory is never refused by malloc: low memory is what the    *)
(* agent tests itself.                                                     *)
(*                                                                         *)
(* F_Fault is F with a plausible fault, for the mutants of PROJECT.json.   *)
(***************************************************************************)
EXTENDS Integers, Sequences, FiniteSets

CONSTANTS QueueLen,   \* AGENT_BUS_QUEUE_LEN, 16
          MaxIter,    \* AGENT_AI_AGENT_MAX_TOOL_ITER, 10
          MaxRepeat,  \* AGENT_TOOL_NAME_REPEAT_MAX, 4
          TTL,        \* LLM_CACHE_TTL_SEC, 300
          Channels,   \* of the messages; "client" is velaclaw_ask
          Kinds,      \* of the messages: "greeting", "text", "picture"
          Calls,      \* single tool calls, <<name, arguments>>
          MaxMsgs, MaxTicks   \* bounds on messages and on time

ASSUME BoundsKnown ==
  /\ QueueLen \in Nat \ {0} /\ MaxIter \in Nat \ {0} /\ MaxRepeat \in Nat \ {0}
  /\ TTL \in Nat /\ MaxMsgs \in Nat /\ MaxTicks \in Nat

Ids == 1..MaxMsgs
None == 0
NoCall == <<"none">>
Several == <<"several">>       \* a round of more than one call
Texts == {"none", "answer", "timeout", "tool"}

VARIABLES
  sent,      \* how many messages there were
  from,      \* [Ids -> channel and kind]
  inbound, outbound,
  pc,        \* the agent thread
  turn,      \* the locals of its turn
  asks,      \* the rounds of the turn
  cache,     \* the slot of the greeting
  ticks,
  shutdown,  \* "no", "asked" (g_shutdown_requested), "flagged" (g_bus_shutdown), "woken"
  dispatch,  \* the dispatch thread runs
  cb,        \* the question whose callback the client holds
  pending,   \* the question the client has not pushed yet
  replies,   \* history: final replies offered for each message
  heard      \* history: what the callback of each question was given

bus == <<inbound, outbound>>
client == <<cb, pending, heard>>
agent == <<pc, turn, asks, cache, replies>>
vars == <<sent, from, bus, agent, ticks, shutdown, dispatch, client>>

Stopping == shutdown # "no"
NoTurn == [msg |-> None, tool |-> FALSE, text |-> "none", hit |-> FALSE]
NoAsks == [iter |-> 0, prev |-> NoCall, dup |-> 0, rep |-> 0]
Empty == [text |-> "none", age |-> 0, born |-> 0]

Init ==
  /\ sent = 0 /\ from = [m \in Ids |-> [ch |-> "cli", kind |-> "text"]]
  /\ inbound = <<>> /\ outbound = <<>>
  /\ pc = "top" /\ turn = NoTurn /\ asks = NoAsks /\ cache = Empty
  /\ ticks = 0 /\ shutdown = "no" /\ dispatch = TRUE
  /\ cb = None /\ pending = None
  /\ replies = [m \in Ids |-> 0] /\ heard = [m \in Ids |-> "nothing"]

-----------------------------------------------------------------------------
(* The bus. *)

\* msg_queue_push: with room at once or within five seconds, or the message is
\* dropped.  One waiting reader is woken.
Pushed(q, x) == IF Len(q) < QueueLen THEN Append(q, x) ELSE q
Signalled_Never == pc
Signalled == IF pc = "asleep" THEN "pop" ELSE pc

NewMessage(ch, k) ==
  /\ sent < MaxMsgs /\ ~Stopping /\ sent' = sent + 1
  /\ from' = [from EXCEPT ![sent + 1] = [ch |-> ch, kind |-> k]]

\* A channel received a message from its user.
Receive ==
  /\ \E ch \in Channels \ {"client"}, k \in Kinds : NewMessage(ch, k)
  /\ inbound' = Pushed(inbound, sent + 1)
  /\ pc' = IF Len(inbound) < QueueLen THEN Signalled ELSE pc
  /\ UNCHANGED <<outbound, turn, asks, cache, replies, ticks, shutdown, dispatch, client>>

\* velaclaw_ask: the callback is set first, and taken back if the push fails.
ClientAsks ==
  /\ "client" \in Channels /\ pending = None
  /\ \E k \in Kinds : NewMessage("client", k)
  /\ cb' = sent + 1 /\ pending' = sent + 1
  /\ UNCHANGED <<bus, agent, ticks, shutdown, dispatch, heard>>
ClientPushes ==
  /\ pending # None /\ pending' = None
  /\ inbound' = Pushed(inbound, pending)
  /\ IF Len(inbound) < QueueLen THEN pc' = Signalled /\ UNCHANGED cb
                                ELSE cb' = None /\ UNCHANGED pc
  /\ UNCHANGED <<sent, from, outbound, turn, asks, cache, replies, ticks, shutdown, dispatch, heard>>

-----------------------------------------------------------------------------
(* The agent thread: taking a message. *)

Kept == <<sent, from, ticks, shutdown, dispatch, client>>

\* The loop looks at its flag, then at the queue.
Top ==
  /\ pc = "top" /\ pc' = IF Stopping THEN "stopped" ELSE "pop"
  /\ UNCHANGED <<Kept, bus, turn, asks, cache, replies>>
\* Nothing to take: the thread sleeps until a push or a broadcast, unless the bus
\* was shut down.
Sleep ==
  /\ pc = "pop" /\ inbound = <<>>
  /\ pc' = IF shutdown \in {"flagged", "woken"} THEN "top" ELSE "asleep"
  /\ UNCHANGED <<Kept, bus, turn, asks, cache, replies>>
\* A message taken during the shutdown is freed unanswered.
Discard ==
  /\ pc = "pop" /\ inbound # <<>> /\ Stopping
  /\ pc' = "stopped" /\ inbound' = Tail(inbound)
  /\ UNCHANGED <<Kept, outbound, turn, asks, cache, replies>>
Take ==
  /\ pc = "pop" /\ inbound # <<>> /\ ~Stopping
  /\ pc' = "check" /\ inbound' = Tail(inbound)
  /\ turn' = [NoTurn EXCEPT !.msg = Head(inbound)] /\ asks' = NoAsks
  /\ UNCHANGED <<Kept, outbound, cache, replies>>

Me == turn.msg
Offer(what) == outbound' = Pushed(outbound, [msg |-> Me, what |-> what])
EndOfTurn == /\ pc' = "top" /\ turn' = NoTurn /\ asks' = NoAsks
             /\ replies' = [replies EXCEPT ![Me] = @ + 1]

\* Too little memory, a slash command, an injection or a request understood
\* without the model: answered at once, and not remembered.
Quick ==
  /\ pc = "check" /\ Offer("reply") /\ EndOfTurn
  /\ UNCHANGED <<Kept, inbound, cache>>

\* A picture goes to the vision model; without its answer the text is tried.
Picture ==
  /\ pc = "check" /\ from[Me].kind = "picture"
  /\ turn' = [turn EXCEPT !.text = "answer"] /\ pc' = "send"
  /\ UNCHANGED <<Kept, bus, asks, cache, replies>>

Cached == from[Me].kind = "greeting"
Fresh == cache.text # "none" /\ cache.age <= TTL
Hit ==
  /\ pc = "check" /\ Cached /\ Fresh
  /\ turn' = [turn EXCEPT !.text = cache.text, !.hit = TRUE] /\ pc' = "send"
  /\ UNCHANGED <<Kept, bus, asks, cache, replies>>
\* An expired slot is emptied by the look at it.
Ask ==
  /\ pc = "check" /\ ~(Cached /\ Fresh) /\ pc' = "ask"
  /\ cache' = IF Cached THEN Empty ELSE cache
  /\ UNCHANGED <<Kept, bus, turn, asks, replies>>

-----------------------------------------------------------------------------
(* The agent thread: rounds with the model. *)

\* Channels that get no "working on it" before the first call.
Silent == {"feishu", "voice", "quickapp", "weixin"}
Announce ==
  IF asks.iter = 0 /\ from[Me].ch \notin Silent THEN Offer("status") ELSE UNCHANGED outbound

\* The call and its one failover end without tools: with text (a poor one may be
\* asked for again at the premium backend), too late, or with nothing.
Told ==
  /\ pc = "ask" /\ Announce
  /\ \E t \in {"answer", "timeout", "none"} : turn' = [turn EXCEPT !.text = t]
  /\ pc' = "send"
  /\ UNCHANGED <<Kept, inbound, asks, cache, replies>>

\* check_tool_dup: a call repeated twice, or a name MaxRepeat times.
Dups(c) == IF c = asks.prev THEN asks.dup + 1 ELSE 0
Reps(c) == IF c # Several /\ asks.prev # Several /\ c[1] = asks.prev[1] THEN asks.rep + 1 ELSE 0
Stuck(c) == c # Several /\ (Dups(c) >= 2 \/ Reps(c) >= MaxRepeat)

\* The tools of the round run, one in place or several in threads, and their
\* results are added to the conversation.
Round(c) ==
  /\ pc = "ask" /\ Announce
  /\ asks' = IF c = Several THEN [NoAsks EXCEPT !.iter = asks.iter + 1, !.prev = Several]
             ELSE [iter |-> asks.iter + 1, prev |-> c, dup |-> Dups(c), rep |-> Reps(c)]
Next_Round == IF asks.iter + 1 < MaxIter THEN "ask" ELSE "force"

\* The model is stuck: the turn ends without a text.
GiveUp ==
  \E c \in Calls :
    /\ Round(c) /\ Stuck(c)
    /\ turn' = [turn EXCEPT !.tool = TRUE] /\ pc' = "send"
    /\ UNCHANGED <<Kept, inbound, cache, replies>>
\* A file's content, or the error of a job that could not be removed, is the reply.
Shortcut ==
  \E c \in Calls :
    /\ Round(c) /\ ~Stuck(c) /\ c[1] \in {"file", "cron_remove"}
    /\ turn' = [turn EXCEPT !.tool = TRUE, !.text = "tool"] /\ pc' = "send"
    /\ UNCHANGED <<Kept, inbound, cache, replies>>
\* The tool says that the task is complete; otherwise the model sees the results.
More ==
  \E c \in Calls \cup {Several} :
    /\ Round(c) /\ ~Stuck(c)
    /\ turn' = [turn EXCEPT !.tool = TRUE]
    /\ pc' \in {Next_Round} \cup (IF c = Several THEN {} ELSE {"confirm"})
    /\ UNCHANGED <<Kept, inbound, cache, replies>>
\* One last call, without tools, at the limit or to confirm.
Finish ==
  /\ pc \in {"force", "confirm"}
  /\ \E t \in {"answer", "timeout", "none"} : turn' = [turn EXCEPT !.text = t]
  /\ pc' = "send"
  /\ UNCHANGED <<Kept, bus, asks, cache, replies>>

-----------------------------------------------------------------------------
(* The agent thread: the reply. *)

\* llm_cache_put; an answer that came from the cache is put there again.
Stored ==
  IF Cached /\ ~turn.tool /\ turn.text # "none"
  THEN [text |-> turn.text, age |-> 0, born |-> IF turn.hit THEN cache.born ELSE 0]
  ELSE cache

Send_TextOnly ==
  /\ pc = "send" /\ cache' = Stored /\ pc' = "top" /\ turn' = NoTurn /\ asks' = NoAsks
  /\ IF turn.text # "none" THEN Offer("reply") /\ replies' = [replies EXCEPT ![Me] = @ + 1]
                           ELSE UNCHANGED <<outbound, replies>>
  /\ UNCHANGED <<Kept, inbound>>
\* dispatch_response: the text, or an apology for a turn without one.
Send ==
  /\ pc = "send" /\ cache' = Stored /\ EndOfTurn /\ Offer("reply")
  /\ UNCHANGED <<Kept, inbound>>

-----------------------------------------------------------------------------
(* Dispatch, time and shutdown. *)

\* The oldest reply goes to its channel, or to the tap of the client, whose
\* callback is used once.
Dispatch ==
  /\ dispatch /\ shutdown = "no" /\ outbound # <<>>
  /\ outbound' = Tail(outbound)
  /\ LET x == Head(outbound) IN
     IF from[x.msg].ch = "client" /\ cb # None
     THEN heard' = [heard EXCEPT ![cb] = IF x.msg = cb THEN x.what ELSE "other"] /\ cb' = None
     ELSE UNCHANGED <<heard, cb>>
  /\ UNCHANGED <<sent, from, inbound, agent, ticks, shutdown, dispatch, pending>>
DispatchEnds ==
  /\ dispatch /\ Stopping /\ dispatch' = FALSE
  /\ UNCHANGED <<sent, from, bus, agent, ticks, shutdown, client>>

Older(n) == IF n > TTL THEN n ELSE n + 1
Tick ==
  /\ ticks < MaxTicks /\ cache.text # "none" /\ ticks' = ticks + 1
  /\ cache' = [cache EXCEPT !.age = Older(@), !.born = Older(@)]
  /\ UNCHANGED <<sent, from, bus, pc, turn, asks, replies, shutdown, dispatch, client>>

Quit ==
  /\ shutdown = "no" /\ shutdown' = "asked"
  /\ UNCHANGED <<sent, from, bus, agent, ticks, dispatch, client>>
\* message_bus_wakeup: the flag, then the broadcasts.
Flag ==
  /\ shutdown = "asked" /\ shutdown' = "flagged"
  /\ UNCHANGED <<sent, from, bus, agent, ticks, dispatch, client>>
WakeUp ==
  /\ shutdown = "flagged" /\ shutdown' = "woken" /\ pc' = Signalled
  /\ UNCHANGED <<sent, from, bus, turn, asks, cache, replies, ticks, dispatch, client>>

Agent == \/ Top \/ Sleep \/ Discard \/ Take \/ Quick \/ Picture \/ Hit \/ Ask
         \/ Told \/ GiveUp \/ Shortcut \/ More \/ Finish \/ Send
Outbound == Dispatch \/ DispatchEnds
Main == Flag \/ WakeUp
Next == Receive \/ ClientAsks \/ ClientPushes \/ Agent \/ Outbound \/ Main \/ Quit \/ Tick

Spec == Init /\ [][Next]_vars
\* The model and the tools answer or run into their timeouts; the main thread and
\* the dispatch thread are scheduled.
Fairness == WF_vars(Agent) /\ WF_vars(Main) /\ WF_vars(Outbound) /\ WF_vars(ClientPushes)
FairSpec == Spec /\ Fairness

-----------------------------------------------------------------------------
(* Properties. *)

Holds(q) == {q[k] : k \in 1..Len(q)}
TypeOK ==
  /\ sent \in 0..MaxMsgs
  /\ from \in [Ids -> [ch : Channels \cup {"cli"}, kind : Kinds \cup {"text"}]]
  /\ inbound \in Seq(Ids) /\ Len(inbound) <= QueueLen
  /\ outbound \in Seq([msg : Ids, what : {"status", "reply"}]) /\ Len(outbound) <= QueueLen
  /\ pc \in {"top", "pop", "asleep", "check", "ask", "force", "confirm", "send", "stopped"}
  /\ turn \in [msg : Ids \cup {None}, tool : BOOLEAN, text : Texts, hit : BOOLEAN]
  /\ asks \in [iter : 0..MaxIter, prev : Calls \cup {NoCall, Several}, dup : 0..2, rep : 0..MaxRepeat]
  /\ cache \in [text : Texts \ {"tool"}, age : 0..TTL + 1, born : 0..TTL + 1]
  /\ ticks \in 0..MaxTicks /\ shutdown \in {"no", "asked", "flagged", "woken"}
  /\ dispatch \in BOOLEAN /\ cb \in Ids \cup {None} /\ pending \in Ids \cup {None}
  /\ replies \in [Ids -> Nat] /\ heard \in [Ids -> {"nothing", "status", "reply", "other"}]

\* The abstract state of a message: every way through a turn, and every way out
\* of it, answers it exactly once (agent_loop.c:1760-1851).
Fate(m) ==
  CASE replies[m] > 1 -> "answered twice"
    [] replies[m] = 1 -> "answered"
    [] m = turn.msg -> "working"
    [] m \in Holds(inbound) -> "waiting"
    [] m > sent \/ m = pending -> "unsent"
    [] OTHER -> "lost"
Promise == INSTANCE AgentPromise
  WITH fate <- [m \in Ids |-> Fate(m)], queue <- inbound, open <- ~Stopping

\* A message is accepted or refused, answered once and in its turn, whichever path
\* its turn takes (agent_loop.c:1760-1851, message_bus.c:71-148).
KeepsPromise == Promise!Spec
\* The agent and the dispatch thread end after a shutdown was asked for, wherever
\* they wait (message_bus.c:198-209, agent_loop.c:1744, agent_main.c:336).
StopsOnRequest == Stopping ~> (pc = "stopped" /\ ~dispatch)
\* Every turn ends, however the model and its tools behave, so a message that was
\* accepted is answered unless a shutdown comes first (agent_loop.c:1333-1618),
\* and a shutdown ends.
AnswersAll == Promise!Live /\ StopsOnRequest

\* The calls of AgentLoop.cfg: a file is read, and another tool has two inputs.
FewCalls == {<<"file", 1>>, <<"other", 1>>, <<"other", 2>>}
=============================================================================
