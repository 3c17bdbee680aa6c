-------------------------- MODULE AgentLoopProofs ---------------------------
(***************************************************************************)
(* Proofs about AgentLoop: the type invariant, and that the assistant's    *)
(* loop implements AgentPromise, for queues and limits of any size, any    *)
(* messages and anything the model and its tools may answer.               *)
(***************************************************************************)
EXTENDS AgentLoop, SequenceTheorems, TLAPS

\* The thread has a message in its hands exactly in the middle of a turn.
InTurn == turn.msg # None <=> pc \in {"check", "ask", "force", "confirm", "send"}
\* While the model may be asked again, no limit is reached.
WithinLimits == pc \in {"check", "ask"} => asks.iter < MaxIter /\ asks.dup < 2 /\ asks.rep < MaxRepeat
\* The cached text came from the model.
ModelSaid == turn.text = "tool" => turn.tool
\* What was answered, is worked on or waits was sent, and is not the question the
\* client is about to push.
Reached(m) == replies[m] = 1 \/ m = turn.msg \/ m \in Holds(inbound)
OnlySent == /\ pending # None => pending <= sent
            /\ \A m \in Ids : Reached(m) => m <= sent /\ m # pending
\* No message is in two places: answered, worked on, or one of those that wait.
OnePlace == /\ \A m \in Ids : replies[m] <= 1
            /\ turn.msg # None => replies[turn.msg] = 0 /\ turn.msg \notin Holds(inbound)
            /\ \A i \in 1..Len(inbound) : replies[inbound[i]] = 0
            /\ \A i, j \in 1..Len(inbound) : inbound[i] = inbound[j] => i = j

IInv == TypeOK /\ InTurn /\ WithinLimits /\ ModelSaid /\ OnlySent /\ OnePlace

-----------------------------------------------------------------------------
(***************************************************************************)
(* The queues.                                                             *)
(***************************************************************************)
\* A push keeps the queue within its length, and its entries.
LEMMA PushType ==
  ASSUME NEW S, NEW q \in Seq(S), NEW x \in S, Len(q) <= QueueLen
  PROVE  Pushed(q, x) \in Seq(S) /\ Len(Pushed(q, x)) <= QueueLen
BY BoundsKnown, AppendProperties DEF Pushed

\* What an accepted push adds to the queue.
LEMMA PushHolds ==
  ASSUME NEW S, NEW q \in Seq(S), NEW x \in S
  PROVE  /\ Holds(Append(q, x)) = Holds(q) \cup {x}
         /\ Len(Append(q, x)) = Len(q) + 1
         /\ \A i \in 1..Len(q) : Append(q, x)[i] = q[i]
         /\ Append(q, x)[Len(q) + 1] = x
<1>1. /\ Len(Append(q, x)) = Len(q) + 1 /\ Len(q) \in Nat
      /\ \A i \in 1..Len(q) : Append(q, x)[i] = q[i]
      /\ Append(q, x)[Len(q) + 1] = x
  BY AppendProperties, LenProperties
<1>2. 1..Len(Append(q, x)) = 1..Len(q) \cup {Len(q) + 1}
  BY <1>1
<1>3. Holds(Append(q, x)) = Holds(q) \cup {x}
  BY <1>1, <1>2 DEF Holds
<1> QED BY <1>1, <1>3

\* Taking the oldest entry, which is nowhere else in the queue.
LEMMA TailHolds ==
  ASSUME NEW S, NEW q \in Seq(S), q # <<>>
  PROVE  /\ Head(q) \in S /\ Head(q) = q[1] /\ Tail(q) \in Seq(S)
         /\ Len(Tail(q)) = Len(q) - 1 /\ Len(q) \in Nat \ {0}
         /\ \A i \in 1..Len(Tail(q)) : Tail(q)[i] = q[i + 1]
         /\ Holds(q) = Holds(Tail(q)) \cup {Head(q)}
         /\ (\A i, j \in 1..Len(q) : q[i] = q[j] => i = j) => Head(q) \notin Holds(Tail(q))
<1>1. /\ Head(q) \in S /\ Head(q) = q[1] /\ Tail(q) \in Seq(S)
      /\ Len(Tail(q)) = Len(q) - 1 /\ Len(q) \in Nat \ {0}
      /\ \A i \in 1..Len(Tail(q)) : Tail(q)[i] = q[i + 1]
  BY HeadTailProperties, EmptySeq, LenProperties
<1>2. Holds(q) = Holds(Tail(q)) \cup {Head(q)}
  <2>1. ASSUME NEW k \in 1..Len(q)
        PROVE  q[k] \in Holds(Tail(q)) \cup {Head(q)}
    <3>1. CASE k = 1
      BY <3>1, <1>1
    <3>2. CASE k # 1
      <4>1. k - 1 \in 1..Len(Tail(q)) /\ Tail(q)[k - 1] = q[k]
        BY <3>2, <2>1, <1>1
      <4> QED BY <4>1 DEF Holds
    <3> QED BY <3>1, <3>2
  <2>2. ASSUME NEW k \in 1..Len(Tail(q))
        PROVE  Tail(q)[k] \in Holds(q)
    <3>1. k + 1 \in 1..Len(q) /\ Tail(q)[k] = q[k + 1]
      BY <2>2, <1>1
    <3> QED BY <3>1 DEF Holds
  <2>3. Head(q) \in Holds(q)
    BY <1>1 DEF Holds
  <2> QED BY <2>1, <2>2, <2>3 DEF Holds
<1>3. ASSUME \A i, j \in 1..Len(q) : q[i] = q[j] => i = j
      PROVE  Head(q) \notin Holds(Tail(q))
  <2>1. ASSUME NEW k \in 1..Len(Tail(q)) PROVE Tail(q)[k] # Head(q)
    <3>1. k + 1 \in 1..Len(q) /\ 1 \in 1..Len(q) /\ k + 1 # 1
      BY <2>1, <1>1
    <3> QED BY <3>1, <1>1, <1>3
  <2> QED BY <2>1 DEF Holds
<1> QED BY <1>1, <1>2, <1>3

-----------------------------------------------------------------------------
(***************************************************************************)
(* Which steps change what, and the types.                                 *)
(***************************************************************************)
Steps == {"check", "ask", "force", "confirm", "send"}

\* Most steps leave most of the state alone.
LEMMA Frame ==
  ASSUME [Next]_vars
  PROVE  /\ inbound' = inbound \/ Receive \/ ClientPushes \/ Discard \/ Take
         /\ outbound' = outbound \/ Quick \/ Told \/ GiveUp \/ Shortcut \/ More \/ Send \/ Dispatch
         /\ UNCHANGED <<turn, asks>>
              \/ Take \/ Quick \/ Picture \/ Hit \/ Told \/ GiveUp \/ Shortcut \/ More \/ Finish \/ Send
         /\ UNCHANGED <<sent, from>> \/ Receive \/ ClientAsks
         /\ pending' = pending \/ ClientAsks \/ ClientPushes
         /\ cache' = cache \/ Ask \/ Send \/ Tick
         /\ replies' = replies \/ Quick \/ Send
         /\ UNCHANGED <<cb, heard>> \/ ClientAsks \/ ClientPushes \/ Dispatch
<1> USE DEF Next, vars, bus, client, agent, Kept, Receive, ClientAsks, ClientPushes, Agent, Outbound,
            Main, Dispatch, DispatchEnds, Tick, Quit, Flag, WakeUp, Top, Sleep, Ask, Quick, Picture,
            Hit, Told, GiveUp, Shortcut, More, Finish, Send, Discard, Take, Round
<1>1. inbound' = inbound \/ Receive \/ ClientPushes \/ Discard \/ Take
  OBVIOUS
<1>2. outbound' = outbound \/ Quick \/ Told \/ GiveUp \/ Shortcut \/ More \/ Send \/ Dispatch
  OBVIOUS
<1>3. UNCHANGED <<turn, asks>>
        \/ Take \/ Quick \/ Picture \/ Hit \/ Told \/ GiveUp \/ Shortcut \/ More \/ Finish \/ Send
  OBVIOUS
<1>4. /\ UNCHANGED <<sent, from>> \/ Receive \/ ClientAsks
      /\ pending' = pending \/ ClientAsks \/ ClientPushes
  OBVIOUS
<1>5. cache' = cache \/ Ask \/ Send \/ Tick
  OBVIOUS
<1>6. replies' = replies \/ Quick \/ Send
  BY DEF EndOfTurn
<1>7. UNCHANGED <<cb, heard>> \/ ClientAsks \/ ClientPushes \/ Dispatch
  OBVIOUS
<1> QED BY <1>1, <1>2, <1>3, <1>4, <1>5, <1>6, <1>7

\* The queue of the agent.
LEMMA InboundType ==
  ASSUME TypeOK, [Next]_vars
  PROVE  inbound' \in Seq(Ids) /\ Len(inbound') <= QueueLen
<1>1. inbound \in Seq(Ids) /\ Len(inbound) <= QueueLen /\ sent \in 0..MaxMsgs
  BY DEF TypeOK
<1>2. CASE inbound' = inbound
  BY <1>1, <1>2
<1>3. CASE Receive
  <2>1. sent + 1 \in Ids /\ inbound' = Pushed(inbound, sent + 1)
    BY <1>1, <1>3, BoundsKnown DEF Receive, NewMessage, Ids
  <2> QED BY <1>1, <2>1, PushType
<1>4. CASE ClientPushes
  <2>1. pending \in Ids /\ inbound' = Pushed(inbound, pending)
    BY <1>4 DEF TypeOK, ClientPushes
  <2> QED BY <1>1, <2>1, PushType
<1>5. CASE Discard \/ Take
  <2>1. inbound # <<>> /\ inbound' = Tail(inbound)
    BY <1>5 DEF Discard, Take
  <2> QED BY <1>1, <2>1, TailHolds, BoundsKnown
<1> QED BY <1>2, <1>3, <1>4, <1>5, Frame

\* What is said goes to the queue of the dispatch thread.
Replies == [msg : Ids, what : {"status", "reply"}]
LEMMA OutboundType ==
  ASSUME TypeOK, InTurn, [Next]_vars
  PROVE  outbound' \in Seq(Replies) /\ Len(outbound') <= QueueLen
<1>1. outbound \in Seq(Replies) /\ Len(outbound) <= QueueLen
  BY DEF TypeOK, Replies
<1>2. ASSUME NEW what \in {"status", "reply"}, pc \in Steps, Offer(what)
      PROVE  outbound' \in Seq(Replies) /\ Len(outbound') <= QueueLen
  <2>1. [msg |-> Me, what |-> what] \in Replies
    BY <1>2 DEF TypeOK, InTurn, Steps, Me, Replies
  <2>2. outbound' = Pushed(outbound, [msg |-> Me, what |-> what])
    BY <1>2 DEF Offer
  <2> QED BY <1>1, <2>1, <2>2, PushType
<1>3. CASE outbound' = outbound
  BY <1>1, <1>3
<1>4. CASE Quick \/ Send
  <2>1. pc \in Steps /\ Offer("reply")
    BY <1>4 DEF Quick, Send, Steps
  <2> QED BY <1>2, <2>1
<1>5. CASE Told \/ GiveUp \/ Shortcut \/ More
  <2>1. pc \in Steps /\ Announce
    BY <1>5 DEF Told, GiveUp, Shortcut, More, Round, Steps
  <2> QED BY <1>1, <1>2, <2>1 DEF Announce
<1>6. CASE Dispatch
  <2>1. outbound # <<>> /\ outbound' = Tail(outbound)
    BY <1>6 DEF Dispatch
  <2>2. outbound' \in Seq(Replies) /\ Len(outbound') = Len(outbound) - 1 /\ Len(outbound) \in Nat
    BY <1>1, <2>1, TailHolds
  <2> QED BY <1>1, <2>2, BoundsKnown
<1> QED BY <1>3, <1>4, <1>5, <1>6, Frame

\* The locals of a turn and of its rounds, and the limits.
LEMMA TurnType ==
  ASSUME TypeOK, InTurn, WithinLimits, ModelSaid, [Next]_vars
  PROVE  /\ turn' \in [msg : Ids \cup {None}, tool : BOOLEAN, text : Texts, hit : BOOLEAN]
         /\ ModelSaid'
<1>1. /\ turn \in [msg : Ids \cup {None}, tool : BOOLEAN, text : Texts, hit : BOOLEAN]
      /\ cache.text \in Texts \ {"tool"}
  BY DEF TypeOK
<1>2. CASE UNCHANGED <<turn, asks>>
  BY <1>1, <1>2 DEF ModelSaid
<1>3. CASE Take
  <2>1. Head(inbound) \in Ids
    BY <1>3, TailHolds DEF TypeOK, Take
  <2> QED BY <1>3, <2>1 DEF Take, NoTurn, ModelSaid, Texts
<1>4. CASE Quick \/ Send
  <2>1. turn' = NoTurn
    BY <1>4 DEF Quick, Send, EndOfTurn
  <2> QED BY <2>1 DEF NoTurn, ModelSaid, Texts
<1>5. CASE Picture
  BY <1>1, <1>5 DEF Picture, ModelSaid, Texts
<1>6. CASE Hit
  BY <1>1, <1>6 DEF Hit, ModelSaid
<1>7. CASE Told \/ Finish
  BY <1>1, <1>7 DEF Told, Finish, ModelSaid, Texts
<1>8. CASE GiveUp \/ Shortcut \/ More
  BY <1>1, <1>8 DEF GiveUp, Shortcut, More, ModelSaid, Texts
<1> QED BY <1>2, <1>3, <1>4, <1>5, <1>6, <1>7, <1>8, Frame

\* A call that does not stop the turn leaves room for another.
LEMMA RoundType ==
  ASSUME TypeOK, WithinLimits, NEW c \in Calls \cup {Several}, Round(c)
  PROVE  /\ asks' \in [iter : 0..MaxIter, prev : Calls \cup {NoCall, Several},
                       dup : 0..2, rep : 0..MaxRepeat]
         /\ asks'.iter = asks.iter + 1
         /\ ~Stuck(c) => asks'.dup < 2 /\ asks'.rep < MaxRepeat
<1>1. /\ asks.iter \in 0..(MaxIter - 1) /\ asks.dup \in 0..1 /\ asks.rep \in 0..(MaxRepeat - 1)
      /\ MaxIter \in Nat /\ MaxRepeat \in Nat \ {0}
  <2>1. asks.iter \in 0..MaxIter /\ asks.dup \in 0..2 /\ asks.rep \in 0..MaxRepeat
    BY DEF TypeOK
  <2>2. asks.iter < MaxIter /\ asks.dup < 2 /\ asks.rep < MaxRepeat
    BY DEF WithinLimits, Round
  <2> QED BY <2>1, <2>2, BoundsKnown
<1>2. Dups(c) \in 0..2 /\ Reps(c) \in 0..MaxRepeat
  <2>1. asks.dup + 1 \in 0..2 /\ asks.rep + 1 \in 0..MaxRepeat /\ 0 \in 0..MaxRepeat /\ 0 \in 0..2
    BY <1>1
  <2>2. Dups(c) = asks.dup + 1 \/ Dups(c) = 0
    BY DEF Dups
  <2>3. Reps(c) = asks.rep + 1 \/ Reps(c) = 0
    BY DEF Reps
  <2> QED BY <2>1, <2>2, <2>3
<1>3. CASE c = Several
  <2>1. asks' = [iter |-> asks.iter + 1, prev |-> Several, dup |-> 0, rep |-> 0]
    BY <1>3 DEF Round, NoAsks
  <2> QED BY <1>1, <2>1
<1>4. CASE c # Several
  BY <1>1, <1>2, <1>4 DEF Round, Stuck
<1> QED BY <1>3, <1>4

Rounds == [iter : 0..MaxIter, prev : Calls \cup {NoCall, Several}, dup : 0..2, rep : 0..MaxRepeat]
LEMMA AsksType ==
  ASSUME TypeOK, WithinLimits, [Next]_vars
  PROVE  asks' \in Rounds /\ WithinLimits'
<1>1. /\ asks \in Rounds /\ NoAsks \in Rounds
      /\ NoAsks.iter < MaxIter /\ NoAsks.dup < 2 /\ NoAsks.rep < MaxRepeat
  BY BoundsKnown DEF TypeOK, NoAsks, Rounds
<1>2. CASE GiveUp \/ Shortcut \/ More
  <2>1. PICK c \in Calls \cup {Several} :
           /\ Round(c)
           /\ pc' \in {"check", "ask"} => ~Stuck(c) /\ pc' \in {Next_Round, "confirm"}
    BY <1>2 DEF GiveUp, Shortcut, More
  <2>2. pc' \in {"check", "ask"} => asks.iter + 1 < MaxIter
    BY <2>1 DEF Next_Round
  <2> QED BY <2>1, <2>2, RoundType DEF WithinLimits, Rounds
<1>3. CASE asks' = NoAsks
  BY <1>1, <1>3 DEF WithinLimits
<1>4. CASE asks' = asks /\ (pc' \in {"check", "ask"} => pc \in {"check", "ask"})
  BY <1>1, <1>4 DEF WithinLimits
<1>5. \/ GiveUp \/ Shortcut \/ More
      \/ asks' = NoAsks
      \/ asks' = asks /\ (pc' \in {"check", "ask"} => pc \in {"check", "ask"})
  BY DEF Next, vars, bus, client, agent, Kept, Receive, ClientAsks, ClientPushes, Agent, Outbound,
         Main, Dispatch, DispatchEnds, Tick, Quit, Flag, WakeUp, Signalled, Top, Sleep, Ask, Quick,
         Picture, Hit, Told, Finish, Send, EndOfTurn, Discard, Take
<1> QED BY <1>2, <1>3, <1>4, <1>5

\* A new message has a number of its own.
Sources == [ch : Channels \cup {"cli"}, kind : Kinds \cup {"text"}]
LEMMA NewMessageType ==
  ASSUME TypeOK, Receive \/ ClientAsks
  PROVE  /\ sent' = sent + 1 /\ sent + 1 \in Ids /\ sent' \in 0..MaxMsgs
         /\ from' \in [Ids -> Sources]
<1>1. PICK ch \in Channels, k \in Kinds : NewMessage(ch, k)
  BY DEF Receive, ClientAsks
<1>2. sent \in 0..MaxMsgs /\ from \in [Ids -> Sources]
  BY DEF TypeOK, Sources
<1>3. sent' = sent + 1 /\ sent + 1 \in Ids /\ sent' \in 0..MaxMsgs
  BY <1>1, <1>2, BoundsKnown DEF NewMessage, Ids
<1>4. [ch |-> ch, kind |-> k] \in Sources
  BY <1>1 DEF Sources
<1>5. from' = [from EXCEPT ![sent + 1] = [ch |-> ch, kind |-> k]]
  BY <1>1 DEF NewMessage
<1> QED BY <1>2, <1>3, <1>4, <1>5

\* Everything else that has a type.
Slot == [text : Texts \ {"tool"}, age : 0..TTL + 1, born : 0..TTL + 1]
Given == {"nothing", "status", "reply", "other"}
LEMMA MessageType ==
  ASSUME TypeOK, [Next]_vars
  PROVE  /\ sent' \in 0..MaxMsgs /\ from' \in [Ids -> Sources]
         /\ pending' \in Ids \cup {None} /\ cb' \in Ids \cup {None}
         /\ heard' \in [Ids -> Given]
<1>1. /\ sent \in 0..MaxMsgs /\ from \in [Ids -> Sources]
      /\ pending \in Ids \cup {None} /\ cb \in Ids \cup {None} /\ heard \in [Ids -> Given]
  BY DEF TypeOK, Sources, Given
<1>2. sent' \in 0..MaxMsgs /\ from' \in [Ids -> Sources]
  BY <1>1, NewMessageType, Frame
<1>3. pending' \in Ids \cup {None}
  <2>1. CASE ClientAsks
    BY <2>1, NewMessageType DEF ClientAsks
  <2>2. CASE ClientPushes
    BY <2>2 DEF ClientPushes
  <2> QED BY <1>1, <2>1, <2>2, Frame
<1>4. cb' \in Ids \cup {None} /\ heard' \in [Ids -> Given]
  <2>1. CASE ClientAsks
    BY <1>1, <2>1, NewMessageType DEF ClientAsks
  <2>2. CASE ClientPushes
    <3>1. heard' = heard /\ (cb' = cb \/ cb' = None)
      BY <2>2 DEF ClientPushes
    <3> QED BY <1>1, <3>1
  <2>3. CASE Dispatch
    <3>1. Head(outbound).what \in Given
      <4>1. outbound \in Seq(Replies) /\ outbound # <<>>
        BY <2>3 DEF TypeOK, Replies, Dispatch
      <4>2. Head(outbound) \in Replies
        BY <4>1, TailHolds
      <4> QED BY <4>2 DEF Replies, Given
    <3>2. \/ heard' = heard /\ cb' = cb
          \/ /\ cb' = None
             /\ \E what \in {Head(outbound).what, "other"} : heard' = [heard EXCEPT ![cb] = what]
      BY <2>3 DEF Dispatch
    <3>3. "other" \in Given
      BY DEF Given
    <3> QED BY <1>1, <3>1, <3>2, <3>3
  <2> QED BY <1>1, <2>1, <2>2, <2>3, Frame
<1> QED BY <1>2, <1>3, <1>4

LEMMA RestType ==
  ASSUME TypeOK, [Next]_vars
  PROVE  /\ pc' \in {"top", "pop", "asleep", "stopped"} \cup Steps
         /\ cache' \in Slot \/ Send
         /\ ticks' \in 0..MaxTicks /\ shutdown' \in {"no", "asked", "flagged", "woken"}
         /\ dispatch' \in BOOLEAN
<1>1. /\ pc \in {"top", "pop", "asleep", "stopped"} \cup Steps
      /\ cache \in Slot /\ ticks \in 0..MaxTicks
      /\ shutdown \in {"no", "asked", "flagged", "woken"} /\ dispatch \in BOOLEAN
  BY DEF TypeOK, Steps, Slot
<1>2. pc' = pc \/ pc' \in {"top", "pop", "asleep", "stopped"} \cup Steps
  BY DEF Steps, Next, vars, bus, client, agent, Kept, Receive, ClientAsks, ClientPushes, Agent,
         Outbound, Main, Dispatch, DispatchEnds, Tick, Quit, Flag, WakeUp, Signalled, Top, Sleep, Ask,
         Quick, Picture, Hit, Told, GiveUp, Shortcut, More, Next_Round, Finish, Send, EndOfTurn,
         Discard, Take
<1>3. cache' \in Slot \/ Send
  <2>1. CASE Ask
    BY <1>1, <2>1, BoundsKnown DEF Ask, Empty, Slot, Texts
  <2>2. CASE Tick
    <3>1. Older(cache.age) \in 0..TTL + 1 /\ Older(cache.born) \in 0..TTL + 1
      BY <1>1, BoundsKnown DEF Older, Slot
    <3>2. cache' = [cache EXCEPT !.age = Older(@), !.born = Older(@)]
      BY <2>2 DEF Tick
    <3> QED BY <1>1, <3>1, <3>2 DEF Slot
  <2> QED BY <1>1, <2>1, <2>2, Frame
<1>4. \/ UNCHANGED <<ticks, shutdown, dispatch>> \/ Tick \/ Quit \/ Flag \/ WakeUp \/ DispatchEnds
  BY DEF Next, vars, bus, client, agent, Kept, Receive, ClientAsks, ClientPushes, Agent, Outbound, Main,
         Dispatch, Top, Sleep, Ask, Quick, Picture, Hit, Told, GiveUp, Shortcut, More, Finish, Send,
         Discard, Take
<1>5. ticks' \in 0..MaxTicks
  BY <1>1, <1>4, BoundsKnown DEF Tick, Quit, Flag, WakeUp, DispatchEnds
<1>6. shutdown' \in {"no", "asked", "flagged", "woken"} /\ dispatch' \in BOOLEAN
  BY <1>1, <1>4 DEF Tick, Quit, Flag, WakeUp, DispatchEnds
<1> QED BY <1>1, <1>2, <1>3, <1>5, <1>6

\* Only a text of the model is remembered.
LEMMA StoredType ==
  ASSUME TypeOK, InTurn, ModelSaid, Send
  PROVE  cache' \in Slot
<1>1. turn.text \in Texts /\ (turn.text = "tool" => turn.tool) /\ cache \in Slot
  BY DEF TypeOK, ModelSaid, Slot
<1>2. cache' = cache \/ (/\ ~turn.tool
                         /\ cache' = [text |-> turn.text, age |-> 0,
                                      born |-> IF turn.hit THEN cache.born ELSE 0])
  BY DEF Send, Stored
<1> QED BY <1>1, <1>2, BoundsKnown DEF Slot

\* Taking a message begins a turn, and a reply ends it.
LEMMA TurnKept ==
  ASSUME TypeOK, InTurn, [Next]_vars
  PROVE  InTurn'
<1>1. CASE Take
  <2>1. Head(inbound) \in Ids
    BY <1>1, TailHolds DEF TypeOK, Take
  <2>2. turn'.msg = Head(inbound) /\ pc' = "check"
    BY <1>1 DEF Take, NoTurn
  <2> QED BY <2>1, <2>2 DEF InTurn, Ids, None
<1>2. CASE Quick \/ Send
  BY <1>2 DEF Quick, Send, EndOfTurn, NoTurn, InTurn
<1>3. CASE Picture \/ Hit \/ Told \/ GiveUp \/ Shortcut \/ More \/ Finish
  <2>1. turn'.msg = turn.msg
    BY <1>3 DEF TypeOK, Picture, Hit, Told, GiveUp, Shortcut, More, Finish
  <2>2. pc \in Steps /\ pc' \in Steps
    BY <1>3 DEF Picture, Hit, Told, GiveUp, Shortcut, More, Next_Round, Finish, Round, Steps
  <2> QED BY <2>1, <2>2 DEF InTurn, Steps
<1>4. CASE UNCHANGED turn /\ (pc \in Steps <=> pc' \in Steps)
  BY <1>4 DEF InTurn, Steps
<1>5. \/ Take \/ Quick \/ Send \/ Picture \/ Hit \/ Told \/ GiveUp \/ Shortcut \/ More \/ Finish
      \/ UNCHANGED turn /\ (pc \in Steps <=> pc' \in Steps)
  BY DEF Next, vars, bus, client, agent, Kept, Receive, ClientAsks, ClientPushes, Agent, Outbound,
         Main, Dispatch, DispatchEnds, Tick, Quit, Flag, WakeUp, Signalled, Top, Sleep, Ask,
         Discard, Steps
<1> QED BY <1>1, <1>2, <1>3, <1>4, <1>5

LEMMA TypeKept ==
  ASSUME TypeOK, InTurn, WithinLimits, ModelSaid, OnePlace, [Next]_vars
  PROVE  TypeOK'
<1>1. inbound' \in Seq(Ids) /\ Len(inbound') <= QueueLen
  BY InboundType
<1>2. outbound' \in Seq(Replies) /\ Len(outbound') <= QueueLen
  BY OutboundType
<1>3. /\ turn' \in [msg : Ids \cup {None}, tool : BOOLEAN, text : Texts, hit : BOOLEAN]
      /\ asks' \in Rounds /\ cache' \in Slot
  BY TurnType, AsksType, RestType, StoredType
<1>4. replies' \in [Ids -> Nat]
  <2>1. replies \in [Ids -> Nat]
    BY DEF TypeOK
  <2>2. CASE Quick \/ Send
    <3>1. Me \in Ids /\ replies' = [replies EXCEPT ![Me] = @ + 1]
      BY <2>2 DEF TypeOK, InTurn, Quick, Send, EndOfTurn, Me
    <3> QED BY <2>1, <3>1
  <2> QED BY <2>1, <2>2, Frame
<1>5. /\ sent' \in 0..MaxMsgs /\ from' \in [Ids -> Sources]
      /\ pending' \in Ids \cup {None} /\ cb' \in Ids \cup {None} /\ heard' \in [Ids -> Given]
  BY MessageType
<1>6. /\ pc' \in {"top", "pop", "asleep", "stopped"} \cup Steps
      /\ ticks' \in 0..MaxTicks /\ shutdown' \in {"no", "asked", "flagged", "woken"}
      /\ dispatch' \in BOOLEAN
  BY RestType
<1> QED BY <1>1, <1>2, <1>3, <1>4, <1>5, <1>6 DEF TypeOK, Replies, Rounds, Slot, Sources, Given, Steps

-----------------------------------------------------------------------------
(***************************************************************************)
(* Where a message is.                                                     *)
(***************************************************************************)
\* The steps that move a message, and to where; all others leave every one where it is.
Appear(m) == /\ sent' = m /\ m = sent + 1 /\ UNCHANGED <<pending, turn, replies, shutdown>>
             /\ inbound' = Pushed(inbound, m)
Prepare(m) == /\ sent' = m /\ m = sent + 1 /\ pending = None /\ pending' = m
              /\ UNCHANGED <<inbound, turn, replies, shutdown>>
Hand(m) == /\ pending = m /\ pending' = None /\ UNCHANGED <<sent, turn, replies, shutdown>>
           /\ inbound' = Pushed(inbound, m)
Lose == /\ pc = "pop" /\ inbound # <<>> /\ inbound' = Tail(inbound) /\ Stopping
        /\ UNCHANGED <<sent, pending, turn, replies, shutdown>>
Start == /\ pc = "pop" /\ inbound # <<>> /\ inbound' = Tail(inbound) /\ ~Stopping
         /\ turn'.msg = Head(inbound) /\ UNCHANGED <<sent, pending, replies, shutdown>>
End == /\ pc \in Steps /\ turn'.msg = None /\ replies' = [replies EXCEPT ![turn.msg] = @ + 1]
       /\ UNCHANGED <<sent, pending, inbound, shutdown>>
Still == UNCHANGED <<sent, pending, inbound, turn.msg, replies>> /\ (Stopping => Stopping')

LEMMA Moves ==
  ASSUME TypeOK, [Next]_vars
  PROVE  \/ \E m \in Ids : Appear(m) \/ Prepare(m) \/ Hand(m)
         \/ Lose \/ Start \/ End \/ Still
<1>1. CASE Receive
  BY <1>1, NewMessageType DEF Receive, Appear, client
<1>2. CASE ClientAsks
  BY <1>2, NewMessageType DEF ClientAsks, Prepare, bus, agent
<1>3. CASE ClientPushes
  BY <1>3 DEF TypeOK, ClientPushes, Hand
<1>4. CASE Discard
  BY <1>4 DEF Discard, Lose, Kept, client
<1>5. CASE Take
  BY <1>5 DEF Take, Start, NoTurn, Kept, client
<1>6. CASE Quick \/ Send
  BY <1>6 DEF Quick, Send, EndOfTurn, Me, NoTurn, End, Steps, Kept, client
<1>7. CASE Picture \/ Hit \/ Told \/ GiveUp \/ Shortcut \/ More \/ Finish
  <2>1. turn'.msg = turn.msg
    BY <1>7 DEF TypeOK, Picture, Hit, Told, GiveUp, Shortcut, More, Finish
  <2>2. UNCHANGED <<sent, pending, inbound, replies, shutdown>>
    BY <1>7 DEF Picture, Hit, Told, GiveUp, Shortcut, More, Finish, Kept, bus, client
  <2> QED BY <2>1, <2>2 DEF Still, Stopping
<1>8. \/ Receive \/ ClientAsks \/ ClientPushes \/ Discard \/ Take \/ Quick \/ Send
      \/ Picture \/ Hit \/ Told \/ GiveUp \/ Shortcut \/ More \/ Finish
      \/ UNCHANGED <<sent, pending, inbound, turn, replies>> /\ (shutdown # "no" => shutdown' # "no")
  BY DEF Next, vars, bus, client, agent, Kept, Agent, Outbound, Main, Dispatch, DispatchEnds, Tick, Quit,
         Flag, WakeUp, Top, Sleep, Ask
<1> QED BY <1>1, <1>2, <1>3, <1>4, <1>5, <1>6, <1>7, <1>8 DEF Still, Stopping

\* A message has one place, and what has one was sent.
LEMMA PlaceKept ==
  ASSUME TypeOK, InTurn, OnlySent, OnePlace, [Next]_vars
  PROVE  OnlySent' /\ OnePlace'
<1>0. /\ sent \in 0..MaxMsgs /\ inbound \in Seq(Ids) /\ Len(inbound) \in Nat
      /\ turn.msg \in Ids \cup {None} /\ pending \in Ids \cup {None} /\ replies \in [Ids -> Nat]
      /\ None \notin Ids /\ Ids \subseteq Nat
  BY LenProperties DEF TypeOK, Ids, None
<1>1. ASSUME NEW m \in Ids, Appear(m) \/ Hand(m)
      PROVE  OnlySent' /\ OnePlace'
  <2>1. /\ ~Reached(m) /\ replies[m] = 0 /\ sent' \in Nat /\ sent <= sent' /\ m <= sent'
        /\ m # pending'
        /\ UNCHANGED <<turn, replies>> /\ inbound' = Pushed(inbound, m)
        /\ \A n \in Ids : Reached(n) => n <= sent' /\ n # pending'
        /\ pending' # None => pending' <= sent'
    BY <1>0, <1>1 DEF Appear, Hand, OnlySent, OnePlace, Reached
  <2>2. CASE inbound' = inbound
    <3>1. \A n \in Ids : Reached(n)' => Reached(n)
      BY <2>1, <2>2 DEF Reached
    <3>2. OnlySent'
      BY <2>1, <3>1 DEF OnlySent
    <3> QED BY <2>1, <2>2, <3>2 DEF OnePlace
  <2>3. CASE inbound' = Append(inbound, m)
    <3>1. /\ Holds(inbound') = Holds(inbound) \cup {m} /\ Len(inbound') = Len(inbound) + 1
          /\ \A i \in 1..Len(inbound) : inbound'[i] = inbound[i] /\ inbound[i] # m /\ inbound[i] \in Ids
          /\ inbound'[Len(inbound) + 1] = m
      BY <1>0, <2>1, <2>3, PushHolds, ElementOfSeq DEF Reached, Holds
    <3>2. \A n \in Ids : Reached(n)' => Reached(n) \/ n = m
      BY <2>1, <3>1 DEF Reached
    <3>3. OnlySent'
      BY <2>1, <3>2 DEF OnlySent
    <3>4. \A i, j \in 1..Len(inbound') : inbound'[i] = inbound'[j] => i = j
      BY <1>0, <3>1 DEF OnePlace
    <3>5. \A i \in 1..Len(inbound') : replies'[inbound'[i]] = 0
      BY <1>0, <2>1, <3>1 DEF OnePlace
    <3>6. turn'.msg # None => replies'[turn'.msg] = 0 /\ turn'.msg \notin Holds(inbound')
      BY <2>1, <3>1 DEF OnePlace, Reached
    <3>7. \A n \in Ids : replies'[n] <= 1
      BY <2>1 DEF OnePlace
    <3> QED BY <3>3, <3>4, <3>5, <3>6, <3>7 DEF OnePlace
  <2> QED BY <2>1, <2>2, <2>3 DEF Pushed
<1>2. ASSUME NEW m \in Ids, Prepare(m)
      PROVE  OnlySent' /\ OnePlace'
  BY <1>0, <1>2 DEF Prepare, OnlySent, OnePlace, Reached
<1>3. CASE Lose \/ Start
  <2>1. inbound # <<>> /\ inbound' = Tail(inbound) /\ turn.msg = None
    BY <1>3 DEF Lose, Start, InTurn
  <2>2. /\ Head(inbound) \in Ids /\ Head(inbound) = inbound[1]
        /\ Len(inbound') = Len(inbound) - 1 /\ Len(inbound) \in Nat \ {0}
        /\ \A i \in 1..Len(inbound') : inbound'[i] = inbound[i + 1]
        /\ Holds(inbound) = Holds(inbound') \cup {Head(inbound)}
        /\ Head(inbound) \notin Holds(inbound')
    BY <1>0, <2>1, TailHolds DEF OnePlace
  <2>3. /\ turn'.msg \in {None, Head(inbound)} /\ UNCHANGED <<sent, pending, replies>>
    BY <1>3, <2>1 DEF Lose, Start
  <2>4. OnlySent'
    BY <1>0, <2>2, <2>3 DEF OnlySent, Reached
  <2>5. \A i \in 1..Len(inbound') : i + 1 \in 1..Len(inbound)
    BY <2>2
  <2>6. /\ \A i \in 1..Len(inbound') : replies'[inbound'[i]] = 0
        /\ \A i, j \in 1..Len(inbound') : inbound'[i] = inbound'[j] => i = j
    BY <2>2, <2>3, <2>5 DEF OnePlace
  <2>7. replies[Head(inbound)] = 0
    BY <2>2 DEF OnePlace
  <2> QED BY <2>2, <2>3, <2>4, <2>6, <2>7 DEF OnePlace
<1>4. CASE End
  <2>0. /\ turn.msg \in Ids /\ replies[turn.msg] = 0 /\ turn.msg \notin Holds(inbound)
    BY <1>0, <1>4 DEF End, InTurn, Steps, OnePlace
  <2>1. /\ turn'.msg = None /\ UNCHANGED <<sent, pending, inbound>>
        /\ replies' = [replies EXCEPT ![turn.msg] = 1]
    BY <1>0, <1>4, <2>0 DEF End
  <2>2. \A i \in 1..Len(inbound) : inbound[i] # turn.msg /\ inbound[i] \in Ids
    BY <1>0, <2>0, ElementOfSeq DEF Holds
  <2> QED BY <1>0, <2>0, <2>1, <2>2 DEF OnlySent, OnePlace, Reached
<1>5. CASE Still
  BY <1>5 DEF Still, OnlySent, OnePlace, Reached
<1> QED BY <1>1, <1>2, <1>3, <1>4, <1>5, Moves

-----------------------------------------------------------------------------
(***************************************************************************)
(* The theorems.                                                           *)
(***************************************************************************)
LEMMA InitIInv == Init => IInv
<1> SUFFICES ASSUME Init PROVE IInv
  OBVIOUS
<1>1. /\ inbound = <<>> /\ outbound = <<>> /\ Len(inbound) = 0
      /\ inbound \in Seq(Ids) /\ outbound \in Seq(Replies)
  BY EmptySeq DEF Init
<1>2. Holds(inbound) = {}
  BY <1>1 DEF Holds
<1>3. TypeOK
  BY <1>1, BoundsKnown DEF Init, TypeOK, NoTurn, NoAsks, Empty, Texts, NoCall, Several, Ids, None, Replies
<1>4. InTurn /\ WithinLimits /\ ModelSaid
  BY BoundsKnown DEF Init, InTurn, WithinLimits, ModelSaid, NoTurn, NoAsks
<1>5. OnlySent /\ OnePlace
  BY <1>1, <1>2 DEF Init, OnlySent, OnePlace, Reached, NoTurn, None, Ids
<1> QED BY <1>3, <1>4, <1>5 DEF IInv

LEMMA NextIInv == IInv /\ [Next]_vars => IInv'
<1> SUFFICES ASSUME IInv, [Next]_vars PROVE IInv'
  OBVIOUS
<1> USE DEF IInv
<1>1. TypeOK' /\ InTurn'
  BY TypeKept, TurnKept
<1>2. WithinLimits' /\ ModelSaid'
  BY AsksType, TurnType
<1>3. OnlySent' /\ OnePlace'
  BY PlaceKept
<1> QED BY <1>1, <1>2, <1>3

\* Queues, counters of the rounds and cached texts stay within their types and
\* limits (message_bus.c:71-148, agent_loop.c:1333-1618).
THEOREM TypeCorrect == Spec => []TypeOK
<1>1. IInv => TypeOK
  BY DEF IInv
<1> QED BY <1>1, InitIInv, NextIInv, PTL DEF Spec

\* What Fate says, place by place.
FateTold(m) ==
  /\ replies[m] = 1 => Fate(m) = "answered"
  /\ m = turn.msg => Fate(m) = "working"
  /\ m \in Holds(inbound) => Fate(m) = "waiting"
  /\ ~Reached(m) /\ (m > sent \/ m = pending) => Fate(m) = "unsent"
  /\ ~Reached(m) /\ m <= sent /\ m # pending => Fate(m) = "lost"
LEMMA FateIs == IInv => \A m \in Ids : FateTold(m)
<1> SUFFICES ASSUME IInv, NEW m \in Ids PROVE FateTold(m)
  OBVIOUS
<1>1. replies[m] \in 0..1 /\ m \in Nat /\ sent \in Nat /\ m # None
  <2>1. replies \in [Ids -> Nat] /\ sent \in 0..MaxMsgs /\ \A n \in Ids : replies[n] <= 1
    BY DEF IInv, TypeOK, OnePlace
  <2> QED BY <2>1, BoundsKnown DEF Ids, None
<1>2. m = turn.msg => replies[m] = 0 /\ m \notin Holds(inbound)
  BY <1>1 DEF IInv, OnePlace
<1>3. m \in Holds(inbound) => replies[m] = 0 /\ m # turn.msg
  BY <1>1, <1>2 DEF IInv, OnePlace, Holds
<1>4. m > sent \/ m = pending => ~Reached(m)
  BY <1>1 DEF IInv, OnlySent
<1> QED BY <1>1, <1>2, <1>3, <1>4 DEF FateTold, Fate, Reached

LEMMA FateIsNext == (IInv => \A m \in Ids : FateTold(m))'
BY FateIs, PTL

\* A message whose place stays keeps its fate.
LEMMA FateKept ==
  ASSUME NEW m \in Ids, replies'[m] = replies[m], m = turn'.msg <=> m = turn.msg,
         m \in Holds(inbound') <=> m \in Holds(inbound),
         m > sent' \/ m = pending' <=> m > sent \/ m = pending
  PROVE  Fate(m)' = Fate(m)
BY DEF Fate

fates == [m \in Ids |-> Fate(m)]
LEMMA FateSet ==
  ASSUME NEW m \in Ids, NEW f, Fate(m)' = f, \A n \in Ids \ {m} : Fate(n)' = Fate(n)
  PROVE  fates' = [fates EXCEPT ![m] = f]
BY DEF fates

\* Each step of the loop is one of the promise, or changes nothing it speaks of.
LEMMA Simulation ==
  ASSUME IInv, IInv', [Next]_vars
  PROVE  [Promise!Next]_<<fates, inbound, ~Stopping>>
<1>0. /\ sent \in Nat /\ Ids \subseteq Nat /\ None \notin Ids /\ TypeOK
      /\ inbound \in Seq(Ids) /\ Len(inbound) \in Nat /\ Len(inbound) <= QueueLen
      /\ QueueLen \in Nat
  <2>1. TypeOK /\ sent \in 0..MaxMsgs /\ inbound \in Seq(Ids) /\ Len(inbound) <= QueueLen
    BY DEF IInv, TypeOK
  <2>2. Ids \subseteq Nat /\ None \notin Ids /\ QueueLen \in Nat /\ MaxMsgs \in Nat
    BY BoundsKnown DEF Ids, None
  <2> QED BY <2>1, <2>2, LenProperties
<1>1. \A n \in Ids : FateTold(n) /\ FateTold(n)'
  BY FateIs, FateIsNext
<1>2. ASSUME NEW m \in Ids, Appear(m) \/ Hand(m)
      PROVE  Promise!Accept(m) \/ Promise!Refuse(m)
  <2>1. /\ ~Reached(m) /\ Fate(m) = "unsent" /\ (~Stopping)' = ~Stopping
        /\ inbound' = Pushed(inbound, m)
    <3>1. ~Reached(m) /\ (m > sent \/ m = pending)
      BY <1>0, <1>2 DEF Appear, Hand, IInv, OnlySent
    <3> QED BY <1>1, <1>2, <3>1 DEF FateTold, Appear, Hand, Stopping
  <2>2. ASSUME NEW n \in Ids \ {m}
        PROVE  Fate(n)' = Fate(n)
    <3>1. n \in Holds(inbound') <=> n \in Holds(inbound)
      BY <1>0, <2>1, PushHolds DEF Pushed
    <3>2. n > sent' \/ n = pending' <=> n > sent \/ n = pending
      BY <1>0, <1>2 DEF Appear, Hand
    <3> QED BY <1>2, <3>1, <3>2, FateKept DEF Appear, Hand
  <2>3. CASE Len(inbound) < QueueLen
    <3>1. inbound' = Append(inbound, m) /\ m \in Holds(inbound')
      BY <1>0, <2>1, <2>3, PushHolds DEF Pushed
    <3>2. Fate(m)' = "waiting"
      BY <1>1, <3>1 DEF FateTold
    <3>3. fates' = [fates EXCEPT ![m] = "waiting"]
      BY <2>2, <3>2, FateSet
    <3> QED BY <2>1, <2>3, <3>1, <3>3 DEF Promise!Accept, Promise!Set, fates
  <2>4. CASE Len(inbound) = QueueLen
    <3>1. inbound' = inbound
      BY <1>0, <2>1, <2>4 DEF Pushed
    <3>2. ~Reached(m)' /\ m <= sent' /\ m # pending'
      BY <1>0, <1>2, <2>1, <3>1 DEF Appear, Hand, Reached, IInv, OnlySent
    <3>3. Fate(m)' = "lost"
      BY <1>1, <3>2 DEF FateTold
    <3>4. fates' = [fates EXCEPT ![m] = "lost"]
      BY <2>2, <3>3, FateSet
    <3> QED BY <2>1, <2>4, <3>1, <3>4 DEF Promise!Refuse, Promise!Set, fates
  <2> QED BY <1>0, <2>3, <2>4
<1>3. ASSUME NEW m \in Ids, Prepare(m)
      PROVE  UNCHANGED <<fates, inbound, ~Stopping>>
  <2>1. ASSUME NEW n \in Ids
        PROVE  Fate(n)' = Fate(n)
    BY <1>0, <1>3, FateKept DEF Prepare
  <2> QED BY <1>3, <2>1 DEF Prepare, fates, Stopping
<1>4. ASSUME NEW h \in Ids, h = Head(inbound), Lose \/ Start
      PROVE  Promise!Drop \/ Promise!Begin
  <2>1. /\ inbound # <<>> /\ inbound' = Tail(inbound) /\ turn.msg = None
        /\ UNCHANGED <<sent, pending, replies>> /\ Stopping' = Stopping
        /\ turn'.msg = (IF Stopping THEN None ELSE h)
    BY <1>4 DEF Lose, Start, InTurn, IInv, Stopping
  <2>2. /\ Holds(inbound) = Holds(inbound') \cup {h}
        /\ h \notin Holds(inbound')
    BY <1>0, <1>4, <2>1, TailHolds DEF IInv, OnePlace
  <2>3. ASSUME NEW n \in Ids \ {h}
        PROVE  Fate(n)' = Fate(n)
    BY <1>0, <2>1, <2>2, FateKept
  <2>4. Fate(h) = "waiting"
    BY <1>1, <2>2 DEF FateTold
  <2>5. CASE Stopping
    <3>1. ~Reached(h)' /\ h <= sent' /\ h # pending'
      <4>1. Reached(h) /\ replies[h] # 1
        BY <1>1, <2>2, <2>4 DEF FateTold, Reached
      <4> QED BY <1>0, <2>1, <2>2, <2>5, <4>1 DEF Reached, IInv, OnlySent
    <3>2. Fate(h)' = "lost"
      BY <1>1, <2>2, <3>1 DEF FateTold
    <3>3. fates' = [fates EXCEPT ![h] = "lost"]
      BY <2>2, <2>3, <3>2, FateSet
    <3> QED BY <1>4, <2>1, <2>5, <3>3 DEF Promise!Drop, Promise!Set, fates
  <2>6. CASE ~Stopping
    <3>1. Fate(h)' = "working"
      BY <1>1, <2>1, <2>2, <2>6 DEF FateTold
    <3>2. fates' = [fates EXCEPT ![h] = "working"]
      BY <2>2, <2>3, <3>1, FateSet
    <3>3. ASSUME NEW n \in Ids
          PROVE  Fate(n) # "working"
      BY <1>0, <1>1, <2>1 DEF FateTold, Reached, IInv, OnePlace
    <3> QED BY <1>4, <2>1, <2>6, <3>2, <3>3 DEF Promise!Begin, Promise!Set, fates
  <2> QED BY <2>5, <2>6
<1>5. CASE End
  <2>1. /\ turn.msg \in Ids /\ replies[turn.msg] = 0 /\ turn'.msg = None
        /\ UNCHANGED <<sent, pending, inbound>> /\ Stopping' = Stopping
    BY <1>5 DEF End, IInv, TypeOK, InTurn, OnePlace, Steps, Stopping
  <2>2. replies' = [replies EXCEPT ![turn.msg] = 1] /\ replies \in [Ids -> Nat]
    BY <1>5, <2>1 DEF End, IInv, TypeOK
  <2>3. ASSUME NEW n \in Ids \ {turn.msg}
        PROVE  Fate(n)' = Fate(n)
    BY <1>0, <2>1, <2>2, FateKept
  <2>4. Fate(turn.msg) = "working"
    BY <1>1, <2>1 DEF FateTold
  <2>5. ASSUME NEW m \in Ids, m = turn.msg
        PROVE  Promise!Answer(m)
    <3>1. Fate(m)' = "answered"
      BY <1>1, <2>2, <2>5 DEF FateTold
    <3>2. fates' = [fates EXCEPT ![m] = "answered"]
      BY <2>3, <2>5, <3>1, FateSet
    <3> QED BY <2>1, <2>4, <2>5, <3>2 DEF Promise!Answer, Promise!Set, fates
  <2> QED BY <2>1, <2>5 DEF Promise!Next
<1>6. CASE Still
  <2>1. UNCHANGED <<fates, inbound>>
    BY <1>6, FateKept DEF Still, fates
  <2>2. CASE Stopping' <=> Stopping
    BY <2>1, <2>2 DEF Stopping
  <2>3. CASE ~Stopping /\ Stopping'
    <3>1. Promise!Close
      BY <2>1, <2>3 DEF Promise!Close, Stopping, fates
    <3> QED BY <3>1 DEF Promise!Next
  <2> QED BY <1>6, <2>2, <2>3 DEF Still
<1>7. Lose \/ Start => Head(inbound) \in Ids
  BY <1>0, TailHolds DEF Lose, Start
<1> QED BY <1>0, <1>7, <1>2, <1>3, <1>4, <1>5, <1>6, Moves DEF Promise!Next

LEMMA InitPromise == Init => Promise!Init
<1> SUFFICES ASSUME Init PROVE Promise!Init
  OBVIOUS
<1>1. Holds(inbound) = {}
  BY EmptySeq DEF Init, Holds
<1>2. ASSUME NEW m \in Ids
      PROVE  Fate(m) = "unsent"
  BY <1>1, <1>2, BoundsKnown DEF Init, Fate, NoTurn, None, Ids
<1> QED BY <1>2 DEF Promise!Init, Init, Stopping

\* A message is accepted or refused, answered once and in its turn, and dropped
\* only by a shutdown, whichever way its turn takes: a fast path, the cache, rounds
\* of tools up to any of their limits, an error or no text at all
\* (agent_loop.c:1333-1618, :1760-1851, message_bus.c:71-148).
THEOREM LoopKeepsPromise == Spec => KeepsPromise
<1>1. IInv /\ IInv' /\ [Next]_vars => [Promise!Next]_<<fates, inbound, ~Stopping>>
  BY Simulation
<1> QED BY <1>1, InitIInv, NextIInv, InitPromise, PTL DEF Spec, KeepsPromise, Promise!Spec, fates
=============================================================================
