------------------------------ MODULE NodeLink -------------------------------
(***************************************************************************)
(* The gateway of the assistant: a thread for every WebSocket client       *)
(* (channels/ws_server.c) hands what it receives to the table of nodes     *)
(* (node/node_manager.c); the agent reads the list of tools                *)
(* (tools/tool_registry.c), which names the commands of the nodes, and its *)
(* threads call those commands and wait for the answer.                    *)
(*                                                                         *)
(* A connection is the number of its descriptor.  A call is numbered when  *)
(* it is made.                                                             *)
(***************************************************************************)
EXTENDS Integers, FiniteSets

CONSTANTS Conns, Nodes,     \* connections there may be, and nodes
          Ids,              \* functions from Conns to the nodes they say they are
          MaxNodes,         \* NODE_MAX_NODES
          Callers, Slots,   \* threads that call, and the MAX_PENDING slots
          MaxCalls          \* bound

None == 0
VARIABLES
  table,         \* [Nodes -> the connection of its entry, None for no entry]
  at, id,        \* [Conns -> where its thread is, and the node it said it is]
  latest,        \* history: [Nodes -> the last connection that was accepted for it]
  json, dirty,   \* the nodes in the list of tools, and s_tools_dirty
  mtx, read,     \* the agent holds s_tools_mtx; what each builder collected
  slot,          \* [Slots -> [call, done]], call None when it is free
  pc, mine,      \* [Callers -> where it is, and its slot]
  call, to,      \* [Callers -> its call, and the connection it asks]
  asked,         \* the calls a node was sent
  found,         \* [Conns -> slot whose call it is answering, 0 for none]
  calls

wire == <<at, id, latest>>
tools == <<json, dirty, mtx, read>>
invokes == <<slot, pc, mine, call, to, asked, found, calls>>
vars == <<table, wire, tools, invokes>>

Free == [call |-> None, done |-> FALSE]
Init ==
  /\ table = [n \in Nodes |-> None] /\ at = [c \in Conns |-> "away"]
  /\ id \in Ids /\ latest = [n \in Nodes |-> None]
  /\ json = {} /\ dirty = TRUE /\ mtx = FALSE /\ read = [b \in Conns \cup {None} |-> {}]
  /\ slot = [s \in Slots |-> Free] /\ pc = [t \in Callers |-> "idle"]
  /\ mine = [t \in Callers |-> None] /\ call = mine /\ to = mine
  /\ asked = {} /\ found = [c \in Conns |-> None] /\ calls = 0

Active == {n \in Nodes : table[n] # None}
Goes(c, from, next) == at[c] = from /\ at' = [at EXCEPT ![c] = next]

-----------------------------------------------------------------------------
(* A client's thread: ws_server.c:380-519. *)

\* handle_connect: an entry of the same name is taken over by the new connection.
Takes_IfNew(c) == IF table[id[c]] = None THEN c ELSE table[id[c]]
Takes(c) == c
Register(c) ==
  /\ IF table[id[c]] # None \/ Cardinality(Active) < MaxNodes
     THEN /\ table' = [table EXCEPT ![id[c]] = Takes(c)]
          /\ latest' = [latest EXCEPT ![id[c]] = c] /\ Goes(c, "away", "invalidate")
     ELSE UNCHANGED <<table, latest>> /\ Goes(c, "away", "open")
  /\ UNCHANGED <<id, tools, invokes>>
Invalidate(c) ==
  /\ ~mtx /\ dirty' = TRUE
  /\ Goes(c, "invalidate", "rebuild") \/ Goes(c, "gone", "wake")
  /\ UNCHANGED <<id, table, latest, json, mtx, read, invokes>>
\* tool_registry_rebuild_json builds without the lock.
Collect(b) == dirty /\ read' = [read EXCEPT ![b] = Active]
Built(b) == json' = read[b] /\ dirty' = FALSE
Rebuild(c) ==
  /\ \/ Collect(c) /\ Goes(c, "rebuild", "built") /\ UNCHANGED <<json, dirty>>
     \/ ~dirty /\ Goes(c, "rebuild", "open") /\ UNCHANGED <<json, dirty, read>>
     \/ Built(c) /\ Goes(c, "built", "open") /\ read' = [read EXCEPT ![c] = {}]
  /\ UNCHANGED <<id, table, latest, mtx, invokes>>

\* node_manager_on_disconnect: the entry of this descriptor, then every call.
Entry_ById(c) == {n \in Active : n = id[c]}
Entry(c) == {n \in Active : table[n] = c}
Disconnect(c) ==
  /\ table' = [n \in Nodes |-> IF n \in Entry(c) THEN None ELSE table[n]]
  /\ Goes(c, "open", IF Entry(c) = {} THEN "wake" ELSE "gone")
  /\ UNCHANGED <<id, latest, tools, invokes>>
Wake(c) ==
  /\ Goes(c, "wake", "closed")
  /\ slot' = [s \in Slots |-> IF slot[s].call = None \/ slot[s].done THEN slot[s]
                              ELSE [slot[s] EXCEPT !.done = TRUE]]
  /\ UNCHANGED <<id, table, latest, tools, pc, mine, call, to, asked, found, calls>>

\* handle_invoke_result: the slot is found, and then written.
Answer(c) ==
  /\ at[c] = "open"
  /\ \/ /\ found[c] = None
        /\ \E s \in Slots : /\ <<c, slot[s].call>> \in asked
                            /\ found' = [found EXCEPT ![c] = s]
        /\ UNCHANGED slot
     \/ /\ found[c] # None /\ found' = [found EXCEPT ![c] = None]
        /\ slot' = [slot EXCEPT ![found[c]].done = TRUE]
  /\ UNCHANGED <<table, wire, tools, pc, mine, call, to, asked, calls>>

-----------------------------------------------------------------------------
(* The agent. *)

GetTools ==
  /\ \/ ~mtx /\ Collect(None) /\ mtx' = TRUE /\ UNCHANGED <<json, dirty>>
     \/ mtx /\ mtx' = FALSE /\ Built(None) /\ read' = [read EXCEPT ![None] = {}]
  /\ UNCHANGED <<table, wire, invokes>>

Step(t, from, next) == pc[t] = from /\ pc' = [pc EXCEPT ![t] = next]
\* node_manager_execute, for a node the table has.
Find(t) ==
  /\ calls < MaxCalls /\ Step(t, "idle", "alloc") /\ calls' = calls + 1
  /\ \E n \in Active : to' = [to EXCEPT ![t] = table[n]]
  /\ call' = [call EXCEPT ![t] = calls + 1]
  /\ UNCHANGED <<table, wire, tools, slot, mine, asked, found>>
\* alloc_pending looks for a free slot, and then claims it, without a lock.
Alloc(t) ==
  /\ IF \E s \in Slots : slot[s].call = None
     THEN Step(t, "alloc", "claim") /\ \E s \in Slots : slot[s].call = None /\ mine' = [mine EXCEPT ![t] = s]
     ELSE Step(t, "alloc", "idle") /\ UNCHANGED mine
  /\ UNCHANGED <<table, wire, tools, slot, call, to, asked, found, calls>>
Claim(t) ==
  /\ Step(t, "claim", "send") /\ slot' = [slot EXCEPT ![mine[t]] = [Free EXCEPT !.call = call[t]]]
  /\ UNCHANGED <<table, wire, tools, mine, call, to, asked, found, calls>>
Unsent_Kept(t) == UNCHANGED slot
Unsent(t) == slot' = [slot EXCEPT ![mine[t]] = Free]
Send(t) ==
  /\ \/ Step(t, "send", "wait") /\ at[to[t]] # "closed" /\ asked' = asked \cup {<<to[t], call[t]>>} /\ UNCHANGED slot
     \/ Step(t, "send", "idle") /\ Unsent(t) /\ UNCHANGED asked
  /\ UNCHANGED <<table, wire, tools, mine, call, to, found, calls>>
\* The answer, the news of a disconnection, or thirty seconds.
Return(t) ==
  /\ Step(t, "wait", "idle") /\ slot' = [slot EXCEPT ![mine[t]] = Free]
  /\ mine' = [mine EXCEPT ![t] = None] /\ to' = [to EXCEPT ![t] = None] /\ call' = [call EXCEPT ![t] = None]
  /\ UNCHANGED <<table, wire, tools, asked, found, calls>>

Client(c) ==
  Register(c) \/ Invalidate(c) \/ Rebuild(c) \/ Disconnect(c) \/ Wake(c) \/ Answer(c)
Caller(t) == Find(t) \/ Alloc(t) \/ Claim(t) \/ Send(t) \/ Return(t)
Next == GetTools \/ (\E c \in Conns : Client(c)) \/ \E t \in Callers : Caller(t)
Spec == Init /\ [][Next]_vars

-----------------------------------------------------------------------------
(* Properties. *)

TypeOK ==
  /\ table \in [Nodes -> Conns \cup {None}]
  /\ at \in [Conns -> {"away", "invalidate", "rebuild", "built", "open", "gone", "wake", "closed"}]
  /\ json \subseteq Nodes /\ {dirty, mtx} \subseteq BOOLEAN
  /\ pc \in [Callers -> {"idle", "alloc", "claim", "send", "wait"}]

\* A node that reconnects is called over its new connection, and the end of the
\* old one, whenever it is noticed, does not take the node away
\* (node_manager.c:237-338 and :490-521).
ReconnectedIsFound ==
  \A n \in Nodes : latest[n] # None /\ at[latest[n]] \notin {"gone", "wake", "closed"} => table[n] = latest[n]
\* However calls end and overlap, no slot stays taken when nobody calls
\* (node_manager.c:203-224 and :523-668).
SlotsComeBack ==
  (\A t \in Callers : pc[t] = "idle") /\ (\A c \in Conns : found[c] = None) =>
    \A s \in Slots : slot[s].call = None
\* "Rebuild tools JSON under lock": the list the model is given has the commands
\* of the nodes that are connected, unless it is marked to be built again.
ToolsFollowNodes ==
  ~dirty /\ (\A c \in Conns : at[c] \in {"away", "open", "closed"}) => json = Active
=============================================================================
