------------------------------ MODULE McpClient ------------------------------
(***************************************************************************)
(* The client of remote tools (tools/mcp_client.c).  Commands add and      *)
(* remove servers and ask all of them for their tools; the agent lists the *)
(* tools and calls them.  The lock s_mtx is held while the tables are read *)
(* or written and never over a request, so a discovery is as many steps as *)
(* it makes requests, and a call may meet tables that changed meanwhile.   *)
(***************************************************************************)
EXTENDS Integers, Sequences

CONSTANTS Users,       \* who gives commands
          Names, Urls, \* what a server may be called, and where it may be
          Offers,      \* [Urls -> the names of its tools, a sequence]
          MaxServers, MaxTools,  \* MCP_CLIENT_MAX_SERVERS and MCP_CLIENT_MAX_TOOLS
          MaxCommands  \* bound

VARIABLES
  servers,   \* s_servers: [name, url, initialized]
  tools,     \* s_tools: [server, name], and the url that listed it (ghost)
  user,      \* [Users -> its command: pc, srv_copy, the one asked, tmp_tools]
  agent,     \* the thread that calls a tool: pc, the tool, srv_local
  commands
vars == <<servers, tools, user, agent, commands>>

Nothing == [pc |-> "idle", copy |-> <<>>, at |-> 0, found |-> <<>>]
NoCall == [pc |-> "idle", tool |-> "none", listed |-> "none", server |-> "none"]
Init ==
  /\ servers = <<>> /\ tools = <<>> /\ agent = NoCall /\ commands = 0
  /\ user = [u \in Users |-> Nothing]

Named(list, n) == {i \in DOMAIN list : list[i].name = n}
Command(u) == user[u].pc = "idle" /\ commands < MaxCommands /\ commands' = commands + 1

\* A url that is none is refused, as a name taken and a server too many are.
AddServer(u, n, url) ==
  /\ Command(u) /\ Len(servers) < MaxServers /\ Named(servers, n) = {}
  /\ servers' = Append(servers, [name |-> n, url |-> url, initialized |-> FALSE])
  /\ UNCHANGED <<tools, user, agent>>
Others(n) == {i \in DOMAIN tools : tools[i].server # n}
\* What is left moves up, in its order.
MovesUp(kept) ==
  \E n \in 0..Len(tools) : \E f \in [1..n -> kept] :
    /\ {f[i] : i \in 1..n} = kept /\ \A i, j \in 1..n : i < j => f[i] < f[j]
    /\ tools' = [i \in 1..n |-> tools[f[i]]]
RemoveServer(u, n) ==
  /\ Command(u)
  /\ \E i \in Named(servers, n) :
       servers' = [j \in 1..Len(servers) - 1 |-> servers[IF j < i THEN j ELSE j + 1]]
  /\ MovesUp(Others(n))
  /\ UNCHANGED <<user, agent>>

(* Discovery: a copy of the servers, a request or two to each, the merge. *)
Discover(u) ==
  /\ Command(u) /\ servers # <<>>
  /\ user' = [user EXCEPT ![u] = [pc |-> "ask", copy |-> servers, at |-> 1, found |-> <<>>]]
  /\ tools' = <<>>
  /\ UNCHANGED <<servers, agent>>
Asked(u) == user[u].copy[user[u].at]
Room(u) == MaxTools - Len(user[u].found)
\* discover_server_tools: no more than there is room for.
Listed(u) ==
  LET all == Offers[Asked(u).url]
      fit == SubSeq(all, 1, IF Len(all) < Room(u) THEN Len(all) ELSE Room(u))
  IN [i \in DOMAIN fit |-> [server |-> Asked(u).name, name |-> fit[i], url |-> Asked(u).url]]
\* The next server is asked; what this one said of itself goes into the table.
On(u, initialized, found) ==
  /\ user' = [user EXCEPT ![u].at = @ + 1, ![u].found = @ \o found,
                          ![u].pc = IF user[u].at = Len(user[u].copy) \/ Room(u) = Len(found) THEN "merge" ELSE "ask"]
  /\ servers' = [i \in DOMAIN servers |->
                   IF servers[i].name = Asked(u).name THEN [servers[i] EXCEPT !.initialized = initialized] ELSE servers[i]]
  /\ UNCHANGED <<tools, agent, commands>>
\* The handshake of a server not yet initialized, and tools/list.
Refuses(u) == user[u].pc = "ask" /\ On(u, Asked(u).initialized, <<>>)
ListFails(u) == user[u].pc = "ask" /\ On(u, TRUE, <<>>)
Answers(u) == user[u].pc = "ask" /\ On(u, TRUE, Listed(u))
Merge(u) ==
  /\ user[u].pc = "merge"
  /\ tools' = LET all == tools \o user[u].found IN SubSeq(all, 1, IF Len(all) < MaxTools THEN Len(all) ELSE MaxTools)
  /\ user' = [user EXCEPT ![u] = Nothing]
  /\ UNCHANGED <<servers, agent, commands>>

(* The agent. *)
Full(t) == <<t.server, t.name>>
First(I) == IF I = {} THEN 0 ELSE CHOOSE i \in I : \A j \in I : i <= j
\* A tool of the list last shown to the model, which may be gone by now.
Execute(n, name) ==
  /\ agent.pc = "idle"
  /\ LET t == First({i \in DOMAIN tools : Full(tools[i]) = <<n, name>>})
         s == IF t = 0 THEN 0 ELSE First(Named(servers, tools[t].server))
     IN IF s = 0 THEN UNCHANGED agent     \* ERROR
        ELSE agent' = [pc |-> "post", tool |-> name, listed |-> tools[t].url, server |-> servers[s].url]
  /\ UNCHANGED <<servers, tools, user, commands>>
\* An answer, a part of one, or an error.
Executed ==
  /\ agent.pc = "post" /\ agent' = NoCall
  /\ UNCHANGED <<servers, tools, user, commands>>

Next ==
  \/ \E u \in Users :
       \/ \E n \in Names : RemoveServer(u, n) \/ \E url \in Urls : AddServer(u, n, url)
       \/ Discover(u) \/ Refuses(u) \/ ListFails(u) \/ Answers(u) \/ Merge(u)
  \/ \E n \in Names, url \in Urls : \E i \in DOMAIN Offers[url] : Execute(n, Offers[url][i])
  \/ Executed
Spec == Init /\ [][Next]_vars

-----------------------------------------------------------------------------
(* Properties. *)

TypeOK ==
  /\ Len(servers) <= MaxServers /\ Len(tools) <= MaxTools
  /\ \A u \in Users : user[u].pc \in {"idle", "ask", "merge"} /\ Len(user[u].found) <= MaxTools
  /\ agent.pc \in {"idle", "post"} /\ commands \in 0..MaxCommands

\* A call goes to where the tool was listed, and no tool is listed twice, though
\* servers are removed and added again under the same name between a listing and
\* a call.  With one user: what is removed while a second one's discovery runs
\* comes back with its merge (mcp_client.c:496-540, :544-627, :631-660).
CalledWhereListed ==
  /\ agent.server = agent.listed
  /\ \A i, j \in DOMAIN tools : Full(tools[i]) = Full(tools[j]) => i = j
=============================================================================
