------------------------------ MODULE LanPanel -------------------------------
(***************************************************************************)
(* The panel's web server (app/lan_panel): the main thread takes a slot,   *)
(* accepts a client and starts a worker for it; a worker reads one         *)
(* request, sends a file that routine_mgr replaces meanwhile, saves the    *)
(* Wi-Fi configuration, or exports the history; another thread dims a LED  *)
(* by the light sensor.  A signal stops it all.                            *)
(*                                                                         *)
(* A file is a number; file f is Born(f) blocks when it appears.  A Wi-Fi  *)
(* configuration has the number of the client that posted it.              *)
(***************************************************************************)
EXTENDS Integers, Sequences, FiniteSets

CONSTANTS MaxWorkers,   \* LAN_PANEL_MAX_WORKERS, 4
          Clients,      \* the connections there will be
          Jobs,         \* [Clients -> what its request may lead to]
          MaxFiles,     \* bound of the times the file is replaced or grows
          Lights        \* [lux, threshold, levels] the LED thread may read

VARIABLES
  main, stop, slots,   \* the main thread, g_stop and g_worker_count
  backlog,             \* clients the listening socket holds
  conn,                \* [Clients -> where its worker is]
  fd, promised, sent,  \* [Clients -> its file, Content-Length, blocks sent]
  path, size,          \* the file at the path, 0 for none, and every file's size
  lock,                \* who holds g_mutation_lock
  tmp, wifi, whole,    \* the temporary and the real wifi.cfg, and those written
  accepted,            \* history: the configuration last answered with 202
  light, led           \* the LED thread and the LED

server == <<main, stop, slots, backlog>>
reply == <<fd, promised, sent>>
served == <<path, size>>
saved == <<lock, tmp, wifi, whole, accepted>>
lamp == <<light, led>>
vars == <<server, conn, reply, served, saved, lamp>>

None == "none"
Born(f) == 2 - (f % 2)
Init ==
  /\ main = "top" /\ stop = FALSE /\ slots = 0 /\ backlog = {}
  /\ conn = [c \in Clients |-> "away"]
  /\ fd = [c \in Clients |-> 0] /\ promised = fd /\ sent = fd
  /\ path = 1 /\ size = <<Born(1)>>
  /\ lock = None /\ tmp = None /\ wifi = None /\ whole = {} /\ accepted = None
  /\ light \in {"look", "done"} /\ led = FALSE     \* "done": no LED to open

-----------------------------------------------------------------------------
(* The main thread. *)

Connect ==
  /\ main \notin {"drain", "join", "ended"}
  /\ \E c \in Clients : conn[c] = "away" /\ conn' = [conn EXCEPT ![c] = "backlog"]
                                         /\ backlog' = backlog \cup {c}
  /\ UNCHANGED <<main, stop, slots, reply, served, saved, lamp>>
\* The signal interrupts accept() when the main thread takes it there.
Signal ==
  /\ ~stop /\ stop' = TRUE
  /\ \/ main = "accept" /\ main' = "interrupted"
     \/ UNCHANGED main
  /\ UNCHANGED <<slots, backlog, conn, reply, served, saved, lamp>>

\* lan_panel_worker_slot_acquire, where the wait sees the signal only when it
\* is woken.
Acquire ==
  /\ main = "top"
  /\ main' = CASE stop -> "close" [] ~stop /\ slots < MaxWorkers -> "accept" [] OTHER -> "wait"
  /\ slots' = IF main' = "accept" THEN slots + 1 ELSE slots
  /\ UNCHANGED <<stop, backlog, conn, reply, served, saved, lamp>>
\* lan_panel_worker_slot_release, with the thread that waits woken.
Release_Silent == slots' = slots - 1 /\ (main = "wait" => UNCHANGED main)
Release == slots' = slots - 1 /\ (main = "wait" => main' = "top")

Accept ==
  /\ main = "accept" /\ main' = "top"
  /\ \E c \in backlog : backlog' = backlog \ {c} /\ conn' = [conn EXCEPT ![c] = "read"]
  /\ UNCHANGED <<stop, slots, reply, served, saved, lamp>>
\* No time limit, no memory or no thread for the client: it is closed.
Unserved_Kept == UNCHANGED slots
Unserved == Release
Refuse ==
  /\ main = "accept" /\ main' = "top" /\ Unserved
  /\ \E c \in backlog : backlog' = backlog \ {c} /\ conn' = [conn EXCEPT ![c] = "gone"]
  /\ UNCHANGED <<stop, reply, served, saved, lamp>>
\* accept() fails: a signal is looked at, any other error ends the server.
AcceptFails ==
  /\ Release
  /\ \/ main = "interrupted" /\ main' = "top"
     \/ main = "accept" /\ main' = "close"
  /\ UNCHANGED <<stop, backlog, conn, reply, served, saved, lamp>>
Close ==
  /\ main = "close" /\ main' = "drain" /\ stop' = TRUE /\ backlog' = {}
  /\ conn' = [c \in Clients |-> IF conn[c] \in {"backlog", "away"} THEN "gone" ELSE conn[c]]
  /\ UNCHANGED <<slots, reply, served, saved, lamp>>
Joined_Early == main = "join"
Joined == main = "join" /\ light = "done"
End ==
  /\ \/ main = "drain" /\ slots = 0 /\ main' = "join"
     \/ Joined /\ main' = "ended"
  /\ UNCHANGED <<stop, slots, backlog, conn, reply, served, saved, lamp>>

-----------------------------------------------------------------------------
(* A worker: lan_panel_handle. *)

Goes(c, from, to) == conn[c] = from /\ conn' = [conn EXCEPT ![c] = to]

\* What is asked for: something answered from memory (the page, 401, 404), or
\* something that needs a file or the lock.
Routes(c) == {"close"} \cup Jobs[c]
\* A request that is malformed or not complete in time goes to the close too.
Read(c) ==
  /\ \E next \in Routes(c) \cup {"close"} : Goes(c, "read", next)
  /\ UNCHANGED <<server, reply, served, saved, lamp>>

\* lan_http_send_file: open, fstat of what was opened, then what was promised.
Open(c) ==
  /\ Goes(c, "open", IF path = 0 THEN "close" ELSE "stat")
  /\ fd' = [fd EXCEPT ![c] = path]
  /\ UNCHANGED <<server, promised, sent, served, saved, lamp>>
Length_ByPath(c) == IF path = 0 THEN 0 ELSE size[path]
Length(c) == size[fd[c]]
Stat(c) ==
  /\ Goes(c, "stat", "send") /\ promised' = [promised EXCEPT ![c] = Length(c)]
  /\ UNCHANGED <<server, fd, sent, served, saved, lamp>>
Send(c) ==
  /\ conn[c] = "send"
  /\ IF sent[c] = promised[c] THEN Goes(c, "send", "sent") /\ UNCHANGED sent
     ELSE IF sent[c] = size[fd[c]] THEN Goes(c, "send", "short") /\ UNCHANGED sent
     ELSE \/ sent' = [sent EXCEPT ![c] = @ + 1] /\ UNCHANGED conn
          \/ Goes(c, "send", "close") /\ UNCHANGED sent      \* the peer is gone
  /\ UNCHANGED <<server, fd, promised, served, saved, lamp>>

\* POST of the Wi-Fi configuration under g_mutation_lock.
Lock_None(c) == UNCHANGED lock
Lock(c) == lock = None /\ lock' = c
Take(c) ==
  /\ Lock(c) /\ \/ Goes(c, "lock", "create") \/ Goes(c, "mutex", "export")
  /\ UNCHANGED <<server, reply, served, tmp, wifi, whole, accepted, lamp>>
\* open(O_EXCL), after the removal of a file somebody left.
Create(c) ==
  /\ Goes(c, "create", "fill") /\ tmp' = c
  /\ UNCHANGED <<server, reply, served, lock, wifi, whole, accepted, lamp>>
Fill(c) ==
  /\ \/ Goes(c, "fill", "rename") /\ whole' = whole \cup {c} /\ UNCHANGED <<tmp, lock>>
     \/ Goes(c, "fill", "close") /\ tmp' = None /\ lock' = None /\ UNCHANGED whole
  /\ UNCHANGED <<server, reply, served, wifi, accepted, lamp>>
Rename(c) ==
  /\ Goes(c, "rename", "close") /\ lock' = None /\ tmp' = None
  /\ \/ tmp # None /\ wifi' = tmp /\ accepted' = c
     \/ UNCHANGED <<wifi, accepted>>
  /\ UNCHANGED <<server, reply, served, whole, lamp>>
\* lan_panel_export_history: to a new file of the card, removed when it fails.
Export(c) ==
  /\ Goes(c, "export", "close") /\ lock' = None
  /\ UNCHANGED <<server, reply, served, tmp, wifi, whole, accepted, lamp>>

\* lan_http_close, then the slot.
Done(c) ==
  /\ conn[c] \in {"close", "sent", "short"} /\ Goes(c, conn[c], "gone")
  /\ Release /\ (main # "wait" => UNCHANGED main)
  /\ fd' = [fd EXCEPT ![c] = 0] /\ promised' = [promised EXCEPT ![c] = 0] /\ sent' = [sent EXCEPT ![c] = 0]
  /\ UNCHANGED <<stop, backlog, served, saved, lamp>>
Work(c) ==
  \/ Read(c) \/ Open(c) \/ Stat(c) \/ Send(c) \/ Take(c) \/ Create(c)
  \/ Fill(c) \/ Rename(c) \/ Export(c) \/ Done(c)

\* routine_mgr removes and renames, or appends to, what is served.
Publish ==
  /\ \/ path # 0 /\ path' = 0 /\ UNCHANGED size
     \/ Len(size) <= MaxFiles /\ size' = Append(size, Born(Len(size) + 1)) /\ path' = Len(size')
     \/ path # 0 /\ size[path] = Born(path) /\ size' = [size EXCEPT ![path] = @ + 1] /\ UNCHANGED path
  /\ UNCHANGED <<server, conn, reply, saved, lamp>>

-----------------------------------------------------------------------------
(* The LED: on for calculate_pwm_duty percent of every cycle. *)

Level(l) == l.levels - (l.lux \div l.threshold)
Duty_FromLevel(l) ==
  IF l.lux >= l.threshold * l.levels THEN 0 ELSE 20 + ((Level(l) * 75) \div (l.levels - 1))
Duty(l) ==
  IF l.lux >= l.threshold * l.levels THEN 0 ELSE 20 + (((Level(l) - 1) * 75) \div (l.levels - 1))

LedGoes(from, to, on) ==
  /\ light = from /\ light' = to /\ led' = on
  /\ UNCHANGED <<server, conn, reply, served, saved>>
\* The sensor is live, and it is dark enough by light.cfg.
Lit == \E l \in Lights : Duty(l) > 0
\* A cycle is on and then off.
On == ~stop /\ Lit /\ LedGoes("look", "lit", TRUE)
Off == LedGoes("lit", "look", FALSE)
Put == stop /\ LedGoes("look", "done", FALSE)

Main == Acquire \/ Accept \/ Refuse \/ AcceptFails \/ Close \/ End
Lamp == On \/ Off \/ Put
Next == Connect \/ Signal \/ Main \/ Publish \/ Lamp \/ \E c \in Clients : Work(c)
Spec == Init /\ [][Next]_vars
\* Every thread runs; a client that says nothing is timed out.
Fairness ==
  /\ WF_vars(Main) /\ WF_vars(Put) /\ WF_vars(Off)
  /\ \A c \in Clients : WF_vars(Work(c)) /\ SF_vars(Take(c))
FairSpec == Spec /\ Fairness

-----------------------------------------------------------------------------
(* Properties. *)

Phases == {"read", "open", "stat", "send", "lock", "mutex", "create", "fill", "rename", "export", "close", "sent", "short"}
TypeOK ==
  /\ main \in {"top", "wait", "accept", "interrupted", "close", "drain", "join", "ended"}
  /\ stop \in BOOLEAN /\ slots \in 0..MaxWorkers /\ backlog \subseteq Clients
  /\ conn \in [Clients -> Phases \cup {"away", "backlog", "gone"}]
  /\ path \in 0..Len(size) /\ {fd[c] : c \in Clients} \subseteq 0..Len(size)
  /\ {lock, tmp, wifi, accepted} \subseteq Clients \cup {None} /\ whole \subseteq Clients
  /\ light \in {"look", "lit", "done"} /\ led \in BOOLEAN

\* On every path out of the accept loop and of a worker the slot is given back
\* exactly once: the count is the workers there are and the one the main thread
\* holds, so the server neither closes its door nor starts a fifth worker
\* (lan_panel_main.c:1672-1733 and :2165-2225).
SlotsAreKept ==
  slots = Cardinality({c \in Clients : conn[c] \in Phases})
            + (IF main \in {"accept", "interrupted"} THEN 1 ELSE 0)
\* A reply is as long as it said, and the whole of one generation of a file
\* that is replaced and appended to while it is sent (lan_http.c:387-463).
ReplyIsWhole ==
  \A c \in Clients :
    /\ conn[c] # "short"
    /\ conn[c] = "sent" => promised[c] \in Born(fd[c])..size[fd[c]]
\* What is on disk is a configuration in full, the one last answered with 202,
\* though two clients post at once and a write may fail (lan_panel_main.c:301-366).
AcceptedIsSaved == wifi = accepted /\ (wifi # None => wifi \in whole)
\* When the program is gone the LED is off (lan_panel_main.c:2055-2062, :2238-2247).
LedIsOff == main = "ended" => ~led
\* More light never makes the LED brighter, and its duty is 0 or in 20..95.
DutyFalls ==
  \A a, b \in Lights :
    /\ Duty(a) \in {0} \cup 20..95
    /\ a.threshold = b.threshold /\ a.levels = b.levels /\ a.lux <= b.lux => Duty(b) <= Duty(a)
\* A signal ends the server, whoever holds slots and locks then, unless the main
\* thread was just before accept(), where it is blocked until a client comes.
StopEnds == stop ~> main \in {"ended", "accept"}
=============================================================================
