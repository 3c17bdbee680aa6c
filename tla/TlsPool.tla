------------------------------- MODULE TlsPool -------------------------------
(***************************************************************************)
(* The requests over TLS and the connections they share (vela_tls.c): a    *)
(* request takes a connection of the pool, a live one to its host if there *)
(* is one, else an empty slot, else the place of one that rests; when all  *)
(* are taken it makes a connection of its own.  A connection that was used *)
(* before may hold the rest of an answer, or be dead; then it is made anew *)
(* and the request is sent again.  Answers are read through buffers that   *)
(* are fewer than the threads.                                             *)
(***************************************************************************)
EXTENDS Integers, FiniteSets

CONSTANTS Threads,     \* numbers beyond those of the slots
          Hosts,
          Slots,       \* 1..CONN_POOL_SIZE
          Raws,        \* 1..TLS_RAW_BUF_COUNT
          MaxRequests  \* bound

None == "none"
Nobody == 0
VARIABLES
  pool,   \* s_pool: [Slots -> [host, used, valid]]
  ctx,    \* the connections of the slots, and those of the threads: [to, left, dead]
  raw,    \* s_tls_raw_lock: [Raws -> its thread]
  thr,    \* [Threads -> [pc, host, slot, reused, sends]]
  asked,  \* ghost: the host each thread's request was last written to
  requests
vars == <<pool, ctx, raw, thr, asked, requests>>

Closed == [to |-> None, left |-> FALSE, dead |-> FALSE]
Idle == [pc |-> "idle", host |-> None, slot |-> 0, reused |-> FALSE, sends |-> 0]
Init ==
  /\ pool = [s \in Slots |-> [host |-> None, used |-> FALSE, valid |-> FALSE]]
  /\ ctx = [c \in Slots \cup Threads |-> Closed]
  /\ raw = [r \in Raws |-> Nobody] /\ thr = [t \in Threads |-> Idle]
  /\ asked = [t \in Threads |-> None] /\ requests = 0

-----------------------------------------------------------------------------
(* The pool. *)

\* A mutant: any live connection that rests will do.
Live_Any(h) == {s \in Slots : pool[s].valid /\ ~pool[s].used}
Live(h) == {s \in Slots : pool[s].valid /\ ~pool[s].used /\ pool[s].host = h}
Empty == {s \in Slots : ~pool[s].valid /\ ~pool[s].used}
Resting == {s \in Slots : ~pool[s].used}
First(S) == CHOOSE s \in S : \A x \in S : s <= x
\* The slot for h, 0 when every one is taken, and whether it must be emptied.
Acquired(h) ==
  CASE Live(h) # {} -> [slot |-> First(Live(h)), evict |-> FALSE]
    [] Live(h) = {} /\ Empty # {} -> [slot |-> First(Empty), evict |-> FALSE]
    [] Live(h) = {} /\ Empty = {} /\ Resting # {} -> [slot |-> First(Resting), evict |-> TRUE]
    [] OTHER -> [slot |-> 0, evict |-> FALSE]
To(t, pc) == thr' = [thr EXCEPT ![t].pc = pc]
Request(t, h) ==
  /\ thr[t].pc = "idle" /\ requests < MaxRequests /\ requests' = requests + 1
  /\ LET a == Acquired(h)
         warm == a.slot # 0 /\ ~a.evict /\ pool[a.slot].valid
     IN /\ pool' = IF a.slot = 0 THEN pool
                   ELSE [pool EXCEPT ![a.slot].used = TRUE, ![a.slot].valid = warm]
        /\ ctx' = IF a.evict THEN [ctx EXCEPT ![a.slot] = Closed] ELSE ctx
        /\ thr' = [thr EXCEPT ![t] = [Idle EXCEPT !.pc = IF warm THEN "drain" ELSE "connect",
                                                   !.host = h, !.slot = a.slot, !.reused = warm]]
  /\ UNCHANGED <<raw, asked>>
\* vela_http_post_json and vela_https_head_date use no connection of the pool.
Plain(t, h) ==
  /\ thr[t].pc = "idle" /\ requests < MaxRequests /\ requests' = requests + 1
  /\ thr' = [thr EXCEPT ![t] = [Idle EXCEPT !.pc = "connect", !.host = h]]
  /\ UNCHANGED <<pool, ctx, raw, asked>>
\* A mutant: the slots in use are emptied too.
Spared_None(s) == FALSE
Spared(s) == pool[s].used
Cleanup ==
  /\ pool' = [s \in Slots |-> IF Spared(s) THEN pool[s] ELSE [host |-> None, used |-> pool[s].used, valid |-> FALSE]]
  /\ ctx' = [c \in DOMAIN ctx |-> IF c \in Slots /\ ~Spared(c) THEN Closed ELSE ctx[c]]
  /\ UNCHANGED <<raw, thr, asked, requests>>

-----------------------------------------------------------------------------
(* A request. *)

\* The connection of t: its slot's, or its own.
Of(t) == IF thr[t].slot = 0 THEN t ELSE thr[t].slot
\* pool_release, or the end of a connection of its own.
Ends(t, keep) ==
  /\ thr' = [thr EXCEPT ![t] = Idle]
  /\ asked' = [asked EXCEPT ![t] = None]
  /\ IF thr[t].slot = 0 THEN UNCHANGED pool
     ELSE pool' = [pool EXCEPT ![thr[t].slot] = [host |-> IF keep THEN thr[t].host ELSE None, used |-> FALSE, valid |-> keep]]
\* A stale connection is closed; the request starts over on a new one.
Reconnect(t) ==
  /\ ctx' = [ctx EXCEPT ![Of(t)] = Closed]
  /\ pool' = [pool EXCEPT ![thr[t].slot].valid = FALSE]
  /\ thr' = [thr EXCEPT ![t].pc = "connect", ![t].reused = FALSE]
Fails(t) ==
  IF thr[t].reused THEN Reconnect(t) /\ UNCHANGED asked
  ELSE Ends(t, FALSE) /\ ctx' = [ctx EXCEPT ![Of(t)] = Closed]

\* What is left is read for 10 ms; what comes later stays.
Drain(t) ==
  /\ thr[t].pc = "drain"
  /\ \/ ctx[Of(t)].dead /\ Reconnect(t)
     \/ \E late \in BOOLEAN :
          /\ late => ctx[Of(t)].left
          /\ ctx' = [ctx EXCEPT ![Of(t)].left = late] /\ To(t, "write") /\ UNCHANGED pool
  /\ UNCHANGED <<raw, asked, requests>>
Connect(t) ==
  /\ thr[t].pc = "connect"
  /\ \/ ctx' = [ctx EXCEPT ![Of(t)] = [Closed EXCEPT !.to = thr[t].host]] /\ To(t, "write") /\ UNCHANGED <<pool, asked>>
     \/ Ends(t, FALSE) /\ ctx' = [ctx EXCEPT ![Of(t)] = Closed]
  /\ UNCHANGED <<raw, requests>>
Write(t) ==
  /\ thr[t].pc = "write"
  /\ \/ Fails(t)
     \/ /\ ~ctx[Of(t)].dead
        /\ thr' = [thr EXCEPT ![t].pc = "wait", ![t].sends = @ + 1]
        /\ asked' = [asked EXCEPT ![t] = ctx[Of(t)].to]
        /\ UNCHANGED <<pool, ctx>>
  /\ UNCHANGED <<raw, requests>>
\* A free buffer, or else the first one as soon as it is free.
Wait(t) ==
  /\ thr[t].pc = "wait"
  /\ \E r \in Raws : /\ raw[r] = Nobody /\ \A x \in Raws : x < r => raw[x] # Nobody
                     /\ raw' = [raw EXCEPT ![r] = t]
  /\ To(t, "read") /\ UNCHANGED <<pool, ctx, asked, requests>>
\* Nothing is read, or no status line (what was left of another answer is none).
ReadFails(t) ==
  /\ thr[t].pc = "read" /\ Fails(t)
  /\ raw' = [r \in Raws |-> IF raw[r] = t THEN Nobody ELSE raw[r]]
  /\ UNCHANGED requests
\* An answer, of which a part may be left unread: it did not fit, or the read
\* failed before its end.  Then too the connection is kept if the peer keeps it.
Answer(t) ==
  /\ thr[t].pc = "read" /\ ~ctx[Of(t)].left /\ ~ctx[Of(t)].dead
  /\ \E keep, left \in BOOLEAN :
       LET kept == keep /\ thr[t].slot # 0
       IN /\ Ends(t, kept)
          /\ ctx' = [ctx EXCEPT ![Of(t)] = IF kept THEN [@ EXCEPT !.left = left] ELSE Closed]
  /\ raw' = [r \in Raws |-> IF raw[r] = t THEN Nobody ELSE raw[r]]
  /\ UNCHANGED requests
\* The peer closes a connection.
Dies(c) ==
  /\ ctx[c].to # None /\ ~ctx[c].dead /\ ctx' = [ctx EXCEPT ![c].dead = TRUE]
  /\ UNCHANGED <<pool, raw, thr, asked, requests>>

Step(t) == Drain(t) \/ Connect(t) \/ Write(t) \/ Wait(t) \/ ReadFails(t) \/ Answer(t)
Next ==
  \/ \E t \in Threads : Step(t) \/ \E h \in Hosts : Request(t, h) \/ Plain(t, h)
  \/ \E c \in DOMAIN ctx : Dies(c)
  \/ Cleanup
Spec == Init /\ [][Next]_vars

-----------------------------------------------------------------------------
(* Properties. *)

TypeOK ==
  /\ \A s \in Slots : pool[s].host \in Hosts \cup {None} /\ pool[s].used \in BOOLEAN /\ pool[s].valid \in BOOLEAN
  /\ \A t \in Threads : thr[t].pc \in {"idle", "drain", "connect", "write", "wait", "read"} /\ thr[t].slot \in Slots \cup {0}
  /\ requests \in 0..MaxRequests

\* A request is written to a connection to its own host that no other thread
\* uses, at most twice; and a connection is open exactly while a slot or a
\* thread vouches for it, so none is leaked or used after it was closed
\* (vela_tls.c:159-230, :646-745).
OwnConnection ==
  /\ \A t \in Threads : thr[t].pc \in {"wait", "read"} => asked[t] = thr[t].host /\ ctx[Of(t)].to = thr[t].host
  /\ \A t, u \in Threads : t # u /\ thr[t].slot = thr[u].slot => thr[t].slot = 0
  /\ \A t \in Threads : thr[t].sends <= 2 /\ (thr[t].pc = "idle" => ctx[t] = Closed)
  /\ \A s \in Slots :
       /\ pool[s].used <=> \E t \in Threads : thr[t].slot = s
       /\ ~pool[s].used => (pool[s].valid <=> ctx[s].to # None) /\ (pool[s].valid => ctx[s].to = pool[s].host)
=============================================================================
