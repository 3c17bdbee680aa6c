------------------------------ MODULE WeixinPoll ------------------------------
(***************************************************************************)
(* The WeChat channel (weixin_channel.c): a task asks the service for what *)
(* came after its cursor, moves the cursor and passes the messages on one  *)
(* by one; a login, on another thread, replaces the token that the task    *)
(* uses; a refused token is dropped, with the cursor.  The service sends   *)
(* again what its answer lost, and after a login it may begin anew.        *)
(***************************************************************************)
EXTENDS Integers, Sequences

CONSTANTS Ring,        \* DEDUP_RING_SIZE
          Limit,       \* WEIXIN_MAX_MSGS_PER_POLL
          MaxMessages, MaxLogins, MaxStarts   \* bounds

VARIABLES
  task,        \* off, or the step of the polling task, with the token and the messages in its hands
  running,     \* s_running
  token, saved,     \* s_token and weixin.token, logins counted from 1, 0 for none
  cursor,      \* how many messages the cursor is past
  ring,        \* s_dedup_ring, newest last
  valid,       \* the login the service takes
  written,     \* messages the service has
  out, refused,     \* what was passed on, in its order, and what the full bus refused (ghosts)
  starts
vars == <<task, running, token, saved, cursor, ring, valid, written, out, refused, starts>>

Off == [pc |-> "off", token |-> 0, left |-> <<>>]
Init ==
  /\ task = Off /\ running = FALSE
  /\ token = 0 /\ saved = 0 /\ cursor = 0 /\ ring = <<>>
  /\ valid = 0 /\ written = 0 /\ out = <<>> /\ refused = {} /\ starts = 0

Top == [pc |-> "top", token |-> 0, left |-> <<>>]
Start ==
  /\ starts < MaxStarts /\ starts' = starts + 1
  /\ IF running THEN UNCHANGED <<task, running, cursor>>
     ELSE task.pc = "off" /\ running' = TRUE /\ task' = Top /\ cursor' = 0
  /\ UNCHANGED <<token, saved, ring, valid, written, out, refused>>
\* weixin_channel_stop joins the task, which may be in a request for 35 seconds.
Stop ==
  /\ running /\ running' = FALSE
  /\ UNCHANGED <<task, token, saved, cursor, ring, valid, written, out, refused, starts>>
Exit ==
  /\ task.pc = "top" /\ ~running /\ task' = Off
  /\ UNCHANGED <<running, token, saved, cursor, ring, valid, written, out, refused, starts>>

\* The confirmed login, or the token set by a command.
Login ==
  /\ valid < MaxLogins /\ valid' = valid + 1
  /\ token' = valid' /\ saved' = valid'
  /\ UNCHANGED <<task, running, cursor, ring, written, out, refused, starts>>

Ask ==
  /\ task.pc = "top" /\ running /\ token # 0
  /\ task' = [Top EXCEPT !.pc = "asked", !.token = token]
  /\ UNCHANGED <<running, token, saved, cursor, ring, valid, written, out, refused, starts>>
\* No answer, one that is not understood, or an error: again after a while.
Fails ==
  /\ task.pc = "asked" /\ task' = Top
  /\ UNCHANGED <<running, token, saved, cursor, ring, valid, written, out, refused, starts>>
\* ret is -14: the session is over.
Expired ==
  /\ task.pc = "asked" /\ task.token # valid
  /\ token' = 0 /\ saved' = 0 /\ cursor' = 0 /\ task' = Top
  /\ UNCHANGED <<running, ring, valid, written, out, refused, starts>>
\* A mutant: the last of the messages is left.
Taken_ButLast(from, to) == [i \in 1..(to - from - 1) |-> from + i]
Taken(from, to) == [i \in 1..(to - from) |-> from + i]
Answer ==
  /\ task.pc = "asked" /\ task.token = valid
  /\ \E upTo \in cursor..written :
       /\ upTo - cursor <= Limit   \* what comes beyond is not looked at, though the cursor is past it
       /\ cursor' = upTo
       /\ task' = [Top EXCEPT !.pc = "dispatch", !.left = Taken(cursor, upTo)]
  /\ UNCHANGED <<running, token, saved, ring, valid, written, out, refused, starts>>
Recorded(m) == LET all == Append(ring, m) IN IF Len(all) > Ring THEN Tail(all) ELSE all
Dispatch ==
  /\ task.pc = "dispatch"
  /\ IF task.left = <<>> THEN task' = Top /\ UNCHANGED <<ring, out, refused>>
     ELSE LET m == Head(task.left) IN
       /\ task' = [task EXCEPT !.left = Tail(@)]
       /\ IF \E i \in 1..Len(ring) : ring[i] = m THEN UNCHANGED <<ring, out, refused>>
          ELSE /\ ring' = Recorded(m)
               /\ \/ out' = Append(out, m) /\ UNCHANGED refused
                  \/ refused' = refused \cup {m} /\ UNCHANGED out
  /\ UNCHANGED <<running, token, saved, cursor, valid, written, starts>>
Write ==
  /\ written < MaxMessages /\ written' = written + 1
  /\ UNCHANGED <<task, running, token, saved, cursor, ring, valid, out, refused, starts>>

Next == Start \/ Stop \/ Exit \/ Login \/ Ask \/ Fails \/ Expired \/ Answer \/ Dispatch \/ Write
Spec == Init /\ [][Next]_vars

\* The types of the variables.
TypeOK ==
  /\ task.token \in 0..MaxLogins /\ Len(task.left) <= Limit
  /\ {token, saved, valid} \subseteq 0..MaxLogins
  /\ cursor \in 0..written /\ Len(ring) <= Ring /\ refused \subseteq 1..MaxMessages

Handled == {out[i] : i \in 1..Len(out)} \cup refused \cup {task.left[i] : i \in 1..Len(task.left)}
(***************************************************************************)
(* Each message before the cursor was passed on once or met a full bus,    *)
(* through lost answers, other logins and restarts, as long as the ring    *)
(* holds what the service may send again.                                  *)
(***************************************************************************)
HandledOnce ==
  /\ 1..cursor \subseteq Handled
  /\ \A i, j \in 1..Len(out) : i # j => out[i] # out[j]
(***************************************************************************)
(* A token is dropped when the service refused it.                         *)
(***************************************************************************)
RefusedIsDropped == [][token # 0 /\ token' = 0 => token = task.token]_vars
=============================================================================
