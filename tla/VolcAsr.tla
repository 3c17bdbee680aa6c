------------------------------- MODULE VolcAsr -------------------------------
(***************************************************************************)
(* Recognition in the cloud (volc_asr.c behind voice_asr.c): a session is  *)
(* a TLS connection upgraded to a WebSocket, on which the audio goes out   *)
(* and responses come back until one has a negative sequence number.  The  *)
(* text of a response is written into the caller's buffer behind an offset *)
(* that is static, so one for all sessions.  A text is a sequence; what    *)
(* lies behind the end of the one in the buffer is not seen.               *)
(***************************************************************************)
EXTENDS Integers, Sequences

CONSTANTS Users,          \* threads that recognise
          Texts,          \* what the service may say, nothing included
          MaxResponses,   \* 100 responses are read at most
          MaxAhead, MaxSessions   \* bounds: unread responses, sessions of a user

VARIABLES
  confirmed,   \* confirmed_len
  user         \* the session of each user: its step, buffer and result, what
               \* the service sent, and the last text received (a ghost)
vars == <<confirmed, user>>

Fresh == [pc |-> "idle", kind |-> "batch", text |-> <<>>, ret |-> "none", wire |-> <<>>, ended |-> FALSE,
          heard |-> <<>>, tries |-> 0, sessions |-> 0]
Init == /\ confirmed = 0
        /\ user = [u \in Users |-> Fresh]

Goes(u, to) == user' = [user EXCEPT ![u].pc = to]
End(u, how) == user' = [user EXCEPT ![u].pc = "idle", ![u].ret = how]

\* recognize for a whole recording, or stream_open; a buffer begins empty.
Begin(u, kind) ==
  /\ user[u].pc = "idle" /\ user[u].sessions < MaxSessions
  /\ user' = [user EXCEPT ![u] = [Fresh EXCEPT !.pc = "connect", !.kind = kind, !.sessions = user[u].sessions + 1]]
  /\ UNCHANGED confirmed
\* Connected, upgraded and asked, one after the other; any may fail.
Stage(u, from, to) ==
  /\ user[u].pc = from
  /\ Goes(u, to) \/ End(u, "error")
  /\ UNCHANGED confirmed
Connect(u) == Stage(u, "connect", "upgrade")
Upgrade(u) == Stage(u, "upgrade", "request")
Request(u) == Stage(u, "request", "audio")
\* The last chunk, empty for a stream.  A failed send ends a recording's
\* session; a stream's user sees it and aborts, as it may at any time.
Audio(u) ==
  /\ user[u].pc = "audio"
  /\ \/ Goes(u, "receive")
     \/ End(u, "error")
     \/ user[u].kind = "stream" /\ End(u, "aborted")
  /\ UNCHANGED confirmed

\* The service, which may say what it has so far while the audio goes out.
Serve(u) ==
  /\ user[u].pc \in {"audio", "receive"} /\ ~user[u].ended /\ Len(user[u].wire) < MaxAhead
  /\ \E r \in [kind : {"text"}, final : BOOLEAN, text : Texts] \cup [kind : {"broken", "other"}, final : {FALSE}] :
       user' = [user EXCEPT ![u].wire = Append(@, r), ![u].ended = r.final]
  /\ UNCHANGED confirmed

\* What the buffer shows once text is written at the offset.
Merged(old, at, text) == IF Len(old) < at THEN old ELSE SubSeq(old, 1, at) \o text
\* A mutant: the offset of an earlier session stays.
Offset_Kept(old) == confirmed
Offset(old) == IF old = <<>> THEN 0 ELSE confirmed
Write(u, r) ==
  LET at == Offset(user[u].text)
      shown == Merged(user[u].text, at, r.text) IN
  /\ user' = [user EXCEPT ![u].text = shown, ![u].heard = r.text, ![u].wire = Tail(@), ![u].tries = @ + 1,
                          ![u].pc = IF r.final \/ user[u].tries + 1 = MaxResponses THEN "close" ELSE @]
  /\ confirmed' = IF r.final THEN Len(shown) ELSE at
\* A response without a text, or of a kind that is skipped.
Skip(u, r) ==
  /\ user' = [user EXCEPT ![u].wire = Tail(@), ![u].tries = @ + 1,
                          ![u].pc = IF r.final \/ user[u].tries + 1 = MaxResponses THEN "close" ELSE @]
  /\ UNCHANGED confirmed
\* No frame: nothing within the 30 seconds of the socket, its end, a frame too large.
NoFrame(u) == End(u, "error") /\ UNCHANGED confirmed
Receive(u) ==
  /\ user[u].pc = "receive"
  /\ \/ NoFrame(u)
     \/ /\ user[u].wire # <<>>
        /\ LET r == Head(user[u].wire) IN
           \/ r.kind = "broken" /\ End(u, "error") /\ UNCHANGED confirmed
           \/ r.kind = "text" /\ r.text # <<>> /\ Write(u, r)
           \/ (r.kind = "other" \/ (r.kind = "text" /\ r.text = <<>>)) /\ Skip(u, r)
Close(u) ==
  /\ user[u].pc = "close"
  /\ End(u, IF user[u].text = <<>> THEN "nothing" ELSE "ok")
  /\ UNCHANGED confirmed

Next == \E u \in Users :
  (\E k \in {"batch", "stream"} : Begin(u, k)) \/
  Connect(u) \/ Upgrade(u) \/ Request(u) \/ Audio(u) \/ Serve(u) \/ Receive(u) \/ Close(u)
Spec == Init /\ [][Next]_vars

\* The types of the variables.
TypeOK ==
  \A u \in Users :
    /\ user[u].pc \in {"idle", "connect", "upgrade", "request", "audio", "receive", "close"}
    /\ user[u].ret \in {"none", "ok", "nothing", "error", "aborted"} /\ user[u].tries \in 0..MaxResponses
    /\ Len(user[u].wire) <= MaxAhead

(***************************************************************************)
(* A session that is not cut off returns the last text said in it,         *)
(* whatever the sessions before it left in the static offset.  (It does    *)
(* not when the sessions of two users overlap.)                            *)
(***************************************************************************)
LastIsReturned ==
  \A u \in Users : user[u].ret \in {"ok", "nothing"} => user[u].text = user[u].heard
=============================================================================
