------------------------------- MODULE VolcTts -------------------------------
(***************************************************************************)
(* Speech from the cloud, played as it comes (volc_tts_ws.c behind         *)
(* voice_tts_speak_stream): one request on a WebSocket, then frames until  *)
(* one of several ends.  Once audio came, a read that times out is tried   *)
(* again, three times in a row at most; what the read had got of a frame   *)
(* by then is lost with it.                                                *)
(***************************************************************************)
EXTENDS Integers, Sequences

CONSTANTS Pieces,        \* audio frames the service makes of a text
          MaxTimeouts,   \* TTS_MAX_CONSECUTIVE_TIMEOUTS
          MaxAhead, MaxOthers, MaxStalls   \* bounds: frames unread, frames without audio, stalls

VARIABLES
  pc, ret,
  played, timeouts, told,   \* the audio passed to the callback, consecutive_timeouts, is_last was passed
  wire, made, over,         \* frames on the way; the service: pieces made, its end
  others, stalls,           \* counters of the bounds
  quiet, aligned            \* ghosts: stalls since a frame came, no frame was cut in two
vars == <<pc, ret, played, timeouts, told, wire, made, over, others, stalls, quiet, aligned>>
received == <<played, timeouts, quiet, aligned, stalls>>
service == <<wire, made, over, others>>

Init == /\ pc = "connect" /\ ret = "none"
        /\ played = <<>> /\ timeouts = 0 /\ told = FALSE
        /\ wire = <<>> /\ made = 0 /\ over = FALSE
        /\ others = 0 /\ stalls = 0 /\ quiet = 0 /\ aligned = TRUE

\* Connected, upgraded and asked; a failure of one ends it.
Stage(from, to) ==
  /\ pc = from
  /\ \/ pc' = to /\ UNCHANGED ret
     \/ pc' = "done" /\ ret' = "error"
  /\ UNCHANGED <<told, received, service>>
Connect == Stage("connect", "upgrade")
Upgrade == Stage("upgrade", "request")
Request == Stage("request", "receive")

\* The service.  Its last piece says so or is followed by the end of the
\* text, or of the connection, or by nothing.
Serve ==
  /\ pc = "receive" /\ ~over /\ Len(wire) < MaxAhead
  /\ \/ /\ made < Pieces /\ made' = made + 1 /\ UNCHANGED others
        /\ \E last \in {made + 1 = Pieces, FALSE} :
             over' = last /\ wire' = Append(wire, [kind |-> "audio", n |-> made + 1, last |-> last])
     \/ /\ others < MaxOthers /\ others' = others + 1 /\ UNCHANGED made
        /\ \E k \in {"ack", "short", "error"} \cup (IF made \in {0, Pieces} THEN {"frontend", "close"} ELSE {}) :
             over' = (k \in {"error", "close"}) /\ wire' = Append(wire, [kind |-> k])
  /\ UNCHANGED <<pc, ret, told, received>>

\* After the loop: the callback hears of the end when there was audio and no error.
Ended(err, n) ==
  /\ pc' = "done"
  /\ ret' = IF err \/ n = 0 THEN "error" ELSE "ok"
  /\ told' = (n > 0 /\ ~err)
Played == Len(played)

\* A mutant: the count of timeouts is one of all.
Resumed_Never == timeouts
Resumed == 0
\* What the loop does with the frame f.
Handle(f) ==
  /\ timeouts' = Resumed /\ quiet' = 0
  /\ \/ /\ f.kind = "audio" /\ played' = Append(played, f.n)
        /\ IF f.last THEN Ended(FALSE, Played + 1) ELSE UNCHANGED <<pc, ret, told>>
     \/ /\ f.kind # "audio" /\ UNCHANGED played
        /\ \/ f.kind = "error" /\ Ended(TRUE, Played)
           \/ f.kind = "close" /\ Ended(FALSE, Played)
           \/ f.kind = "frontend" /\ Played > 0 /\ Ended(FALSE, Played)
           \/ (f.kind \in {"ack", "short"} \/ (f.kind = "frontend" /\ Played = 0)) /\ UNCHANGED <<pc, ret, told>>
Receive ==
  /\ pc = "receive" /\ aligned /\ wire # <<>>
  /\ Handle(Head(wire)) /\ wire' = Tail(wire)
  /\ UNCHANGED <<made, over, others, stalls, aligned>>
\* Bytes from within a frame are read as a frame: of any kind, too large, or never complete.
Noise == {[kind |-> "audio", n |-> 0, last |-> l] : l \in BOOLEAN} \cup [kind : {"ack", "short", "error", "close", "frontend"}]
Misread ==
  /\ pc = "receive" /\ ~aligned /\ wire # <<>>
  /\ \E f \in Noise : Handle(f)
  /\ wire' = Tail(wire) /\ UNCHANGED <<made, over, others, stalls, aligned>>

\* Nothing came within the timeout of the socket, between two frames or
\* after a part of one.
Stall ==
  /\ pc = "receive" /\ stalls < MaxStalls /\ stalls' = stalls + 1
  /\ aligned' \in {aligned} \cup (IF wire = <<>> THEN {} ELSE {FALSE})
  /\ quiet' = quiet + 1
  /\ IF Played > 0
       THEN /\ timeouts' = timeouts + 1
            /\ IF timeouts + 1 < MaxTimeouts THEN UNCHANGED <<pc, ret, told>> ELSE Ended(FALSE, Played)
       ELSE UNCHANGED timeouts /\ Ended(TRUE, 0)
  /\ UNCHANGED <<played, service>>
\* The end of the connection, which is no error once audio came, or another error.
Broken ==
  /\ pc = "receive"
  /\ \/ Ended(Played = 0, Played) /\ wire = <<>> /\ over' = TRUE
     \/ Ended(TRUE, Played) /\ UNCHANGED over
  /\ UNCHANGED <<received, wire, made, others>>

Next == Connect \/ Upgrade \/ Request \/ Serve \/ Receive \/ Misread \/ Stall \/ Broken
Spec == Init /\ [][Next]_vars

\* The types of the variables.
TypeOK ==
  /\ pc \in {"connect", "upgrade", "request", "receive", "done"} /\ ret \in {"none", "ok", "error"}
  /\ timeouts \in 0..MaxTimeouts /\ {told, over, aligned} \subseteq BOOLEAN /\ Len(wire) <= MaxAhead

(***************************************************************************)
(* What is played is what was sent, from its beginning and in its order.   *)
(* A success means all of it, when the service did not hang up early and   *)
(* never stayed silent for the full number of timeouts; a stall within a   *)
(* frame is left out, since the frames after it are not told apart.        *)
(***************************************************************************)
StallsAreForgiven ==
  aligned => /\ \A i \in 1..Played : played[i] = i
             /\ (ret = "ok" /\ quiet < MaxTimeouts /\ (over => made = Pieces)) => Played = Pieces
=============================================================================
