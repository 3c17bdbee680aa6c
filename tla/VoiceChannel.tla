---------------------------- MODULE VoiceChannel ----------------------------
(***************************************************************************)
(* voice_channel.c of the assistant: push to talk and spoken answers.      *)
(*                                                                         *)
(* The chat screen and the shell start and stop recordings; each start     *)
(* makes a recording thread that feeds a recognition stream, or a buffer   *)
(* where there is no stream.  Answers are spoken by other threads.  What a *)
(* thread does while it holds s_voice.lock is one step; speak_lock is held *)
(* over several.  Recordings are numbered by their start; a number also    *)
(* names the capture device, the thread and the stream of the recording.   *)
(***************************************************************************)
EXTENDS Integers, FiniteSets, Sequences

CONSTANTS Callers, Speakers,   \* threads that record, threads that speak
          MaxStarts, MaxChunks \* bounds on recordings and on the chunks of one

None == 0
Ids == 1..MaxStarts
VARIABLES
  state,         \* "idle", "recording", "stopping"
  cap, asr,      \* the recording whose device and whose stream s_voice points to
  buf,           \* pcm_buf: [own: the recording it was allocated for, len], own None for NULL
  rec,           \* rec_thread
  thr,           \* [Ids -> [pc, stream, fallback]]
  calls,         \* [Callers -> [pc, own, stream, len]]
  ready,         \* the semaphore rec_ready
  devices, streams,          \* [Ids -> "none", "open", "closed"]
  tts, ttsAbort, speakLock, speakers,   \* tts_pb, tts_abort, the lock, [Speakers -> pc]
  starts,
  chunks,        \* history: [Ids -> [read, sent]]
  heard          \* history: the texts sent on, [of: recording, streamed, all: all of it was sent]

voice == <<state, cap, asr, buf, rec>>
things == <<devices, streams>>
speech == <<tts, ttsAbort, speakLock, speakers>>
vars == <<voice, thr, calls, ready, things, speech, starts, chunks, heard>>

NoBuffer == [own |-> None, len |-> 0]
Idle == [pc |-> "idle", own |-> None, stream |-> None, len |-> 0]
Init ==
  /\ state = "idle" /\ cap = None /\ asr = None /\ buf = NoBuffer /\ rec = None
  /\ thr = [n \in Ids |-> [pc |-> "none", stream |-> None, fallback |-> FALSE]]
  /\ calls = [c \in Callers |-> Idle] /\ ready = 0
  /\ devices = [n \in Ids |-> "none"] /\ streams = devices
  /\ tts = None /\ ttsAbort = FALSE /\ speakLock = None /\ speakers = [s \in Speakers |-> "idle"]
  /\ starts = 0 /\ chunks = [n \in Ids |-> [read |-> 0, sent |-> 0]] /\ heard = {}

At(c, pc) == calls[c].pc = pc
Goes(c, pc) == calls' = [calls EXCEPT ![c].pc = pc]
Ends(c) == calls' = [calls EXCEPT ![c] = Idle]
Closed(f, n) == IF n = None THEN f ELSE [f EXCEPT ![n] = "closed"]

-----------------------------------------------------------------------------
(* voice_channel_start. *)

\* The stream is opened before the device, which closes any stale one, and the
\* thread; all of it under the lock.
Opened(c) ==
  LET n == starts + 1
  IN /\ n \in Ids /\ starts' = n /\ buf' = NoBuffer /\ UNCHANGED rec
     /\ \E stream, device \in BOOLEAN :
          /\ streams' = [streams EXCEPT ![n] = IF ~stream THEN "none" ELSE IF device THEN "open" ELSE "closed"]
          /\ devices' = [k \in Ids |-> IF k = n /\ device THEN "open" ELSE IF devices[k] = "open" THEN "closed" ELSE devices[k]]
          /\ asr' = IF stream /\ device THEN n ELSE None
          /\ cap' = IF device THEN n ELSE None
          /\ state' = IF device THEN "recording" ELSE "idle"
          /\ calls' = [calls EXCEPT ![c] = IF device THEN [Idle EXCEPT !.pc = "spawn", !.own = n] ELSE Idle]
\* An answer that is being spoken is stopped first, and waited for without the lock.
Start(c) ==
  /\ At(c, "idle") /\ state = "idle" /\ ready' = 0
  /\ IF tts = None THEN Opened(c) /\ UNCHANGED ttsAbort
     ELSE ttsAbort' = TRUE /\ Goes(c, "silence") /\ UNCHANGED <<voice, things, starts>>
  /\ UNCHANGED <<thr, tts, speakLock, speakers, chunks, heard>>
Silenced(c) ==
  /\ At(c, "silence") /\ speakLock = None /\ Goes(c, "recheck")
  /\ UNCHANGED <<voice, thr, ready, things, speech, starts, chunks, heard>>
Recheck(c) ==
  /\ At(c, "recheck")
  /\ IF state = "idle" /\ starts < MaxStarts THEN Opened(c) ELSE Ends(c) /\ UNCHANGED <<voice, things, starts>>
  /\ UNCHANGED <<thr, ready, speech, chunks, heard>>
Spawn(c) ==
  /\ At(c, "spawn")
  /\ \/ /\ rec' = calls[c].own /\ thr' = [thr EXCEPT ![rec'].pc = "begin"] /\ Goes(c, "await")
        /\ UNCHANGED <<state, cap, asr, buf, things>>
     \/ /\ state' = "idle" /\ devices' = Closed(devices, cap) /\ cap' = None
        /\ streams' = Closed(streams, asr) /\ asr' = None /\ buf' = NoBuffer /\ Ends(c)
        /\ UNCHANGED <<rec, thr>>
  /\ UNCHANGED <<ready, speech, starts, chunks, heard>>
\* sem_wait, then the device is started.
Await(c) ==
  /\ At(c, "await") /\ ready > 0 /\ ready' = ready - 1
  /\ \/ cap # None /\ Ends(c) /\ UNCHANGED <<state, asr, streams>>
     \/ state' = "idle" /\ streams' = Closed(streams, asr) /\ asr' = None /\ Goes(c, "undo")
  /\ UNCHANGED <<cap, buf, rec, thr, devices, speech, starts, chunks, heard>>
Over(n) == IF n = None THEN TRUE ELSE thr[n].pc \in {"none", "done"}
Undo(c) ==
  /\ At(c, "undo") /\ Over(rec) /\ Ends(c)
  /\ devices' = Closed(devices, cap) /\ cap' = None
  /\ UNCHANGED <<state, asr, buf, rec, thr, ready, streams, speech, starts, chunks, heard>>

-----------------------------------------------------------------------------
(* recording_thread. *)

Thread(n, pc) == thr[n].pc = pc
\* The thread takes the stream, or opens one of its own and keeps a buffer too.
Taken_Shared == UNCHANGED asr
Taken == asr' = None
Take(n) ==
  /\ Thread(n, "begin") /\ Taken
  /\ thr' = [thr EXCEPT ![n] = [pc |-> IF asr = None THEN "late" ELSE "post", stream |-> asr, fallback |-> asr = None]]
  /\ UNCHANGED <<state, cap, buf, rec, calls, ready, things, speech, starts, chunks, heard>>
Late(n) ==
  /\ Thread(n, "late") /\ thr' = [thr EXCEPT ![n].pc = "alloc"]
  /\ UNCHANGED <<voice, calls, ready, things, speech, starts, chunks, heard>>
OpenLate(n) ==
  /\ Thread(n, "late") /\ streams[n] = "none"
  /\ thr' = [thr EXCEPT ![n].pc = "alloc", ![n].stream = n] /\ streams' = [streams EXCEPT ![n] = "open"]
  /\ UNCHANGED <<voice, calls, ready, devices, speech, starts, chunks, heard>>
Allocated(n) == IF buf.own # None THEN buf ELSE [own |-> n, len |-> 0]
Posted_NotOnFailure(ok) == ready' = IF ok THEN ready + 1 ELSE ready
Posted(ok) == ready' = ready + 1
Alloc(n) ==
  /\ Thread(n, "alloc")
  /\ \/ buf' = Allocated(n) /\ thr' = [thr EXCEPT ![n].pc = "post"] /\ UNCHANGED <<state, ready>>
     \/ state' = "idle" /\ thr' = [thr EXCEPT ![n].pc = "done"] /\ buf.own = None /\ Posted(FALSE) /\ UNCHANGED buf
  /\ UNCHANGED <<cap, asr, rec, calls, things, speech, starts, chunks, heard>>
Post(n) ==
  /\ Thread(n, "post") /\ Posted(TRUE) /\ thr' = [thr EXCEPT ![n].pc = "loop"]
  /\ UNCHANGED <<voice, calls, things, speech, starts, chunks, heard>>

\* A chunk goes to the buffer, if there is one, and to the stream; a stream that
\* fails is given up and a buffer begins after it.
Kept(n) == IF thr[n].fallback /\ buf.own # None THEN [buf EXCEPT !.len = @ + 1] ELSE buf
Failed_Kept(n) == UNCHANGED <<thr, streams>> /\ buf' = Kept(n)
Failed(n) ==
  /\ streams' = Closed(streams, thr[n].stream) /\ thr' = [thr EXCEPT ![n].stream = None, ![n].fallback = TRUE]
  /\ buf' = IF Kept(n).own # None THEN Kept(n) ELSE Allocated(n)
Chunk(n) ==
  /\ Thread(n, "loop") /\ state = "recording" /\ cap # None /\ chunks[n].read < MaxChunks
  /\ \/ /\ buf' = Kept(n) /\ UNCHANGED <<thr, streams>>
        /\ chunks' = [chunks EXCEPT ![n].read = @ + 1, ![n].sent = IF thr[n].stream # None THEN @ + 1 ELSE @]
     \/ /\ thr[n].stream # None /\ Failed(n)
        /\ chunks' = [chunks EXCEPT ![n].read = @ + 1]
  /\ UNCHANGED <<state, cap, asr, rec, calls, ready, devices, speech, starts, heard>>
\* The loop ends with the state, or because the device fails: then the thread
\* cleans up itself, unless a stop has begun.
Returned(n) == thr' = [thr EXCEPT ![n].pc = "done", ![n].stream = None]
Leave(n) ==
  /\ Thread(n, "loop") /\ state # "recording" /\ Returned(n) /\ asr' = thr[n].stream
  /\ UNCHANGED <<state, cap, buf, rec, calls, ready, things, speech, starts, chunks, heard>>
DeviceFails(n) ==
  /\ Thread(n, "loop") /\ Returned(n)
  /\ IF state = "recording"
     THEN /\ streams' = Closed(streams, thr[n].stream) /\ devices' = Closed(devices, cap)
          /\ asr' = None /\ cap' = None /\ buf' = NoBuffer /\ state' = "idle"
     ELSE asr' = thr[n].stream /\ UNCHANGED <<state, cap, buf, things>>
  /\ UNCHANGED <<rec, calls, ready, speech, starts, chunks, heard>>

-----------------------------------------------------------------------------
(* voice_channel_stop and voice_channel_stop_with_text. *)

Stop(c) ==
  /\ At(c, "idle") /\ state = "recording" /\ state' = "stopping" /\ Goes(c, "join")
  /\ UNCHANGED <<cap, asr, buf, rec, thr, ready, things, speech, starts, chunks, heard>>
Join(c) ==
  /\ At(c, "join") /\ Over(rec)
  /\ devices' = Closed(devices, cap) /\ cap' = None /\ state' = "idle" /\ asr' = None
  /\ calls' = [calls EXCEPT ![c] = [Idle EXCEPT !.pc = "finish", !.stream = asr, !.len = buf.len]]
  /\ UNCHANGED <<buf, rec, thr, ready, streams, speech, starts, chunks, heard>>
\* The recognition is waited for without the lock, and the buffer is freed then.
Text(n, streamed, all) == heard' = heard \cup {[of |-> n, streamed |-> streamed, all |-> all]}
Finish(c) ==
  LET s == calls[c].stream
  IN /\ At(c, "finish") /\ Ends(c) /\ buf' = NoBuffer
     /\ IF s # None
        THEN streams' = Closed(streams, s) /\ (UNCHANGED heard \/ Text(s, TRUE, chunks[s].sent = chunks[s].read))
        ELSE /\ UNCHANGED streams
             /\ IF buf.own = None \/ calls[c].len = 0 THEN UNCHANGED heard
                ELSE UNCHANGED heard \/ Text(buf.own, FALSE, calls[c].len = chunks[buf.own].read)
     /\ UNCHANGED <<state, cap, asr, rec, thr, ready, devices, speech, starts, chunks>>

-----------------------------------------------------------------------------
(* voice_channel_speak. *)

Speaks(s, from, to) == speakers[s] = from /\ speakers' = [speakers EXCEPT ![s] = to]
Speak(s) ==
  /\ Speaks(s, "idle", "queue") /\ ttsAbort' = (ttsAbort \/ tts # None)
  /\ UNCHANGED <<voice, thr, calls, ready, things, tts, speakLock, starts, chunks, heard>>
Free == speakLock = None
Turn(s) ==
  /\ Free
  /\ IF state = "idle" THEN Speaks(s, "queue", "device") /\ speakLock' = s ELSE Speaks(s, "queue", "idle") /\ UNCHANGED speakLock
  /\ UNCHANGED <<voice, thr, calls, ready, things, tts, ttsAbort, starts, chunks, heard>>
\* The playback is opened, which may fail, and registered.
Register(s) ==
  /\ \/ Speaks(s, "device", "playing") /\ tts' = s /\ ttsAbort' = FALSE /\ UNCHANGED speakLock
     \/ Speaks(s, "device", "idle") /\ speakLock' = None /\ UNCHANGED <<tts, ttsAbort>>
  /\ UNCHANGED <<voice, thr, calls, ready, things, starts, chunks, heard>>
Unregister(s) ==
  /\ Speaks(s, "playing", "closing") /\ tts' = None /\ ttsAbort' = FALSE
  /\ UNCHANGED <<voice, thr, calls, ready, things, speakLock, starts, chunks, heard>>
Close(s) ==
  /\ Speaks(s, "closing", "idle") /\ speakLock' = None
  /\ UNCHANGED <<voice, thr, calls, ready, things, tts, ttsAbort, starts, chunks, heard>>

Caller(c) == Silenced(c) \/ Recheck(c) \/ Spawn(c) \/ Await(c) \/ Undo(c) \/ Join(c) \/ Finish(c)
Recording(n) == Take(n) \/ Late(n) \/ OpenLate(n) \/ Alloc(n) \/ Post(n) \/ Leave(n) \/ DeviceFails(n)
Speaker(s) == Turn(s) \/ Register(s) \/ Unregister(s) \/ Close(s)
Next ==
  \/ \E c \in Callers : Start(c) \/ Stop(c) \/ Caller(c)
  \/ \E n \in Ids : Recording(n) \/ Chunk(n)
  \/ \E s \in Speakers : Speak(s) \/ Speaker(s)
Spec == Init /\ [][Next]_vars
\* Every call to the network, the devices and the locks returns; a reading thread
\* sees the state as soon as the device it reads is aborted.  A lock is handed to
\* the threads that wait for it in turn.
FairSpec ==
  /\ Spec /\ \A c \in Callers : WF_vars(Caller(c)) /\ SF_vars(Silenced(c))
  /\ \A n \in Ids : WF_vars(Recording(n))
  /\ \A s \in Speakers : WF_vars(Unregister(s)) /\ WF_vars(Close(s)) /\ WF_vars(Register(s)) /\ SF_vars(Turn(s))

-----------------------------------------------------------------------------
(* Properties. *)

TypeOK ==
  /\ state \in {"idle", "recording", "stopping"} /\ {cap, asr, rec, buf.own} \subseteq 0..MaxStarts
  /\ buf.len \in 0..MaxStarts * MaxChunks /\ ready \in 0..MaxStarts
  /\ \A n \in Ids : thr[n].pc \in {"none", "begin", "late", "alloc", "post", "loop", "done"} /\ thr[n].stream \in 0..MaxStarts
  /\ \A c \in Callers : calls[c].pc \in {"idle", "silence", "recheck", "spawn", "await", "undo", "join", "finish"}
  /\ \A s \in Speakers : speakers[s] \in {"idle", "queue", "device", "playing", "closing"}

\* No thread holds a stream or a device that was closed already, whichever of
\* the three that share them gave it up: the start that failed, the recording
\* thread or the stop (voice_channel.c:290-311, :339-369, :373-385, :716-752).
NoDangling ==
  /\ \A p \in {asr} \cup {thr[n].stream : n \in Ids} \cup {calls[c].stream : c \in Callers} : p # None => streams[p] = "open"
  /\ cap # None => devices[cap] = "open"
\* What a stream recognised is of all that was recorded: a chunk that could not
\* be sent ends the stream.  With one caller: a stop between another's start and
\* its thread leaves two threads on one device (voice_channel.c:339-369, :786-830).
StreamedInFull == \A h \in heard : h.streamed => h.all
\* A start and a stop return, whatever fails in between and however many answers
\* are spoken meanwhile.  With one caller: another's start may take the post that
\* a start is about to wait for (voice_channel.c:399-416, :612-660, :700-780).
CallsReturn == \A c \in Callers : ~At(c, "idle") ~> At(c, "idle")
\* The comments' purpose: no answer is heard while a recording runs.
NoEcho == ~(tts # None /\ ~ttsAbort /\ state = "recording")
=============================================================================
