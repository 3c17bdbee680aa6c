----------------------------- MODULE VoiceWakeup -----------------------------
(***************************************************************************)
(* voice_wakeup_service.c: a thread listens to the microphone, cuts what   *)
(* is spoken out of it (vad_detector.c) and has the cloud recognise it,    *)
(* answer it and speak the answer (mimo_integration.c).  The demo starts   *)
(* the service, shows its state and stops it.                              *)
(***************************************************************************)
EXTENDS Integers, FiniteSets

CONSTANTS SpeechFrames, SilenceFrames,   \* frames in a row that begin and end speech
          PostFrames, Room,              \* quiet frames that end a recording, frames of the buffer
          MaxStarts                      \* bound on starts

VARIABLES
  pc,            \* the thread: "none", "open", "listen", "asr", "llm", "tts", "play", "done"
  state,         \* the state the service shows
  created, stopping, stop,   \* thread_created, shutdown_requested, the caller's stop
  fd,            \* the capture device is open
  vad,           \* [speech, silence, inSpeech]
  recording, post, clip,     \* post_speech_frames; clip = the frames in the buffer
  frame, spoken, \* history: frames since the recording began, those that were speech
  mimo, enabled, \* the state of the cloud service, its configuration has a key
  backend,       \* whose model llm_set_all selected last
  answer,        \* the synthesised answer on the card: "none", "part", "whole"
  starts

thread == <<created, stopping, stop, starts>>
capture == <<vad, recording, post, clip, frame, spoken>>
cloud == <<mimo, enabled, backend, answer>>
vars == <<pc, state, thread, fd, capture, cloud>>

Silent == [speech |-> 0, silence |-> 0, inSpeech |-> FALSE]
Init ==
  /\ pc = "none" /\ state = "idle" /\ created = FALSE /\ stopping = FALSE /\ stop = "no" /\ starts = 0
  /\ fd = FALSE /\ vad = Silent /\ recording = FALSE /\ post = 0 /\ clip = {} /\ frame = 0 /\ spoken = {}
  /\ mimo = "idle" /\ enabled = TRUE /\ backend = "assistant" /\ answer = "none"

-----------------------------------------------------------------------------
(* The caller. *)

Start ==
  /\ ~created /\ stop = "no" /\ starts < MaxStarts
  /\ created' = TRUE /\ starts' = starts + 1 /\ pc' = "open"
  /\ UNCHANGED <<state, stopping, stop, fd, capture, cloud>>
\* The device is closed under the thread, which is then joined.
Stop ==
  /\ created /\ stop = "no" /\ stop' = "join" /\ stopping' = TRUE /\ fd' = FALSE
  /\ UNCHANGED <<pc, state, created, starts, capture, cloud>>
Joined ==
  /\ stop = "join" /\ pc = "done" /\ stop' = "no" /\ created' = FALSE
  /\ UNCHANGED <<pc, state, stopping, starts, fd, capture, cloud>>
\* mimo_service_update_config, without a lock.
Configure == enabled' \in BOOLEAN /\ UNCHANGED <<pc, state, thread, fd, capture, mimo, backend, answer>>

-----------------------------------------------------------------------------
(* The thread listens. *)

Open ==
  /\ pc = "open"
  /\ \/ pc' = "listen" /\ fd' = TRUE /\ state' = "listening"
     \/ pc' = "done" /\ UNCHANGED <<fd, state>>
  /\ recording' = FALSE /\ clip' = {} /\ post' = 0 /\ frame' = 0 /\ spoken' = {}
  /\ UNCHANGED <<thread, vad, cloud>>
\* The flag is what counts: a device opened after the stop is not closed by it.
Leaves_OnError == stopping /\ ~fd
Leaves == stopping
Leave ==
  /\ pc = "listen" /\ Leaves /\ pc' = "done" /\ fd' = FALSE
  /\ UNCHANGED <<state, thread, capture, cloud>>

\* The counters of the detector are read through their thresholds only.
Capped(n, limit) == IF n > limit THEN limit ELSE n
Detected(loud) ==
  IF loud
  THEN LET n == Capped(vad.speech + 1, SpeechFrames)
       IN [speech |-> n, silence |-> 0, inSpeech |-> vad.inSpeech \/ n = SpeechFrames]
  ELSE LET n == Capped(vad.silence + 1, SilenceFrames)
       IN [speech |-> 0, silence |-> n, inSpeech |-> vad.inSpeech /\ n # SilenceFrames]

\* A recording that does not fit is given up; the next frame begins another.
Overflow_FrameOnly == UNCHANGED <<recording, clip>>
Overflow == recording' = FALSE /\ UNCHANGED clip
\* A frame that the detector counts as speech.
Speech ==
  LET begins == ~recording
      at == IF begins THEN 1 ELSE frame + 1
      kept == IF begins THEN {} ELSE clip
  IN /\ frame' = at /\ spoken' = (IF begins THEN {} ELSE spoken) \cup {at}
     /\ post' = IF begins THEN 0 ELSE post
     /\ state' = IF begins THEN "voice" ELSE state
     /\ IF Cardinality(kept) < Room THEN clip' = kept \cup {at} /\ recording' = TRUE ELSE Overflow
     /\ UNCHANGED pc
\* One it does not; the pauses of a recording add up.
Quiet ==
  /\ IF ~recording THEN UNCHANGED <<pc, state, post, clip, frame>>
     ELSE /\ post' = post + 1 /\ frame' = frame + 1
          /\ pc' = IF post + 1 >= PostFrames THEN "asr" ELSE "listen"
          /\ state' = IF pc' = "asr" THEN "recognizing" ELSE state
          /\ clip' = IF pc' = "listen" /\ Cardinality(clip) < Room THEN clip \cup {frame + 1} ELSE clip
  /\ UNCHANGED <<recording, spoken>>
Frame(loud) ==
  /\ pc = "listen" /\ ~stopping /\ fd
  /\ vad' = Detected(loud)
  /\ IF vad'.inSpeech THEN Speech ELSE Quiet
  /\ UNCHANGED <<thread, fd, cloud>>

-----------------------------------------------------------------------------
(* The thread has a recording worked on. *)

Returned ==
  /\ pc' = "listen" /\ state' = "listening"
  /\ vad' = Silent /\ recording' = FALSE /\ clip' = {} /\ post' = 0 /\ frame' = 0 /\ spoken' = {}
Works(next, shown) == pc' = next /\ state' = shown /\ UNCHANGED capture
\* Without a key the state of the cloud service is left alone.
Refused == ~enabled /\ Returned /\ UNCHANGED mimo
Failed == enabled /\ mimo' = "error" /\ Returned
Done == enabled /\ mimo' = "idle"

\* The recording becomes a WAV file in a request; the text that comes back has
\* the wake word alone, with a command, or not at all.  The card may be full.
Asr ==
  /\ pc = "asr"
  /\ (Returned /\ UNCHANGED mimo) \/ Failed \/ (Done /\ (Returned \/ Works("llm", "processing")))
  /\ UNCHANGED <<thread, fd, enabled, backend, answer>>
\* mimo_llm_chat makes its own model that of the assistant's proxy first.
Llm ==
  /\ pc = "llm"
  /\ \/ Refused /\ UNCHANGED backend
     \/ backend' = "mimo" /\ (Failed \/ (Done /\ (Returned \/ Works("tts", "speaking"))))
  /\ UNCHANGED <<thread, fd, enabled, answer>>
\* mimo_call_tts_api: the answer is decoded, resampled and written in place.
Synthesis == {<<"whole", TRUE>>, <<"part", FALSE>>, <<answer, FALSE>>}
Accepted_BySize(made) == made[1] # "none"
Accepted(made) == made[2]
Tts ==
  /\ pc = "tts"
  /\ \/ Refused /\ UNCHANGED answer
     \/ \E made \in Synthesis :
          /\ answer' = made[1]
          /\ IF Accepted(made) THEN Done /\ Works("play", "speaking") ELSE Failed
  /\ UNCHANGED <<thread, fd, enabled, backend>>
Play ==
  /\ pc = "play" /\ Returned
  /\ UNCHANGED <<thread, fd, cloud>>

Thread == Open \/ Leave \/ (\E loud \in BOOLEAN : Frame(loud)) \/ Asr \/ Llm \/ Tts \/ Play
Next == Start \/ Stop \/ Joined \/ Configure \/ Thread
\* Every read returns, if only because the descriptor was closed under it, and
\* every request ends with its timeout.
Spec == Init /\ [][Next]_vars /\ WF_vars(Thread) /\ WF_vars(Joined)

-----------------------------------------------------------------------------
(* Properties. *)

TypeOK ==
  /\ pc \in {"none", "open", "listen", "asr", "llm", "tts", "play", "done"}
  /\ state \in {"idle", "listening", "voice", "recognizing", "processing", "speaking"}
  /\ vad \in [speech : 0..SpeechFrames, silence : 0..SilenceFrames, inSpeech : BOOLEAN]
  /\ post \in 0..PostFrames /\ clip \subseteq 1..Room + PostFrames /\ frame \in 0..Room + PostFrames + 1
  /\ mimo \in {"idle", "error"} /\ backend \in {"assistant", "mimo"} /\ answer \in {"none", "part", "whole"}

\* What is sent to be recognised has every frame of speech since its recording
\* began and no gap in front of one: a buffer that ran full never leaves a
\* sentence with words missing in the middle
\* (voice_wakeup_service.c:264-351, vad_detector.c:100-160).
ClipIsWhole == pc = "asr" => \A f \in spoken : 1..f \subseteq clip
\* What is played is the answer in full: an answer that could not be written in
\* full, or could not be fetched over an older one, is not played
\* (mimo_integration.c:903-1112 and :1556-1617, voice_wakeup_service.c:208-222).
PlayedIsWhole == pc = "play" => answer = "whole"
\* A stop returns, wherever the thread is: on the microphone, in a request or
\* not yet started (voice_wakeup_service.c:264, :480-502).
StopReturns == stop = "join" ~> stop = "no"
=============================================================================
