----------------------------- MODULE KwsCapture -----------------------------
(***************************************************************************)
(* kws_capture.c: a batch records samples for one label, speaker and       *)
(* session.  What the user keeps is published on the card as a pair of     *)
(* files with the number of its take; until then it has temporary names    *)
(* that carry the process id.  The power may fail at any step, and the     *)
(* next batch may get the same process id.                                 *)
(***************************************************************************)
EXTENDS Integers

CONSTANTS Pids, Takes,       \* Takes = 1..n, the numbers a test needs of UINT16_MAX
          Count,             \* samples of a batch
          MaxRecords, MaxCuts \* bounds on recordings and on power failures

None == 0
VARIABLES
  pcm, json,     \* [Takes -> the recording in the file], None for no file
  pcmPart, jsonPart,   \* [Pids \X Takes -> the recording], the temporary names
  pc, pid, take, completed, rec,   \* the batch; rec is its recording
  cancelled,     \* g_kws_capture_cancelled
  records, cuts,
  saved          \* history: the recordings the user was told are saved

card == <<pcm, json, pcmPart, jsonPart>>
batch == <<pid, take, completed, rec, cancelled>>
counters == <<records, cuts, saved>>
vars == <<card, pc, batch, counters>>

Init ==
  /\ pcm = [t \in Takes |-> None] /\ json = pcm
  /\ pcmPart = [x \in Pids \X Takes |-> None] /\ jsonPart = pcmPart
  /\ pc = "off" /\ pid \in Pids /\ take \in Takes /\ completed = 0 /\ rec = None
  /\ cancelled = FALSE /\ records = 0 /\ cuts = 0 /\ saved = {}

Part == <<pid, take>>
Goes(from, to) == pc = from /\ pc' = to
Unlinked(part) == [part EXCEPT ![Part] = None]
Drop == pcmPart' = Unlinked(pcmPart) /\ UNCHANGED <<pcm, json, jsonPart>>

-----------------------------------------------------------------------------
\* The card is mounted within five seconds, has the directories and the space.
Prepare == Goes("off", "prepare") /\ pid' \in Pids /\ UNCHANGED <<card, take, completed, rec, cancelled, counters>>
NotReady == Goes("prepare", "off") /\ UNCHANGED <<card, batch, counters>>
\* kws_capture_first_take looks at the .pcm names only.
Unused == {t \in Takes : pcm[t] = None}
First ==
  /\ Goes("prepare", "look")
  /\ take' \in Unused /\ \A t \in Unused : take' <= t
  /\ completed' = 0 /\ cancelled' = FALSE
  /\ UNCHANGED <<card, pid, rec, counters>>

\* A take whose name is in use is passed over (beyond Takes the model ends the batch).
NextTake(then) == IF take + 1 \in Takes THEN take' = take + 1 /\ pc' = then ELSE UNCHANGED take /\ pc' = "off"
Published == pcm[take] # None \/ json[take] # None
Look ==
  /\ pc = "look"
  /\ IF completed = Count \/ cancelled THEN UNCHANGED take /\ pc' = "off"
     ELSE IF Published THEN NextTake("look") ELSE UNCHANGED take /\ pc' = "ready"
  /\ UNCHANGED <<card, pid, completed, rec, cancelled, counters>>
\* Enter, the countdown, and the temporary file, which must be new.
Reserve ==
  /\ pc = "ready" /\ records < MaxRecords
  /\ IF cancelled THEN pc' = "off" /\ UNCHANGED <<card, take, rec, records>>
     ELSE IF pcmPart[Part] # None THEN NextTake("look") /\ UNCHANGED <<card, rec, records>>
     ELSE /\ pc' = "record" /\ records' = records + 1 /\ rec' = records + 1
          /\ pcmPart' = [pcmPart EXCEPT ![Part] = records + 1]
          /\ UNCHANGED <<pcm, json, jsonPart, take>>
  /\ UNCHANGED <<pid, completed, cancelled, cuts, saved>>
Quit == Goes("ready", "off") /\ UNCHANGED <<card, batch, counters>>
\* Recorded, measured and played back.
Record ==
  /\ ~cancelled /\ Goes("record", "choose") /\ UNCHANGED <<card, batch, counters>>
\* The device fails, the length is out of tolerance, the playback hangs, or the
\* user gives it up; or he wants to record it again.
Discard ==
  /\ Goes("record", "off") \/ Goes("choose", "off") \/ (~cancelled /\ Goes("choose", "look"))
  /\ Drop /\ UNCHANGED <<batch, counters>>
Keep ==
  /\ ~cancelled /\ Goes("choose", "meta") /\ UNCHANGED <<card, batch, counters>>

Sidecar_InPlace == json' = [json EXCEPT ![take] = rec] /\ UNCHANGED jsonPart
Sidecar == jsonPart' = [jsonPart EXCEPT ![Part] = rec] /\ UNCHANGED json
\* kws_capture_write_metadata: a name of its own again, removed if it fails.
WriteMeta ==
  /\ pc = "meta"
  /\ IF jsonPart[Part] # None THEN Drop /\ NextTake("look")
     ELSE /\ UNCHANGED take
          /\ \/ Sidecar /\ pc' = "check" /\ UNCHANGED <<pcm, pcmPart>>
             \/ Drop /\ pc' = "off"
  /\ UNCHANGED <<pid, completed, rec, cancelled, counters>>
Check ==
  /\ pc = "check"
  /\ IF Published THEN pcmPart' = Unlinked(pcmPart) /\ jsonPart' = Unlinked(jsonPart) /\ NextTake("look")
                  ELSE pc' = "publish" /\ UNCHANGED <<pcmPart, jsonPart, take>>
  /\ UNCHANGED <<pcm, json, pid, completed, rec, cancelled, counters>>
\* What is left behind under the temporary names when publishing failed.
CleanUp_PcmOnly == pcmPart' = Unlinked(pcmPart) /\ UNCHANGED jsonPart
CleanUp == pcmPart' = Unlinked(pcmPart) /\ jsonPart' = Unlinked(jsonPart)
\* The sound first, so that a pair is complete when its description appears.
PublishPcm ==
  /\ pc = "publish"
  /\ \/ pc' = "describe" /\ pcm' = [pcm EXCEPT ![take] = pcmPart[Part]] /\ pcmPart' = Unlinked(pcmPart)
        /\ UNCHANGED jsonPart
     \/ pc' = "off" /\ CleanUp /\ UNCHANGED pcm
  /\ UNCHANGED <<json, batch, counters>>
PublishJson ==
  /\ pc = "describe"
  /\ \/ /\ NextTake("look") /\ completed' = completed + 1
        /\ json' = [json EXCEPT ![take] = jsonPart[Part]] /\ jsonPart' = Unlinked(jsonPart)
        /\ saved' = saved \cup {rec}
     \/ pc' = "rollback" /\ UNCHANGED <<take, completed, json, jsonPart, saved>>
  /\ UNCHANGED <<pcm, pcmPart, pid, rec, cancelled, records, cuts>>
\* The sound is renamed back, which may fail too.
Rollback ==
  /\ Goes("rollback", "off") /\ CleanUp
  /\ pcm' = [pcm EXCEPT ![take] = None] \/ UNCHANGED pcm
  /\ UNCHANGED <<json, batch, counters>>
\* The user's Ctrl-C, and the power.
Signal == pc # "off" /\ cancelled' = TRUE /\ UNCHANGED <<card, pc, pid, take, completed, rec, counters>>
PowerCut ==
  /\ cuts < MaxCuts /\ cuts' = cuts + 1 /\ pc' = "off"
  /\ UNCHANGED <<card, batch, records, saved>>

Next ==
  \/ Prepare \/ NotReady \/ First \/ Look \/ Reserve \/ Quit \/ Record \/ Discard \/ Keep
  \/ WriteMeta \/ Check \/ PublishPcm \/ PublishJson \/ Rollback \/ Signal \/ PowerCut
Spec == Init /\ [][Next]_vars

-----------------------------------------------------------------------------
(* Properties. *)

TypeOK ==
  /\ {pcm, json} \subseteq [Takes -> 0..MaxRecords] /\ {pcmPart, jsonPart} \subseteq [Pids \X Takes -> 0..MaxRecords]
  /\ pc \in {"off", "prepare", "look", "ready", "record", "choose", "meta", "check", "publish", "describe", "rollback"}
  /\ pid \in Pids /\ take \in Takes /\ completed \in 0..Count /\ rec \in 0..MaxRecords /\ cancelled \in BOOLEAN

\* Wherever a batch is cut off, a description on the card belongs to the sound of
\* the same take, and no sample that was reported as saved is lost or replaced
\* (kws_capture.c:594-738 and :915-948).
CorpusIsWhole ==
  /\ \A t \in Takes : json[t] # None => pcm[t] = json[t]
  /\ \A r \in saved : \E t \in Takes : pcm[t] = r /\ json[t] = r
\* A sample the user decided to keep is not thrown away because its name is in
\* use: what a cut off batch leaves behind is passed over before the recording,
\* though the first free take is searched by the .pcm names alone
\* (kws_capture.c:684-702, :800-904 and :915-948).
KeptIsSaved == pc = "meta" => jsonPart[Part] = None /\ ~Published
=============================================================================
