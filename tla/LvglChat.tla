------------------------------ MODULE LvglChat ------------------------------
(***************************************************************************)
(* The chat screen of the assistant on the device's own display: the       *)
(* thread of LVGL runs the buttons and what other threads hand to it with  *)
(* lv_async_call, in any order; the dispatcher sends replies; the main     *)
(* thread stops the channel and waits two seconds at most for the screen   *)
(* to be deleted, during which the LVGL thread may be recognising speech.  *)
(***************************************************************************)
EXTENDS Integers, Sequences

CONSTANTS Slots,                \* CHAT_HISTORY_MAX
          MaxSent, MaxInits     \* bounds: messages; times the assistant is started

NoScreen == 0
Lost == 0        \* a slot without a bubble
VARIABLES
  initialized, running, recording, visible,   \* s_state
  screen,        \* the widgets s_state points to, by the number of their init
  history,       \* a bubble for each slot, the oldest first
  live, bubbles, \* the screens and the bubbles of the last one LVGL has
  shown,         \* the screen on the display, NoScreen for the launcher's
  lock,          \* the mutex exists
  sem,           \* s_stop_sem
  queue, posts,  \* lv_async_call: calls, messages
  ui, sender, main,  \* the threads
  mic,           \* the voice channel records
  sent, inits,
  late, bad      \* a stop did not wait; widgets that do not exist were used
state == <<initialized, running, recording, visible>>
widgets == <<screen, history, live, bubbles, shown>>
async == <<queue, posts>>
threads == <<ui, sender, main>>
vars == <<state, widgets, lock, sem, async, threads, mic, sent, inits, late, bad>>

Init ==
  /\ initialized = FALSE /\ running = FALSE /\ recording = FALSE /\ visible = FALSE
  /\ screen = NoScreen /\ history = <<>> /\ live = {} /\ bubbles = <<>> /\ shown = NoScreen
  /\ lock = FALSE /\ sem = "none" /\ queue = {} /\ posts = {}
  /\ ui = "loop" /\ sender = "idle" /\ main = "idle" /\ mic = FALSE
  /\ sent = 0 /\ inits = 0 /\ late = FALSE /\ bad = FALSE

-----------------------------------------------------------------------------
(* Widgets: only the LVGL thread uses them.                                *)

Used == bad' = (bad \/ screen \notin live)
\* chat_history_add: the oldest message gives its slot and its bubble.
Recycled_Kept(s) == s
Recycled(s) ==
  IF Len(history) = Slots /\ \E i \in DOMAIN s : s[i] = Head(history)
  THEN LET i == CHOOSE i \in DOMAIN s : s[i] = Head(history) IN SubSeq(s, 1, i - 1) \o SubSeq(s, i + 1, Len(s))
  ELSE s
Kept == IF Len(history) = Slots THEN Tail(history) ELSE history
\* chat_view_add_message; a bubble may fail to be made.
Add(id) ==
  \/ history' = Append(Kept, id) /\ bubbles' = Append(Recycled(bubbles), id)
  \/ history' = Append(Kept, Lost) /\ bubbles' = Recycled(bubbles)
NewId == sent + 1
Say == sent < MaxSent /\ sent' = NewId /\ Add(NewId) /\ Used /\ UNCHANGED <<screen, live, shown>>

\* lvgl_ui_do_cleanup
Restored == IF visible THEN NoScreen ELSE shown
Cleanup ==
  /\ IF screen # NoScreen
     THEN live' = live \ {screen} /\ shown' = Restored /\ bubbles' = <<>>
     ELSE UNCHANGED <<live, shown, bubbles>>
  /\ screen' = NoScreen /\ visible' = FALSE /\ history' = <<>>

-----------------------------------------------------------------------------
(* The main thread.                                                        *)

InitChannel ==
  /\ main = "idle" /\ ~initialized /\ inits < MaxInits /\ inits' = inits + 1
  /\ \/ /\ initialized' = TRUE /\ lock' = TRUE
        /\ screen' = inits + 1 /\ live' = live \cup {inits + 1} /\ history' = <<>> /\ bubbles' = <<>>
     \/ UNCHANGED <<initialized, lock, screen, live, history, bubbles>>
  /\ UNCHANGED <<running, recording, visible, shown, sem, async, threads, mic, sent, late, bad>>
StartChannel ==
  /\ main = "idle" /\ initialized /\ ~running /\ running' = TRUE
  /\ UNCHANGED <<initialized, recording, visible, widgets, lock, sem, async, threads, mic, sent, inits, late, bad>>
Stop ==
  /\ main = "idle" /\ initialized /\ running /\ main' = "stop"
  /\ UNCHANGED <<state, widgets, lock, sem, async, ui, sender, mic, sent, inits, late, bad>>
Ask ==
  /\ main = "stop" /\ main' = "wait" /\ running' = FALSE /\ sem' = "waited" /\ queue' = queue \cup {"stop"}
  /\ UNCHANGED <<initialized, recording, visible, widgets, lock, posts, ui, sender, mic, sent, inits, late, bad>>
Gone == sem' = "destroyed" /\ lock' = FALSE /\ initialized' = FALSE /\ main' = "idle"
Stopped ==
  /\ main = "wait" /\ sem = "posted" /\ Gone
  /\ UNCHANGED <<running, recording, visible, widgets, async, ui, sender, mic, sent, inits, late, bad>>
TimesOut ==
  /\ main = "wait" /\ sem = "waited" /\ Gone /\ late' = TRUE /\ screen' = NoScreen
  /\ UNCHANGED <<running, recording, visible, history, live, bubbles, shown, async, ui, sender, mic, sent, inits, bad>>

-----------------------------------------------------------------------------
(* The dispatcher and the command line.                                    *)

Ready == initialized /\ running
Send ==
  /\ sender = "idle" /\ Ready /\ sent < MaxSent /\ sender' = "queue"
  /\ queue' = IF visible THEN queue ELSE queue \cup {"show"}
  /\ UNCHANGED <<posts, state, widgets, lock, sem, ui, main, mic, sent, inits, late, bad>>
Queue ==
  /\ sender = "queue" /\ sender' = "idle"
  /\ IF sent < MaxSent THEN sent' = NewId /\ posts' = posts \cup {NewId} ELSE UNCHANGED <<sent, posts>>
  /\ UNCHANGED <<queue, state, widgets, lock, sem, ui, main, mic, inits, late, bad>>

-----------------------------------------------------------------------------
(* The LVGL thread.                                                        *)

Taken(what) == ui = "loop" /\ what \in queue /\ queue' = queue \ {what} /\ UNCHANGED <<threads, lock, inits, late, posts>>
RunShow ==
  /\ Taken("show")
  /\ IF Ready /\ screen # NoScreen /\ ~visible THEN visible' = TRUE /\ shown' = screen ELSE UNCHANGED <<visible, shown>>
  /\ UNCHANGED <<initialized, running, recording, screen, history, live, bubbles, sem, mic, sent, bad>>
\* The callbacks do nothing once the channel stops.
Open_Always == TRUE
Open == Ready
RunMessage ==
  /\ ui = "loop"
  /\ \E id \in posts :
       /\ posts' = posts \ {id}
       /\ IF Open THEN Add(id) /\ Used /\ UNCHANGED <<screen, live, shown>> ELSE UNCHANGED <<widgets, bad>>
  /\ UNCHANGED <<state, queue, threads, lock, sem, mic, sent, inits, late>>
RunStop ==
  /\ Taken("stop") /\ Cleanup
  /\ sem' = IF sem = "waited" THEN "posted" ELSE sem
  /\ UNCHANGED <<initialized, running, recording, mic, sent, bad>>

\* ptt_btn_event_cb: the first click.
Record ==
  /\ ui = "loop" /\ shown # NoScreen /\ ~recording
  /\ \/ /\ recording' = TRUE /\ mic' = TRUE /\ Used /\ UNCHANGED <<widgets, sent>>
     \/ Say /\ UNCHANGED <<recording, mic>>
  /\ UNCHANGED <<initialized, running, visible, lock, sem, async, threads, inits, late>>
\* The second: it ends the recording and waits for the text.
Recognise ==
  /\ ui = "loop" /\ shown # NoScreen /\ recording
  /\ recording' = FALSE /\ ui' = "ptt" /\ mic' = FALSE /\ Used
  /\ UNCHANGED <<initialized, running, visible, widgets, lock, sem, async, sender, main, sent, inits, late>>
\* What was heard, or that nothing was, is entered; a failed recognition is not.
Recognised ==
  /\ ui = "ptt" /\ ui' = "loop"
  /\ Say \/ (Used /\ UNCHANGED <<widgets, sent>>)
  /\ UNCHANGED <<state, lock, sem, async, sender, main, mic, inits, late>>
\* close_btn_event_cb, lvgl_ui_channel_stop_sync
Close ==
  /\ ui = "loop" /\ shown # NoScreen /\ Ready
  /\ running' = FALSE /\ initialized' = FALSE /\ lock' = FALSE /\ Cleanup
  /\ recording' = FALSE /\ mic' = (mic /\ ~recording)
  /\ UNCHANGED <<sem, async, threads, sent, inits, late, bad>>

Next ==
  \/ InitChannel \/ StartChannel \/ Stop \/ Ask \/ Stopped \/ TimesOut
  \/ Send \/ Queue \/ RunShow \/ RunMessage \/ RunStop
  \/ Record \/ Recognise \/ Recognised \/ Close
Spec == Init /\ [][Next]_vars

-----------------------------------------------------------------------------
(* Properties. *)

TypeOK ==
  /\ {initialized, running, recording, visible, lock, mic, late, bad} \subseteq BOOLEAN
  /\ {screen, shown} \cup live \subseteq 0..MaxInits /\ Len(history) <= Slots

\* As long as every stop waits for the LVGL thread, nobody uses widgets that
\* were deleted, no deleted screen stays on the display, and the chat holds one
\* bubble for each message of the history, in its order, and no other (lvgl_ui_channel.c:155-179, :381-532, :603-804).
ScreenHolds ==
  ~late => /\ ~bad /\ shown \in live \cup {NoScreen}
           /\ \E at \in [DOMAIN bubbles -> DOMAIN history] :
                /\ \A i, j \in DOMAIN bubbles : i < j => at[i] < at[j]
                /\ \A i \in DOMAIN bubbles : bubbles[i] = history[at[i]]
                /\ \A k \in DOMAIN history : history[k] # Lost <=> \E i \in DOMAIN bubbles : at[i] = k
\* The comment at lvgl_ui_channel.c:459: "Mark as not running first - prevents
\* callbacks (PTT, close_btn, chat_view_add_message) from touching widgets during
\* teardown", and the one at :479, that leaking them avoids a crash.
CallbacksLetGo == ~bad
=============================================================================
