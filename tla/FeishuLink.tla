------------------------------ MODULE FeishuLink ------------------------------
(***************************************************************************)
(* The connection to the chat service Feishu: the polling task             *)
(* (feishu_bot.c) gets a token for the app, asks for an endpoint, connects *)
(* a WebSocket to it (feishu_ws.c) and reads frames until it is to connect *)
(* again; other threads send messages with the same token and get a new    *)
(* one when it is over or refused (feishu_http.c); the app may be changed  *)
(* at any time.  Nothing here is locked.                                   *)
(***************************************************************************)
EXTENDS Integers

CONSTANTS Apps,       \* the credentials that may be set, 1..n in this order; 0 is none
          MaxCuts, MaxPosts   \* bounds: lost connections, messages sent

VARIABLES
  app,        \* s_app_id and s_app_secret
  token,      \* the app s_access_token is of, 0 for none
  expired,    \* the time is past s_token_expire_ts
  self,       \* the app s_bot_open_id is of, 0 for none
  poll,       \* the polling task: its step and the app its request named
  link,       \* the WebSocket: connected as the code sees it, alive, its app
  post,       \* a thread that sends: its step, the app its request named, and its result
  cuts, posts
vars == <<app, token, expired, self, poll, link, post, cuts, posts>>

Init ==
  /\ app \in {0} \cup Apps /\ token = 0 /\ expired = FALSE /\ self = 0
  /\ poll = [pc |-> "check", asked |-> 0]
  /\ link = [connected |-> FALSE, alive |-> FALSE, app |-> 0]
  /\ post = [pc |-> "idle", asked |-> 0, ret |-> "none"]
  /\ cuts = 0 /\ posts = 0

Needed == token = 0 \/ expired
Free == link' = [connected |-> FALSE, alive |-> FALSE, app |-> 0]
To(pc) == poll' = [poll EXCEPT !.pc = pc]

(* The polling task. *)
Check ==
  /\ poll.pc = "check" /\ app # 0   \* else it waits a minute, or for the credentials
  /\ poll' = [pc |-> IF Needed THEN "token" ELSE "endpoint", asked |-> app]
  /\ UNCHANGED <<app, token, expired, self, link, post, cuts, posts>>
\* The answer to a request for a token: stored, and with the first one the
\* bot asks who it is.
Store(asked) ==
  /\ token' = asked /\ expired' = FALSE
  /\ self' \in IF self = 0 THEN {0, asked} ELSE {self}
Refresh ==
  /\ poll.pc = "token"
  /\ \/ Store(poll.asked) /\ To("endpoint")
     \/ To("check") /\ UNCHANGED <<token, expired, self>>   \* again in 30 s
  /\ UNCHANGED <<app, link, post, cuts, posts>>
\* The endpoint is that of the app set now; the old socket is freed.
Endpoint ==
  /\ poll.pc = "endpoint"
  /\ \/ poll' = [pc |-> "connect", asked |-> app] /\ Free
     \/ To("check") /\ UNCHANGED link   \* again in 10 s
  /\ UNCHANGED <<app, token, expired, self, post, cuts, posts>>
Connect ==
  /\ poll.pc = "connect"
  /\ \/ link' = [connected |-> TRUE, alive |-> TRUE, app |-> poll.asked] /\ To("receive")
     \/ UNCHANGED link /\ To("check")   \* again in 10 s
  /\ UNCHANGED <<app, token, expired, self, post, cuts, posts>>
\* A frame: an event, a ping to be answered, text that is not expected, or
\* the end of the connection.
Frame ==
  /\ poll.pc = "receive" /\ link.connected /\ link.alive
  /\ \/ link' = [link EXCEPT !.connected = FALSE, !.alive = FALSE]
     \/ UNCHANGED link
  /\ UNCHANGED <<app, token, expired, self, poll, post, cuts, posts>>
\* A mutant: only silence is expected to end a read.
LeavesOn_Close == FALSE
LeavesOn == Needed
\* A read fails: nothing came for 90 seconds, or the connection is lost and
\* every read fails at once.  A ping is sent, whose failure is not seen.
ReadFails ==
  /\ poll.pc = "receive" /\ link.connected
  /\ IF LeavesOn THEN To("leave") ELSE UNCHANGED poll
  /\ UNCHANGED <<app, token, expired, self, link, post, cuts, posts>>
Leave ==
  /\ poll.pc = "leave" \/ (poll.pc = "receive" /\ ~link.connected)
  /\ Free /\ To("check")   \* after 5 s
  /\ UNCHANGED <<app, token, expired, self, post, cuts, posts>>
Poll == Check \/ Refresh \/ Endpoint \/ Connect \/ Frame \/ ReadFails \/ Leave

(* A message is sent, once more when the service refuses the token. *)
Sent(pc, ret) == post' = [post EXCEPT !.pc = pc, !.ret = ret, !.asked = app]
Send ==
  /\ post.pc = "idle" /\ posts < MaxPosts /\ posts' = posts + 1
  /\ Sent(IF Needed THEN "token" ELSE "send", "none")
  /\ UNCHANGED <<app, token, expired, self, poll, link, cuts>>
SendToken ==
  /\ post.pc \in {"token", "again"}
  /\ \/ Store(post.asked) /\ Sent(IF post.pc = "token" THEN "send" ELSE "resend", "none")
     \/ Sent("idle", "error") /\ UNCHANGED <<token, expired, self>>
  /\ UNCHANGED <<app, poll, link, cuts, posts>>
Sending ==
  /\ post.pc \in {"send", "resend"}
  /\ \/ Sent("idle", "ok") /\ token # 0
     \/ Sent("idle", "error")
     \/ post.pc = "send" /\ Sent("again", "none")   \* 400 or 401, "access token"
  /\ UNCHANGED <<app, token, expired, self, poll, link, cuts, posts>>

\* Other credentials: the token is dropped, the connection is not.
SetApp ==
  /\ app + 1 \in Apps /\ app' = app + 1
  /\ token' = 0 /\ expired' = FALSE
  /\ UNCHANGED <<self, poll, link, post, cuts, posts>>
(* Outside. *)
Expire == token # 0 /\ ~expired /\ expired' = TRUE /\ UNCHANGED <<app, token, self, poll, link, post, cuts, posts>>
Cut == /\ link.alive /\ cuts < MaxCuts /\ cuts' = cuts + 1
       /\ link' = [link EXCEPT !.alive = FALSE]
       /\ UNCHANGED <<app, token, expired, self, poll, post, posts>>

Next == Poll \/ Send \/ SendToken \/ Sending \/ SetApp \/ Expire \/ Cut
Spec == Init /\ [][Next]_vars
(***************************************************************************)
(* The task goes on, its requests are answered now and then, a read fails  *)
(* now and then (after 90 seconds of silence), and tokens do expire.       *)
(***************************************************************************)
FairSpec ==
  /\ Spec
  /\ WF_vars(Check) /\ WF_vars(Leave) /\ WF_vars(Refresh) /\ WF_vars(Endpoint) /\ WF_vars(Connect)
  /\ SF_vars(Refresh /\ poll'.pc = "endpoint") /\ SF_vars(Endpoint /\ poll'.pc = "connect")
  /\ SF_vars(Connect /\ link'.connected) /\ SF_vars(ReadFails)
  /\ WF_vars(Expire)

\* The types of the variables.
TypeOK ==
  /\ {app, token, self, poll.asked, link.app, post.asked} \subseteq {0} \cup Apps
  /\ poll.pc \in {"check", "token", "endpoint", "connect", "receive", "leave"}
  /\ post.pc \in {"idle", "token", "send", "again", "resend"} /\ post.ret \in {"none", "ok", "error"}
  /\ {expired, link.connected, link.alive} \subseteq BOOLEAN

(***************************************************************************)
(* A connection that is lost is made again, and one of the credentials set *)
(* by then (though a lost one only once its token is over).                *)
(***************************************************************************)
LinkComesBack ==
  [](app # 0 => <>(link.alive /\ link.app = app))
=============================================================================
