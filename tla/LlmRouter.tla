------------------------------ MODULE LlmRouter ------------------------------
(***************************************************************************)
(* Which language model answers: the slots of llm/llm_router.c with their  *)
(* failures and waiting times, the one configuration of llm/llm_proxy.c    *)
(* that a slot is applied to and every request is made from, the agent     *)
(* thread's selection, failover and second opinion (agent_loop.c), and the *)
(* commands of channels/cmd_llm.c that change slots from another thread.   *)
(*                                                                         *)
(* A slot's host, model and key are one value, its "service"; times are    *)
(* kept as what is left or has passed, in units of the shortest one.       *)
(*                                                                         *)
(* F_Fault is F with a plausible fault, for the mutants of PROJECT.json.   *)
(***************************************************************************)
EXTENDS Integers, FiniteSets

CONSTANTS Slots,       \* 1..n for the indices 0..LLM_ROUTER_MAX_BACKENDS - 1
          Services, Tiers,
          Recovery,    \* RECOVERY_INTERVAL_SEC, 300
          Debounce,    \* BACKOFF_DEBOUNCE_SEC, 5
          MaxBackoff,  \* 60
          MaxFails,    \* bound: no count above it differs from it
          MaxCommands  \* bound on commands

Nobody == 0
Profiles == {"eco", "auto", "premium"}
Complexities == {"simple", "medium", "complex"}

VARIABLES
  slots,     \* s_backends
  profile,   \* s_profile
  proxy,     \* the service of s_llm_host, s_model and s_api_key
  pc, idx,   \* the agent thread and its router_idx
  cx,        \* the complexity of its message
  body,      \* the service its request was written for
  called,    \* the service it was sent to
  retried,   \* the failover or the second opinion was used
  commands,
  meddled    \* history: a command ran since the turn's last selection

turn == <<pc, idx, cx, body, called, retried>>
vars == <<slots, profile, proxy, turn, commands, meddled>>

Blank == [service |-> "none", prio |-> 0, tier |-> 0, fails |-> 0, since |-> Recovery, wait |-> 0]

Init ==
  /\ slots = [s \in Slots |-> Blank] /\ profile = "auto"
  /\ proxy \in Services \cup {"none"}
  /\ pc = "idle" /\ idx = Nobody /\ cx = "simple" /\ body = "none" /\ called = "none"
  /\ retried = FALSE /\ commands = 0 /\ meddled = FALSE

-----------------------------------------------------------------------------
(* The router. *)

\* What the estimate looks at: length, question marks, a block of code, a word
\* that asks for thought; a greeting only counts when nothing else does.
Features == [long : {0, 1, 3}, marks : 0..2, code : {0, 3}, word : {0, 2}]
Estimate(f) ==
  LET score == f.long + f.marks + f.code + f.word IN
  IF score >= 4 THEN "complex" ELSE IF score >= 2 THEN "medium" ELSE "simple"

\* On a table S of slots.
Configured(S, s) == S[s].service # "none"
Waiting(S, s) == Configured(S, s) /\ S[s].wait > 0
Recovered_Never(S, s) == FALSE
Recovered(S, s) == S[s].fails >= 3 /\ S[s].since >= Recovery
Usable(S, s) == Configured(S, s) /\ S[s].wait = 0 /\ (S[s].fails < 3 \/ Recovered(S, s))
\* The look at a slot that was out long enough clears its count.
Looked(S) == [s \in Slots |-> IF Usable(S, s) /\ Recovered(S, s)
                              THEN [S[s] EXCEPT !.fails = 0] ELSE S[s]]

Suits(tier, c) == \/ c = "simple" /\ tier <= 1
                  \/ c = "medium" /\ tier = 1
                  \/ c = "complex" /\ tier >= 2
\* fast: the slots whose calls were quick on average, worth up to nine points.
Score(b, c, p, fast) ==
  100 - 10 * b.prio - 15 * b.fails + (IF fast THEN 9 ELSE 0)
  + CASE p = "eco" -> (3 - b.tier) * 30
      [] p = "premium" -> b.tier * 30
      [] p = "auto" -> IF Suits(b.tier, c) THEN 20 ELSE 0

\* The first of the slots T with the largest value of V.
First(T, V) == CHOOSE s \in T : \A t \in T : V[s] > V[t] \/ (V[s] = V[t] /\ s <= t)
\* router_select_internal: the best usable slot with a score of its own, else the
\* one whose wait ends first.
Selected(S, c, p, fast) ==
  LET L == Looked(S)
      worth == [s \in Slots |-> Score(L[s], c, p, s \in fast)]
      sooner == [s \in Slots |-> -S[s].wait]
      good == {s \in Slots : Usable(S, s) /\ worth[s] >= 0}
      waiting == {s \in Slots : Waiting(S, s)} IN
  IF good # {} THEN First(good, worth)
  ELSE IF waiting # {} THEN First(waiting, sooner) ELSE Nobody

Power(n) == CASE n <= 2 -> 2 [] n = 3 -> 4 [] n = 4 -> 8 [] n = 5 -> 16 [] n = 6 -> 32 [] OTHER -> 60
Least(a, b) == IF a <= b THEN a ELSE b
Backoff(n) == IF n < 2 THEN 0 ELSE Least(Power(n), MaxBackoff)
\* llm_router_report_failure, on a table of slots; failures in quick succession
\* count once.
Failed(S, s) ==
  LET n == IF S[s].since >= Debounce THEN Least(S[s].fails + 1, MaxFails) ELSE S[s].fails
  IN [S EXCEPT ![s].fails = n, ![s].since = 0, ![s].wait = Backoff(n)]
Succeeded(S, s) == [S EXCEPT ![s].fails = 0, ![s].wait = 0]

-----------------------------------------------------------------------------
(* The agent thread. *)

\* llm_router_apply: an unused slot leaves the configuration as it is.
Applied(s) == IF s # Nobody /\ slots[s].service # "none" THEN slots[s].service ELSE proxy

\* A turn begins: the best slot for the message, if any.
Begin ==
  /\ pc = "idle"
  /\ cx' \in {Estimate(f) : f \in Features}
  /\ \E fast \in SUBSET Slots : idx' = Selected(slots, cx', profile, fast)
  /\ slots' = Looked(slots) /\ retried' = FALSE /\ pc' = "apply" /\ meddled' = FALSE
  /\ UNCHANGED <<profile, proxy, body, called, commands>>
Apply ==
  /\ pc = "apply" /\ proxy' = Applied(idx) /\ pc' = "write"
  /\ UNCHANGED <<slots, profile, idx, cx, body, called, retried, commands, meddled>>
\* llm_chat_tools copies the model for the body, and llm_http_direct the host and
\* the key for the header, each under s_llm_lock of its own.
Write ==
  /\ pc = "write" /\ proxy # "none" /\ body' = proxy /\ pc' = "send"
  /\ UNCHANGED <<slots, profile, proxy, idx, cx, called, retried, commands, meddled>>
\* Without a key there is no request, only an error.
NoKey ==
  /\ pc = "write" /\ proxy = "none" /\ pc' = "answer" /\ body' = "none" /\ called' = "none"
  /\ UNCHANGED <<slots, profile, proxy, idx, cx, retried, commands, meddled>>
SendRequest ==
  /\ pc = "send" /\ called' = proxy /\ pc' = "answer"
  /\ UNCHANGED <<slots, profile, proxy, idx, cx, body, retried, commands, meddled>>
\* Too many requests: after a wait the same body is sent again, to the service of
\* that moment; at most AGENT_LLM_MAX_RETRIES times, which are not counted here.
RateLimited ==
  /\ pc = "answer" /\ called # "none" /\ pc' = "send"
  /\ UNCHANGED <<slots, profile, proxy, idx, cx, body, called, retried, commands, meddled>>

\* The look for another slot, after the table became S.
Reselect(S, c, p, other, otherwise) ==
  \E fast \in SUBSET Slots :
    LET s == Selected(S, c, p, fast) IN
    /\ slots' = Looked(S)
    /\ IF s \notin {Nobody, idx} THEN idx' = s /\ pc' = other ELSE UNCHANGED idx /\ pc' = otherwise

\* The first failure of a round is charged, and another slot is tried, once.
FailsOver(then) ==
  /\ pc = "answer" /\ idx # Nobody /\ ~retried
  /\ Reselect(Failed(slots, idx), cx, profile, then, "idle")
  /\ retried' = TRUE /\ meddled' = FALSE
  /\ UNCHANGED <<profile, proxy, cx, body, called, commands>>
Failover_Unapplied == FailsOver("write")
Failover == FailsOver("apply")
\* A second failure, one without a slot, or an answer that came too late.
Lost ==
  /\ pc = "answer" /\ pc' = "idle"
  /\ UNCHANGED <<slots, profile, proxy, idx, cx, body, called, retried, commands, meddled>>
Charge == IF idx = Nobody THEN slots ELSE Succeeded(slots, idx)
\* An answer, or tool calls after which the model is asked again.
Answered ==
  /\ pc = "answer" /\ called # "none" /\ slots' = Charge /\ pc' \in {"idle", "write"}
  /\ retried' = FALSE
  /\ UNCHANGED <<profile, proxy, idx, cx, body, called, commands, meddled>>
\* A poor answer to a simple message is asked for again at the premium slot.
SecondOpinion ==
  /\ pc = "answer" /\ called # "none" /\ profile = "auto" /\ cx = "simple" /\ idx # Nobody
  /\ Reselect(Charge, "medium", "premium", "opinion", "idle")
  /\ meddled' = FALSE
  /\ UNCHANGED <<profile, proxy, cx, body, called, retried, commands>>
\* Its outcome is charged to nobody.
Opinion ==
  /\ pc = "opinion" /\ proxy' = Applied(idx) /\ pc' = "idle"
  /\ UNCHANGED <<slots, profile, idx, cx, body, called, retried, commands, meddled>>

-----------------------------------------------------------------------------
(* Commands and time. *)

Command == /\ commands < MaxCommands /\ commands' = commands + 1 /\ meddled' = TRUE
           /\ UNCHANGED turn
\* llm_router_set_backend of a record that starts from zero.
Filled(s, service, tier) ==
  [slots EXCEPT ![s] = [Blank EXCEPT !.service = service, !.prio = s - 1, !.tier = tier]]
\* set_llm: slot 0, applied at once.
SetLlm ==
  /\ Command /\ \E v \in Services, t \in Tiers : slots' = Filled(1, v, t) /\ proxy' = v
  /\ UNCHANGED profile
\* router_set: the first slot that is empty or has the service already.
RouterSet ==
  /\ Command
  /\ \E v \in Services, t \in Tiers, s \in Slots :
       /\ slots[s].service \in {"none", v}
       /\ \A r \in Slots : r < s => slots[r].service \notin {"none", v}
       /\ slots' = Filled(s, v, t)
  /\ UNCHANGED <<profile, proxy>>
RouterClear ==
  /\ Command /\ \E T \in {Slots} \cup {{s} : s \in Slots} :
       slots' = [s \in Slots |-> IF s \in T THEN Blank ELSE slots[s]]
  /\ UNCHANGED <<profile, proxy>>
\* router_model: read, changed and written back, with the failures it was read with.
RouterModel ==
  /\ Command
  /\ \E s \in Slots, v \in Services :
       slots[s].service # "none" /\ slots' = [slots EXCEPT ![s].service = v, ![s].fails = 0]
  /\ UNCHANGED <<profile, proxy>>
SetProfile ==
  /\ Command /\ profile' \in Profiles \ {profile} /\ UNCHANGED <<slots, proxy>>

\* llm_router_init and llm_proxy_init: the services were saved, the failures were not.
Restart ==
  /\ commands < MaxCommands /\ commands' = commands + 1 /\ pc' = "idle"
  /\ slots' = [s \in Slots |-> [slots[s] EXCEPT !.fails = 0, !.since = Recovery, !.wait = 0]]
  /\ UNCHANGED <<profile, proxy, idx, cx, body, called, retried, meddled>>

Shorter(n) == IF n = 0 THEN 0 ELSE n - 1
Tick ==
  /\ \E s \in Slots : slots[s].wait > 0 \/ slots[s].since < Recovery
  /\ slots' = [s \in Slots |-> [slots[s] EXCEPT !.wait = Shorter(@),
                                               !.since = Least(@ + 1, Recovery)]]
  /\ UNCHANGED <<profile, proxy, turn, commands, meddled>>

Agent == \/ Begin \/ Apply \/ Write \/ NoKey \/ SendRequest \/ RateLimited \/ Failover \/ Lost \/ Answered
         \/ SecondOpinion \/ Opinion
Commands == SetLlm \/ RouterSet \/ RouterClear \/ RouterModel \/ SetProfile \/ Restart
Next == Agent \/ Commands \/ Tick

Spec == Init /\ [][Next]_vars
\* Messages keep coming, time passes, and the rounds of a turn are limited
\* (AGENT_AI_AGENT_MAX_TOOL_ITER; AgentLoop counts them).
FairSpec ==
  Spec /\ WF_vars(Agent) /\ WF_vars(Tick) /\ SF_vars(Answered /\ pc' = "idle")

-----------------------------------------------------------------------------
(* Properties. *)

TypeOK ==
  /\ slots \in [Slots -> [service : Services \cup {"none"}, prio : 0..3, tier : Tiers \cup {0},
                          fails : 0..MaxFails, since : 0..Recovery, wait : 0..MaxBackoff]]
  /\ profile \in Profiles /\ {proxy, body, called} \subseteq Services \cup {"none"}
  /\ pc \in {"idle", "apply", "write", "send", "answer", "opinion"}
  /\ idx \in Slots \cup {Nobody} /\ cx \in Complexities
  /\ retried \in BOOLEAN /\ meddled \in BOOLEAN /\ commands \in 0..MaxCommands

\* Unless a command changed the slots meanwhile, what is charged with the outcome
\* of a request is the slot whose service it was written for and sent to, after
\* a failover too (agent_loop.c:1346-1405, llm_proxy.c:437-447, 815-828).
ChargedIsCalled ==
  pc = "answer" /\ idx # Nobody /\ ~meddled => {body, called} = {slots[idx].service}

\* No slot is given up: while there is a service in the table a request is made
\* from one of the slots again and again, whatever failed before
\* (llm_router.c:371-393, 440-449).
KeepsTrying ==
  []<>((pc = "answer" /\ idx # Nobody) \/ \A s \in Slots : ~Configured(slots, s))
=============================================================================
