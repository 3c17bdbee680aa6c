---------------------------- MODULE CronService -----------------------------
(***************************************************************************)
(* The assistant's scheduled jobs: infra/cron_service.c, its file, the     *)
(* agent that adds and removes jobs through tools/tool_cron.c, and the     *)
(* outbound queue of core/message_bus.c into which a job that fires pushes *)
(* its message while the thread holds s_cron_lock.                         *)
(*                                                                         *)
(* A job is what decides when it fires; its texts are left out, and what   *)
(* it does is chosen when it fires.  A job whose action is a tool that     *)
(* takes s_cron_lock itself (cron_add, cron_list, cron_remove) would stop  *)
(* the thread and everyone who needs the lock: Actions says whether there  *)
(* are such jobs.                                                          *)
(*                                                                         *)
(* F_Fault is F with a plausible fault, for the mutants of PROJECT.json.   *)
(***************************************************************************)
EXTENDS Integers, Sequences, SequencesExt

CONSTANTS MaxJobs,    \* MAX_CRON_JOBS, 16
          QueueLen,   \* AGENT_BUS_QUEUE_LEN, 16
          Intervals,  \* seconds of an "every" job
          Actions,    \* of jobs: "message", "tool" or "cron"
          MaxAdds, MaxNow, MaxCrashes   \* bounds on jobs added, on time, on restarts

ASSUME BoundsKnown ==
  /\ MaxJobs \in Nat \ {0} /\ QueueLen \in Nat \ {0} /\ Intervals \subseteq Nat \ {0}
  /\ Actions \subseteq {"message", "tool", "cron"}
  /\ MaxAdds \in Nat /\ MaxNow \in Nat \ {0} /\ MaxCrashes \in Nat

Ids == 1..MaxAdds
\* What the agent asks for: "every" is 0 for a one-shot, which fires at "at" and
\* is then deleted (once) or disabled.
Plan == [at : 0..(MaxNow + 1), every : {0} \cup Intervals, once : BOOLEAN]

VARIABLES
  now,
  jobs,      \* s_jobs
  file,      \* the jobs cron_load_jobs would find: none in a file cut short
  pc,        \* the thread, "off" before cron_service_start
  at,        \* its "now"
  i,         \* the index of the job it looks at
  changed,
  lock,      \* who holds s_cron_lock
  outbound,  \* how many messages are in the queue
  agent,     \* what the agent does
  added,     \* ids given out
  crashes,
  fired,     \* history: the one-shots that fired
  gone       \* history: the jobs whose removal reached the file

thread == <<pc, at, i, changed>>
store == <<jobs, file>>
asking == <<agent, added>>
history == <<fired, gone>>
vars == <<now, store, thread, lock, outbound, asking, crashes, history>>

\* A file that was truncated, or written in part, does not parse.
Torn == <<>>

Idle == [op |-> "idle"]
Saving == [op |-> "save"]

Init ==
  /\ now = 1 /\ jobs = <<>> /\ file = <<>>
  /\ pc = "off" /\ at = 0 /\ i = 0 /\ changed = FALSE
  /\ lock = "free" /\ outbound = 0 /\ agent = Idle /\ added = 0 /\ crashes = 0
  /\ fired = {} /\ gone = {}

-----------------------------------------------------------------------------
(* The start of the service. *)

Stale_Never(j) == FALSE
Stale(j) == j.enabled /\ j.next > 0 /\ j.next <= now

\* A job that became due while nobody looked is not made up for.  (Every job
\* comes from cron_add_job, and has its next time while it is enabled.)
Started(j) == IF Stale(j) THEN [j EXCEPT !.enabled = FALSE, !.next = 0] ELSE j

\* cron_service_start; the jobs are saved if one was stale.
Start ==
  /\ pc = "off" /\ lock = "free"
  /\ jobs' = [k \in DOMAIN jobs |-> Started(jobs[k])]
  /\ file' \in IF \E k \in DOMAIN jobs : Stale(jobs[k]) THEN {jobs', Torn, file} ELSE {file}
  /\ pc' = "wait"
  /\ UNCHANGED <<now, at, i, changed, lock, outbound, asking, crashes, history>>

-----------------------------------------------------------------------------
(* The thread. *)

\* The timed wait ends; the time is read before the lock is taken again.
Wake ==
  /\ pc = "wait" /\ lock = "free" /\ at' = now /\ pc' = "lock"
  /\ UNCHANGED <<now, store, i, changed, lock, outbound, asking, crashes, history>>
Acquire ==
  /\ pc = "lock" /\ lock = "free"
  /\ lock' = "cron" /\ pc' = "scan" /\ i' = 1 /\ changed' = FALSE
  /\ UNCHANGED <<now, store, at, outbound, asking, crashes, history>>

Due(j) == j.enabled /\ j.next > 0 /\ j.next <= at
DueFrom(k) == {n \in k..Len(jobs) : Due(jobs[n])}
IsFirst(n, S) == n \in S /\ \A m \in S : n <= m
Doing(action) == CASE action = "message" -> "push"
                   [] action = "tool" -> "tool"
                   [] action = "cron" -> "stuck"

\* cron_save_jobs truncates the file before it writes, unless it cannot be opened.
OpenToWrite(written, unopened) ==
  \/ file' = Torn /\ pc' = written
  \/ UNCHANGED file /\ pc' = unopened

\* The next due job, or the end of the round.
Scan ==
  /\ pc = "scan"
  /\ \/ /\ \E n \in DueFrom(i) : IsFirst(n, DueFrom(i)) /\ i' = n
        /\ \E a \in Actions : pc' = Doing(a)
        /\ UNCHANGED file
     \/ /\ DueFrom(i) = {} /\ UNCHANGED i
        /\ IF changed THEN OpenToWrite("write", "unlock")
                      ELSE UNCHANGED file /\ pc' = "unlock"
  /\ UNCHANGED <<now, jobs, at, changed, lock, outbound, asking, crashes, history>>

\* The job's tool runs under the lock; one that failed is not spoken about on
\* the voice channel.
Tool ==
  /\ pc = "tool" /\ pc' \in {"push", "quiet"}
  /\ UNCHANGED <<now, store, at, i, changed, lock, outbound, asking, crashes, history>>

Count(j) == fired' = IF j.every = 0 THEN fired \cup {j.id} ELSE fired
Rescheduled(j) ==
  IF j.every > 0 THEN [j EXCEPT !.next = at + j.every]
  ELSE [j EXCEPT !.enabled = FALSE, !.next = 0]

Settle_Skips ==
  /\ jobs' = IF jobs[i].once THEN RemoveAt(jobs, i)
             ELSE [jobs EXCEPT ![i] = Rescheduled(@)]
  /\ i' = i + 1 /\ Count(jobs[i]) /\ changed' = TRUE /\ pc' = "scan"
\* What becomes of the job that fired: the next one may take its index.
Settle ==
  /\ IF jobs[i].once
     THEN jobs' = RemoveAt(jobs, i) /\ UNCHANGED i
     ELSE jobs' = [jobs EXCEPT ![i] = Rescheduled(@)] /\ i' = i + 1
  /\ Count(jobs[i]) /\ changed' = TRUE /\ pc' = "scan"

Room_Waited == outbound < QueueLen
\* msg_queue_push ends: with room, or without after its five seconds.
Room == TRUE
Push ==
  /\ pc = "push" /\ Room /\ Settle
  /\ outbound' = IF outbound < QueueLen THEN outbound + 1 ELSE outbound
  /\ UNCHANGED <<now, file, at, lock, asking, crashes, gone>>
Quiet ==
  /\ pc = "quiet" /\ Settle
  /\ UNCHANGED <<now, file, at, lock, outbound, asking, crashes, gone>>

\* The write of the file fails halfway, or does not.
Write ==
  /\ pc = "write" /\ file' \in {jobs, Torn} /\ pc' = "unlock"
  /\ UNCHANGED <<now, jobs, at, i, changed, lock, outbound, asking, crashes, history>>
Unlock ==
  /\ pc = "unlock" /\ lock' = "free" /\ pc' = "wait"
  /\ at' = 0 /\ i' = 0 /\ changed' = FALSE
  /\ UNCHANGED <<now, store, outbound, asking, crashes, history>>

Cron == Wake \/ Acquire \/ Scan \/ Tool \/ Push \/ Quiet \/ Write \/ Unlock

-----------------------------------------------------------------------------
(* The agent, in tool_cron_add_execute and tool_cron_remove_execute. *)

\* A one-shot must lie in the future; the interval must be positive.
Ask ==
  /\ agent = Idle
  /\ \/ /\ added < MaxAdds
        /\ \E p \in Plan :
             /\ IF p.every > 0 THEN ~p.once /\ p.at = 0 ELSE p.at > now
             /\ agent' = [op |-> "add", plan |-> p]
     \/ \E id \in 1..added : agent' = [op |-> "remove", id |-> id]
  /\ UNCHANGED <<now, store, thread, lock, outbound, added, crashes, history>>

\* compute_initial_next_run: a one-shot whose time came meanwhile is disabled.
NewJob(id, p) ==
  [id |-> id, every |-> p.every, once |-> p.once, enabled |-> p.every > 0 \/ p.at > now,
   next |-> IF p.every > 0 THEN now + p.every ELSE IF p.at > now THEN p.at ELSE 0]

Fits == Len(jobs) < MaxJobs

OpenToSave ==
  \/ file' = Torn /\ agent' = Saving /\ lock' = "agent"
  \/ UNCHANGED <<file, lock>> /\ agent' = Idle

\* cron_add_job and cron_remove_job with the lock, up to the write.
AddJob ==
  /\ agent.op = "add" /\ lock = "free"
  /\ IF Fits
     THEN /\ jobs' = Append(jobs, NewJob(added + 1, agent.plan)) /\ added' = added + 1
          /\ OpenToSave
     ELSE agent' = Idle /\ UNCHANGED <<store, lock, added>>
  /\ UNCHANGED <<now, thread, outbound, crashes, history>>

Named(id) == {k \in DOMAIN jobs : jobs[k].id = id}

RemoveJob_Unsaved ==
  /\ agent.op = "remove" /\ lock = "free" /\ agent' = Idle
  /\ \/ /\ \E k \in Named(agent.id) : IsFirst(k, Named(agent.id)) /\ jobs' = RemoveAt(jobs, k)
        /\ gone' = gone \cup {agent.id}
     \/ Named(agent.id) = {} /\ UNCHANGED <<jobs, gone>>
  /\ UNCHANGED <<now, file, thread, lock, outbound, added, crashes, fired>>
RemoveJob ==
  /\ agent.op = "remove" /\ lock = "free"
  /\ \/ /\ \E k \in Named(agent.id) : IsFirst(k, Named(agent.id)) /\ jobs' = RemoveAt(jobs, k)
        /\ OpenToSave
     \/ Named(agent.id) = {} /\ agent' = Idle /\ UNCHANGED <<store, lock>>
  /\ gone' = IF agent' = Saving THEN gone \cup {agent.id} ELSE gone
  /\ UNCHANGED <<now, thread, outbound, added, crashes, fired>>

Saved ==
  /\ agent = Saving /\ file' \in {jobs, Torn}
  /\ lock' = "free" /\ agent' = Idle
  /\ UNCHANGED <<now, jobs, thread, outbound, added, crashes, history>>

-----------------------------------------------------------------------------
(* Time, the dispatcher of the queue, and restarts. *)

Tick ==
  /\ now < MaxNow /\ now' = now + 1
  /\ UNCHANGED <<store, thread, lock, outbound, asking, crashes, history>>
Dispatch ==
  /\ outbound > 0 /\ outbound' = outbound - 1
  /\ UNCHANGED <<now, store, thread, lock, asking, crashes, history>>

\* The program ends at any point and is started again: cron_load_jobs takes
\* what parses.
Restart ==
  /\ crashes < MaxCrashes /\ crashes' = crashes + 1
  /\ jobs' = file
  /\ pc' = "off" /\ at' = 0 /\ i' = 0 /\ changed' = FALSE
  /\ lock' = "free" /\ outbound' = 0 /\ agent' = Idle
  /\ UNCHANGED <<now, file, added, history>>

Next ==
  \/ Start \/ Cron \/ Ask \/ AddJob \/ RemoveJob \/ Saved
  \/ Tick \/ Dispatch \/ Restart
Spec == Init /\ [][Next]_vars

\* The threads run, and a mutex is given to who waits for it.  Nothing is
\* assumed of the channels behind the dispatcher.
Fairness ==
  /\ WF_vars(Cron) /\ WF_vars(Saved) /\ SF_vars(AddJob) /\ SF_vars(RemoveJob)
FairSpec == Spec /\ Fairness

-----------------------------------------------------------------------------
Job == [id : Ids, every : {0} \cup Intervals, once : BOOLEAN, enabled : BOOLEAN, next : Nat]
Asks == [op : {"add"}, plan : Plan] \cup [op : {"remove"}, id : Ids]

\* The values every variable takes: no table holds more than MaxJobs.
TypeOK ==
  /\ now \in 0..MaxNow /\ at \in 0..now
  /\ jobs \in Seq(Job) /\ Len(jobs) <= MaxJobs /\ file \in Seq(Job) /\ Len(file) <= MaxJobs
  /\ pc \in {"off", "wait", "lock", "scan", "tool", "stuck", "push", "quiet", "write", "unlock"}
  /\ i \in 0..(MaxJobs + 1) /\ changed \in BOOLEAN
  /\ lock \in {"free", "cron", "agent"} /\ outbound \in 0..QueueLen
  /\ agent \in {Idle, Saving} \cup Asks /\ added \in 0..MaxAdds
  /\ crashes \in 0..MaxCrashes /\ fired \subseteq Ids /\ gone \subseteq Ids

\* A one-shot fires at most once, though the file is saved only after the
\* whole round and a restart in between finds the job there again, still
\* enabled: what became due before the start is disabled.  (The clock does not
\* go back over a restart.)
OneShotOnce ==
  pc \in {"tool", "push", "quiet"} => jobs[i].id \notin fired

\* A job whose removal reached the file never comes back, also not after a
\* restart in the middle of any save.
RemovedStaysAway == \A k \in DOMAIN jobs : jobs[k].id \notin gone

\* When a round ends nothing is left that was due when it began: deleting a
\* job does not skip the one behind it.
RoundFiresAll == pc = "unlock" => \A k \in DOMAIN jobs : ~Due(jobs[k])

\* The agent gets its answer, though the thread holds the lock while it pushes
\* into a queue that nobody may be emptying.
AgentReturns == (agent # Idle) ~> (agent = Idle)
=============================================================================
