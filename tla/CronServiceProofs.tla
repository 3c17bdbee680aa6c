------------------------- MODULE CronServiceProofs --------------------------
(***************************************************************************)
(* Proofs about CronService, for tables and queues of any length, any      *)
(* intervals and actions, and any number of additions and restarts: the    *)
(* types, that one-shots fire once, that removed jobs stay away, and that  *)
(* a round leaves no due job behind.                                       *)
(***************************************************************************)
EXTENDS CronService, SequenceTheorems, TLAPS

Held == {"scan", "tool", "stuck", "push", "quiet", "write", "unlock"}
Firing == {"tool", "stuck", "push", "quiet"}

\* Who holds the lock is where the lock is held.
Holding == (lock = "cron" <=> pc \in Held) /\ (lock = "agent" <=> agent = Saving)

\* The id for a job that is asked for is there.
Pending == agent.op = "add" => added < MaxAdds

\* The thread looks at a due job while it fires it.
Pointing ==
  /\ pc = "scan" => i \in 1..(Len(jobs) + 1)
  /\ pc \in Firing => i \in 1..Len(jobs) /\ Due(jobs[i])

\* What the round has passed is not due.
Passed ==
  /\ pc \in {"scan"} \cup Firing => \A k \in 1..Len(jobs) : k < i => ~Due(jobs[k])
  /\ pc \in {"write", "unlock"} => \A k \in 1..Len(jobs) : ~Due(jobs[k])

\* Of a table, in memory or in the file: the ids are unique, were given out and
\* not removed, and the one-shots that fired lie in the past.
Unique(t) == \A m, n \in 1..Len(t) : t[m].id = t[n].id => m = n
Known(t) == \A n \in 1..Len(t) : t[n].id \in 1..added /\ t[n].id \notin gone
Spent(t) == \A n \in 1..Len(t) : t[n].id \in fired /\ t[n].enabled => t[n].next <= now
Sound(t) == Unique(t) /\ Known(t) /\ Spent(t)

\* The two tables speak of the same jobs.
Agree ==
  \A m \in 1..Len(jobs), n \in 1..Len(file) :
    jobs[m].id = file[n].id =>
      /\ jobs[m].every = file[n].every
      /\ jobs[m].every = 0 /\ jobs[m].enabled /\ file[n].enabled => jobs[m].next = file[n].next

\* After the start no one-shot that fired is left to fire.
Silent ==
  pc # "off" =>
    \A k \in 1..Len(jobs) : jobs[k].id \in fired /\ jobs[k].enabled => jobs[k].next = 0

Given == fired \subseteq 1..added /\ gone \subseteq 1..added
Tables == Sound(jobs) /\ Sound(file) /\ Agree /\ Silent /\ Given

IInv == TypeOK /\ Holding /\ Pending /\ Pointing /\ Passed /\ Tables

-----------------------------------------------------------------------------
(* Tables. *)

\* Removing the entry at k moves those behind it up.
LEMMA Removal ==
  ASSUME NEW S, NEW s \in Seq(S), NEW k \in 1..Len(s)
  PROVE  /\ RemoveAt(s, k) \in Seq(S)
         /\ Len(RemoveAt(s, k)) = Len(s) - 1
         /\ \A n \in 1..(Len(s) - 1) : RemoveAt(s, k)[n] = s[IF n < k THEN n ELSE n + 1]
<1> DEFINE front == SubSeq(s, 1, k - 1)
           back == SubSeq(s, k + 1, Len(s))
<1>1. Len(s) \in Nat /\ \A n \in 1..Len(s) : s[n] \in S
  BY LenProperties, ElementOfSeq
<1>2. /\ front \in Seq(S) /\ Len(front) = k - 1
      /\ \A n \in 1..(k - 1) : front[n] = s[n]
  <2>1. \A n \in 1..(k - 1) : s[n] \in S
    BY <1>1
  <2> QED BY <1>1, <2>1, SubSeqProperties
<1>3. /\ back \in Seq(S) /\ Len(back) = Len(s) - k
      /\ \A n \in 1..(Len(s) - k) : back[n] = s[k + n]
  <2>1. \A n \in (k + 1)..Len(s) : s[n] \in S
    BY <1>1
  <2>2. /\ back \in Seq(S)
        /\ Len(back) = IF k + 1 <= Len(s) THEN Len(s) - (k + 1) + 1 ELSE 0
        /\ \A n \in 1..(Len(s) - (k + 1) + 1) : back[n] = s[k + 1 + n - 1]
    BY <1>1, <2>1, SubSeqProperties
  <2> QED BY <1>1, <2>2
<1>4. RemoveAt(s, k) = front \o back
  BY DEF RemoveAt
<1> HIDE DEF front, back
<1>5. /\ front \o back \in Seq(S) /\ Len(front \o back) = Len(front) + Len(back)
      /\ \A n \in 1..(Len(front) + Len(back)) :
           (front \o back)[n] = IF n <= Len(front) THEN front[n] ELSE back[n - Len(front)]
  BY <1>2, <1>3, ConcatProperties
<1> QED BY <1>1, <1>2, <1>3, <1>4, <1>5

\* A table of which some entries are gone is as sound as it was.
LEMMA Fewer ==
  ASSUME TypeOK, NEW k \in 1..Len(jobs), jobs' = RemoveAt(jobs, k)
  PROVE  /\ jobs' \in Seq(Job) /\ Len(jobs') = Len(jobs) - 1
         /\ \A n \in 1..Len(jobs') : jobs'[n] = jobs[IF n < k THEN n ELSE n + 1]
         /\ \A n \in 1..Len(jobs') : \E m \in 1..Len(jobs) : m # k /\ jobs'[n] = jobs[m]
         /\ Unique(jobs) => Unique(jobs')
<1>1. jobs \in Seq(Job) /\ Len(jobs) \in Nat
  BY LenProperties DEF TypeOK
<1>2. /\ jobs' \in Seq(Job) /\ Len(jobs') = Len(jobs) - 1
      /\ \A n \in 1..Len(jobs') : jobs'[n] = jobs[IF n < k THEN n ELSE n + 1]
  BY <1>1, Removal
<1>3. \A n \in 1..Len(jobs') : (IF n < k THEN n ELSE n + 1) \in 1..Len(jobs) \ {k}
  BY <1>1, <1>2
<1>4. ASSUME Unique(jobs), NEW m \in 1..Len(jobs'), NEW n \in 1..Len(jobs'),
             jobs'[m].id = jobs'[n].id
      PROVE  m = n
  <2>1. (IF m < k THEN m ELSE m + 1) = (IF n < k THEN n ELSE n + 1)
    BY <1>2, <1>3, <1>4 DEF Unique
  <2> QED BY <2>1
<1> QED BY <1>2, <1>3, <1>4 DEF Unique

\* The entries of the tables are jobs.
LEMMA Entries ==
  ASSUME TypeOK
  PROVE  /\ jobs \in Seq(Job) /\ Len(jobs) \in Nat /\ \A k \in 1..Len(jobs) : jobs[k] \in Job
         /\ file \in Seq(Job) /\ Len(file) \in Nat /\ \A k \in 1..Len(file) : file[k] \in Job
         /\ DOMAIN jobs = 1..Len(jobs) /\ now \in Nat /\ at \in Nat /\ at <= now
<1> QED BY BoundsKnown, LenProperties, ElementOfSeq DEF TypeOK

-----------------------------------------------------------------------------
(* The initial state, and the actions that leave the tables alone. *)

LEMMA InitKeeps == ASSUME Init PROVE IInv
<1>1. TypeOK
  <2>1. now \in 0..MaxNow /\ at \in 0..now /\ i \in 0..(MaxJobs + 1)
    BY BoundsKnown DEF Init
  <2>2. jobs \in Seq(Job) /\ Len(jobs) <= MaxJobs /\ file \in Seq(Job) /\ Len(file) <= MaxJobs
    BY BoundsKnown, EmptySeq DEF Init
  <2>3. changed \in BOOLEAN
    BY DEF Init
  <2> QED BY BoundsKnown, <2>1, <2>2, <2>3 DEF Init, TypeOK
<1>2. Holding /\ Pending /\ Pointing /\ Passed
  BY DEF Init, Holding, Held, Firing, Pending, Pointing, Passed, Idle, Saving
<1>3. Tables
  BY DEF Init, Tables, Sound, Unique, Known, Spent, Agree, Silent, Given
<1> QED BY <1>1, <1>2, <1>3 DEF IInv

\* The tables stay sound while time passes, in a round and between rounds.
LEMMA TablesKept ==
  ASSUME IInv, UNCHANGED <<jobs, file, added, history>>,
         now' \in Nat, now <= now', pc # "off" \/ pc' = "off"
  PROVE  Tables'
<1>1. Sound(jobs)' /\ Sound(file)'
  <2>1. /\ \A k \in 1..Len(jobs) : jobs[k].next \in Nat
        /\ \A k \in 1..Len(file) : file[k].next \in Nat
        /\ now \in Nat
    BY Entries DEF IInv, Job
  <2>2. Spent(jobs)' /\ Spent(file)'
    BY <2>1 DEF IInv, Tables, Sound, Spent, history
  <2> QED BY <2>2 DEF IInv, Tables, Sound, Unique, Known, history
<1>2. Agree' /\ Given'
  BY DEF IInv, Tables, Agree, Given, history
<1>3. Silent'
  BY DEF IInv, Tables, Silent, history
<1> QED BY <1>1, <1>2, <1>3 DEF Tables

LEMMA WakeKeeps == ASSUME IInv, Wake PROVE IInv'
<1>1. TypeOK'
  BY BoundsKnown DEF Wake, IInv, TypeOK, store, asking, history
<1>2. Holding' /\ Pending' /\ Pointing' /\ Passed'
  BY DEF Wake, IInv, Holding, Held, Firing, Pending, Pointing, Passed, store, asking, history
<1>3. Tables'
  BY Entries, TablesKept DEF Wake, IInv, store, asking, history
<1> QED BY <1>1, <1>2, <1>3 DEF IInv

LEMMA AcquireKeeps == ASSUME IInv, Acquire PROVE IInv'
<1>1. TypeOK'
  <2>1. changed' \in BOOLEAN
    BY DEF Acquire
  <2>2. i' \in 0..(MaxJobs + 1)
    BY BoundsKnown DEF Acquire
  <2> QED BY <2>1, <2>2 DEF Acquire, IInv, TypeOK, store, asking, history
<1>2. Holding' /\ Pending'
  BY DEF Acquire, IInv, Holding, Held, Pending, asking
<1>3. Pointing' /\ Passed'
  BY Entries DEF Acquire, IInv, Firing, Pointing, Passed, store
<1>4. Tables'
  BY Entries, TablesKept DEF Acquire, IInv, store, asking, history
<1> QED BY <1>1, <1>2, <1>3, <1>4 DEF IInv

LEMMA ToolKeeps == ASSUME IInv, Tool PROVE IInv'
<1>1. TypeOK'
  BY DEF Tool, IInv, TypeOK, store, asking, history
<1>2. Holding' /\ Pending'
  BY DEF Tool, IInv, Holding, Held, Pending, asking
<1>3. Pointing' /\ Passed'
  BY DEF Tool, IInv, Firing, Pointing, Passed, Due, store
<1>4. Tables'
  BY Entries, TablesKept DEF Tool, IInv, store, asking, history
<1> QED BY <1>1, <1>2, <1>3, <1>4 DEF IInv

LEMMA UnlockKeeps == ASSUME IInv, Unlock PROVE IInv'
<1>1. TypeOK'
  <2>1. changed' \in BOOLEAN
    BY DEF Unlock
  <2>2. i' \in 0..(MaxJobs + 1) /\ at' \in 0..now
    BY Entries, BoundsKnown DEF Unlock, IInv
  <2> QED BY <2>1, <2>2 DEF Unlock, IInv, TypeOK, store, asking, history
<1>2. Holding' /\ Pending' /\ Pointing' /\ Passed'
  BY DEF Unlock, IInv, Holding, Held, Firing, Pending, Pointing, Passed, store, asking, history
<1>3. Tables'
  BY Entries, TablesKept DEF Unlock, IInv, store, asking, history
<1> QED BY <1>1, <1>2, <1>3 DEF IInv

LEMMA TickKeeps == ASSUME IInv, Tick PROVE IInv'
<1>1. TypeOK'
  BY Entries, BoundsKnown DEF Tick, IInv, TypeOK, store, thread, asking, history
<1>2. Holding' /\ Pending' /\ Pointing' /\ Passed'
  BY DEF Tick, IInv, Holding, Pending, Pointing, Passed, Due, store, thread, asking
<1>3. Tables'
  BY Entries, TablesKept DEF Tick, IInv, store, thread, asking, history
<1> QED BY <1>1, <1>2, <1>3 DEF IInv

LEMMA DispatchKeeps == ASSUME IInv, Dispatch PROVE IInv'
<1>1. TypeOK'
  BY BoundsKnown DEF Dispatch, IInv, TypeOK, store, thread, asking, history
<1>2. Holding' /\ Pending' /\ Pointing' /\ Passed'
  BY DEF Dispatch, IInv, Holding, Pending, Pointing, Passed, Due, store, thread, asking
<1>3. Tables'
  BY Entries, TablesKept DEF Dispatch, IInv, store, thread, asking, history
<1> QED BY <1>1, <1>2, <1>3 DEF IInv

LEMMA AskKeeps == ASSUME IInv, Ask PROVE IInv'
<1>1. /\ agent' \in Asks /\ agent' # Saving /\ agent # Saving
      /\ agent'.op = "add" => added < MaxAdds
  <2>1. CASE added < MaxAdds /\ \E p \in Plan : agent' = [op |-> "add", plan |-> p]
    BY <2>1 DEF Ask, Asks, Idle, Saving
  <2>2. CASE \E id \in 1..added : agent' = [op |-> "remove", id |-> id]
    <3>1. \A id \in 1..added : id \in Ids
      BY BoundsKnown DEF Ids, IInv, TypeOK
    <3> QED BY <2>2, <3>1 DEF Ask, Asks, Idle, Saving
  <2> QED BY <2>1, <2>2 DEF Ask
<1>2. TypeOK'
  BY <1>1 DEF Ask, IInv, TypeOK, store, thread, history
<1>3. Holding' /\ Pending' /\ Pointing' /\ Passed'
  BY <1>1 DEF Ask, IInv, Holding, Pending, Pointing, Passed, Due, store, thread
<1>4. Tables'
  BY Entries, TablesKept DEF Ask, IInv, store, thread, history
<1> QED BY <1>2, <1>3, <1>4 DEF IInv

-----------------------------------------------------------------------------
(* The actions that change the tables. *)

\* A file that was cut short is sound.
LEMMA TornIsSound ==
  ASSUME file' = Torn
  PROVE  file' \in Seq(Job) /\ Len(file') = 0 /\ Sound(file)' /\ Agree'
<1>1. file' \in Seq(Job) /\ Len(file') = 0
  BY EmptySeq DEF Torn
<1> QED BY <1>1 DEF Sound, Unique, Known, Spent, Agree

\* The tables stay sound when the file is cut short, written or left alone.
LEMMA FileKept ==
  ASSUME IInv, UNCHANGED <<jobs, added, history, now>>, file' \in {Torn, jobs, file},
         pc # "off" \/ pc' = "off"
  PROVE  Tables'
<1>1. UNCHANGED <<jobs, added, fired, gone, now>> /\ Tables /\ Sound(jobs) /\ Sound(file)
  BY DEF IInv, Tables, history
<1>2. Sound(jobs)'
  BY <1>1 DEF Sound, Unique, Known, Spent
<1>3. Silent' /\ Given'
  BY <1>1 DEF Tables, Silent, Given
<1>4. CASE file' = Torn
  BY <1>2, <1>3, <1>4, TornIsSound DEF Tables
<1>5. CASE file' = jobs
  <2>1. Sound(file)'
    BY <1>1, <1>5 DEF Sound, Unique, Known, Spent
  <2>2. Agree'
    BY <1>1, <1>5 DEF Sound, Unique, Agree
  <2> QED BY <1>2, <1>3, <2>1, <2>2 DEF Tables
<1>6. CASE file' = file
  <2>1. Sound(file)'
    BY <1>1, <1>6 DEF Sound, Unique, Known, Spent
  <2>2. Agree'
    BY <1>1, <1>6 DEF Tables, Agree
  <2> QED BY <1>2, <1>3, <2>1, <2>2 DEF Tables
<1> QED BY <1>4, <1>5, <1>6

\* The first due job from i is due, and none before it is.
LEMMA ScanKeeps == ASSUME IInv, Scan PROVE IInv'
<1>1. CASE \E n \in DueFrom(i) : IsFirst(n, DueFrom(i)) /\ i' = n
  <2>1. pc' \in Firing \cap {"push", "tool", "stuck"} /\ UNCHANGED file
    BY <1>1, BoundsKnown DEF Scan, Doing, Firing
  <2>2. /\ i' \in 1..Len(jobs) /\ Due(jobs[i'])
        /\ \A k \in 1..Len(jobs) : k < i' => ~Due(jobs[k])
    BY <1>1, Entries DEF IsFirst, DueFrom, Scan, IInv, Pointing, Passed
  <2>3. TypeOK'
    <3>1. i' \in 0..(MaxJobs + 1)
      BY <2>2, Entries, BoundsKnown DEF IInv, TypeOK
    <3> QED BY <2>1, <3>1 DEF Scan, Firing, IInv, TypeOK, asking, history
  <2>4. Holding' /\ Pending'
    BY <2>1 DEF Scan, IInv, Holding, Held, Firing, Pending, asking
  <2>5. Pointing' /\ Passed'
    BY <2>1, <2>2 DEF Scan, Pointing, Passed, Firing, Due
  <2>6. Tables'
    BY <2>1, Entries, TablesKept DEF Scan, IInv, asking, history
  <2> QED BY <2>3, <2>4, <2>5, <2>6 DEF IInv
<1>2. CASE DueFrom(i) = {} /\ UNCHANGED i
  <2>1. pc' \in {"write", "unlock"} /\ (file' = Torn \/ UNCHANGED file)
    BY <1>2 DEF Scan, OpenToWrite
  <2>2. \A k \in 1..Len(jobs) : ~Due(jobs[k])
    <3>1. \A k \in i..Len(jobs) : ~Due(jobs[k])
      BY <1>2 DEF DueFrom
    <3> QED BY <3>1, Entries DEF Scan, IInv, Pointing, Passed
  <2>3. TypeOK'
    <3>1. file' \in Seq(Job) /\ Len(file') <= MaxJobs
      BY <2>1, BoundsKnown, TornIsSound DEF IInv, TypeOK
    <3> QED BY <1>2, <2>1, <3>1 DEF Scan, IInv, TypeOK, asking, history
  <2>4. Holding' /\ Pending'
    BY <2>1 DEF Scan, IInv, Holding, Held, Pending, asking
  <2>5. Pointing' /\ Passed'
    BY <2>1, <2>2 DEF Scan, Pointing, Passed, Firing, Due
  <2>6. Tables'
    BY <2>1, FileKept DEF Scan, asking, history
  <2> QED BY <2>3, <2>4, <2>5, <2>6 DEF IInv
<1> QED BY <1>1, <1>2 DEF Scan

LEMMA WriteKeeps == ASSUME IInv, Write PROVE IInv'
<1>1. file' \in Seq(Job) /\ Len(file') <= MaxJobs
  BY BoundsKnown, TornIsSound DEF Write, IInv, TypeOK
<1>2. TypeOK'
  BY <1>1 DEF Write, IInv, TypeOK, asking, history
<1>3. Holding' /\ Pending' /\ Pointing' /\ Passed'
  BY DEF Write, IInv, Holding, Held, Firing, Pending, Pointing, Passed, Due, asking
<1>4. Tables'
  BY FileKept DEF Write, asking
<1> QED BY <1>2, <1>3, <1>4 DEF IInv

LEMMA SavedKeeps == ASSUME IInv, Saved PROVE IInv'
<1>1. file' \in Seq(Job) /\ Len(file') <= MaxJobs
  BY BoundsKnown, TornIsSound DEF Saved, IInv, TypeOK
<1>2. TypeOK'
  BY <1>1 DEF Saved, IInv, TypeOK, thread, history
<1>3. Holding' /\ Pending' /\ Pointing' /\ Passed'
  BY DEF Saved, IInv, Holding, Pending, Pointing, Passed, Due, thread, Idle, Saving
<1>4. Tables'
  BY FileKept DEF Saved, thread
<1> QED BY <1>2, <1>3, <1>4 DEF IInv

\* A job that is rescheduled is not due; a one-shot is disabled.
LEMMA RescheduledLater ==
  ASSUME NEW j \in Job, at \in Nat
  PROVE  /\ Rescheduled(j) \in Job
         /\ Rescheduled(j).id = j.id /\ Rescheduled(j).every = j.every
         /\ j.every = 0 => ~Rescheduled(j).enabled
         /\ ~Due(Rescheduled(j))
<1>1. j.every \in {0} \cup Intervals
  BY DEF Job
<1>2. j.every \in Nat
  <2>1. \A e \in Intervals : e \in Nat
    BY BoundsKnown, Zenon
  <2> QED BY <1>1, <2>1
<1>3. CASE j.every > 0
  <2> DEFINE later == at + j.every
  <2>1. later \in Nat /\ ~(later <= at)
    BY <1>2, <1>3
  <2>2. Rescheduled(j) = [j EXCEPT !.next = later]
    BY <1>3 DEF Rescheduled
  <2> HIDE DEF later
  <2>3. /\ Rescheduled(j) \in Job /\ Rescheduled(j).next = later
        /\ Rescheduled(j).id = j.id /\ Rescheduled(j).every = j.every
    BY <2>1, <2>2 DEF Job
  <2> QED BY <1>2, <1>3, <2>1, <2>3 DEF Due
<1>4. CASE ~(j.every > 0)
  <2>1. Rescheduled(j) = [j EXCEPT !.enabled = FALSE, !.next = 0]
    BY <1>4 DEF Rescheduled
  <2>2. Rescheduled(j) \in Job
    <3>1. \A b \in BOOLEAN : [j EXCEPT !.enabled = b, !.next = 0] \in Job
      BY DEF Job
    <3> QED BY <2>1, <3>1
  <2>3. Rescheduled(j).id = j.id /\ Rescheduled(j).every = j.every
    BY <2>1 DEF Job
  <2>4. Rescheduled(j).enabled = FALSE
    BY <2>1 DEF Job
  <2> QED BY <2>2, <2>3, <2>4 DEF Due
<1> QED BY <1>3, <1>4

\* The job that fired is gone or rescheduled, every other one is as it was.
LEMMA SettleMoves ==
  ASSUME IInv, pc \in Firing, Settle
  PROVE  /\ jobs' \in Seq(Job) /\ Len(jobs') <= Len(jobs) /\ Unique(jobs')
         /\ i' \in 1..(Len(jobs') + 1)
         /\ \A k \in 1..Len(jobs') : k < i' => ~Due(jobs'[k])
         /\ \A n \in 1..Len(jobs') :
              \/ \E m \in 1..Len(jobs) : m # i /\ jobs'[n] = jobs[m]
              \/ /\ jobs'[n].id = jobs[i].id /\ jobs'[n].every = jobs[i].every
                 /\ jobs[i].every = 0 => ~jobs'[n].enabled
<1>1. /\ jobs \in Seq(Job) /\ Len(jobs) \in Nat /\ \A k \in 1..Len(jobs) : jobs[k] \in Job
      /\ at \in Nat /\ DOMAIN jobs = 1..Len(jobs)
  BY Entries DEF IInv
<1>2. /\ i \in 1..Len(jobs) /\ jobs[i] \in Job /\ Unique(jobs)
      /\ \A k \in 1..Len(jobs) : k < i => ~Due(jobs[k])
  BY <1>1 DEF IInv, Pointing, Passed, Firing, Tables, Sound
<1>3. CASE jobs[i].once
  <2>1. jobs' = RemoveAt(jobs, i) /\ i' = i
    BY <1>3 DEF Settle
  <2>2. /\ jobs' \in Seq(Job) /\ Len(jobs') = Len(jobs) - 1
        /\ \A n \in 1..Len(jobs') : jobs'[n] = jobs[IF n < i THEN n ELSE n + 1]
        /\ \A n \in 1..Len(jobs') : \E m \in 1..Len(jobs) : m # i /\ jobs'[n] = jobs[m]
        /\ Unique(jobs')
    BY <1>2, <2>1, Fewer DEF IInv
  <2>3. \A k \in 1..Len(jobs') : k < i' => jobs'[k] = jobs[k] /\ k \in 1..Len(jobs)
    BY <1>1, <1>2, <2>1, <2>2
  <2>4. i' \in 1..(Len(jobs') + 1) /\ Len(jobs') <= Len(jobs)
    BY <1>1, <1>2, <2>1, <2>2
  <2> QED BY <1>2, <2>1, <2>2, <2>3, <2>4
<1>4. CASE ~jobs[i].once
  <2>1. jobs' = [jobs EXCEPT ![i] = Rescheduled(jobs[i])] /\ i' = i + 1
    BY <1>4 DEF Settle
  <2>2. /\ Rescheduled(jobs[i]) \in Job
        /\ Rescheduled(jobs[i]).id = jobs[i].id /\ Rescheduled(jobs[i]).every = jobs[i].every
        /\ jobs[i].every = 0 => ~Rescheduled(jobs[i]).enabled
        /\ ~Due(Rescheduled(jobs[i]))
    BY <1>1, <1>2, RescheduledLater
  <2>3. /\ jobs' \in Seq(Job) /\ Len(jobs') = Len(jobs)
        /\ \A k \in 1..Len(jobs) : jobs'[k] = IF k = i THEN Rescheduled(jobs[i]) ELSE jobs[k]
    BY <1>1, <1>2, <2>1, <2>2, ExceptSeq
  <2>4. Unique(jobs')
    BY <1>2, <2>2, <2>3 DEF Unique
  <2> QED BY <1>1, <1>2, <2>1, <2>2, <2>3, <2>4
<1> QED BY <1>3, <1>4

\* A one-shot that fires is spent in both tables.
LEMMA SettleKeeps ==
  ASSUME IInv, pc \in Firing, Settle, outbound' \in 0..QueueLen,
         UNCHANGED <<now, file, at, lock, asking, crashes, gone>>
  PROVE  IInv'
<1>1. /\ Len(jobs) \in Nat /\ \A k \in 1..Len(jobs) : jobs[k] \in Job
      /\ Len(file) \in Nat /\ \A k \in 1..Len(file) : file[k] \in Job
      /\ now \in Nat /\ at \in Nat /\ at <= now
  BY Entries DEF IInv
<1>2. i \in 1..Len(jobs) /\ Due(jobs[i])
  BY DEF IInv, Pointing
<1>3. /\ jobs' \in Seq(Job) /\ Len(jobs') <= Len(jobs) /\ Unique(jobs') /\ Len(jobs') \in Nat
      /\ i' \in 1..(Len(jobs') + 1)
      /\ \A k \in 1..Len(jobs') : k < i' => ~Due(jobs'[k])
  BY SettleMoves, LenProperties
<1>4. \A n \in 1..Len(jobs') :
        \/ \E m \in 1..Len(jobs) : m # i /\ jobs'[n] = jobs[m]
        \/ /\ jobs'[n].id = jobs[i].id /\ jobs'[n].every = jobs[i].every
           /\ jobs[i].every = 0 => ~jobs'[n].enabled
  BY SettleMoves
<1>5. /\ pc' = "scan" /\ changed' = TRUE
      /\ fired' = IF jobs[i].every = 0 THEN fired \cup {jobs[i].id} ELSE fired
  BY DEF Settle, Count
<1>6. jobs[i].id \in 1..added /\ jobs[i].id \notin gone /\ jobs[i].id \notin fired
  BY <1>1, <1>2 DEF IInv, Tables, Sound, Known, Silent, Due, Firing
<1>t. TypeOK'
  <2>1. fired' \subseteq Ids
    BY <1>1, <1>2, <1>5 DEF IInv, TypeOK, Job
  <2>2. changed' \in BOOLEAN
    BY <1>5
  <2>3. i' \in 0..(MaxJobs + 1) /\ Len(jobs') <= MaxJobs
    BY <1>1, <1>3, BoundsKnown DEF IInv, TypeOK
  <2> QED BY <1>3, <1>5, <2>1, <2>2, <2>3 DEF IInv, TypeOK, asking
<1>h. Holding' /\ Pending'
  BY <1>5 DEF IInv, Holding, Held, Firing, Pending, asking
<1>p. Pointing' /\ Passed'
  BY <1>3, <1>5 DEF Pointing, Passed, Firing, Due
<1>g. Given'
  BY <1>5, <1>6 DEF IInv, Tables, Given, asking
<1>k. Known(jobs)' /\ Known(file)'
  BY <1>4, <1>6 DEF IInv, Tables, Sound, Known, asking
<1>a. Agree'
  <2> SUFFICES ASSUME NEW m \in 1..Len(jobs'), NEW n \in 1..Len(file), jobs'[m].id = file[n].id
               PROVE  /\ jobs'[m].every = file[n].every
                      /\ jobs'[m].every = 0 /\ jobs'[m].enabled /\ file[n].enabled
                           => jobs'[m].next = file[n].next
    BY DEF Agree
  <2>1. Agree
    BY DEF IInv, Tables
  <2>2. CASE \E l \in 1..Len(jobs) : jobs'[m] = jobs[l]
    BY <2>1, <2>2 DEF Agree
  <2>3. CASE /\ jobs'[m].id = jobs[i].id /\ jobs'[m].every = jobs[i].every
             /\ jobs[i].every = 0 => ~jobs'[m].enabled
    BY <1>2, <2>1, <2>3 DEF Agree
  <2> QED BY <1>4, <2>2, <2>3
<1>s. Silent' /\ Spent(jobs)'
  <2>1. ASSUME NEW n \in 1..Len(jobs'), jobs'[n].id \in fired', jobs'[n].enabled
        PROVE  jobs'[n].next = 0
    <3>1. CASE \E m \in 1..Len(jobs) : m # i /\ jobs'[n] = jobs[m]
      <4>1. jobs'[n].id # jobs[i].id
        BY <1>2, <3>1 DEF IInv, Tables, Sound, Unique
      <4>2. jobs'[n].id \in fired
        BY <1>5, <2>1, <4>1
      <4> QED BY <2>1, <3>1, <4>2 DEF IInv, Tables, Silent, Firing
    <3>2. CASE /\ jobs'[n].id = jobs[i].id /\ jobs'[n].every = jobs[i].every
               /\ jobs[i].every = 0 => ~jobs'[n].enabled
      BY <1>5, <1>6, <2>1, <3>2
    <3> QED BY <1>4, <3>1, <3>2
  <2> QED BY <1>1, <2>1 DEF Silent, Spent
<1>f. Spent(file)'
  <2>1. ASSUME NEW n \in 1..Len(file), file[n].id \in fired', file[n].enabled
        PROVE  file[n].next <= now
    <3>1. CASE file[n].id \in fired
      BY <2>1, <3>1 DEF IInv, Tables, Sound, Spent
    <3>2. CASE file[n].id \notin fired
      <4>1. file[n].id = jobs[i].id /\ jobs[i].every = 0
        BY <1>5, <2>1, <3>2
      <4>2. jobs[i].next = file[n].next /\ jobs[i].next <= at /\ jobs[i].next \in Nat
        BY <1>1, <1>2, <2>1, <4>1 DEF IInv, Tables, Agree, Due, Job
      <4> QED BY <1>1, <4>2
    <3> QED BY <3>1, <3>2
  <2> QED BY <2>1 DEF Spent
<1>u. Unique(jobs)' /\ Unique(file)'
  BY <1>3 DEF IInv, Tables, Sound, Unique
<1> QED BY <1>t, <1>h, <1>p, <1>g, <1>k, <1>a, <1>s, <1>f, <1>u DEF IInv, Tables, Sound

LEMMA PushKeeps == ASSUME IInv, Push \/ Quiet PROVE IInv'
<1>1. outbound' \in 0..QueueLen
  BY BoundsKnown DEF Push, Quiet, IInv, TypeOK
<1> QED BY <1>1, SettleKeeps DEF Push, Quiet, Firing

\* A stale job is disabled at the start, and no other one changes.
LEMMA StartedMoves ==
  ASSUME NEW j \in Job
  PROVE  /\ Started(j) \in Job /\ Started(j).id = j.id /\ Started(j).every = j.every
         /\ Started(j).enabled => Started(j) = j /\ ~Stale(j)
<1>1. CASE Stale(j)
  <2>1. Started(j) = [j EXCEPT !.enabled = FALSE, !.next = 0]
    BY <1>1 DEF Started
  <2>2. Started(j) \in Job
    <3>1. \A b \in BOOLEAN : [j EXCEPT !.enabled = b, !.next = 0] \in Job
      BY DEF Job
    <3> QED BY <2>1, <3>1
  <2>3. Started(j).id = j.id /\ Started(j).every = j.every
    BY <2>1 DEF Job
  <2>4. Started(j).enabled = FALSE
    BY <2>1 DEF Job
  <2> QED BY <2>2, <2>3, <2>4
<1>2. CASE ~Stale(j)
  BY <1>2 DEF Started
<1> QED BY <1>1, <1>2

LEMMA StartKeeps == ASSUME IInv, Start PROVE IInv'
<1>1. /\ jobs \in Seq(Job) /\ Len(jobs) \in Nat /\ \A k \in 1..Len(jobs) : jobs[k] \in Job
      /\ Len(file) \in Nat /\ now \in Nat /\ DOMAIN jobs = 1..Len(jobs)
  BY Entries DEF IInv
<1>2. /\ jobs' = [k \in 1..Len(jobs) |-> Started(jobs[k])]
      /\ file' = jobs' \/ file' = Torn \/ file' = file
  BY <1>1 DEF Start
<1>3. /\ jobs' \in Seq(Job) /\ Len(jobs') = Len(jobs)
      /\ \A k \in 1..Len(jobs) : jobs'[k] = Started(jobs[k])
  <2>1. \A k \in 1..Len(jobs) : Started(jobs[k]) \in Job
    BY <1>1, StartedMoves
  <2> QED BY <1>1, <1>2, <2>1
<1>4. \A k \in 1..Len(jobs) :
        /\ jobs'[k].id = jobs[k].id /\ jobs'[k].every = jobs[k].every
        /\ jobs'[k].enabled => jobs'[k] = jobs[k] /\ ~Stale(jobs[k])
  BY <1>1, <1>3, StartedMoves
<1>5. Unique(jobs)' /\ Known(jobs)'
  <2>1. Unique(jobs)'
    BY <1>3, <1>4 DEF IInv, Tables, Sound, Unique
  <2>2. Known(jobs)'
    <3>1. added' = added /\ gone' = gone
      BY DEF Start, asking, history
    <3> QED BY <1>3, <1>4, <3>1 DEF IInv, Tables, Sound, Known
  <2> QED BY <2>1, <2>2
<1>6. Silent' /\ Spent(jobs)'
  <2>1. ASSUME NEW k \in 1..Len(jobs'), jobs'[k].id \in fired', jobs'[k].enabled
        PROVE  jobs'[k].next = 0
    <3>1. jobs[k] \in Job /\ jobs'[k] = jobs[k] /\ ~Stale(jobs[k]) /\ jobs[k].id \in fired
      BY <1>1, <1>3, <1>4, <2>1 DEF Start, history
    <3>2. jobs[k].next <= now /\ jobs[k].next \in Nat
      BY <1>3, <2>1, <3>1 DEF IInv, Tables, Sound, Spent, Job
    <3> QED BY <1>1, <2>1, <3>1, <3>2 DEF Stale
  <2> QED BY <1>1, <2>1 DEF Silent, Spent, Start
<1>7. (Sound(file) /\ Agree)'
  <2>1. CASE file' = Torn
    BY <2>1, TornIsSound
  <2>2. CASE file' = jobs'
    BY <2>2, <1>5, <1>6 DEF Sound, Unique, Known, Spent, Agree
  <2>3. CASE file' = file
    <3>1. Sound(file)'
      BY <2>3 DEF Start, IInv, Tables, Sound, Unique, Known, Spent, asking, history
    <3>2. Agree'
      BY <1>3, <1>4, <2>3 DEF IInv, Tables, Agree
    <3> QED BY <3>1, <3>2
  <2> QED BY <1>2, <2>1, <2>2, <2>3
<1>8. TypeOK'
  <2>1. file' \in Seq(Job) /\ Len(file') <= MaxJobs /\ Len(jobs') <= MaxJobs
    BY <1>2, <1>3, BoundsKnown, TornIsSound DEF IInv, TypeOK
  <2> QED BY <1>3, <2>1 DEF Start, IInv, TypeOK, asking, history
<1>9. Holding' /\ Pending' /\ Pointing' /\ Passed' /\ Given'
  BY DEF Start, IInv, Holding, Held, Firing, Pending, Pointing, Passed, Tables, Given, asking, history
<1> QED BY <1>5, <1>6, <1>7, <1>8, <1>9 DEF IInv, Tables, Sound

\* The next start finds the jobs of the file.
LEMMA RestartKeeps == ASSUME IInv, Restart PROVE IInv'
<1>1. TypeOK'
  <2>1. changed' \in BOOLEAN
    BY DEF Restart
  <2>2. i' \in 0..(MaxJobs + 1) /\ at' \in 0..now /\ crashes' \in 0..MaxCrashes
    BY Entries, BoundsKnown DEF Restart, IInv, TypeOK
  <2>3. outbound' \in 0..QueueLen
    BY BoundsKnown DEF Restart
  <2> QED BY <2>1, <2>2, <2>3 DEF Restart, IInv, TypeOK, history
<1>2. Holding' /\ Pending' /\ Pointing' /\ Passed'
  BY DEF Restart, Holding, Held, Firing, Pending, Pointing, Passed, Idle, Saving
<1>3. Sound(jobs)' /\ Sound(file)' /\ Given'
  BY DEF Restart, IInv, Tables, Sound, Unique, Known, Spent, Given, history
<1>4. Agree'
  BY DEF Restart, IInv, Tables, Sound, Unique, Agree
<1>5. Silent'
  BY DEF Restart, Silent
<1> QED BY <1>1, <1>2, <1>3, <1>4, <1>5 DEF IInv, Tables

\* An agent that asks for a plan or for a removal, and what it asks for.
LEMMA AskedType ==
  ASSUME TypeOK
  PROVE  /\ agent.op = "add" => agent.plan \in Plan
         /\ agent.op = "remove" => agent.id \in Ids
         /\ agent.op \in {"add", "remove"} => agent # Saving
BY DEF TypeOK, Asks, Idle, Saving

\* A new job has an id of its own.
LEMMA AddJobKeeps == ASSUME IInv, AddJob PROVE IInv'
<1>1. /\ jobs \in Seq(Job) /\ Len(jobs) \in Nat /\ \A k \in 1..Len(jobs) : jobs[k] \in Job
      /\ Len(file) \in Nat /\ now \in Nat
  BY Entries DEF IInv
<1>2. agent.op = "add" /\ agent.plan \in Plan /\ agent # Saving /\ lock = "free"
  BY AskedType DEF AddJob, IInv
<1>3. agent' # Saving => agent' = Idle /\ UNCHANGED <<file, lock>>
  BY DEF AddJob, OpenToSave, store
<1>4. Idle # Saving /\ Idle.op # "add" /\ Saving.op # "add"
  BY DEF Idle, Saving
<1>5. CASE Fits
  <2> DEFINE job == NewJob(added + 1, agent.plan)
  <2>1. /\ jobs' = Append(jobs, job) /\ added' = added + 1
        /\ \/ file' = Torn /\ agent' = Saving /\ lock' = "agent"
           \/ UNCHANGED <<file, lock>> /\ agent' = Idle
    BY <1>5 DEF AddJob, OpenToSave
  <2>2. added \in 0..MaxAdds /\ added' \in 0..MaxAdds /\ added' \in Ids /\ added' = added + 1
    BY <1>2, <2>1, BoundsKnown DEF IInv, TypeOK, Pending, Ids
  <2>3. job \in Job /\ job.id = added'
    <3>1. \A p \in Plan : NewJob(added + 1, p) \in Job /\ NewJob(added + 1, p).id = added + 1
      <4> SUFFICES ASSUME NEW p \in Plan
                   PROVE  NewJob(added + 1, p) \in Job /\ NewJob(added + 1, p).id = added + 1
        OBVIOUS
      <4>1. p.every \in {0} \cup Intervals /\ p.at \in Nat /\ p.once \in BOOLEAN
        BY BoundsKnown DEF Plan
      <4>2. p.every \in Nat
        <5>1. \A e \in Intervals : e \in Nat
          BY BoundsKnown, Zenon
        <5> QED BY <4>1, <5>1
      <4>3. (p.every > 0 \/ p.at > now) \in BOOLEAN
        OBVIOUS
      <4>4. (IF p.every > 0 THEN now + p.every ELSE IF p.at > now THEN p.at ELSE 0) \in Nat
        BY <1>1, <4>1, <4>2
      <4> QED BY <2>1, <2>2, <4>1, <4>3, <4>4 DEF NewJob, Job
    <3> QED BY <1>2, <2>1, <3>1
  <2> HIDE DEF job
  <2>4. /\ jobs' \in Seq(Job) /\ Len(jobs') = Len(jobs) + 1 /\ jobs'[Len(jobs) + 1] = job
        /\ \A k \in 1..Len(jobs) : jobs'[k] = jobs[k]
    BY <1>1, <2>1, <2>3, AppendProperties
  <2>5. \A k \in 1..Len(jobs') : k \in 1..Len(jobs) \/ jobs'[k] = job
    BY <1>1, <2>4
  <2>6. /\ \A k \in 1..Len(jobs) : jobs[k].id # job.id
        /\ \A k \in 1..Len(file) : file[k].id # job.id
        /\ job.id \notin fired /\ job.id \notin gone /\ job.id \in 1..added'
    BY <2>2, <2>3 DEF IInv, Tables, Sound, Known, Given
  <2>7. \A m \in 1..added : m \in 1..added'
    BY <2>2
  <2>8. Sound(jobs)' /\ Silent'
    <3>1. Unique(jobs)'
      BY <1>1, <2>4, <2>5, <2>6 DEF IInv, Tables, Sound, Unique
    <3>2. Known(jobs)'
      BY <2>4, <2>5, <2>6, <2>7 DEF AddJob, IInv, Tables, Sound, Known, history
    <3>3. Spent(jobs)' /\ Silent'
      BY <2>4, <2>5, <2>6 DEF AddJob, IInv, Tables, Sound, Spent, Silent, history, thread
    <3> QED BY <3>1, <3>2, <3>3 DEF Sound
  <2>9. Sound(file)' /\ Agree'
    <3>1. CASE file' = Torn
      BY <3>1, TornIsSound
    <3>2. CASE file' = file
      <4>1. Sound(file)'
        BY <2>7, <3>2 DEF AddJob, IInv, Tables, Sound, Unique, Known, Spent, history
      <4>2. Agree'
        BY <2>4, <2>5, <2>6, <3>2 DEF IInv, Tables, Agree
      <4> QED BY <4>1, <4>2
    <3> QED BY <2>1, <3>1, <3>2
  <2>10. Given'
    BY <2>7 DEF AddJob, IInv, Tables, Given, history
  <2>11. TypeOK'
    <3>1. Len(jobs') <= MaxJobs
      BY <1>1, <1>5, <2>4, BoundsKnown DEF Fits
    <3>2. file' \in Seq(Job) /\ Len(file') <= MaxJobs
      BY <2>1, BoundsKnown, TornIsSound DEF IInv, TypeOK
    <3> QED BY <2>1, <2>2, <2>4, <3>1, <3>2 DEF AddJob, IInv, TypeOK, thread, history
  <2>12. Holding' /\ Pending'
    BY <1>2, <1>4, <2>1 DEF AddJob, IInv, Holding, Held, Pending, thread
  <2>13. Pointing' /\ Passed'
    BY <1>2 DEF AddJob, IInv, Holding, Held, Firing, Pointing, Passed, thread
  <2> QED BY <2>8, <2>9, <2>10, <2>11, <2>12, <2>13 DEF IInv, Tables
<1>6. CASE ~Fits
  <2>1. agent' = Idle /\ UNCHANGED <<store, lock, added>>
    BY <1>6 DEF AddJob
  <2>2. TypeOK'
    BY <2>1 DEF AddJob, IInv, TypeOK, store, thread, history
  <2>3. Holding' /\ Pending' /\ Pointing' /\ Passed'
    BY <1>2, <1>4, <2>1 DEF AddJob, IInv, Holding, Pending, Pointing, Passed, Due, store, thread
  <2>4. Tables'
    BY <1>1, <2>1, TablesKept DEF AddJob, store, thread, history
  <2> QED BY <2>2, <2>3, <2>4 DEF IInv
<1> QED BY <1>5, <1>6

\* A removed job is gone from memory, and from the file once that was cut short.
LEMMA RemoveJobKeeps == ASSUME IInv, RemoveJob PROVE IInv'
<1>1. /\ jobs \in Seq(Job) /\ Len(jobs) \in Nat /\ \A k \in 1..Len(jobs) : jobs[k] \in Job
      /\ Len(file) \in Nat /\ now \in Nat /\ DOMAIN jobs = 1..Len(jobs)
  BY Entries DEF IInv
<1>2. /\ agent.op = "remove" /\ agent.id \in Ids /\ agent # Saving /\ lock = "free"
      /\ Idle # Saving /\ Idle.op # "add" /\ Saving.op # "add"
  BY AskedType DEF RemoveJob, IInv, Idle, Saving
<1>3. /\ UNCHANGED <<now, thread, outbound, added, crashes, fired>>
      /\ gone' = IF agent' = Saving THEN gone \cup {agent.id} ELSE gone
  BY DEF RemoveJob
<1>4. CASE \E k \in Named(agent.id) :
             IsFirst(k, Named(agent.id)) /\ jobs' = RemoveAt(jobs, k) /\ OpenToSave
  <2>1. PICK k \in 1..Len(jobs) : jobs[k].id = agent.id /\ jobs' = RemoveAt(jobs, k)
    BY <1>1, <1>4 DEF Named
  <2>2. \/ file' = Torn /\ agent' = Saving /\ lock' = "agent" /\ gone' = gone \cup {agent.id}
        \/ UNCHANGED <<file, lock>> /\ agent' = Idle /\ gone' = gone
    <3>1. \/ file' = Torn /\ agent' = Saving /\ lock' = "agent"
          \/ UNCHANGED <<file, lock>> /\ agent' = Idle
      BY <1>4 DEF OpenToSave
    <3>2. CASE agent' = Saving
      BY <1>2, <1>3, <3>1, <3>2
    <3>3. CASE agent' = Idle
      BY <1>2, <1>3, <3>1, <3>3
    <3> QED BY <3>1, <3>2, <3>3
  <2>3. /\ jobs' \in Seq(Job) /\ Len(jobs') = Len(jobs) - 1 /\ Unique(jobs')
        /\ \A n \in 1..Len(jobs') : \E m \in 1..Len(jobs) : m # k /\ jobs'[n] = jobs[m]
    BY <2>1, Fewer DEF IInv, Tables, Sound
  <2>4. /\ \A n \in 1..Len(jobs') : jobs'[n].id # agent.id
        /\ agent.id \in 1..added
    BY <2>1, <2>3 DEF IInv, Tables, Sound, Unique, Known
  <2>5. Sound(jobs)' /\ Silent'
    <3>1. Unique(jobs)'
      BY <2>3
    <3>2. Known(jobs)'
      BY <1>3, <2>2, <2>3, <2>4 DEF IInv, Tables, Sound, Known
    <3>3. Spent(jobs)' /\ Silent'
      BY <1>3, <2>3 DEF IInv, Tables, Sound, Spent, Silent, thread
    <3> QED BY <3>1, <3>2, <3>3 DEF Sound
  <2>6. Sound(file)' /\ Agree'
    <3>1. CASE file' = Torn
      BY <3>1, TornIsSound
    <3>2. CASE UNCHANGED <<file, lock>> /\ agent' = Idle /\ gone' = gone
      <4>1. Sound(file)'
        BY <1>3, <3>2 DEF IInv, Tables, Sound, Unique, Known, Spent
      <4>2. Agree'
        <5> SUFFICES ASSUME NEW m \in 1..Len(jobs'), NEW n \in 1..Len(file), jobs'[m].id = file[n].id
                     PROVE  /\ jobs'[m].every = file[n].every
                            /\ jobs'[m].every = 0 /\ jobs'[m].enabled /\ file[n].enabled
                                 => jobs'[m].next = file[n].next
          BY <3>2 DEF Agree
        <5>1. PICK l \in 1..Len(jobs) : jobs'[m] = jobs[l]
          BY <2>3
        <5> QED BY <5>1 DEF IInv, Tables, Agree
      <4> QED BY <4>1, <4>2
    <3> QED BY <2>2, <3>1, <3>2
  <2>7. Given'
    BY <1>3, <2>2, <2>4 DEF IInv, Tables, Given
  <2>8. TypeOK'
    <3>1. Len(jobs') <= MaxJobs /\ gone' \subseteq Ids
      BY <1>1, <1>2, <2>2, <2>3, BoundsKnown DEF IInv, TypeOK
    <3>2. file' \in Seq(Job) /\ Len(file') <= MaxJobs
      BY <2>2, BoundsKnown, TornIsSound DEF IInv, TypeOK
    <3> QED BY <1>3, <2>2, <2>3, <3>1, <3>2 DEF IInv, TypeOK, thread
  <2>9. Holding' /\ Pending' /\ Pointing' /\ Passed'
    BY <1>2, <1>3, <2>2 DEF IInv, Holding, Held, Firing, Pending, Pointing, Passed, thread
  <2> QED BY <2>5, <2>6, <2>7, <2>8, <2>9 DEF IInv, Tables
<1>5. CASE Named(agent.id) = {} /\ agent' = Idle /\ UNCHANGED <<store, lock>>
  <2>1. gone' = gone
    BY <1>2, <1>3, <1>5
  <2>2. TypeOK'
    BY <1>3, <1>5, <2>1 DEF IInv, TypeOK, store, thread
  <2>3. Holding' /\ Pending' /\ Pointing' /\ Passed'
    BY <1>2, <1>3, <1>5 DEF IInv, Holding, Pending, Pointing, Passed, Due, store, thread
  <2>4. Tables'
    BY <1>1, <1>3, <1>5, <2>1, TablesKept DEF store, thread, history
  <2> QED BY <2>2, <2>3, <2>4 DEF IInv
<1> QED BY <1>4, <1>5 DEF RemoveJob

-----------------------------------------------------------------------------
\* Every step, and every stutter, keeps the inductive invariant.
LEMMA NextKeeps == ASSUME IInv, [Next]_vars PROVE IInv'
<1>1. CASE Start
  BY <1>1, StartKeeps
<1>2. CASE Cron
  BY <1>2, WakeKeeps, AcquireKeeps, ScanKeeps, ToolKeeps, PushKeeps, WriteKeeps, UnlockKeeps
     DEF Cron
<1>3. CASE Ask \/ AddJob \/ RemoveJob \/ Saved
  BY <1>3, AskKeeps, AddJobKeeps, RemoveJobKeeps, SavedKeeps
<1>4. CASE Tick \/ Dispatch
  BY <1>4, TickKeeps, DispatchKeeps
<1>5. CASE Restart
  BY <1>5, RestartKeeps
<1>6. CASE UNCHANGED vars
  <2>1. TypeOK'
    BY <1>6 DEF vars, store, thread, asking, history, IInv, TypeOK
  <2>2. Holding' /\ Pending'
    BY <1>6 DEF vars, thread, asking, IInv, Holding, Pending
  <2>3. Pointing' /\ Passed'
    BY <1>6 DEF vars, store, thread, IInv, Pointing, Passed, Due
  <2>4. Tables'
    BY <1>6, Entries, TablesKept DEF vars, store, thread, asking, history, IInv
  <2> QED BY <2>1, <2>2, <2>3, <2>4 DEF IInv
<1> QED BY <1>1, <1>2, <1>3, <1>4, <1>5, <1>6 DEF Next

LEMMA Invariance == Spec => []IInv
<1>1. Init => IInv
  BY InitKeeps
<1>2. IInv /\ [Next]_vars => IInv'
  BY NextKeeps
<1> QED BY <1>1, <1>2, PTL DEF Spec

\* Every variable keeps its type, and neither table holds more than MaxJobs jobs.
THEOREM TypeCorrect == Spec => []TypeOK
<1>1. IInv => TypeOK
  BY DEF IInv
<1> QED BY <1>1, Invariance, PTL

\* A one-shot fires once, whatever restarts come between its firing and the
\* save: the inductive invariant compares the file with the memory.
THEOREM FiresOnce == Spec => []OneShotOnce
<1>1. IInv => OneShotOnce
  <2> SUFFICES ASSUME IInv, pc \in {"tool", "push", "quiet"}
               PROVE  jobs[i].id \notin fired
    BY DEF OneShotOnce
  <2>1. i \in 1..Len(jobs) /\ Due(jobs[i])
    BY DEF IInv, Pointing, Firing
  <2>2. jobs[i] \in Job
    BY <2>1, Entries DEF IInv
  <2> QED BY <2>1, <2>2 DEF IInv, Tables, Silent, Due, Job
<1> QED BY <1>1, Invariance, PTL

\* A job whose removal reached the file is in no table again.
THEOREM RemovalLasts == Spec => []RemovedStaysAway
<1>1. IInv => RemovedStaysAway
  BY Entries DEF IInv, Tables, Sound, Known, RemovedStaysAway
<1> QED BY <1>1, Invariance, PTL

\* A round ends with no job due that was due when it began.
THEOREM RoundIsComplete == Spec => []RoundFiresAll
<1>1. IInv => RoundFiresAll
  BY Entries DEF IInv, Passed, RoundFiresAll
<1> QED BY <1>1, Invariance, PTL

=============================================================================
