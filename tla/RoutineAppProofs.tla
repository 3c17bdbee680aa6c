-------------------------- MODULE RoutineAppProofs --------------------------
(***************************************************************************)
(* Proofs about RoutineApp, for any number of slots, any length of the day *)
(* and the queues, any edits, clock steps and answers: a reminder can      *)
(* always be answered, a completed item is completed in the file, what is  *)
(* spoken is on the screen, an answer ends what it shows, and an item that *)
(* is due is reminded.                                                     *)
(***************************************************************************)
EXTENDS RoutineApp, FiniteSetTheorems, SequenceTheorems, TLAPS

\* ReminderIsAnswerable, of the items its with numbers up to s.
Answers(its, s) ==
  /\ \A i \in Ids : its[i].notified => ~its[i].done /\ its[i].seq \in 1..s
  /\ \A i, j \in Ids : its[i].notified /\ its[j].notified /\ i # j => its[i].seq # its[j].seq
Silent(its) == \A i \in Ids : ~its[i].notified

\* What the answers rest on: the types of what the schedule is made of, and that
\* what was saved is restored without reminders.
Typed ==
  /\ clockOk \in BOOLEAN /\ now \in Nat /\ seq \in Nat /\ gen \in Nat
  /\ items \in [Ids -> Item] /\ times \in FileTimes
  /\ file \in [gen : Nat, times : FileTimes]
  /\ saved \in [items : [Ids -> Item], gen : Nat \cup {-1}]
Restful == Silent(saved.items)
IInv == Typed /\ Restful /\ Answers(items, seq)

-----------------------------------------------------------------------------
(***************************************************************************)
(* Items.                                                                  *)
(***************************************************************************)
\* Minutes and days are natural numbers.
LEMMA Minutes ==
  ASSUME NEW m \in Nat, NEW t \in Nat
  PROVE  Day(m) \in Nat /\ m * DayLen \in Nat /\ m * DayLen + t \in Nat
<1>1. DayLen \in Nat /\ DayLen > 0
  BY Sizes
<1>2. Day(m) \in Nat
  BY <1>1 DEF Day
<1>3. m * DayLen \in Nat
  BY <1>1
<1> QED BY <1>2, <1>3

\* An item as a new day or an edit makes it.
LEMMA FreshItem ==
  ASSUME NEW t \in 0..(DayLen - 1), NEW day \in Nat
  PROVE  /\ Fresh(t, day) \in Item
         /\ ~Fresh(t, day).notified /\ ~Fresh(t, day).done /\ Fresh(t, day).count = 0
         /\ Fresh(t, day).due = day * DayLen + t
<1>1. day * DayLen + t \in Nat /\ 0 \in 0..Limit
  BY Minutes, Sizes
<1> QED BY <1>1 DEF Fresh, Item

\* Clearing the due queue ends every reminder.
LEMMA QuietItems ==
  ASSUME NEW its \in [Ids -> Item], NEW s
  PROVE  Quiet(its) \in [Ids -> Item] /\ Silent(Quiet(its)) /\ Answers(Quiet(its), s)
<1>1. \A i \in Ids : [its[i] EXCEPT !.notified = FALSE, !.seq = 0] \in Item
                     /\ ~[its[i] EXCEPT !.notified = FALSE, !.seq = 0].notified
  BY DEF Item
<1>2. Quiet(its) \in [Ids -> Item] /\ Silent(Quiet(its))
  BY <1>1 DEF Quiet, Silent
<1> QED BY <1>2 DEF Silent, Answers

\* A reset makes items anew or leaves them as they are.
LEMMA ResetItems ==
  ASSUME NEW its, NEW ts \in FileTimes, NEW day \in Nat, NEW keep \in BOOLEAN, NEW s,
         keep => its \in [Ids -> Item] /\ Answers(its, s)
  PROVE  /\ Reset(its, ts, day, keep) \in [Ids -> Item] /\ Answers(Reset(its, ts, day, keep), s)
         /\ ~keep => Silent(Reset(its, ts, day, keep))
<1>1. \A i \in Ids : ts[i] \in 0..(DayLen - 1)
  BY TimesKnown
<1>2. \A i \in Ids : Fresh(ts[i], day) \in Item /\ ~Fresh(ts[i], day).notified
  BY <1>1, FreshItem
<1> DEFINE kept(i) == keep /\ its[i].carry /\ Day(its[i].due) >= day
<1>3. Reset(its, ts, day, keep) = [i \in Ids |-> IF kept(i) THEN its[i] ELSE Fresh(ts[i], day)]
  BY DEF Reset
<1>4. \A i \in Ids : kept(i) => keep
  OBVIOUS
<1> HIDE DEF kept
<1> QED BY <1>2, <1>3, <1>4 DEF Answers, Silent

\* A configuration that was read changes items, and then no reminder is left.
LEMMA AppliedItems ==
  ASSUME NEW its \in [Ids -> Item], NEW ts, NEW g, NEW m \in Nat, NEW ok \in BOOLEAN, NEW s,
         Answers(its, s), file \in [gen : Nat, times : FileTimes]
  PROVE  /\ Applied(its, ts, g, m, ok) \in [Ids -> Item] /\ Answers(Applied(its, ts, g, m, ok), s)
         /\ Silent(its) => Silent(Applied(its, ts, g, m, ok))
<1> DEFINE edit(i) == [Fresh(file.times[i], Day(m)) EXCEPT
                         !.done = ok /\ Day(m) * DayLen + file.times[i] < m]
           new == [i \in Ids |-> IF i \in Edited(ts) THEN edit(i) ELSE its[i]]
<1>1. \A i \in Ids : file.times[i] \in 0..(DayLen - 1)
  BY TimesKnown
<1>2. \A i \in Ids : Fresh(file.times[i], Day(m)) \in Item
  BY <1>1, FreshItem, Minutes
<1>3. \A i \in Ids : edit(i) \in Item
  BY <1>2 DEF Item
<1> HIDE DEF edit
<1>4. new \in [Ids -> Item]
  BY <1>3
<1>5. CASE (g = file.gen /\ g # 0) \/ Edited(ts) = {}
  BY <1>5 DEF Applied
<1>6. CASE ~((g = file.gen /\ g # 0) \/ Edited(ts) = {})
  <2>1. Applied(its, ts, g, m, ok) = Quiet(new)
    BY <1>6 DEF Applied, edit
  <2> HIDE DEF new
  <2> QED BY <1>4, <2>1, QuietItems
<1> QED BY <1>5, <1>6

-----------------------------------------------------------------------------
(***************************************************************************)
(* Falling due.                                                            *)
(***************************************************************************)
\* The due items in some order: each of them once.
LEMMA DueOnce ==
  ASSUME NEW its, NEW S \in SUBSET Ids, NEW q \in DueOrders(its, S)
  PROVE  /\ Len(q) \in Nat /\ DOMAIN q = 1..Len(q) /\ q \in [1..Len(q) -> S]
         /\ \A j, k \in 1..Len(q) : q[j] = q[k] => j = k
         /\ \A i \in S : \E k \in 1..Len(q) : q[k] = i
<1> DEFINE n == Cardinality(S)
<1>1. IsFiniteSet(S) /\ n \in Nat
  BY IdsFinite, FS_Subset, FS_CardinalityType
<1>2. q \in [1..n -> S] /\ \A j, k \in 1..n : j # k => q[j] # q[k]
  BY DEF DueOrders, SetToSeqs
<1>3. q \in Seq(S) /\ Len(q) = n
  BY <1>1, <1>2, SeqDef
<1>4. IsFiniteSet(1..n) /\ Cardinality(1..n) = n
  BY <1>1, FS_Interval
<1>5. q \in Injection(1..n, S)
  BY <1>2 DEF Injection, IsInjective
<1>6. q \in Surjection(1..n, S)
  BY <1>1, <1>4, <1>5, FS_Injection
<1> QED BY <1>1, <1>2, <1>3, <1>6 DEF Surjection

\* New reminders have numbers of their own, and their items are not completed.
LEMMA RemindedItems ==
  ASSUME NEW its \in [Ids -> Item], NEW s \in Nat, Answers(its, s), NEW old, NEW new,
         NEW S \in SUBSET DueIn(its, old, new), NEW q \in DueOrders(its, S)
  PROVE  /\ Reminded(its, q, s) \in [Ids -> Item] /\ s + Len(q) \in Nat
         /\ Answers(Reminded(its, q, s), s + Len(q))
<1> DEFINE at(i) == CHOOSE k \in DOMAIN q : q[k] = i
           due(i) == \E k \in DOMAIN q : q[k] = i
           told(i) == [its[i] EXCEPT !.notified = TRUE, !.count = @ + 1, !.seq = s + at(i)]
<1>1. S \subseteq Ids
  BY DEF DueIn
<1>2. /\ Len(q) \in Nat /\ DOMAIN q = 1..Len(q) /\ q \in [1..Len(q) -> S]
  BY <1>1, DueOnce
<1>3. \A i \in Ids : due(i) => at(i) \in 1..Len(q) /\ q[at(i)] = i
  BY <1>2
<1>4. \A i \in Ids : due(i) => i \in S
  BY <1>2
<1>5. \A i \in S : ~its[i].done /\ its[i].count < Limit /\ ~its[i].notified
  BY DEF DueIn
<1>6. \A i \in Ids : due(i) => /\ told(i) \in Item /\ ~told(i).done
                               /\ told(i).seq = s + at(i)
  <2> SUFFICES ASSUME NEW i \in Ids, due(i)
               PROVE  told(i) \in Item /\ ~told(i).done /\ told(i).seq = s + at(i)
    OBVIOUS
  <2>1. its[i] \in Item /\ at(i) \in 1..Len(q) /\ i \in S
    BY <1>3, <1>4
  <2>2. its[i].count + 1 \in 0..Limit /\ s + at(i) \in Nat /\ ~its[i].done
    BY <1>2, <1>5, <2>1, Sizes DEF Item
  <2> HIDE DEF at
  <2> QED BY <2>1, <2>2 DEF Item
<1>7. Reminded(its, q, s) = [i \in Ids |-> IF due(i) THEN told(i) ELSE its[i]]
  BY DEF Reminded
<1> HIDE DEF at, due, told
<1>8. Reminded(its, q, s) \in [Ids -> Item]
  BY <1>6, <1>7
<1> DEFINE R == Reminded(its, q, s)
<1>9. \A i \in Ids : R[i].notified => ~R[i].done /\ R[i].seq \in 1..(s + Len(q))
  BY <1>2, <1>3, <1>6, <1>7 DEF Answers
<1>10. \A i, j \in Ids : R[i].notified /\ R[j].notified /\ i # j => R[i].seq # R[j].seq
  <2> SUFFICES ASSUME NEW i \in Ids, NEW j \in Ids, R[i].notified, R[j].notified, i # j
               PROVE  R[i].seq # R[j].seq
    OBVIOUS
  <2>1. CASE due(i) /\ due(j)
    <3>1. at(i) # at(j) /\ at(i) \in Nat /\ at(j) \in Nat
      BY <1>2, <1>3, <2>1
    <3> QED BY <1>6, <1>7, <2>1, <3>1
  <2>2. CASE due(i) /\ ~due(j)
    <3>1. its[j].seq <= s /\ its[j].seq \in Nat /\ at(i) >= 1 /\ at(i) \in Nat
      BY <1>2, <1>3, <1>7, <2>2 DEF Answers
    <3> QED BY <1>6, <1>7, <2>2, <3>1
  <2>3. CASE ~due(i) /\ due(j)
    <3>1. its[i].seq <= s /\ its[i].seq \in Nat /\ at(j) >= 1 /\ at(j) \in Nat
      BY <1>2, <1>3, <1>7, <2>3 DEF Answers
    <3> QED BY <1>6, <1>7, <2>3, <3>1
  <2>4. CASE ~due(i) /\ ~due(j)
    BY <1>7, <2>4 DEF Answers
  <2> QED BY <2>1, <2>2, <2>3, <2>4
<1> QED BY <1>2, <1>8, <1>9, <1>10 DEF Answers

-----------------------------------------------------------------------------
(***************************************************************************)
(* The steps.                                                              *)
(***************************************************************************)
\* What is saved is saved without its reminders.
LEMMA SavedRests ==
  ASSUME IInv, items' \in [Ids -> Item], gen' \in Nat,
         saved' = saved \/ saved' = Persisted(items', gen')
  PROVE  saved' \in [items : [Ids -> Item], gen : Nat \cup {-1}] /\ Restful'
<1>1. CASE saved' = saved
  BY <1>1 DEF IInv, Typed, Restful, Silent
<1>2. CASE saved' = Persisted(items', gen')
  <2>1. CASE ~StorageReady
    BY <1>2, <2>1 DEF IInv, Typed, Restful, Silent, Persisted
  <2>2. CASE StorageReady
    <3>1. saved' = [items |-> Quiet(items'), gen |-> gen']
      BY <1>2, <2>2 DEF Persisted
    <3> QED BY <3>1, QuietItems DEF Restful, Silent
  <2> QED BY <2>1, <2>2
<1> QED BY <1>1, <1>2

\* A run of the timer callback that hands over items which can be answered.
LEMMA TickKeeps ==
  ASSUME IInv, NEW new \in Nat, NEW ok \in BOOLEAN, NEW its \in [Ids -> Item], NEW ts, NEW s \in Nat,
         NEW g, NEW evs, NEW rebased, Answers(its, s), Tick(new, ok, its, ts, s, g, evs, rebased)
  PROVE  IInv'
<1> DEFINE m == IF ok THEN new ELSE 0
<1>1. /\ now' = new /\ clockOk' = ok /\ items' = Applied(its, ts, g, m, ok)
      /\ times' = file.times /\ gen' = file.gen /\ seq' = s /\ file' = file
      /\ saved' = saved \/ saved' = Persisted(items', gen')
  BY DEF Tick
<1>2. m \in Nat /\ file \in [gen : Nat, times : FileTimes]
  BY DEF IInv, Typed
<1> HIDE DEF m
<1>3. items' \in [Ids -> Item] /\ Answers(items', seq')
  BY <1>1, <1>2, AppliedItems
<1>4. Typed' /\ Restful'
  BY <1>1, <1>2, <1>3, SavedRests DEF IInv, Typed
<1> QED BY <1>3, <1>4 DEF IInv, Answers

\* The clock and the configuration.
LEMMA TimerKeeps ==
  ASSUME IInv, ClockTick \/ ClockStep \/ ClockArrives \/ NoClockTick
  PROVE  IInv'
<1>1. CASE ClockTick
  <2>1. PICK new \in now..(now + MaxStep) :
          \E q \in DueOrders(Rolled(new), IF new = now THEN {} ELSE DueIn(Rolled(new), Since(new), new)) :
            Tick(new, TRUE, Reminded(Rolled(new), q, seq), times, seq + Len(q), gen,
                 Events(Rolled(new), q, seq), FALSE)
    BY <1>1 DEF ClockTick
  <2>2. PICK q \in DueOrders(Rolled(new), IF new = now THEN {} ELSE DueIn(Rolled(new), Since(new), new)) :
            Tick(new, TRUE, Reminded(Rolled(new), q, seq), times, seq + Len(q), gen,
                 Events(Rolled(new), q, seq), FALSE)
    BY <2>1
  <2>3. new \in Nat
    BY Sizes DEF IInv, Typed
  <2>4. Rolled(new) \in [Ids -> Item] /\ Answers(Rolled(new), seq)
    BY <2>3, ResetItems, Minutes, Zenon DEF IInv, Typed, Rolled
  <2> DEFINE S == IF new = now THEN {} ELSE DueIn(Rolled(new), Since(new), new)
  <2>5. S \in SUBSET DueIn(Rolled(new), Since(new), new) /\ seq \in Nat
    BY DEF IInv, Typed
  <2>6. q \in DueOrders(Rolled(new), S)
    BY <2>2
  <2> HIDE DEF S
  <2>7. /\ Reminded(Rolled(new), q, seq) \in [Ids -> Item] /\ seq + Len(q) \in Nat
        /\ Answers(Reminded(Rolled(new), q, seq), seq + Len(q))
    BY <2>4, <2>5, <2>6, RemindedItems
  <2> QED BY <2>2, <2>3, <2>7, TickKeeps
<1>2. CASE ClockStep
  <2>1. PICK new \in Jumps :
          Tick(new, TRUE, Reset(<<>>, DefaultTimes, Day(new), FALSE), DefaultTimes, 0, 0, <<>>, TRUE)
    BY <1>2 DEF ClockStep
  <2>2. new \in Nat /\ Day(new) \in Nat
    BY Switches, Minutes
  <2>3. /\ Reset(<<>>, DefaultTimes, Day(new), FALSE) \in [Ids -> Item]
        /\ Answers(Reset(<<>>, DefaultTimes, Day(new), FALSE), 0)
    BY <2>2, TimesKnown, ResetItems
  <2> QED BY <2>1, <2>2, <2>3, TickKeeps
<1>3. CASE ClockArrives
  <2>1. now \in Nat /\ Day(now) \in Nat /\ times \in FileTimes /\ seq \in Nat
    BY Minutes DEF IInv, Typed
  <2>2. /\ Reset(<<>>, times, Day(now), FALSE) \in [Ids -> Item]
        /\ Answers(Reset(<<>>, times, Day(now), FALSE), seq)
    BY <2>1, ResetItems
  <2> QED BY <1>3, <2>1, <2>2, TickKeeps DEF ClockArrives
<1>4. CASE NoClockTick
  <2>1. now \in Nat /\ items \in [Ids -> Item] /\ Answers(items, seq) /\ seq \in Nat
    BY DEF IInv, Typed
  <2> QED BY <1>4, <2>1, TickKeeps DEF NoClockTick
<1> QED BY <1>1, <1>2, <1>3, <1>4

\* An item after an answer, but for its reminder.
After(e, action) ==
  CASE action = "complete" -> Completed(items[e.id], e.id)
    [] action = "delay"    -> Delayed(items[e.id], e)
    [] action = "dismiss"  -> Dismissed(items[e.id])

LEMMA AfterItem ==
  ASSUME IInv, NEW e, e.id \in Ids, NEW action \in {"complete", "delay", "dismiss"}
  PROVE  After(e, action) \in Item
<1> DEFINE it == items[e.id]
<1>0. items \in [Ids -> Item] /\ now \in Nat /\ Day(now) \in Nat
  BY Minutes DEF IInv, Typed
<1>1. it \in Item /\ times[e.id] \in 0..(DayLen - 1)
  BY <1>0, TimesKnown DEF IInv, Typed
<1>2. Completed(it, e.id) \in Item
  <2>1. Fresh(times[e.id], Day(now)) \in Item
    BY <1>0, <1>1, FreshItem
  <2>2. \A f \in Item, b \in BOOLEAN : [f EXCEPT !.done = b] \in Item
    BY DEF Item
  <2>3. (Day(now) * DayLen + times[e.id] < now) \in BOOLEAN
    OBVIOUS
  <2> QED BY <1>1, <2>1, <2>2, <2>3 DEF Completed
<1>3. \A m \in Nat : Later(it, m) \in Item
  <2> SUFFICES ASSUME NEW m \in Nat PROVE Later(it, m) \in Item
    OBVIOUS
  <2>1. m + Delay \in Nat
    BY Sizes
  <2>2. (it.carry \/ Day(m + Delay) > Day(now)) \in BOOLEAN
    OBVIOUS
  <2> QED BY <1>1, <2>1, <2>2 DEF Later, Item
<1>4. Delayed(it, e) \in Item
  <2>1. Latest(it.due, now) \in Nat /\ 0 \in 0..Limit
    BY <1>0, <1>1, Sizes DEF Latest, Item
  <2>2. Later(it, Latest(it.due, now)) \in Item /\ Later(it, now) \in Item
    BY <1>0, <1>3, <2>1
  <2>3. [Later(it, Latest(it.due, now)) EXCEPT !.count = 0] \in Item
    BY <2>1, <2>2 DEF Item
  <2> QED BY <1>1, <2>2, <2>3 DEF Delayed
<1>5. Dismissed(it) \in Item
  BY <1>0, <1>1, <1>3 DEF Dismissed
<1> QED BY <1>2, <1>4, <1>5 DEF After

\* An answer ends the reminder of its item and starts none.
LEMMA ActedItems ==
  ASSUME IInv, NEW e, NEW action \in {"complete", "delay", "dismiss"}
  PROVE  /\ Acted(e, action) \in [Ids -> Item] /\ Answers(Acted(e, action), seq)
         /\ \A i \in Ids \ {e.id} : Acted(e, action)[i] = items[i]
         /\ e.id \in Ids => /\ Acted(e, action)[e.id].count = After(e, action).count
                           /\ Acted(e, action)[e.id].due = After(e, action).due
<1> DEFINE item == [After(e, action) EXCEPT !.notified = FALSE, !.seq = 0]
<1>1. Acted(e, action) = [items EXCEPT ![e.id] = item]
  BY DEF Acted, After
<1>2. items \in [Ids -> Item] /\ Answers(items, seq)
  BY DEF IInv, Typed
<1>3. CASE e.id \notin Ids
  <2>1. Acted(e, action) = items
    BY <1>1, <1>2, <1>3
  <2> QED BY <1>2, <1>3, <2>1
<1>4. CASE e.id \in Ids
  <2>1. After(e, action) \in Item
    BY <1>4, AfterItem
  <2>2. /\ item \in Item /\ ~item.notified
        /\ item.count = After(e, action).count /\ item.due = After(e, action).due
    BY <2>1 DEF Item
  <2> HIDE DEF item
  <2> QED BY <1>1, <1>2, <1>4, <2>2 DEF Answers
<1> QED BY <1>3, <1>4

\* An answer to a popup or a schedule dialog.
LEMMA PressKeeps ==
  ASSUME IInv, NEW action \in {"complete", "delay", "dismiss"}, Press(action)
  PROVE  IInv'
<1>1. /\ items' = items \/ items' = Acted(dialog.ev, action)
      /\ saved' = Persisted(items', gen')
      /\ UNCHANGED <<now, clockOk, seq, times, gen, file>>
  BY DEF Press
<1>2. items' \in [Ids -> Item] /\ Answers(items', seq)
  <2>1. Acted(dialog.ev, action) \in [Ids -> Item] /\ Answers(Acted(dialog.ev, action), seq)
    BY ActedItems
  <2> QED BY <1>1, <2>1 DEF IInv, Typed
<1>3. saved' \in [items : [Ids -> Item], gen : Nat \cup {-1}] /\ Restful'
  BY <1>1, <1>2, SavedRests DEF IInv, Typed
<1> QED BY <1>1, <1>2, <1>3 DEF IInv, Typed, Answers

\* The schedule as it is without a clock, a configuration or a saved state.
LEMMA Factory ==
  /\ Reset(<<>>, DefaultTimes, 0, FALSE) \in [Ids -> Item]
  /\ Silent(Reset(<<>>, DefaultTimes, 0, FALSE))
  /\ Answers(Reset(<<>>, DefaultTimes, 0, FALSE), 0)
  /\ NoState.items = Reset(<<>>, DefaultTimes, 0, FALSE) /\ NoState.gen = -1
  /\ NoState \in [items : [Ids -> Item], gen : Nat \cup {-1}]
<1>1. 0 \in Nat /\ DefaultTimes \in FileTimes
  BY TimesKnown
<1>2. /\ Reset(<<>>, DefaultTimes, 0, FALSE) \in [Ids -> Item]
      /\ Silent(Reset(<<>>, DefaultTimes, 0, FALSE))
      /\ Answers(Reset(<<>>, DefaultTimes, 0, FALSE), 0)
  BY <1>1, ResetItems
<1> QED BY <1>2 DEF NoState

\* A start goes on with what was saved, if anything was.
LEMMA StartKeeps ==
  ASSUME IInv, Start
  PROVE  IInv'
<1>1. PICK ok \in BOOLEAN, new \in {now} \cup {t \in Jumps : t > now} :
        LET m   == IF ok THEN new ELSE 0
            its == IF saved = NoState THEN Reset(<<>>, DefaultTimes, Day(m), FALSE)
                                         ELSE saved.items
            g   == IF saved = NoState THEN 0 ELSE saved.gen
        IN /\ clockOk' = ok /\ now' = new
           /\ items' = Applied(its, DefaultTimes, g, m, ok)
           /\ gen' = file.gen /\ times' = file.times
           /\ saved' = IF ConfigNew(DefaultTimes, g) THEN Persisted(items', gen') ELSE saved
  BY DEF Start
<1> DEFINE m   == IF ok THEN new ELSE 0
           its == IF saved = NoState THEN Reset(<<>>, DefaultTimes, Day(m), FALSE) ELSE saved.items
           g   == IF saved = NoState THEN 0 ELSE saved.gen
<1>2. new \in Nat /\ m \in Nat /\ Day(m) \in Nat
  BY Switches, Minutes DEF IInv, Typed
<1>3. its \in [Ids -> Item] /\ Answers(its, 0)
  <2>1. CASE saved = NoState
    BY <1>2, <2>1, ResetItems, TimesKnown
  <2>2. CASE saved # NoState
    BY <2>2 DEF IInv, Typed, Restful, Silent, Answers
  <2> QED BY <2>1, <2>2
<1>4. /\ items' = Applied(its, DefaultTimes, g, m, ok) /\ clockOk' = ok /\ now' = new
      /\ gen' = file.gen /\ times' = file.times /\ seq' = 0 /\ file' = file
      /\ saved' = saved \/ saved' = Persisted(items', gen')
  BY <1>1 DEF Start
<1> HIDE DEF m, its, g
<1>5. file \in [gen : Nat, times : FileTimes]
  BY DEF IInv, Typed
<1>6. items' \in [Ids -> Item] /\ Answers(items', 0)
  BY <1>2, <1>3, <1>4, <1>5, AppliedItems
<1>7. saved' \in [items : [Ids -> Item], gen : Nat \cup {-1}] /\ Restful'
  BY <1>4, <1>5, <1>6, SavedRests
<1> QED BY <1>2, <1>4, <1>5, <1>6, <1>7 DEF IInv, Typed, Answers

LEMMA InitKeeps == Init => IInv
<1> SUFFICES ASSUME Init PROVE IInv
  OBVIOUS
<1>1. now \in Nat
  BY Sizes DEF Init
<1>2. file \in [gen : Nat, times : FileTimes] /\ times \in FileTimes
  BY TimesKnown DEF Init
<1> QED BY <1>1, <1>2, Factory DEF Init, IInv, Typed, Restful

LEMMA NextKeeps ==
  ASSUME IInv, [Next]_vars
  PROVE  IInv'
<1>1. CASE ClockTick \/ ClockStep \/ ClockArrives \/ NoClockTick
  BY <1>1, TimerKeeps
<1>2. CASE AnswerDue \/ AnswerItem
  BY <1>2, PressKeeps DEF AnswerDue, AnswerItem
<1>3. CASE OpenHistory \/ OpenItem \/ CloseDialog \/ ViewCurve \/ Speak \/ Spoken
  <2>1. UNCHANGED <<now, model, file, saved>>
    BY <1>3 DEF OpenHistory, OpenItem, CloseDialog, ViewCurve, Speak, Spoken
  <2> QED BY <2>1 DEF IInv, Typed, Restful, Silent, Answers, model
<1>4. CASE ConfigWrite
  <2>1. UNCHANGED <<now, model, saved>> /\ file' \in [gen : Nat, times : FileTimes]
    BY <1>4 DEF ConfigWrite, IInv, Typed
  <2> QED BY <2>1 DEF IInv, Typed, Restful, Silent, Answers, model
<1>5. CASE Start
  BY <1>5, StartKeeps
<1>6. CASE Stop
  <2>1. /\ items' = Reset(<<>>, DefaultTimes, 0, FALSE) /\ seq' = 0 /\ times' = DefaultTimes
        /\ gen' = 0 /\ clockOk' = FALSE /\ UNCHANGED <<now, file, saved>>
    BY <1>6 DEF Stop
  <2> QED BY <2>1, Factory, TimesKnown DEF IInv, Typed, Restful, Silent, Answers
<1>7. CASE UNCHANGED vars
  BY <1>7 DEF IInv, Typed, Restful, Silent, Answers, vars, model
<1> QED BY <1>1, <1>2, <1>3, <1>4, <1>5, <1>6, <1>7 DEF Next

\* Whatever was edited, put off, answered, restored or numbered anew, a reminder
\* that is open belongs to an unfinished item and to no other, so that no button of
\* its popup is refused.
THEOREM RemindersAreAnswerable == Spec => []ReminderIsAnswerable
<1>1. IInv => ReminderIsAnswerable
  BY DEF IInv, Answers, ReminderIsAnswerable
<1> QED BY <1>1, InitKeeps, NextKeeps, PTL DEF Spec

-----------------------------------------------------------------------------
(***************************************************************************)
(* What is completed is saved.                                             *)
(***************************************************************************)
\* A save writes down which items are completed.
LEMMA DoneIsSaved ==
  ASSUME StorageReady, items' \in [Ids -> Item], saved' = Persisted(items', gen')
  PROVE  CompletionIsSaved'
<1>1. saved'.items = Quiet(items')
  BY DEF Persisted
<1>2. \A i \in Ids : Quiet(items')[i].done = items'[i].done
  BY DEF Quiet, Item
<1> QED BY <1>1, <1>2 DEF CompletionIsSaved

\* Reading the configuration completes an item only together with a save.
LEMMA TickSaves ==
  ASSUME StorageReady, running, IInv', CompletionIsSaved, NEW new, NEW ok, NEW its, NEW ts, NEW s,
         NEW g, NEW evs, NEW rebased, \A i \in Ids : its[i].done => items[i].done,
         Tick(new, ok, its, ts, s, g, evs, rebased)
  PROVE  CompletionIsSaved'
<1>1. CASE ConfigNew(ts, g)
  <2>1. saved' = Persisted(items', gen') /\ items' \in [Ids -> Item]
    BY <1>1 DEF Tick, IInv, Typed
  <2> QED BY <2>1, DoneIsSaved
<1>2. CASE ~ConfigNew(ts, g)
  <2>1. saved' = saved /\ items' = Applied(its, ts, g, IF ok THEN new ELSE 0, ok)
    BY <1>2 DEF Tick
  <2>2. (g = file.gen /\ g # 0) \/ Edited(ts) = {}
    BY <1>2 DEF ConfigNew
  <2>3. items' = its
    BY <2>1, <2>2, Zenon DEF Applied
  <2> QED BY <2>1, <2>3 DEF CompletionIsSaved
<1> QED BY <1>1, <1>2

\* A reset completes nothing.
LEMMA ResetUndone ==
  ASSUME NEW its, NEW ts, NEW day, NEW keep
  PROVE  \A i \in Ids : Reset(its, ts, day, keep)[i].done => keep /\ its[i].done
BY DEF Reset, Fresh

LEMMA TimerSaves ==
  ASSUME StorageReady, IInv, IInv', CompletionIsSaved,
         ClockTick \/ ClockStep \/ ClockArrives \/ NoClockTick
  PROVE  CompletionIsSaved'
<1>1. CASE ClockTick
  <2>1. PICK new \in now..(now + MaxStep) :
          \E q \in DueOrders(Rolled(new), IF new = now THEN {} ELSE DueIn(Rolled(new), Since(new), new)) :
            Tick(new, TRUE, Reminded(Rolled(new), q, seq), times, seq + Len(q), gen,
                 Events(Rolled(new), q, seq), FALSE)
    BY <1>1 DEF ClockTick
  <2>2. PICK q : Tick(new, TRUE, Reminded(Rolled(new), q, seq), times, seq + Len(q), gen,
                      Events(Rolled(new), q, seq), FALSE)
    BY <2>1
  <2>3. new \in Nat /\ Day(new) \in Nat /\ Answers(items, seq) /\ times \in FileTimes
    BY Sizes, Minutes DEF IInv, Typed
  <2>4. Rolled(new) \in [Ids -> Item] /\ \A i \in Ids : Rolled(new)[i].done => items[i].done
    BY <2>3, ResetItems, ResetUndone, Zenon DEF Rolled, IInv, Typed
  <2>5. \A i \in Ids : Reminded(Rolled(new), q, seq)[i].done => items[i].done
    BY <2>4 DEF Reminded, Item
  <2> QED BY <1>1, <2>2, <2>5, TickSaves DEF ClockTick
<1>2. CASE ClockStep
  <2>1. PICK new \in Jumps :
          Tick(new, TRUE, Reset(<<>>, DefaultTimes, Day(new), FALSE), DefaultTimes, 0, 0, <<>>, TRUE)
    BY <1>2 DEF ClockStep
  <2>2. \A i \in Ids : Reset(<<>>, DefaultTimes, Day(new), FALSE)[i].done => items[i].done
    BY ResetUndone
  <2> QED BY <1>2, <2>1, <2>2, TickSaves DEF ClockStep
<1>3. CASE ClockArrives
  <2>1. \A i \in Ids : Reset(<<>>, times, Day(now), FALSE)[i].done => items[i].done
    BY ResetUndone
  <2> QED BY <1>3, <2>1, TickSaves DEF ClockArrives
<1>4. CASE NoClockTick
  BY <1>4, TickSaves DEF NoClockTick
<1> QED BY <1>1, <1>2, <1>3, <1>4

LEMMA StartSaves ==
  ASSUME StorageReady, IInv', CompletionIsSaved, Start
  PROVE  CompletionIsSaved'
<1>1. PICK ok \in BOOLEAN, new \in {now} \cup {t \in Jumps : t > now} :
        LET m   == IF ok THEN new ELSE 0
            its == IF saved = NoState THEN Reset(<<>>, DefaultTimes, Day(m), FALSE)
                                         ELSE saved.items
            g   == IF saved = NoState THEN 0 ELSE saved.gen
        IN /\ clockOk' = ok /\ now' = new
           /\ items' = Applied(its, DefaultTimes, g, m, ok)
           /\ gen' = file.gen /\ times' = file.times
           /\ saved' = IF ConfigNew(DefaultTimes, g) THEN Persisted(items', gen') ELSE saved
  BY DEF Start
<1> DEFINE m   == IF ok THEN new ELSE 0
           its == IF saved = NoState THEN Reset(<<>>, DefaultTimes, Day(m), FALSE) ELSE saved.items
           g   == IF saved = NoState THEN 0 ELSE saved.gen
<1>2. /\ items' = Applied(its, DefaultTimes, g, m, ok)
      /\ saved' = IF ConfigNew(DefaultTimes, g) THEN Persisted(items', gen') ELSE saved
  BY <1>1
<1>3. \A i \in Ids : its[i].done => saved.items[i].done
  BY ResetUndone
<1> HIDE DEF its, g, m
<1>4. CASE ConfigNew(DefaultTimes, g)
  <2>1. items' \in [Ids -> Item]
    BY DEF IInv, Typed
  <2> QED BY <1>2, <1>4, <2>1, DoneIsSaved
<1>5. CASE ~ConfigNew(DefaultTimes, g)
  <2>1. (g = file.gen /\ g # 0) \/ Edited(DefaultTimes) = {}
    BY <1>5 DEF ConfigNew
  <2>2. items' = its /\ saved' = saved
    BY <1>2, <1>5, <2>1, Zenon DEF Applied
  <2> QED BY <1>3, <2>2 DEF CompletionIsSaved
<1> QED BY <1>4, <1>5

\* Whatever completes an item, a button, a new time already past, or the next
\* morning's restart, has written it down before the callback ends: a power
\* failure between two callbacks forgets no completed item.
THEOREM CompletionsAreSaved == Spec => []CompletionIsSaved
<1>1. CASE ~StorageReady
  <2>1. CompletionIsSaved
    BY <1>1 DEF CompletionIsSaved
  <2> QED BY <2>1, PTL
<1>2. CASE StorageReady
  <2>1. Init => CompletionIsSaved
    BY DEF Init, CompletionIsSaved
  <2>2. IInv /\ IInv' /\ CompletionIsSaved /\ [Next]_vars => CompletionIsSaved'
    <3> SUFFICES ASSUME IInv, IInv', CompletionIsSaved, [Next]_vars
                 PROVE  CompletionIsSaved'
      OBVIOUS
    <3>1. CASE ClockTick \/ ClockStep \/ ClockArrives \/ NoClockTick
      BY <1>2, <3>1, TimerSaves
    <3>2. CASE AnswerDue \/ AnswerItem
      <4>1. saved' = Persisted(items', gen') /\ items' \in [Ids -> Item]
        BY <3>2 DEF AnswerDue, AnswerItem, Press, IInv, Typed
      <4> QED BY <1>2, <4>1, DoneIsSaved
    <3>3. CASE \/ OpenHistory \/ OpenItem \/ CloseDialog \/ ViewCurve
               \/ Speak \/ Spoken \/ ConfigWrite \/ UNCHANGED vars
      <4>1. UNCHANGED <<items, saved>> /\ (running' => running)
        BY <3>3 DEF OpenHistory, OpenItem, CloseDialog, ViewCurve, Speak, Spoken,
                    ConfigWrite, vars, model
      <4> QED BY <4>1 DEF CompletionIsSaved
    <3>4. CASE Start
      BY <1>2, <3>4, StartSaves
    <3>5. CASE Stop
      BY <3>5 DEF Stop, CompletionIsSaved
    <3> QED BY <3>1, <3>2, <3>3, <3>4, <3>5 DEF Next
  <2> QED BY <2>1, <2>2, InitKeeps, NextKeeps, PTL DEF Spec
<1> QED BY <1>1, <1>2
-----------------------------------------------------------------------------
(***************************************************************************)
(* What is shown and what is spoken.                                       *)
(***************************************************************************)
\* Taking out the reminders of K leaves the others.
LEMMA OthersAre ==
  ASSUME NEW S, NEW s \in Seq(S), NEW K
  PROVE  /\ Others(s, K) \in Seq(S) /\ Len(Others(s, K)) <= Len(s)
         /\ Keys(Others(s, K)) = Keys(s) \ K
<1> DEFINE J == {j \in DOMAIN s : Key(s[j]) \notin K}
           upTo(j) == {i \in J : i <= j}
           rank == [j \in J |-> Cardinality(upTo(j))]
           c == Cardinality(J)
           at(n) == CHOOSE j \in J : Cardinality(upTo(j)) = n
<1>1. Len(s) \in Nat /\ DOMAIN s = 1..Len(s) /\ \A j \in 1..Len(s) : s[j] \in S
  OBVIOUS
<1>2. J \in SUBSET (1..Len(s)) /\ J \subseteq Nat
  BY <1>1
<1>3. IsFiniteSet(J) /\ c \in Nat /\ c <= Len(s)
  <2>1. IsFiniteSet(1..Len(s)) /\ Cardinality(1..Len(s)) = Len(s)
    <3> DEFINE l == Len(s)
    <3>1. l \in Nat /\ 1 \in Int /\ l \in Int
      BY <1>1
    <3> HIDE DEF l
    <3>2. IsFiniteSet(1..l) /\ Cardinality(1..l) = IF 1 > l THEN 0 ELSE l - 1 + 1
      BY <3>1, FS_Interval
    <3>3. Cardinality(1..l) = l
      BY <3>1, <3>2
    <3> QED BY <3>2, <3>3 DEF l
  <2> HIDE DEF J
  <2>2. IsFiniteSet(J) /\ Cardinality(J) <= Len(s)
    BY <1>2, <2>1, FS_Subset
  <2> QED BY <2>2, FS_CardinalityType
<1>4. Others(s, K) = [n \in 1..c |-> s[at(n)]]
  BY DEF Others
<1>5. \A j \in J : j \in upTo(j) /\ upTo(j) \in SUBSET J
  BY <1>2
<1> HIDE DEF J
<1>6. \A j \in J : rank[j] \in 1..c
  <2> SUFFICES ASSUME NEW j \in J PROVE rank[j] \in 1..c
    OBVIOUS
  <2>1. IsFiniteSet(upTo(j)) /\ Cardinality(upTo(j)) \in Nat /\ Cardinality(upTo(j)) <= c
    BY <1>3, <1>5, FS_Subset, FS_CardinalityType
  <2>2. Cardinality(upTo(j)) # 0
    BY <1>5, <2>1, FS_EmptySet
  <2> QED BY <1>3, <2>1, <2>2
<1>7. \A j, k \in J : rank[j] = rank[k] => j = k
  <2>1. \A j, k \in J : j < k => rank[j] # rank[k]
    <3> SUFFICES ASSUME NEW j \in J, NEW k \in J, j < k, rank[j] = rank[k] PROVE FALSE
      OBVIOUS
    <3>0. j \in Nat /\ k \in Nat /\ \A i \in J : i \in Nat
      BY <1>2
    <3>1. upTo(j) \in SUBSET upTo(k) /\ k \in upTo(k) /\ k \notin upTo(j)
      <4>1. \A i \in J : i <= j => i <= k
        BY <3>0
      <4>2. k <= k /\ ~(k <= j)
        BY <3>0
      <4> QED BY <4>1, <4>2
    <3>2. IsFiniteSet(upTo(k)) /\ Cardinality(upTo(k)) = Cardinality(upTo(j))
      BY <1>3, <1>5, FS_Subset
    <3>3. upTo(k) = upTo(j)
      BY <3>1, <3>2, FS_Subset
    <3> QED BY <3>1, <3>3
  <2>2. \A j, k \in J : j = k \/ j < k \/ k < j
    BY <1>2
  <2> QED BY <2>1, <2>2
<1>8. \A n \in 1..c : \E j \in J : rank[j] = n
  <2>1. rank \in Injection(J, 1..c)
    BY <1>6, <1>7 DEF Injection, IsInjective
  <2>2. IsFiniteSet(1..c) /\ Cardinality(1..c) = c
    BY <1>3, FS_Interval
  <2>3. rank \in Surjection(J, 1..c)
    BY <2>1, <2>2, FS_Injection
  <2> QED BY <2>3 DEF Surjection
<1>9. \A j \in J : rank[j] = Cardinality(upTo(j))
  OBVIOUS
<1>10. \A n \in 1..c : at(n) \in J /\ rank[at(n)] = n
  BY <1>8, <1>9
<1> HIDE DEF rank, at, c
<1>11. \A n \in 1..c : s[at(n)] \in S /\ Key(s[at(n)]) \in Keys(s) \ K
  BY <1>1, <1>2, <1>10 DEF J, Keys
<1>12. Others(s, K) \in Seq(S) /\ DOMAIN Others(s, K) = 1..c /\ Len(Others(s, K)) = c
  <2>1. Others(s, K) \in Seq(S) /\ DOMAIN Others(s, K) = 1..c
    BY <1>3, <1>4, <1>11, IsASeq
  <2> QED BY <1>3, <2>1
<1>13. Keys(Others(s, K)) \subseteq Keys(s) \ K
  BY <1>4, <1>11, <1>12 DEF Keys
<1>14. Keys(s) \ K \subseteq Keys(Others(s, K))
  <2> SUFFICES ASSUME NEW j \in DOMAIN s, Key(s[j]) \notin K
               PROVE  Key(s[j]) \in Keys(Others(s, K))
    BY DEF Keys
  <2>1. j \in J
    BY DEF J
  <2>2. rank[j] \in 1..c /\ at(rank[j]) = j
    BY <2>1, <1>6, <1>7, <1>10
  <2> QED BY <2>2, <1>4, <1>12 DEF Keys
<1> QED BY <1>3, <1>12, <1>13, <1>14

\* The keys of a queue: of its ends, of two of them, of the part there is room for.
LEMMA KeysOf ==
  ASSUME NEW S, NEW s \in Seq(S), NEW t \in Seq(S)
  PROVE  /\ s \o t \in Seq(S) /\ Keys(s \o t) = Keys(s) \cup Keys(t)
         /\ s # <<>> => /\ Head(s) \in S /\ Tail(s) \in Seq(S) /\ Len(Tail(s)) = Len(s) - 1
                        /\ Keys(s) = {Key(Head(s))} \cup Keys(Tail(s))
         /\ Room(s) \in Seq(S) /\ Keys(Room(s)) \subseteq Keys(s) /\ Len(Room(s)) <= QueueMax
         /\ Len(Room(s)) < QueueMax => Room(s) = s
<1>1. s \o t \in Seq(S) /\ Keys(s \o t) = Keys(s) \cup Keys(t)
  <2> DEFINE u == s \o t
  <2>1. /\ u \in Seq(S) /\ Len(u) = Len(s) + Len(t)
        /\ \A i \in 1 .. Len(s) + Len(t) : u[i] = IF i <= Len(s) THEN s[i] ELSE t[i - Len(s)]
    BY ConcatProperties
  <2>2. /\ Len(s) \in Nat /\ Len(t) \in Nat
        /\ DOMAIN u = 1..(Len(s) + Len(t)) /\ DOMAIN s = 1..Len(s) /\ DOMAIN t = 1..Len(t)
    BY <2>1, LenProperties
  <2> HIDE DEF u
  <2>3. Keys(u) \subseteq Keys(s) \cup Keys(t)
    <3> SUFFICES ASSUME NEW k \in DOMAIN u PROVE Key(u[k]) \in Keys(s) \cup Keys(t)
      BY DEF Keys
    <3>1. CASE k <= Len(s)
      <4>1. k \in DOMAIN s /\ u[k] = s[k]
        BY <2>1, <2>2, <3>1
      <4> QED BY <4>1 DEF Keys
    <3>2. CASE ~(k <= Len(s))
      <4>1. k - Len(s) \in DOMAIN t /\ u[k] = t[k - Len(s)]
        BY <2>1, <2>2, <3>2
      <4> QED BY <4>1 DEF Keys
    <3> QED BY <3>1, <3>2
  <2>4. Keys(s) \subseteq Keys(u)
    BY <2>1, <2>2 DEF Keys
  <2>5. Keys(t) \subseteq Keys(u)
    <3> SUFFICES ASSUME NEW k \in DOMAIN t PROVE Key(t[k]) \in Keys(u)
      BY DEF Keys
    <3>1. Len(s) + k \in DOMAIN u /\ u[Len(s) + k] = t[k]
      BY <2>1, <2>2
    <3> QED BY <3>1 DEF Keys
  <2> QED BY <2>1, <2>3, <2>4, <2>5 DEF u
<1>2. ASSUME s # <<>>
      PROVE  /\ Head(s) \in S /\ Tail(s) \in Seq(S) /\ Len(Tail(s)) = Len(s) - 1
             /\ Keys(s) = {Key(Head(s))} \cup Keys(Tail(s))
  <2> DEFINE u == Tail(s)
  <2>1. /\ Head(s) \in S /\ u \in Seq(S) /\ Len(u) = Len(s) - 1
        /\ \A i \in 1 .. Len(u) : u[i] = s[i+1]
    BY <1>2, HeadTailProperties
  <2>2. Head(s) = s[1] /\ Len(s) \in Nat /\ Len(s) # 0
    BY <1>2
  <2>3. DOMAIN u = 1..(Len(s) - 1) /\ DOMAIN s = 1..Len(s)
    BY <2>1, LenProperties
  <2> HIDE DEF u
  <2>4. Keys(u) \subseteq Keys(s) /\ Key(Head(s)) \in Keys(s)
    <3>1. 1 \in DOMAIN s /\ \A i \in DOMAIN u : i + 1 \in DOMAIN s /\ u[i] = s[i + 1]
      BY <2>1, <2>2, <2>3
    <3> QED BY <2>2, <3>1 DEF Keys
  <2>5. \A i \in DOMAIN s : Key(s[i]) \in {Key(Head(s))} \cup Keys(u)
    <3> SUFFICES ASSUME NEW i \in DOMAIN s, i # 1 PROVE Key(s[i]) \in Keys(u)
      BY <2>2
    <3>1. i - 1 \in DOMAIN u /\ u[i - 1] = s[i]
      BY <2>1, <2>2, <2>3
    <3> QED BY <3>1 DEF Keys
  <2>6. Keys(s) = {Key(Head(s))} \cup Keys(u)
    BY <2>4, <2>5 DEF Keys
  <2> QED BY <2>1, <2>6 DEF u
<1>3. /\ Room(s) \in Seq(S) /\ Keys(Room(s)) \subseteq Keys(s) /\ Len(Room(s)) <= QueueMax
      /\ Len(Room(s)) < QueueMax => Room(s) = s
  <2> DEFINE m == IF Len(s) < QueueMax THEN Len(s) ELSE QueueMax
             u == SubSeq(s, 1, m)
  <2>1. m \in Nat /\ m <= Len(s) /\ m <= QueueMax /\ Len(s) \in Nat /\ DOMAIN s = 1..Len(s)
    BY Sizes
  <2>2. u = Room(s)
    BY DEF Room
  <2>3. m < QueueMax => m = Len(s)
    BY Sizes
  <2> HIDE DEF m
  <2>4. \A i \in 1..m : s[i] \in S
    BY <2>1
  <2>5. u \in Seq(S) /\ Len(u) = m /\ \A i \in 1..m : u[i] = s[i]
    <3>1. u \in Seq(S) /\ Len(u) = (IF 1 <= m THEN m - 1 + 1 ELSE 0)
          /\ \A i \in 1..(m - 1 + 1) : u[i] = s[1 + i - 1]
      BY <2>1, <2>4, SubSeqProperties
    <3> QED BY <3>1, <2>1
  <2>6. DOMAIN u = 1..m
    BY <2>5, LenProperties
  <2>7. m = Len(s) => u = s
    BY SubSeqFull
  <2> HIDE DEF u
  <2>8. Keys(u) \subseteq Keys(s)
    BY <2>1, <2>5, <2>6 DEF Keys
  <2>9. /\ u \in Seq(S) /\ Keys(u) \subseteq Keys(s) /\ Len(u) <= QueueMax
        /\ Len(u) < QueueMax => u = s
    BY <2>1, <2>3, <2>5, <2>7, <2>8
  <2> QED BY <2>2, <2>9
<1> QED BY <1>1, <1>2, <1>3

\* A reminder has a number, and what the screen and the voice hold are reminders.
Reminder == {e \in Event : e.seq # 0}
Dialog == [kind : {"none", "history", "item", "doneItem", "due"}, ev : Event \cup {NoEvent}]
Numbered(d) == d \in Dialog /\ (d.kind = "due" => d.ev \in Reminder)
Queued(s) == s \in Seq(Reminder) /\ Len(s) <= QueueMax
Shown ==
  /\ running \in BOOLEAN /\ hushed \in BOOLEAN
  /\ Numbered(dialog) /\ Queued(popups) /\ Queued(voice)
  /\ speaking \in Reminder \cup {NoEvent}
OnScreen == Keys(popups) \cup KeysOnTop(dialog)
\* A step that cuts no popup off keeps what is spoken on the screen.
StaysOnScreen == SpokenIsOnScreen /\ Len(popups') < QueueMax => SpokenIsOnScreen'

\* The key of a reminder has a number too.
LEMMA KeysNumbered ==
  ASSUME NEW s \in Seq(Reminder), NEW k, k[2] = 0
  PROVE  k \notin Keys(s)
<1>1. \A i \in DOMAIN s : s[i] \in Reminder
  OBVIOUS
<1>2. \A e : Key(e)[2] = e.seq
  BY DEF Key
<1> QED BY <1>1, <1>2 DEF Keys, Reminder

\* What remains of a queue without the reminder k.
LEMMA WithoutIs ==
  ASSUME NEW s, Queued(s), NEW k
  PROVE  Queued(Without(s, k)) /\ Keys(Without(s, k)) = Keys(s) \ {k}
<1>1. CASE k[2] = 0
  BY <1>1, KeysNumbered DEF Without, Queued
<1>2. CASE k[2] # 0
  <2>1. Without(s, k) = Others(s, {k})
    BY <1>2 DEF Without
  <2>2. /\ Others(s, {k}) \in Seq(Reminder) /\ Len(Others(s, {k})) <= Len(s)
        /\ Keys(Others(s, {k})) = Keys(s) \ {k}
    BY OthersAre DEF Queued
  <2>3. Len(Others(s, {k})) <= QueueMax
    <3>1. Len(s) \in Nat /\ Len(Others(s, {k})) \in Nat /\ QueueMax \in Nat /\ Len(s) <= QueueMax
      BY <2>2, Sizes DEF Queued
    <3> QED BY <2>2, <3>1
  <2> QED BY <2>1, <2>2, <2>3 DEF Queued
<1> QED BY <1>1, <1>2

\* What falls due are reminders.
LEMMA EventsAre ==
  ASSUME NEW its \in [Ids -> Item], NEW s \in Nat, NEW old, NEW new,
         NEW S \in SUBSET DueIn(its, old, new), NEW q \in DueOrders(its, S)
  PROVE  Events(its, q, s) \in Seq(Reminder)
<1>1. S \subseteq Ids /\ \A i \in S : its[i].count < Limit /\ its[i].count \in 0..Limit
  BY DEF DueIn, Item
<1>2. Len(q) \in Nat /\ DOMAIN q = 1..Len(q) /\ q \in [1..Len(q) -> S]
  BY <1>1, DueOnce
<1> DEFINE ev(k) == [id |-> q[k], seq |-> s + k, count |-> its[q[k]].count + 1]
<1>3. \A k \in 1..Len(q) : ev(k) \in Reminder
  <2> SUFFICES ASSUME NEW k \in 1..Len(q) PROVE ev(k) \in Reminder
    OBVIOUS
  <2>1. q[k] \in Ids /\ its[q[k]].count + 1 \in 0..Limit /\ s + k \in Nat /\ s + k # 0
    BY <1>1, <1>2, Sizes
  <2> QED BY <2>1 DEF Reminder, Event
<1>4. Events(its, q, s) = [k \in 1..Len(q) |-> ev(k)]
  BY <1>2 DEF Events
<1> HIDE DEF ev
<1> QED BY <1>2, <1>3, <1>4, IsASeq

\* The events evs are on the screen with what was there, unless a popup is cut off.
LEMMA EnqueueShows ==
  ASSUME NEW d, Numbered(d), NEW q, Queued(q), NEW evs \in Seq(Reminder), Enqueue(d, q, evs)
  PROVE  /\ Numbered(dialog') /\ Queued(popups')
         /\ Len(popups') < QueueMax => OnScreen' = Keys(q) \cup KeysOnTop(d) \cup Keys(evs)
<1> DEFINE new == Others(evs, Keys(q) \cup KeysOnTop(d))
           u == q \o new
<1>1. new \in Seq(Reminder) /\ Keys(new) = Keys(evs) \ (Keys(q) \cup KeysOnTop(d))
  BY OthersAre
<1>2. /\ \/ /\ d = NoDialog /\ new # <<>>
            /\ dialog' = DueDialog(Head(u)) /\ popups' = Room(Tail(u))
         \/ dialog' = d /\ popups' = Room(u)
  BY DEF Enqueue
<1> HIDE DEF new
<1>3. q \in Seq(Reminder) /\ u \in Seq(Reminder) /\ Keys(u) = Keys(q) \cup Keys(new)
  BY <1>1, KeysOf DEF Queued
<1>4. CASE d = NoDialog /\ new # <<>> /\ dialog' = DueDialog(Head(u)) /\ popups' = Room(Tail(u))
  <2>1. u # <<>>
    BY <1>1, <1>3, <1>4, ConcatEqualIffEmpty
  <2> HIDE DEF u
  <2>2. Head(u) \in Reminder /\ Tail(u) \in Seq(Reminder) /\ Keys(u) = {Key(Head(u))} \cup Keys(Tail(u))
    BY <1>3, <2>1, KeysOf
  <2>3. /\ Queued(popups')
        /\ Len(popups') < QueueMax => popups' = Tail(u)
    BY <1>4, <2>2, KeysOf DEF Queued
  <2>4. Numbered(dialog') /\ KeysOnTop(dialog') = {Key(Head(u))} /\ KeysOnTop(d) = {}
    BY <1>4, <2>2 DEF DueDialog, Numbered, Dialog, KeysOnTop, Reminder, NoDialog
  <2> QED BY <1>1, <1>3, <2>2, <2>3, <2>4 DEF OnScreen
<1>5. CASE dialog' = d /\ popups' = Room(u)
  <2> HIDE DEF u
  <2>1. /\ Queued(popups')
        /\ Len(popups') < QueueMax => popups' = u
    BY <1>3, <1>5, KeysOf DEF Queued
  <2> QED BY <1>1, <1>3, <1>5, <2>1 DEF OnScreen
<1> QED BY <1>2, <1>4, <1>5

\* The next popup is shown and the others wait.
LEMMA OpenNextShows ==
  ASSUME NEW q, Queued(q), OpenNext(q)
  PROVE  Numbered(dialog') /\ Queued(popups') /\ OnScreen' = Keys(q)
<1>1. CASE q = <<>>
  BY <1>1 DEF OpenNext, Queued, Numbered, Dialog, NoDialog, OnScreen, KeysOnTop
<1>2. CASE q # <<>>
  <2>1. /\ Head(q) \in Reminder /\ Tail(q) \in Seq(Reminder) /\ Len(Tail(q)) = Len(q) - 1
        /\ Keys(q) = {Key(Head(q))} \cup Keys(Tail(q))
    BY <1>2, KeysOf DEF Queued
  <2>2. dialog' = DueDialog(Head(q)) /\ popups' = Tail(q)
    BY <1>2 DEF OpenNext
  <2>3. Numbered(dialog') /\ KeysOnTop(dialog') = {Key(Head(q))}
    BY <2>1, <2>2 DEF DueDialog, Numbered, Dialog, KeysOnTop, Reminder
  <2>4. Len(Tail(q)) <= QueueMax
    BY <2>1, Sizes DEF Queued
  <2> QED BY <2>1, <2>2, <2>3, <2>4 DEF Queued, OnScreen
<1> QED BY <1>1, <1>2

\* What the voice is given is what waited and what fell due.
LEMMA SayAdds ==
  ASSUME NEW q, Queued(q), NEW evs \in Seq(Reminder), Say(q, evs)
  PROVE  Queued(voice') /\ Keys(voice') \subseteq Keys(q) \cup Keys(evs)
<1>1. CASE AudioStarted
  <2> DEFINE new == Others(evs, Keys(q) \cup KeysSpoken)
             u == q \o new
  <2>1. new \in Seq(Reminder) /\ Keys(new) \subseteq Keys(evs)
    BY OthersAre
  <2>2. voice' = Room(u)
    BY <1>1 DEF Say
  <2> HIDE DEF new
  <2>3. u \in Seq(Reminder) /\ Keys(u) = Keys(q) \cup Keys(new)
    BY <2>1, KeysOf DEF Queued
  <2> HIDE DEF u
  <2>4. Queued(Room(u)) /\ Keys(Room(u)) \subseteq Keys(u)
    BY <2>3, KeysOf DEF Queued
  <2> QED BY <2>1, <2>2, <2>3, <2>4
<1>2. CASE ~AudioStarted
  BY <1>2 DEF Say
<1> QED BY <1>1, <1>2

\* The timer shows what it gives to the voice.
LEMMA TickShows ==
  ASSUME Shown, NEW new, NEW ok, NEW its, NEW ts, NEW s, NEW g, NEW evs \in Seq(Reminder),
         NEW rebased \in BOOLEAN, Tick(new, ok, its, ts, s, g, evs, rebased)
  PROVE  Shown' /\ StaysOnScreen
<1> DEFINE clear == rebased \/ ConfigNew(ts, g)
           out == IF DropsDue(ts, g) THEN <<>> ELSE evs
           d == IF clear THEN ClearedScreen ELSE dialog
           q == IF clear THEN <<>> ELSE popups
           v == IF clear THEN <<>> ELSE voice
<1>1. out \in Seq(Reminder)
  OBVIOUS
<1>2. /\ Enqueue(d, q, out) /\ Say(v, out) /\ hushed' = (hushed \/ (clear /\ speaking # NoEvent))
      /\ UNCHANGED <<running, speaking>>
  BY DEF Tick
<1>3. Numbered(d)
  BY DEF Shown, ClearedScreen, Numbered, Dialog, NoDialog
<1>4. Queued(q) /\ Queued(v)
  BY Sizes DEF Shown, Queued
<1>5. clear => Keys(v) = {}
  BY DEF Keys
<1> HIDE DEF out
<1>6. /\ Numbered(dialog') /\ Queued(popups')
      /\ Len(popups') < QueueMax => OnScreen' = Keys(q) \cup KeysOnTop(d) \cup Keys(out)
  BY <1>1, <1>2, <1>3, <1>4, EnqueueShows
<1>7. Queued(voice') /\ Keys(voice') \subseteq Keys(v) \cup Keys(out)
  BY <1>1, <1>2, <1>4, SayAdds
<1>8. Shown'
  BY <1>2, <1>6, <1>7 DEF Shown
<1>9. ~clear => d = dialog /\ q = popups /\ v = voice
  OBVIOUS
<1> HIDE DEF clear, d, q, v
<1>10. StaysOnScreen
  <2> SUFFICES ASSUME SpokenIsOnScreen, OnScreen' = Keys(q) \cup KeysOnTop(d) \cup Keys(out)
               PROVE  SpokenIsOnScreen'
    BY <1>6 DEF StaysOnScreen
  <2>1. KeysSpoken' = KeysSpoken
    BY <1>2 DEF KeysSpoken
  <2>2. CASE clear
    <3>1. hushed' \/ KeysSpoken' = {}
      BY <1>2, <2>1, <2>2 DEF KeysSpoken
    <3> QED BY <1>5, <1>7, <2>2, <3>1 DEF SpokenIsOnScreen, OnScreen
  <2>3. CASE ~clear
    <3>1. hushed' = hushed
      BY <1>2, <2>3 DEF Shown
    <3> QED BY <1>7, <1>9, <2>1, <2>3, <3>1 DEF SpokenIsOnScreen, OnScreen
  <2> QED BY <2>2, <2>3
<1> QED BY <1>8, <1>10

\* What is typed and shown of the old queue and screen, step by step.
LEMMA TimerShows ==
  ASSUME IInv, Shown, ClockTick \/ ClockStep \/ ClockArrives \/ NoClockTick
  PROVE  Shown' /\ StaysOnScreen
<1>0. <<>> \in Seq(Reminder)
  OBVIOUS
<1>1. CASE ClockTick
  <2>1. PICK new \in now..(now + MaxStep) :
          \E q \in DueOrders(Rolled(new), IF new = now THEN {} ELSE DueIn(Rolled(new), Since(new), new)) :
            Tick(new, TRUE, Reminded(Rolled(new), q, seq), times, seq + Len(q), gen,
                 Events(Rolled(new), q, seq), FALSE)
    BY <1>1 DEF ClockTick
  <2> DEFINE S == IF new = now THEN {} ELSE DueIn(Rolled(new), Since(new), new)
  <2>2. PICK q \in DueOrders(Rolled(new), S) :
            Tick(new, TRUE, Reminded(Rolled(new), q, seq), times, seq + Len(q), gen,
                 Events(Rolled(new), q, seq), FALSE)
    BY <2>1
  <2>3. new \in Nat /\ seq \in Nat
    BY Sizes DEF IInv, Typed
  <2>4. Rolled(new) \in [Ids -> Item]
    BY <2>3, ResetItems, Minutes, Zenon DEF IInv, Typed, Rolled
  <2>5. S \in SUBSET DueIn(Rolled(new), Since(new), new)
    OBVIOUS
  <2> HIDE DEF S
  <2>6. Events(Rolled(new), q, seq) \in Seq(Reminder)
    BY <2>3, <2>4, <2>5, EventsAre
  <2> QED BY <2>2, <2>6, TickShows
<1>2. CASE ClockStep
  BY <1>0, <1>2, TickShows DEF ClockStep
<1>3. CASE ClockArrives
  BY <1>0, <1>3, TickShows DEF ClockArrives
<1>4. CASE NoClockTick
  BY <1>0, <1>4, TickShows DEF NoClockTick
<1> QED BY <1>1, <1>2, <1>3, <1>4

\* The reminder that a button of a popup ends is the one on the popup.
LEMMA EndsItsOwn ==
  ASSUME Shown, dialog.kind = "due"
  PROVE  Ended(dialog.ev) = Key(dialog.ev)
<1>1. dialog.ev.seq # 0
  BY DEF Shown, Numbered, Reminder
<1> QED BY <1>1 DEF Ended, Stale, Key

\* A button takes the reminder it ends off the screen and from the voice.
LEMMA PressShows ==
  ASSUME Shown, NEW action, Press(action), dialog.kind \in {"due", "item"}
  PROVE  Shown' /\ StaysOnScreen
<1> DEFINE k == Ended(dialog.ev)
           left == Without(popups, k)
<1>1. /\ OpenNext(left) /\ voice' = Without(voice, k)
      /\ hushed' = (hushed \/ k \in KeysSpoken) /\ UNCHANGED <<running, speaking>>
  BY DEF Press
<1>2. KeysOnTop(dialog) \subseteq {k}
  BY EndsItsOwn DEF KeysOnTop
<1> HIDE DEF k
<1>3. Queued(left) /\ Keys(left) = Keys(popups) \ {k}
  BY WithoutIs DEF Shown
<1>4. Queued(voice') /\ Keys(voice') = Keys(voice) \ {k}
  BY <1>1, WithoutIs DEF Shown
<1> HIDE DEF left
<1>5. Numbered(dialog') /\ Queued(popups') /\ OnScreen' = Keys(popups) \ {k}
  BY <1>1, <1>3, OpenNextShows
<1>6. Shown'
  BY <1>1, <1>4, <1>5 DEF Shown
<1>7. StaysOnScreen
  <2> SUFFICES ASSUME SpokenIsOnScreen PROVE SpokenIsOnScreen'
    BY DEF StaysOnScreen
  <2>1. KeysSpoken' = KeysSpoken /\ (~hushed' => ~hushed /\ k \notin KeysSpoken)
    BY <1>1 DEF KeysSpoken, Shown
  <2>2. Keys(voice) \subseteq Keys(popups) \cup {k}
    BY <1>2 DEF SpokenIsOnScreen
  <2>3. ~hushed' => KeysSpoken' \subseteq Keys(popups) \ {k}
    BY <1>2, <2>1 DEF SpokenIsOnScreen
  <2> QED BY <1>4, <1>5, <2>2, <2>3 DEF SpokenIsOnScreen, OnScreen
<1> QED BY <1>6, <1>7

\* The other touches show no less, and the worker speaks what was waiting.
LEMMA RestShows ==
  ASSUME Shown, OpenHistory \/ OpenItem \/ CloseDialog \/ ViewCurve \/ Speak \/ Spoken
  PROVE  Shown' /\ StaysOnScreen
<1>0. NoDialog.kind = "none"
  BY DEF NoDialog
<1>1. CASE OpenHistory
  <2>1. /\ dialog' = [kind |-> "history", ev |-> NoEvent] /\ dialog = NoDialog
        /\ UNCHANGED <<running, popups, voice, speaking, hushed>>
    BY <1>1 DEF OpenHistory, audio
  <2> QED BY <1>0, <2>1 DEF Shown, Numbered, Dialog, StaysOnScreen, SpokenIsOnScreen, KeysOnTop, KeysSpoken
<1>2. CASE OpenItem
  <2>1. PICK i \in Ids :
          /\ dialog' = [kind |-> IF items[i].done THEN "doneItem" ELSE "item",
                        ev |-> [id |-> i, seq |-> 0, count |-> 0]]
          /\ dialog = NoDialog /\ UNCHANGED <<running, popups, voice, speaking, hushed>>
    BY <1>2 DEF OpenItem, audio
  <2>2. [id |-> i, seq |-> 0, count |-> 0] \in Event
    BY Sizes DEF Event
  <2>3. Numbered(dialog') /\ KeysOnTop(dialog') = {} /\ KeysOnTop(dialog) = {}
    BY <1>0, <2>1, <2>2 DEF Numbered, Dialog, KeysOnTop
  <2> QED BY <2>1, <2>3 DEF Shown, StaysOnScreen, SpokenIsOnScreen, KeysSpoken
<1>3. CASE CloseDialog
  <2>1. OpenNext(popups) /\ dialog.kind # "due" /\ UNCHANGED <<running, voice, speaking, hushed>>
    BY <1>3 DEF CloseDialog, audio
  <2>2. Numbered(dialog') /\ Queued(popups') /\ OnScreen' = Keys(popups)
    BY <2>1, OpenNextShows DEF Shown
  <2>3. OnScreen = Keys(popups) /\ KeysSpoken' = KeysSpoken
    BY <2>1 DEF OnScreen, KeysOnTop, KeysSpoken
  <2> QED BY <2>1, <2>2, <2>3 DEF Shown, StaysOnScreen, SpokenIsOnScreen, OnScreen
<1>4. CASE ViewCurve
  <2>1. dialog' = NoDialog /\ dialog.kind = "history" /\ UNCHANGED <<running, popups, voice, speaking, hushed>>
    BY <1>4 DEF ViewCurve, audio
  <2> QED BY <2>1 DEF Shown, Numbered, Dialog, NoDialog, StaysOnScreen, SpokenIsOnScreen, KeysOnTop, KeysSpoken
<1>5. CASE Speak
  <2>1. /\ voice # <<>> /\ speaking' = Head(voice) /\ voice' = Tail(voice) /\ hushed' = FALSE
        /\ UNCHANGED <<running, dialog, popups>>
    BY <1>5 DEF Speak, screen
  <2>2. /\ Head(voice) \in Reminder /\ Tail(voice) \in Seq(Reminder)
        /\ Len(Tail(voice)) = Len(voice) - 1 /\ Keys(voice) = {Key(Head(voice))} \cup Keys(Tail(voice))
    BY <2>1, KeysOf DEF Shown, Queued
  <2>3. Len(Tail(voice)) <= QueueMax
    BY <2>2, Sizes DEF Shown, Queued
  <2>4. KeysSpoken' \subseteq {Key(Head(voice))}
    BY <2>1 DEF KeysSpoken
  <2>5. Shown'
    BY <2>1, <2>2, <2>3 DEF Shown, Queued
  <2>6. SpokenIsOnScreen => SpokenIsOnScreen'
    BY <2>1, <2>2, <2>4 DEF SpokenIsOnScreen, KeysOnTop
  <2> QED BY <2>5, <2>6 DEF StaysOnScreen
<1>6. CASE Spoken
  <2>1. speaking' = NoEvent /\ hushed' = FALSE /\ UNCHANGED <<running, dialog, popups, voice>>
    BY <1>6 DEF Spoken, screen
  <2> QED BY <2>1 DEF Shown, StaysOnScreen, SpokenIsOnScreen, KeysOnTop, KeysSpoken
<1> QED BY <1>1, <1>2, <1>3, <1>4, <1>5, <1>6

\* Before a start there is nothing to show.
LEMMA NothingShown ==
  ASSUME running \in BOOLEAN, dialog = NoDialog, popups = <<>>, voice = <<>>,
         speaking = NoEvent, hushed = FALSE
  PROVE  Shown /\ SpokenIsOnScreen
<1>1. Numbered(dialog)
  BY DEF Numbered, Dialog, NoDialog
<1>2. Queued(popups) /\ Queued(voice)
  BY Sizes DEF Queued
<1>3. Keys(voice) = {} /\ KeysSpoken = {}
  BY DEF Keys, KeysSpoken
<1> QED BY <1>1, <1>2, <1>3 DEF Shown, SpokenIsOnScreen

LEMMA ShownKept ==
  ASSUME IInv, Shown, [Next]_vars
  PROVE  Shown' /\ StaysOnScreen
<1>1. CASE ClockTick \/ ClockStep \/ ClockArrives \/ NoClockTick
  BY <1>1, TimerShows
<1>2. CASE AnswerDue \/ AnswerItem
  BY <1>2, PressShows DEF AnswerDue, AnswerItem
<1>3. CASE OpenHistory \/ OpenItem \/ CloseDialog \/ ViewCurve \/ Speak \/ Spoken
  BY <1>3, RestShows
<1>4. CASE Start \/ Stop
  <2>1. /\ running' \in BOOLEAN /\ dialog' = NoDialog /\ popups' = <<>> /\ voice' = <<>>
        /\ speaking' = NoEvent /\ hushed' = FALSE
    BY <1>4 DEF Start, Stop
  <2>2. Numbered(dialog')
    BY <2>1 DEF Numbered, Dialog, NoDialog
  <2>3. Queued(popups') /\ Queued(voice')
    BY <2>1, Sizes DEF Queued
  <2>4. Keys(voice') = {} /\ KeysSpoken' = {}
    BY <2>1 DEF Keys, KeysSpoken
  <2> QED BY <2>1, <2>2, <2>3, <2>4 DEF Shown, SpokenIsOnScreen, StaysOnScreen
<1>5. CASE ConfigWrite \/ UNCHANGED vars
  <2>1. UNCHANGED <<running, dialog, popups, voice, speaking, hushed>>
    BY <1>5 DEF ConfigWrite, vars, screen, audio
  <2> QED BY <2>1 DEF Shown, StaysOnScreen, SpokenIsOnScreen, KeysOnTop, KeysSpoken
<1> QED BY <1>1, <1>2, <1>3, <1>4, <1>5 DEF Next

LEMMA InitShows == Init => Shown /\ SpokenIsOnScreen
BY NothingShown DEF Init

\* Every variable of the manager keeps its type; no queue grows beyond its length.
THEOREM TypeCorrect == Spec => []TypeOK
<1>1. IInv /\ Shown => TypeOK
  <2>1. Reminder \subseteq Event /\ \A s \in Seq(Reminder) : s \in Seq(Event)
    BY DEF Reminder
  <2> QED BY <2>1 DEF IInv, Typed, Shown, Numbered, Dialog, Queued, TypeOK
<1> QED BY <1>1, InitKeeps, NextKeeps, InitShows, ShownKept, PTL DEF Spec

\* Unless so many reminders wait that a popup is cut off, what will be spoken, or is
\* being spoken and was not cancelled, can be seen or waits to be seen: an answer, an
\* edit, midnight and a clock that is set take away popup and voice together.
THEOREM SpokenIsShown == Spec /\ [](Len(popups) < QueueMax) => []SpokenIsOnScreen
<1> DEFINE Roomy == Len(popups) < QueueMax
<1>1. IInv /\ Shown /\ SpokenIsOnScreen /\ Roomy' /\ [Next]_vars => SpokenIsOnScreen'
  BY ShownKept DEF StaysOnScreen
<1>2. IInv /\ Shown /\ [Next]_vars => Shown'
  BY ShownKept
<1> QED BY <1>1, <1>2, InitKeeps, NextKeeps, InitShows, PTL DEF Spec

\* The buttons of a popup touch the item of the reminder that it shows, and only
\* while that reminder is the open one of its item.
THEOREM AnswersEndWhatIsShown == Spec => AnswerEndsWhatItShows
<1> DEFINE Own == AnswerDue => \A i \in Ids : items'[i] # items[i]
                    => Key(dialog.ev) = <<i, items[i].seq>> /\ items[i].notified
<1>1. IInv /\ Shown => Own
  <2> SUFFICES ASSUME IInv, Shown, AnswerDue, NEW i \in Ids, items'[i] # items[i]
               PROVE  Key(dialog.ev) = <<i, items[i].seq>> /\ items[i].notified
    OBVIOUS
  <2> DEFINE e == dialog.ev
  <2>1. PICK action : Press(action)
    BY DEF AnswerDue
  <2>2. e.seq # 0
    BY DEF AnswerDue, Shown, Numbered, Reminder
  <2>3. ~Stale(e) /\ items' = Acted(e, action)
    BY <2>1 DEF Press
  <2>4. e.id = i
    BY <2>3 DEF Acted, IInv, Typed
  <2> QED BY <2>2, <2>3, <2>4 DEF Stale, Key
<1>2. IInv /\ Shown /\ [Next]_vars => Shown'
  BY ShownKept
<1>3. AnswerEndsWhatItShows <=> [][Own]_vars
  BY DEF AnswerEndsWhatItShows
<1> QED BY <1>1, <1>2, <1>3, InitKeeps, NextKeeps, InitShows, PTL DEF Spec

-----------------------------------------------------------------------------
(***************************************************************************)
(* What falls due is reminded.                                             *)
(***************************************************************************)
\* An item that was reminded as often as it may be is not due again.
Spent(its, m) == \A i \in Ids : its[i].count < Limit \/ its[i].due <= m
\* Nor is it after a restart: what was saved is spent as well, or there is nothing
\* saved.  A configuration of the generation 0 is the default one.
DueInv ==
  /\ Spent(items, now)
  /\ IF StorageReady THEN Spent(saved.items, now) ELSE saved = NoState
  /\ gen = 0 => times = DefaultTimes
  /\ file.gen = 0 => file.times = DefaultTimes

\* A reset makes no item spent.
LEMMA ResetSpent ==
  ASSUME NEW its, NEW ts \in FileTimes, NEW day \in Nat, NEW keep \in BOOLEAN, NEW m,
         keep => Spent(its, m)
  PROVE  Spent(Reset(its, ts, day, keep), m)
<1>1. \A i \in Ids : Fresh(ts[i], day).count = 0
  BY DEF Fresh
<1>2. 0 < Limit
  BY Sizes
<1> QED BY <1>1, <1>2, Zenon DEF Spent, Reset

\* Nor does reading the configuration.
LEMMA AppliedSpent ==
  ASSUME NEW its \in [Ids -> Item], NEW ts, NEW g, NEW m \in Nat, NEW ok \in BOOLEAN, NEW n,
         Spent(its, n), file \in [gen : Nat, times : FileTimes]
  PROVE  Spent(Applied(its, ts, g, m, ok), n)
<1> DEFINE edit(i) == [Fresh(file.times[i], Day(m)) EXCEPT
                         !.done = ok /\ Day(m) * DayLen + file.times[i] < m]
           new == [i \in Ids |-> IF i \in Edited(ts) THEN edit(i) ELSE its[i]]
<1>1. \A i \in Ids : file.times[i] \in 0..(DayLen - 1)
  BY TimesKnown
<1>2. \A i \in Ids : Fresh(file.times[i], Day(m)) \in Item /\ Fresh(file.times[i], Day(m)).count = 0
  BY <1>1, FreshItem, Minutes
<1>3. \A i \in Ids : edit(i) \in Item /\ edit(i).count = 0
  BY <1>2 DEF Item
<1> HIDE DEF edit
<1>4. new \in [Ids -> Item] /\ Spent(new, n)
  BY <1>3, Sizes DEF Spent
<1>5. CASE (g = file.gen /\ g # 0) \/ Edited(ts) = {}
  BY <1>5 DEF Applied
<1>6. CASE ~((g = file.gen /\ g # 0) \/ Edited(ts) = {})
  <2>1. Applied(its, ts, g, m, ok) = Quiet(new)
    BY <1>6 DEF Applied, edit
  <2> HIDE DEF new
  <2>2. \A i \in Ids : Quiet(new)[i].count = new[i].count /\ Quiet(new)[i].due = new[i].due
    BY <1>4 DEF Quiet, Item
  <2> QED BY <1>4, <2>1, <2>2 DEF Spent
<1> QED BY <1>5, <1>6

\* The items it reminds of are due.
LEMMA RemindedSpent ==
  ASSUME NEW its \in [Ids -> Item], NEW s, NEW old, NEW new \in Nat, Spent(its, new),
         NEW S \in SUBSET DueIn(its, old, new), NEW q \in DueOrders(its, S)
  PROVE  Spent(Reminded(its, q, s), new)
<1>1. S \subseteq Ids /\ \A i \in S : its[i].due <= new
  BY DEF DueIn
<1>2. \A k \in DOMAIN q : q[k] \in S
  BY <1>1, DueOnce
<1>3. \A i \in Ids : \/ Reminded(its, q, s)[i] = its[i]
                     \/ i \in S /\ Reminded(its, q, s)[i].due = its[i].due
  BY <1>2 DEF Reminded, Item
<1> QED BY <1>1, <1>3 DEF Spent

\* Time makes no item spent, and it takes away none.
LEMMA SpentLater ==
  ASSUME NEW its \in [Ids -> Item], NEW m \in Nat, NEW n \in Nat, m <= n, Spent(its, m)
  PROVE  Spent(its, n)
<1>1. \A i \in Ids : its[i].due \in Nat
  BY DEF Item
<1> QED BY <1>1 DEF Spent

\* What is saved is spent when the items are.
LEMMA SavedSpent ==
  ASSUME IInv, DueInv, items' \in [Ids -> Item], now' \in Nat, Spent(items', now'),
         StorageReady => now <= now', saved' = saved \/ saved' = Persisted(items', gen')
  PROVE  IF StorageReady THEN Spent(saved'.items, now') ELSE saved' = NoState
<1>1. CASE ~StorageReady
  BY <1>1 DEF DueInv, Persisted
<1>2. CASE StorageReady /\ saved' = saved
  <2>1. saved.items \in [Ids -> Item] /\ now \in Nat
    BY DEF IInv, Typed
  <2> QED BY <1>2, <2>1, SpentLater DEF DueInv
<1>3. CASE StorageReady /\ saved' = Persisted(items', gen')
  <2>1. saved'.items = Quiet(items')
    BY <1>3 DEF Persisted
  <2>2. \A i \in Ids : Quiet(items')[i].count = items'[i].count /\ Quiet(items')[i].due = items'[i].due
    BY DEF Quiet, Item
  <2> QED BY <1>3, <2>1, <2>2 DEF Spent
<1> QED BY <1>1, <1>2, <1>3

\* A run of the timer callback over items that are spent when they may be.
LEMMA TickSpent ==
  ASSUME IInv, DueInv, IInv', NEW new \in Nat, NEW ok \in BOOLEAN, NEW its \in [Ids -> Item], NEW ts,
         NEW s, NEW g, NEW evs, NEW rebased, Spent(its, new), StorageReady => now <= new,
         Tick(new, ok, its, ts, s, g, evs, rebased)
  PROVE  DueInv'
<1> DEFINE m == IF ok THEN new ELSE 0
<1>1. /\ now' = new /\ items' = Applied(its, ts, g, m, ok)
      /\ times' = file.times /\ gen' = file.gen /\ file' = file
      /\ saved' = saved \/ saved' = Persisted(items', gen')
  BY DEF Tick
<1>2. m \in Nat /\ file \in [gen : Nat, times : FileTimes]
  BY DEF IInv, Typed
<1> HIDE DEF m
<1>3. items' \in [Ids -> Item] /\ Spent(items', now')
  BY <1>1, <1>2, AppliedSpent DEF IInv, Typed
<1>4. IF StorageReady THEN Spent(saved'.items, now') ELSE saved' = NoState
  BY <1>1, <1>3, SavedSpent
<1> QED BY <1>1, <1>3, <1>4 DEF DueInv, Spent

\* The items of a tick of the clock, before the configuration is read.
LEMMA TickItems ==
  ASSUME IInv, DueInv, NEW new \in Nat, now <= new, NEW S \in SUBSET DueIn(Rolled(new), Since(new), new),
         NEW q \in DueOrders(Rolled(new), S)
  PROVE  /\ Rolled(new) \in [Ids -> Item] /\ Spent(Rolled(new), now)
         /\ Reminded(Rolled(new), q, seq) \in [Ids -> Item] /\ Spent(Reminded(Rolled(new), q, seq), new)
<1>1. /\ now \in Nat /\ seq \in Nat /\ items \in [Ids -> Item] /\ times \in FileTimes
      /\ Day(new) \in Nat /\ Answers(items, seq) /\ Spent(items, now)
  BY Minutes DEF IInv, Typed, DueInv
<1>2. Rolled(new) \in [Ids -> Item] /\ Answers(Rolled(new), seq)
  BY <1>1, ResetItems, Zenon DEF Rolled
<1>3. Spent(Rolled(new), now)
  BY <1>1, ResetSpent, Zenon DEF Rolled
<1>4. Spent(Rolled(new), new)
  BY <1>1, <1>2, <1>3, SpentLater
<1> QED BY <1>1, <1>2, <1>3, <1>4, RemindedItems, RemindedSpent

LEMMA TimerSpent ==
  ASSUME IInv, DueInv, IInv', StorageReady => now <= now',
         ClockTick \/ ClockStep \/ ClockArrives \/ NoClockTick
  PROVE  DueInv'
<1>0. now \in Nat /\ times \in FileTimes /\ items \in [Ids -> Item] /\ Day(now) \in Nat
  BY Minutes DEF IInv, Typed
<1>1. CASE ClockTick
  <2>1. PICK new \in now..(now + MaxStep) :
          \E q \in DueOrders(Rolled(new), IF new = now THEN {} ELSE DueIn(Rolled(new), Since(new), new)) :
            Tick(new, TRUE, Reminded(Rolled(new), q, seq), times, seq + Len(q), gen,
                 Events(Rolled(new), q, seq), FALSE)
    BY <1>1 DEF ClockTick
  <2> DEFINE S == IF new = now THEN {} ELSE DueIn(Rolled(new), Since(new), new)
  <2>2. PICK q \in DueOrders(Rolled(new), S) :
            Tick(new, TRUE, Reminded(Rolled(new), q, seq), times, seq + Len(q), gen,
                 Events(Rolled(new), q, seq), FALSE)
    BY <2>1
  <2>3. new \in Nat /\ now <= new /\ S \in SUBSET DueIn(Rolled(new), Since(new), new)
    BY <1>0, Sizes
  <2> HIDE DEF S
  <2>4. /\ Reminded(Rolled(new), q, seq) \in [Ids -> Item]
        /\ Spent(Reminded(Rolled(new), q, seq), new)
    BY <2>3, TickItems
  <2> QED BY <2>2, <2>3, <2>4, TickSpent
<1>2. CASE ClockStep
  <2>1. PICK new \in Jumps :
          Tick(new, TRUE, Reset(<<>>, DefaultTimes, Day(new), FALSE), DefaultTimes, 0, 0, <<>>, TRUE)
    BY <1>2 DEF ClockStep
  <2>2. new \in Nat /\ Day(new) \in Nat /\ DefaultTimes \in FileTimes
    BY Switches, Minutes, TimesKnown
  <2>3. /\ Reset(<<>>, DefaultTimes, Day(new), FALSE) \in [Ids -> Item]
        /\ Spent(Reset(<<>>, DefaultTimes, Day(new), FALSE), new)
    BY <2>2, ResetItems, ResetSpent
  <2>4. now' = new
    BY <2>1 DEF Tick
  <2> QED BY <2>1, <2>2, <2>3, <2>4, TickSpent
<1>3. CASE ClockArrives
  <2>1. Reset(<<>>, times, Day(now), FALSE) \in [Ids -> Item] /\ Spent(Reset(<<>>, times, Day(now), FALSE), now)
    BY <1>0, ResetItems, ResetSpent
  <2>2. now <= now /\ TRUE \in BOOLEAN
    BY <1>0
  <2>3. Tick(now, TRUE, Reset(<<>>, times, Day(now), FALSE), times, seq, gen, <<>>, TRUE)
    BY <1>3 DEF ClockArrives
  <2> QED BY ONLY IInv, DueInv, IInv', <1>0, <2>1, <2>2, <2>3, TickSpent
<1>4. CASE NoClockTick
  <2>1. Spent(items, now) /\ now <= now /\ FALSE \in BOOLEAN
    BY <1>0 DEF DueInv
  <2>2. Tick(now, FALSE, items, times, seq, gen, <<>>, FALSE)
    BY <1>4 DEF NoClockTick
  <2> QED BY ONLY IInv, DueInv, IInv', <1>0, <2>1, <2>2, TickSpent
<1> QED BY <1>1, <1>2, <1>3, <1>4

\* Only an item that may be reminded again is given a later time.
LEMMA PressSpent ==
  ASSUME IInv, DueInv, IInv', NEW action \in {"complete", "delay", "dismiss"}, Press(action)
  PROVE  DueInv'
<1> DEFINE e == dialog.ev
           it == items[e.id]
<1>0. /\ items \in [Ids -> Item] /\ now \in Nat /\ Limit \in Nat \ {0}
      /\ \A i \in Ids : items[i].count < Limit \/ items[i].due <= now
  BY Sizes DEF IInv, Typed, DueInv, Spent
<1>1. /\ items' = items \/ items' = Acted(e, action)
      /\ saved' = Persisted(items', gen') /\ UNCHANGED <<now, seq, times, gen, file>>
  BY DEF Press
<1>2. ASSUME e.id \in Ids
      PROVE  After(e, action).count < Limit \/ After(e, action).due <= now
  <2>1. it \in Item /\ (it.count < Limit \/ it.due <= now)
    BY <1>0, <1>2
  <2>2. \A m : Later(it, m).count = it.count
    BY <2>1 DEF Later, Item
  <2>3. \A m : [Later(it, m) EXCEPT !.count = 0].count = 0
    BY <2>1 DEF Later, Item
  <2>4. Completed(it, e.id).count < Limit \/ Completed(it, e.id).due <= now
    BY <1>0, <2>1 DEF Completed, Fresh, Item
  <2>5. Delayed(it, e).count < Limit \/ Delayed(it, e).due <= now
    BY <1>0, <2>1, <2>2, <2>3 DEF Delayed
  <2>6. Dismissed(it).count < Limit \/ Dismissed(it).due <= now
    BY <2>1, <2>2 DEF Dismissed
  <2> QED BY <2>4, <2>5, <2>6 DEF After
<1> HIDE DEF e, it
<1>3. \A i \in Ids : items'[i].count < Limit \/ items'[i].due <= now
  <2>1. /\ \A i \in Ids \ {e.id} : Acted(e, action)[i] = items[i]
        /\ e.id \in Ids => /\ Acted(e, action)[e.id].count = After(e, action).count
                          /\ Acted(e, action)[e.id].due = After(e, action).due
    BY ActedItems
  <2>2. CASE items' = items
    BY <1>0, <2>2
  <2>3. CASE items' = Acted(e, action)
    <3> SUFFICES ASSUME NEW i \in Ids PROVE items'[i].count < Limit \/ items'[i].due <= now
      OBVIOUS
    <3>1. CASE i = e.id
      BY <1>2, <2>1, <2>3, <3>1
    <3>2. CASE i # e.id
      BY <1>0, <2>1, <2>3, <3>2
    <3> QED BY <3>1, <3>2
  <2> QED BY <1>1, <2>2, <2>3
<1>4. items' \in [Ids -> Item] /\ Spent(items', now')
  BY <1>1, <1>3 DEF IInv, Typed, Spent
<1>5. IF StorageReady THEN Spent(saved'.items, now') ELSE saved' = NoState
  BY <1>0, <1>1, <1>4, SavedSpent
<1> QED BY <1>1, <1>4, <1>5 DEF DueInv, Spent

\* A start goes on with what was saved.
LEMMA StartSpent ==
  ASSUME IInv, DueInv, IInv', Start
  PROVE  DueInv'
<1>1. PICK ok \in BOOLEAN, new \in {now} \cup {t \in Jumps : t > now} :
        LET m   == IF ok THEN new ELSE 0
            its == IF saved = NoState THEN Reset(<<>>, DefaultTimes, Day(m), FALSE)
                                         ELSE saved.items
            g   == IF saved = NoState THEN 0 ELSE saved.gen
        IN /\ clockOk' = ok /\ now' = new
           /\ items' = Applied(its, DefaultTimes, g, m, ok)
           /\ gen' = file.gen /\ times' = file.times
           /\ saved' = IF ConfigNew(DefaultTimes, g) THEN Persisted(items', gen') ELSE saved
  BY DEF Start
<1> DEFINE m   == IF ok THEN new ELSE 0
           its == IF saved = NoState THEN Reset(<<>>, DefaultTimes, Day(m), FALSE) ELSE saved.items
           g   == IF saved = NoState THEN 0 ELSE saved.gen
<1>2. new \in Nat /\ now \in Nat /\ now <= new /\ m \in Nat /\ Day(m) \in Nat
  <2>1. now \in Nat /\ Jumps \subseteq Nat
    BY Switches DEF IInv, Typed
  <2>2. new \in Nat /\ now <= new
    BY <2>1
  <2>3. m \in Nat
    BY <2>2
  <2> HIDE DEF m
  <2> QED BY <2>1, <2>2, <2>3, Minutes
<1>3. its \in [Ids -> Item] /\ Spent(its, new)
  <2>1. CASE saved = NoState
    BY <1>2, <2>1, ResetItems, ResetSpent, TimesKnown
  <2>2. CASE saved # NoState
    <3>1. saved.items \in [Ids -> Item] /\ Spent(saved.items, now)
      BY <2>2 DEF IInv, Typed, DueInv
    <3> QED BY <1>2, <2>2, <3>1, SpentLater
  <2> QED BY <2>1, <2>2
<1>4. /\ items' = Applied(its, DefaultTimes, g, m, ok) /\ now' = new
      /\ gen' = file.gen /\ times' = file.times /\ file' = file
      /\ saved' = saved \/ saved' = Persisted(items', gen')
  BY <1>1 DEF Start
<1> HIDE DEF m, its, g
<1>5. file \in [gen : Nat, times : FileTimes]
  BY DEF IInv, Typed
<1>6. items' \in [Ids -> Item] /\ Spent(items', now')
  BY <1>2, <1>3, <1>4, <1>5, AppliedSpent DEF IInv, Typed
<1>7. IF StorageReady THEN Spent(saved'.items, now') ELSE saved' = NoState
  BY <1>2, <1>4, <1>6, SavedSpent
<1> QED BY <1>4, <1>6, <1>7 DEF DueInv, Spent

\* The schedule of a device that was never set up is not spent.
LEMMA FactorySpent ==
  ASSUME NEW m
  PROVE  Spent(Reset(<<>>, DefaultTimes, 0, FALSE), m) /\ Spent(NoState.items, m)
BY ResetSpent, TimesKnown DEF NoState

LEMMA NextSpent ==
  ASSUME IInv, DueInv, IInv', [Next]_vars, StorageReady => now <= now'
  PROVE  DueInv'
<1>1. CASE ClockTick \/ ClockStep \/ ClockArrives \/ NoClockTick
  BY <1>1, TimerSpent
<1>2. CASE AnswerDue \/ AnswerItem
  BY <1>2, PressSpent DEF AnswerDue, AnswerItem
<1>3. CASE OpenHistory \/ OpenItem \/ CloseDialog \/ ViewCurve \/ Speak \/ Spoken \/ UNCHANGED vars
  <2>1. UNCHANGED <<now, model, file, saved>>
    BY <1>3 DEF OpenHistory, OpenItem, CloseDialog, ViewCurve, Speak, Spoken, vars
  <2> QED BY <2>1 DEF DueInv, Spent, model
<1>4. CASE ConfigWrite
  <2>1. UNCHANGED <<now, model, saved>> /\ file'.gen = file.gen + 1 /\ file.gen \in Nat
    BY <1>4 DEF ConfigWrite, IInv, Typed
  <2>2. file'.gen # 0
    BY <2>1
  <2> QED BY <2>1, <2>2 DEF DueInv, Spent, model
<1>5. CASE Start
  BY <1>5, StartSpent
<1>6. CASE Stop
  <2>1. /\ items' = Reset(<<>>, DefaultTimes, 0, FALSE) /\ times' = DefaultTimes
        /\ gen' = 0 /\ UNCHANGED <<now, file, saved>>
    BY <1>6 DEF Stop
  <2> QED BY <2>1, FactorySpent DEF DueInv, Spent
<1> QED BY <1>1, <1>2, <1>3, <1>4, <1>5, <1>6 DEF Next

LEMMA InitSpent == Init => DueInv
<1> SUFFICES ASSUME Init PROVE DueInv
  OBVIOUS
<1>1. Spent(items, now) /\ Spent(saved.items, now)
  BY FactorySpent DEF Init
<1>2. saved = NoState /\ times = DefaultTimes /\ file.times = DefaultTimes
  BY DEF Init
<1> QED BY <1>1, <1>2 DEF DueInv

\* An unfinished item whose minute comes is reminded.
LEMMA TickReminds ==
  ASSUME IInv, DueInv, ClockTick, now' > now, gen' = gen, NEW i \in Ids, ~items'[i].done, items'[i].due = now'
  PROVE  items'[i].notified
<1>0. now \in Nat /\ seq \in Nat
  BY DEF IInv, Typed
<1>1. PICK new \in now..(now + MaxStep) :
        \E q \in DueOrders(Rolled(new), IF new = now THEN {} ELSE DueIn(Rolled(new), Since(new), new)) :
          Tick(new, TRUE, Reminded(Rolled(new), q, seq), times, seq + Len(q), gen,
               Events(Rolled(new), q, seq), FALSE)
  BY DEF ClockTick
<1>2. now' = new
  BY <1>1 DEF Tick
<1> DEFINE its == Rolled(new)
           S == DueIn(its, Since(new), new)
<1>3. PICK q \in DueOrders(its, S) :
        Tick(new, TRUE, Reminded(its, q, seq), times, seq + Len(q), gen, Events(its, q, seq), FALSE)
  <2>1. (IF new = now THEN {} ELSE S) = S
    BY <1>0, <1>2
  <2> HIDE DEF S, its
  <2> QED BY <1>1, <2>1 DEF S, its
<1>4. new \in Nat /\ now < new /\ now <= new
  BY <1>0, <1>2, Sizes
<1>5. /\ its \in [Ids -> Item] /\ Spent(its, now)
  BY <1>4, TickItems
<1>6. items' = Reminded(its, q, seq)
  <2>1. gen = file.gen /\ items' = Applied(Reminded(its, q, seq), times, gen, new, TRUE)
    BY <1>3 DEF Tick
  <2>2. (gen = file.gen /\ gen # 0) \/ Edited(times) = {}
    BY <2>1 DEF DueInv, Edited
  <2> QED BY <2>1, <2>2, Zenon DEF Applied
<1>7. CASE \E k \in DOMAIN q : q[k] = i
  BY <1>5, <1>6, <1>7 DEF Reminded, Item
<1>8. CASE ~\E k \in DOMAIN q : q[k] = i
  <2>1. items'[i] = its[i]
    BY <1>6, <1>8 DEF Reminded
  <2>2. its[i].due = new /\ its[i].count < Limit /\ ~its[i].done
    <3> DEFINE it == its[i]
    <3>1. it \in Item /\ (it.count < Limit \/ it.due <= now)
      BY <1>5 DEF Spent
    <3>2. items'[i] = it
      BY <2>1
    <3> HIDE DEF it
    <3>3. it.due = new /\ ~it.done
      BY <1>2, <3>2
    <3>4. it.count < Limit
      BY <1>0, <1>4, <3>1, <3>3
    <3> QED BY <3>3, <3>4 DEF it
  <2>3. Since(new) < new
    <3>1. CASE Day(new) > Day(now)
      <4>1. Day(new) * DayLen <= new /\ Day(new) * DayLen \in Nat
        BY <1>4, Sizes, Minutes DEF Day
      <4>2. Since(new) = Day(new) * DayLen - 1
        BY <3>1 DEF Since
      <4> HIDE DEF Day
      <4> QED BY <1>4, <4>1, <4>2
    <3>2. CASE ~(Day(new) > Day(now))
      BY <1>4, <3>2 DEF Since
    <3> QED BY <3>1, <3>2
  <2>4. i \notin S
    <3>1. S \in SUBSET Ids
      BY DEF DueIn
    <3> HIDE DEF S, its
    <3> QED BY <1>8, <3>1, DueOnce
  <2>5. its[i].notified
    BY <2>2, <2>3, <2>4 DEF DueIn
  <2> QED BY <2>1, <2>5
<1> QED BY <1>7, <1>8

\* Without the storage, or with a clock that only goes forward, no item is passed
\* over: what was put off, restored, carried over midnight or reminded before is
\* reminded on its minute, however the ticks fall.
THEOREM ItemsAreReminded ==
  Spec /\ (StorageReady => [][now <= now']_vars) => DueOnTime
<1> DEFINE Forward == now <= now'
           Reminds == ClockTick /\ now' > now
             => \A i \in Ids : ~items'[i].done /\ items'[i].due = now' /\ times'[i] = times[i] /\ gen' = gen
                                  => items'[i].notified
<1>1. IInv /\ DueInv => Reminds
  BY TickReminds
<1>2. DueOnTime <=> [][Reminds]_vars
  BY DEF DueOnTime
<1>3. IInv /\ DueInv /\ IInv' /\ [Next]_vars /\ [Forward]_vars => DueInv'
  <2> SUFFICES ASSUME IInv, DueInv, IInv', [Next]_vars, [Forward]_vars PROVE DueInv'
    OBVIOUS
  <2>1. CASE Forward
    BY <2>1, NextSpent
  <2>2. CASE UNCHANGED vars
    BY <2>2 DEF vars, model, DueInv, Spent
  <2> QED BY <2>1, <2>2
<1>4. CASE StorageReady
  BY <1>1, <1>2, <1>3, <1>4, InitKeeps, NextKeeps, InitSpent, PTL DEF Spec
<1>5. CASE ~StorageReady
  <2>1. IInv /\ DueInv /\ IInv' /\ [Next]_vars => DueInv'
    BY <1>5, NextSpent
  <2> QED BY <1>1, <1>2, <2>1, InitKeeps, NextKeeps, InitSpent, PTL DEF Spec
<1> QED BY <1>4, <1>5

=============================================================================
