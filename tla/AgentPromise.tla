---------------------------- MODULE AgentPromise -----------------------------
(***************************************************************************)
(* What the assistant promises for a message, whatever its channel: it is  *)
(* accepted or refused, accepted messages are worked on one at a time in   *)
(* the order they came, each is answered once, and only a shutdown drops   *)
(* one that was accepted.  AgentLoop implements it.                        *)
(***************************************************************************)
EXTENDS Naturals, Sequences

CONSTANTS Ids, QueueLen

VARIABLES fate,   \* of each message
          queue,  \* the accepted ones that wait
          open    \* no shutdown was asked for

Set(m, f) == fate' = [fate EXCEPT ![m] = f]

Init == fate = [m \in Ids |-> "unsent"] /\ queue = <<>> /\ open = TRUE

Accept(m) ==
  /\ fate[m] = "unsent" /\ Len(queue) < QueueLen
  /\ Set(m, "waiting") /\ queue' = Append(queue, m) /\ UNCHANGED open
Refuse(m) ==
  /\ fate[m] = "unsent" /\ Len(queue) = QueueLen
  /\ Set(m, "lost") /\ UNCHANGED <<queue, open>>
Begin ==
  /\ open /\ queue # <<>> /\ \A m \in Ids : fate[m] # "working"
  /\ Set(Head(queue), "working") /\ queue' = Tail(queue) /\ UNCHANGED open
Answer(m) == fate[m] = "working" /\ Set(m, "answered") /\ UNCHANGED <<queue, open>>
Close == open /\ open' = FALSE /\ UNCHANGED <<fate, queue>>
Drop ==
  /\ ~open /\ queue # <<>>
  /\ Set(Head(queue), "lost") /\ queue' = Tail(queue) /\ UNCHANGED open

Next == \/ \E m \in Ids : Accept(m) \/ Refuse(m) \/ Answer(m)
        \/ Begin \/ Close \/ Drop
Spec == Init /\ [][Next]_<<fate, queue, open>>

\* A message that waits is answered unless the assistant is told to stop, and
\* one that is worked on is answered even then.
Live == \A m \in Ids : /\ (fate[m] = "waiting") ~> (fate[m] = "answered" \/ ~open)
                       /\ (fate[m] = "working") ~> (fate[m] = "answered")
=============================================================================
