----------------------------- MODULE AtomicFile -----------------------------
(***************************************************************************)
(* What writing a temporary file, syncing it and renaming it promises of   *)
(* config.json: a register that holds a whole document or none, replaced   *)
(* at once and kept by a power failure.  A reader takes the document that  *)
(* is there when it opens the file, and may or may not begin to use it.    *)
(***************************************************************************)
CONSTANTS Documents, None

VARIABLES
  value,     \* the document in the file, or None
  snapshot,  \* the one the reader opened last
  adopted    \* the one it uses
vars == <<value, snapshot, adopted>>

Init == value = None /\ snapshot = None /\ adopted = None

Replace == value' \in Documents /\ UNCHANGED <<snapshot, adopted>>
Open    == snapshot' = value /\ value # None /\ UNCHANGED <<value, adopted>>
Adopt   == adopted' = snapshot /\ snapshot # None /\ UNCHANGED <<value, snapshot>>
\* The power fails.
Forget  == adopted' = None /\ UNCHANGED <<value, snapshot>>

Next == Replace \/ Open \/ Adopt \/ Forget
Spec == Init /\ [][Next]_vars
=============================================================================
