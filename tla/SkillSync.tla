------------------------------ MODULE SkillSync ------------------------------
(***************************************************************************)
(* The assistant's skills: one file each, installed by skill_loader_init   *)
(* at every start, fetched page by page from a table of the company        *)
(* (skill_sync.c) after the start and on command, pushed and deleted over  *)
(* HTTP and by the command line.  Files are written in place, and nobody   *)
(* looks whether all was written; the device may be switched off at any    *)
(* time, and the table is edited meanwhile.                                *)
(***************************************************************************)
EXTENDS Integers, Sequences, FiniteSets

CONSTANTS
  Table,                     \* the skills of the table, in its order, one to a page
  Managed, Shipped, Retired, \* names of built-in skills: with a version, without, withdrawn
  Pushed,                    \* names of the files others push
  Syncs,                     \* threads that synchronise: the network watcher, the command line
  Room,                      \* entries of the version map and of remote_ids
  MaxVersion, MaxCuts, MaxShorts  \* bounds, the last on the writes that are cut short

InTable == {Table[i] : i \in DOMAIN Table}
Names == InTable \cup Managed \cup Shipped \cup Retired \cup Pushed
\* What a file holds: a version of the table, or one of these.
Gone == 0
Torn == -1
BuiltIn == -2
Own == -3
NoMap == [k \in InTable |-> 0]

VARIABLES
  full,          \* AGENT_SKILL_SYNC_MODE
  table,         \* version of each row, 0 while it is disabled or for other devices
  files,
  versions,      \* .versions.json
  booting, todo, open,   \* skill_loader_init: built-ins left, and the one being written
  pc, page, map, seen, bad, \* of a thread: map and remote_ids are those of its call, seen
                         \* the versions it met, bad its errors
  cuts, shorts,
  spoilt,        \* history: skills left half-written by a write that was taken for done
  crossed        \* history: two calls were under way at once
boot == <<booting, todo, open>>
sync == <<pc, page, map, seen, bad>>
\* What is counted, and the history of the two properties.
rest == <<cuts, shorts, spoilt, crossed>>
vars == <<full, table, files, versions, boot, sync, rest>>

Init ==
  /\ full \in BOOLEAN /\ table = [k \in InTable |-> 1]
  /\ files = [n \in Names |-> Gone] /\ versions = NoMap
  /\ booting = TRUE /\ todo = Managed \cup Shipped /\ open = "none"
  /\ pc = [t \in Syncs |-> "idle"] /\ page = [t \in Syncs |-> 1] /\ map = [t \in Syncs |-> NoMap]
  /\ seen = [t \in Syncs |-> NoMap] /\ bad = [t \in Syncs |-> FALSE]
  /\ cuts = 0 /\ shorts = 0 /\ spoilt = {} /\ crossed = FALSE

-----------------------------------------------------------------------------
(* skill_loader_init.                                                      *)

\* A managed skill is replaced unless its version is there; the version is in
\* the first lines, and a file cut off after them is taken for whole.
Replaced(n) ==
  \/ files[n] = Gone
  \/ n \in Managed /\ files[n] \notin {BuiltIn, Torn}
Install ==
  /\ booting /\ open = "none"
  /\ \E n \in todo :
       /\ todo' = todo \ {n}
       /\ \/ Replaced(n) \/ (n \in Managed /\ files[n] = Torn)
          \* It can be written, and holds nothing for the time being; or cannot.
       /\ \/ open' = n /\ files' = [files EXCEPT ![n] = Torn]
          \/ UNCHANGED <<open, files>>
  /\ UNCHANGED <<full, table, versions, booting, sync, rest>>
Keep ==
  /\ booting /\ open = "none"
  /\ \E n \in todo : ~Replaced(n) /\ todo' = todo \ {n}
  /\ UNCHANGED <<full, table, files, versions, booting, open, sync, rest>>
\* Of fputs and fclose no result is looked at, here and below: with the medium
\* full a part is left.
Short == shorts < MaxShorts /\ shorts' = shorts + 1
Installed ==
  /\ booting /\ open # "none" /\ open' = "none"
  /\ \/ files' = [files EXCEPT ![open] = BuiltIn] /\ UNCHANGED shorts
     \/ Short /\ UNCHANGED files
  /\ UNCHANGED <<full, table, versions, booting, todo, sync, cuts, spoilt, crossed>>
Up == booting /\ todo = {} /\ open = "none" /\ booting' = FALSE
      /\ UNCHANGED <<full, table, files, versions, todo, open, sync, rest>>

-----------------------------------------------------------------------------
(* skill_sync_from_bitable.                                                *)

\* Without the network, credentials or memory it is over at once.
Start(t) ==
  /\ ~booting /\ pc[t] = "idle"
  /\ pc' = [pc EXCEPT ![t] = "fetch"] /\ page' = [page EXCEPT ![t] = 1]
  /\ map' = [map EXCEPT ![t] = IF full THEN NoMap ELSE versions]
  /\ seen' = [seen EXCEPT ![t] = NoMap] /\ bad' = [bad EXCEPT ![t] = FALSE]
  /\ crossed' = (crossed \/ \E u \in Syncs \ {t} : pc[u] # "idle")
  /\ UNCHANGED <<full, table, files, versions, boot, cuts, shorts, spoilt>>

\* remote_ids and the map hold no more than Room entries.
Listed(t) == {k \in InTable : seen[t][k] # 0 /\
                Cardinality({j \in InTable : seen[t][j] # 0 /\
                  \E a, b \in DOMAIN Table : a < b /\ Table[a] = j /\ Table[b] = k}) < Room}
Noted(m, k, v) ==
  IF m[k] # 0 \/ Cardinality({j \in InTable : m[j] # 0}) < Room THEN [m EXCEPT ![k] = v] ELSE m

\* A page without data ends the call as if it were the last.
NoPage(t) ==
  /\ pc[t] = "fetch"
  /\ pc' = [pc EXCEPT ![t] = "clean"]
  /\ IF page[t] > Len(Table) THEN UNCHANGED bad ELSE bad' \in {bad, [bad EXCEPT ![t] = TRUE]}
  /\ UNCHANGED <<full, table, files, versions, boot, page, map, seen, rest>>
\* Whether the version is the one the map has.
Same(t, k) == ~full /\ map[t][k] = table[k]
Refused_Noted(m, k, v) == Noted(m, k, v)
Refused(m, k, v) == m
Page(t) ==
  LET k == Table[page[t]]
      next == page' = [page EXCEPT ![t] = @ + 1] /\ UNCHANGED pc
  IN /\ pc[t] = "fetch" /\ page[t] <= Len(Table)
     /\ seen' = [seen EXCEPT ![t][k] = table[k]]
     /\ \/ (table[k] = 0 \/ Same(t, k)) /\ next /\ UNCHANGED <<files, map, bad, spoilt>>
        \/ /\ table[k] # 0 /\ ~Same(t, k)
           /\ \/ /\ pc' = [pc EXCEPT ![t] = "write"]
                 /\ files' = [files EXCEPT ![k] = Torn] /\ spoilt' = spoilt \ {k}
                 /\ UNCHANGED <<page, map, bad>>
              \* It cannot be opened.
              \/ /\ next /\ bad' = [bad EXCEPT ![t] = TRUE]
                 /\ map' = [map EXCEPT ![t] = Refused(@, k, table[k])]
                 /\ UNCHANGED <<files, spoilt>>
     /\ UNCHANGED <<full, table, versions, boot, cuts, shorts, crossed>>
\* What a write leaves that began on an empty file: all of it, or a part.  A file
\* removed meanwhile stays away; over what somebody else has written meanwhile it
\* comes to lie whole or mixed, or that is another file by now.
Write(t) ==
  LET k == Table[page[t]]
      leave(x) == /\ files' = [files EXCEPT ![k] = x]
                  /\ spoilt' = IF x = Torn THEN spoilt \cup {k} ELSE spoilt \ {k}
  IN /\ pc[t] = "write"
     /\ \/ files[k] \in {Torn, seen[t][k]} /\ leave(seen[t][k]) /\ UNCHANGED shorts
        \/ files[k] = Torn /\ leave(Torn) /\ Short
        \/ files[k] = Gone /\ leave(Gone) /\ UNCHANGED shorts
        \/ /\ files[k] \notin {Torn, Gone, seen[t][k]} /\ UNCHANGED shorts
           /\ \E x \in {seen[t][k], Torn, files[k]} : leave(x)
     /\ map' = [map EXCEPT ![t] = Noted(@, k, seen[t][k])]
     /\ pc' = [pc EXCEPT ![t] = "fetch"] /\ page' = [page EXCEPT ![t] = @ + 1]
     /\ UNCHANGED <<full, table, versions, boot, seen, bad, cuts, crossed>>

\* In full mode the files of other names are removed, one by one.
Orphans(t) == IF full /\ Listed(t) # {} THEN {n \in Names \ Listed(t) : files[n] # Gone} ELSE {}
Placed(n, x) == files' = [files EXCEPT ![n] = x] /\ spoilt' = spoilt \ {n}
Orphan(t) ==
  /\ pc[t] = "clean"
  /\ \E n \in Orphans(t) : Placed(n, Gone)
  /\ UNCHANGED <<full, table, versions, boot, sync, cuts, shorts, crossed>>
\* The map is written in place, if it can be opened.
Truncate(t) ==
  /\ pc[t] = "clean" /\ Orphans(t) = {}
  /\ \/ versions' = NoMap /\ pc' = [pc EXCEPT ![t] = "save"]
     \/ UNCHANGED versions /\ pc' = [pc EXCEPT ![t] = "idle"]
  /\ UNCHANGED <<full, table, files, boot, page, map, seen, bad, rest>>
\* A part of the map does not parse, and is none to the next call.
Save(t) ==
  /\ pc[t] = "save" /\ pc' = [pc EXCEPT ![t] = "idle"]
  /\ \/ versions' = map[t] /\ UNCHANGED shorts
     \/ versions' = NoMap /\ Short
  /\ UNCHANGED <<full, table, files, boot, page, map, seen, bad, cuts, spoilt, crossed>>

-----------------------------------------------------------------------------
(* Everybody else.                                                         *)

\* handle_skills_post, cmd_install_skill; handle_skills_delete
Push == /\ ~booting /\ \E n \in Pushed : Placed(n, Own)
        /\ UNCHANGED <<full, table, versions, boot, sync, cuts, shorts, crossed>>
Delete == /\ ~booting /\ \E n \in Names : files[n] # Gone /\ Placed(n, Gone)
          /\ UNCHANGED <<full, table, versions, boot, sync, cuts, shorts, crossed>>
\* The table: a new version, a row switched off and on.
Edit ==
  /\ \E k \in InTable : table[k] < MaxVersion /\ table' = [table EXCEPT ![k] = @ + 1]
  /\ UNCHANGED <<full, files, versions, boot, sync, rest>>
Cut ==
  /\ cuts < MaxCuts /\ cuts' = cuts + 1
  /\ booting' = TRUE /\ todo' = Managed \cup Shipped /\ open' = "none"
  /\ files' = [n \in Names |-> IF n \in Retired THEN Gone ELSE files[n]]
  /\ pc' = [t \in Syncs |-> "idle"]
  /\ spoilt' = spoilt \ Retired
  /\ UNCHANGED <<full, table, versions, page, map, seen, bad, shorts, crossed>>

Next ==
  \/ Install \/ Keep \/ Installed \/ Up \/ Push \/ Delete \/ Edit \/ Cut
  \/ \E t \in Syncs : Start(t) \/ NoPage(t) \/ Page(t) \/ Write(t) \/ Orphan(t) \/ Truncate(t) \/ Save(t)
Spec == Init /\ [][Next]_vars

-----------------------------------------------------------------------------
(* Properties. *)

TypeOK ==
  /\ \A n \in Names : files[n] \in Own..MaxVersion
  /\ \A k \in InTable : versions[k] \in 0..MaxVersion
  /\ open \in Names \cup {"none"} /\ todo \subseteq Managed \cup Shipped

\* The end of a call that reports success, and the rows it met.  Names of built-in
\* skills are excepted, their installation may be cut off.
Ends(t) == pc[t] # "idle" /\ pc'[t] = "idle" /\ ~booting' /\ ~bad[t]
Met(t) == {k \in InTable \ (Managed \cup Shipped) : seen[t][k] # 0}

\* The last call under way that ends and reports success leaves no skill it met
\* half-written: skill_sync.h promises "OK on success, ERROR on failure" and "Safe to
\* call from any thread." (:32 and :39).  Not so when a write is cut short, or when
\* another call was under way.
SyncedIsWhole ==
  [][\A t \in Syncs : Ends(t) /\ (\A u \in Syncs \ {t} : pc[u] = "idle") =>
       \A k \in Met(t) : files'[k] # Torn]_vars

\* Of what a call that reports success has met nothing is half-written or of another
\* version but what a write spoilt that was taken for done, until two calls cross:
\* not what a power failure cut off, not what could not be opened, in this call or
\* an earlier one; recorded without being written, it would be skipped for ever
\* (skill_sync.c:203-217 and :307-501).
SyncedUnlessSpoilt ==
  [][\A t \in Syncs : Ends(t) /\ ~crossed' =>
       \A k \in Met(t) \ spoilt' : files'[k] \in {seen[t][k], Gone, Own}]_vars
==============================================================================
