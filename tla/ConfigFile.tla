----------------------------- MODULE ConfigFile -----------------------------
(***************************************************************************)
(* How /data/routine/config.json is replaced and read, system call by      *)
(* system call.  Every program that saves writes a temporary file, syncs   *)
(* it and renames it over config.json: the desktop manager and the LAN     *)
(* panel through config.json.tmp with O_EXCL ("save"), the panel's voice   *)
(* page through the same name after an unlink ("voice"), the assistant     *)
(* through a name of its own with O_TRUNC ("agent").  The manager reads    *)
(* once a second with lstat, open and read.                                *)
(*                                                                         *)
(* A document is a number of blocks written one by one; it parses only     *)
(* when read whole.  The file system (external) keeps names and inodes     *)
(* apart, renames atomically, and after a power failure keeps of an inode  *)
(* that was not synced any beginning.                                      *)
(*                                                                         *)
(* F_Fault is F with a plausible fault, for the mutants of PROJECT.json.   *)
(***************************************************************************)
EXTENDS Integers, Sequences

CONSTANTS Writers,   \* one for each thread that may save
          Kind,      \* "save", "voice" or "agent"
          Tmp,       \* the temporary name of each
          Config,    \* the name config.json
          Blocks,    \* length of the document of each writer, up to MaxBlocks
          MaxBlocks,
          IoErrors,  \* whether write and fsync may fail
          MaxSaves, MaxCrashes   \* bounds on the saves of each writer, on power failures

ASSUME WritersKnown ==
  /\ Kind \in [Writers -> {"save", "voice", "agent"}]
  /\ MaxBlocks \in Nat /\ Blocks \in [Writers -> 1..MaxBlocks]
  /\ \A w \in Writers : Tmp[w] # Config
  /\ IoErrors \in BOOLEAN /\ MaxSaves \in [Writers -> Nat] /\ MaxCrashes \in Nat
Names == {Config} \cup {Tmp[w] : w \in Writers}

VARIABLES
  dir,      \* the inode of each name, 0 for none
  inode,    \* of every file created: its writer, its blocks, whether they are synced
  pc,       \* the system call each writer is before
  fd,       \* its open inode
  report,   \* what its last save returned
  saves,    \* saves begun
  rpc, rsize, rfd,   \* the reader: next call, st_size, open inode
  adopted,  \* the inode whose document the manager uses
  crashes,
  crossed   \* history: the temporary names through which two saves were under way at once

writers == <<pc, fd, report, saves>>
reader == <<rpc, rsize, rfd, adopted>>
vars == <<dir, inode, writers, reader, crashes, crossed>>

File == [by : Writers, size : Nat, synced : BOOLEAN]
Empty(w) == [by |-> w, size |-> 0, synced |-> FALSE]
Whole(f) == f.size = Blocks[f.by]

Init ==
  /\ dir = [n \in Names |-> 0] /\ inode = <<>>
  /\ pc = [w \in Writers |-> "idle"] /\ fd = [w \in Writers |-> 0]
  /\ report = [w \in Writers |-> "none"] /\ saves = [w \in Writers |-> 0]
  /\ rpc = "stat" /\ rsize = 0 /\ rfd = 0 /\ adopted = 0
  /\ crashes = 0 /\ crossed = {}

Goto(w, label) == pc' = [pc EXCEPT ![w] = label]
Unlinked(n) == [dir EXCEPT ![n] = 0]
Answer(w, r) == pc' = [pc EXCEPT ![w] = "idle"] /\ report' = [report EXCEPT ![w] = r]

\* open with O_CREAT of a name that does not exist.
Create(w) ==
  /\ inode' = Append(inode, Empty(w))
  /\ dir' = [dir EXCEPT ![Tmp[w]] = Len(inode) + 1]
  /\ fd' = [fd EXCEPT ![w] = Len(inode) + 1]
  /\ Goto(w, "write")
  /\ UNCHANGED <<report, saves>>

\* The others that are saving through the temporary name of w.
UnderWay(w) == {v \in Writers \ {w} : Tmp[v] = Tmp[w] /\ pc[v] # "idle"}
Begin(w) ==
  /\ pc[w] = "idle" /\ saves[w] < MaxSaves[w]
  /\ saves' = [saves EXCEPT ![w] = @ + 1]
  /\ fd' = [fd EXCEPT ![w] = 0]
  /\ Goto(w, IF Kind[w] = "voice" THEN "unlink" ELSE "open")
  /\ crossed' = crossed \cup {Tmp[v] : v \in UnderWay(w)}
  /\ UNCHANGED <<dir, inode, report, reader, crashes>>

\* The first open: an agent truncates what is there, the others unlink it first.
Open(w) ==
  /\ pc[w] = "open"
  /\ \/ dir[Tmp[w]] = 0 /\ Create(w)
     \/ /\ dir[Tmp[w]] # 0 /\ Kind[w] = "save"
        /\ Goto(w, "unlink")
        /\ UNCHANGED <<dir, inode, fd, report, saves>>
     \/ /\ dir[Tmp[w]] # 0 /\ Kind[w] = "agent"
        /\ inode' = [inode EXCEPT ![dir[Tmp[w]]] = Empty(w)]
        /\ fd' = [fd EXCEPT ![w] = dir[Tmp[w]]]
        /\ Goto(w, "write")
        /\ UNCHANGED <<dir, report, saves>>
  /\ UNCHANGED <<reader, crashes, crossed>>

Unlink(w) ==
  /\ pc[w] = "unlink"
  /\ dir' = Unlinked(Tmp[w])
  /\ Goto(w, "reopen")
  /\ UNCHANGED <<inode, fd, report, saves, reader, crashes, crossed>>

\* The open after an unlink fails for good when the name is there again.
Reopen(w) ==
  /\ pc[w] = "reopen"
  /\ \/ dir[Tmp[w]] = 0 /\ Create(w)
     \/ /\ dir[Tmp[w]] # 0
        /\ Answer(w, "failed")
        /\ UNCHANGED <<dir, inode, fd, saves>>
  /\ UNCHANGED <<reader, crashes, crossed>>

Write_Over(w) ==
  /\ pc[w] = "write"
  /\ \/ inode' = [inode EXCEPT ![fd[w]].size = @ + 1] /\ UNCHANGED pc
     \/ Whole(inode[fd[w]]) /\ Goto(w, "sync") /\ UNCHANGED inode
     \/ IoErrors /\ Goto(w, "abort") /\ UNCHANGED inode
  /\ UNCHANGED <<dir, fd, report, saves, reader, crashes, crossed>>
Write(w) ==
  /\ pc[w] = "write"
  /\ \/ /\ ~Whole(inode[fd[w]])
        /\ inode' = [inode EXCEPT ![fd[w]].size = @ + 1]
        /\ UNCHANGED pc
     \/ Whole(inode[fd[w]]) /\ Goto(w, "sync") /\ UNCHANGED inode
     \/ IoErrors /\ Goto(w, "abort") /\ UNCHANGED inode
  /\ UNCHANGED <<dir, fd, report, saves, reader, crashes, crossed>>

Sync_Skipped(w) ==
  /\ pc[w] = "sync"
  /\ Goto(w, "rename")
  /\ UNCHANGED <<dir, inode, fd, report, saves, reader, crashes, crossed>>
Sync(w) ==
  /\ pc[w] = "sync"
  /\ \/ inode' = [inode EXCEPT ![fd[w]].synced = TRUE] /\ Goto(w, "rename")
     \/ IoErrors /\ Goto(w, "abort") /\ UNCHANGED inode
  /\ UNCHANGED <<dir, fd, report, saves, reader, crashes, crossed>>

\* rename moves whatever the name stands for now.
Rename(w) ==
  /\ pc[w] = "rename"
  /\ \/ /\ dir[Tmp[w]] # 0
        /\ dir' = [Unlinked(Tmp[w]) EXCEPT ![Config] = dir[Tmp[w]]]
        /\ Answer(w, "ok")
     \/ dir[Tmp[w]] = 0 /\ Goto(w, "abort") /\ UNCHANGED <<dir, report>>
  /\ UNCHANGED <<inode, fd, saves, reader, crashes, crossed>>

Abort_Succeeds(w) ==
  /\ pc[w] = "abort"
  /\ dir' = Unlinked(Tmp[w])
  /\ Answer(w, "ok")
  /\ UNCHANGED <<inode, fd, saves, reader, crashes, crossed>>
Abort(w) ==
  /\ pc[w] = "abort"
  /\ dir' = Unlinked(Tmp[w])
  /\ Answer(w, "failed")
  /\ UNCHANGED <<inode, fd, saves, reader, crashes, crossed>>

Writer(w) ==
  \/ Begin(w) \/ Open(w) \/ Unlink(w) \/ Reopen(w)
  \/ Write(w) \/ Sync(w) \/ Rename(w) \/ Abort(w)

(***************************************************************************)
(* The manager's read, once a second.                                      *)
(***************************************************************************)
Stat ==
  /\ rpc = "stat" /\ dir[Config] # 0 /\ inode[dir[Config]].size > 0
  /\ rsize' = inode[dir[Config]].size /\ rpc' = "open"
  /\ UNCHANGED <<dir, inode, writers, rfd, adopted, crashes, crossed>>

OpenRead ==
  /\ rpc = "open"
  /\ rfd' = dir[Config] /\ rpc' = "read"
  /\ UNCHANGED <<dir, inode, writers, rsize, adopted, crashes, crossed>>

\* st_size bytes are there, and they are the document.
Parses(f) == Whole(f) /\ f.size = rsize

ReadAll ==
  /\ rpc = "read"
  /\ adopted' = IF Parses(inode[rfd]) THEN rfd ELSE adopted
  /\ rpc' = "stat"
  /\ UNCHANGED <<dir, inode, writers, rsize, rfd, crashes, crossed>>

Reader == Stat \/ OpenRead \/ ReadAll

\* Power fails: the threads are gone, unsynced inodes keep a beginning.
Crash ==
  /\ crashes < MaxCrashes /\ crashes' = crashes + 1
  /\ pc' = [w \in Writers |-> "idle"] /\ fd' = [w \in Writers |-> 0]
  /\ report' = [w \in Writers |-> "none"]
  /\ \E left \in [DOMAIN inode -> 0..MaxBlocks] :
       /\ \A f \in DOMAIN inode :
            left[f] <= inode[f].size /\ (inode[f].synced => left[f] = inode[f].size)
       /\ inode' = [f \in DOMAIN inode |-> [inode[f] EXCEPT !.size = left[f]]]
  /\ rpc' = "stat" /\ adopted' = 0
  /\ UNCHANGED <<dir, saves, rsize, rfd, crossed>>

Next == (\E w \in Writers : Writer(w)) \/ Reader \/ Crash

Spec == Init /\ [][Next]_vars
\* The threads go on, and the timer of the manager comes back every second.
FairSpec == Spec /\ WF_vars(Reader) /\ \A w \in Writers : WF_vars(pc[w] # "idle" /\ Writer(w))

-----------------------------------------------------------------------------
(* The programs that save, for the constants: the voice page of the panel  *)
(* and the assistant write as they do, all others as the manager; a        *)
(* document of the assistant is shorter.                                   *)

SaveKind == [w \in Writers |-> IF w \in {"agent", "voice"} THEN w ELSE "save"]
SaveName == [w \in Writers |-> IF w = "agent" THEN "config.json.ai-agent.tmp" ELSE "config.json.tmp"]
SaveBounds == [w \in Writers |-> 1]
SaveBlocks == [w \in Writers |-> IF w = "agent" THEN 1 ELSE 2]

-----------------------------------------------------------------------------
\* The types of the variables.
TypeOK ==
  /\ inode \in Seq(File)
  /\ \A f \in DOMAIN inode : inode[f].size <= Blocks[inode[f].by]
  /\ dir \in [Names -> 0..Len(inode)]
  /\ pc \in [Writers -> {"idle", "open", "unlink", "reopen", "write", "sync", "rename", "abort"}]
  /\ fd \in [Writers -> 0..Len(inode)]
  /\ report \in [Writers -> {"none", "ok", "failed"}]
  /\ saves \in [Writers -> Nat]
  /\ rpc \in {"stat", "open", "read"} /\ rsize \in Nat
  /\ rfd \in 0..Len(inode) /\ adopted \in 0..Len(inode)
  /\ crashes \in Nat
  /\ crossed \subseteq Names

\* config.json is at every moment a whole document that a power failure leaves
\* alone: what the panel's guide says of its saves (routine_config.c:491-521,
\* lan_panel_main.c:752-783).  Not so when two saves cross (ConfigFileShared.cfg).
ConfigIsWhole ==
  dir[Config] # 0 => Whole(inode[dir[Config]]) /\ inode[dir[Config]].synced

\* config.json is whole and on the medium at every moment, whatever fails, unless
\* the temporary name it was written under is one through which two saves have
\* been under way at once: then, and then only, writing, syncing and renaming do
\* not keep their promise (routine_config.c:491-521, lan_panel_main.c:752-783,
\* tool_routine.c:335-351).
WholeUnlessCrossed ==
  dir[Config] # 0 /\ Tmp[inode[dir[Config]].by] \notin crossed =>
    Whole(inode[dir[Config]]) /\ inode[dir[Config]].synced

\* A save fails only for an error of the medium, unless saves cross: no leftover of
\* a power failure, of an earlier save or of a program that shares the name is in
\* its way, at the open or at the rename (routine_config.c:492-521).
SavesSucceed ==
  [][\A w \in Writers : crashes' = crashes /\ Tmp[w] \notin crossed' =>
       /\ pc[w] \in {"open", "reopen"} => pc'[w] # "idle"
       /\ pc[w] = "rename" => pc'[w] # "abort"]_vars

\* What a save returns is true, unless saves cross: with success its document is
\* config.json at that moment, with an error it is not (routine_config.c:504-521).
ReportIsTrue ==
  [][\A w \in Writers :
       pc[w] # "idle" /\ pc'[w] = "idle" /\ crashes' = crashes /\ Tmp[w] \notin crossed' =>
         (report'[w] = "ok" <=> (fd[w] # 0 /\ dir'[Config] = fd[w]))]_vars

\* The reader and the writers together are a register of whole documents for as
\* long as no two saves have crossed: no step of a save shows before its rename,
\* what was opened does not change any more, and a power failure takes nothing back
\* (routine_config.c:166-196 and :491-521).
Doc(f) == IF f = 0 THEN <<>> ELSE <<f, inode[f].by, inode[f].size, inode[f].synced>>
WholeDocuments == {d \in Nat \X Writers \X (0..MaxBlocks) \X {TRUE} : d[3] = Blocks[d[2]]}
Register == INSTANCE AtomicFile WITH
  Documents <- WholeDocuments, None <- <<>>,
  value <- Doc(dir[Config]), snapshot <- Doc(rfd), adopted <- Doc(adopted)
IsRegister ==
  Register!Init /\ [][crossed' = {} => [Register!Next]_(Register!vars)]_vars

\* A save of config.json fails only for an error of the medium, what it returns is
\* true, and all of them together are one register, until saves through one name
\* cross (routine_config.c:491-521).
SavesReport == SavesSucceed /\ ReportIsTrue /\ IsRegister

\* Once the saving stops, the manager uses the document in config.json, although
\* any of its reads may fall into a replacement (routine_config.c:166-196).
LatestIsRead == <>[](dir[Config] = 0 \/ adopted = dir[Config])
=============================================================================
