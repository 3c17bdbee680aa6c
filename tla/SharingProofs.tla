---------------------------- MODULE SharingProofs ----------------------------
(***************************************************************************)
(* Proofs about what several programs, senders or threads work on at once: *)
(* the file config.json (ConfigFile), the messages that are sent again,    *)
(* and the streams, connections, widgets, slots and services of the parts  *)
(* of ServiceParts.                                                        *)
(***************************************************************************)
EXTENDS ServicesProofs, ConfigFile

-----------------------------------------------------------------------------
(* The file config.json: ConfigFile.                                       *)
(*                                                                         *)
(* What a step of one writer may do to another is the point.  Until two    *)
(* saves through a temporary name have crossed, a writer in the middle of  *)
(* its save is alone with that name and finds its own inode under it; and  *)
(* what crossed saves do stays with the inodes that were created under     *)
(* their name.  All of it holds for any number of writers, errors of the   *)
(* medium and power failures, whoever shares a name with whom.             *)

Labels == {"idle", "open", "unlink", "reopen", "write", "sync", "rename", "abort"}
\* The part of the types the argument needs.
FileTypes ==
  /\ inode \in Seq(File)
  /\ \A f \in DOMAIN inode : inode[f].size <= Blocks[inode[f].by]
  /\ dir \in [Names -> 0..Len(inode)]
  /\ pc \in [Writers -> Labels]
  /\ fd \in [Writers -> 0..Len(inode)]
OtherTypes ==
  /\ report \in [Writers -> {"none", "ok", "failed"}]
  /\ saves \in [Writers -> Nat]
  /\ crashes \in Nat /\ crossed \subseteq Names
  /\ rpc \in {"stat", "open", "read"} /\ rsize \in Nat
  /\ rfd \in 0..Len(inode) /\ adopted \in 0..Len(inode)

\* The name an inode was created under.
Born(f) == Tmp[inode[f].by]
\* A writer past its open has an inode.
HasOpen(w) == pc[w] \in {"write", "sync", "rename", "abort"} => fd[w] # 0
\* No inode has two names, and each is under the name it was created under.
OneName == \A m, n \in Names : dir[m] = dir[n] /\ dir[m] # 0 => m = n
ByName ==
  /\ \A n \in Names \ {Config} : dir[n] # 0 => Born(dir[n]) = n
  /\ \A w \in Writers : fd[w] # 0 => Born(fd[w]) = Tmp[w]
\* Of the writers that share a name that was not crossed one at most is saving.
Apart ==
  \A v, w \in Writers :
    v # w /\ Tmp[v] = Tmp[w] /\ Tmp[w] \notin crossed => pc[v] = "idle" \/ pc[w] = "idle"
\* A writer between its open and its rename works on the file under its name.
Owns(w) ==
  pc[w] \in {"write", "sync", "rename"} =>
    /\ fd[w] # 0 /\ dir[Tmp[w]] = fd[w] /\ inode[fd[w]].by = w
    /\ pc[w] \in {"sync", "rename"} => Whole(inode[fd[w]])
    /\ pc[w] = "rename" => inode[fd[w]].synced
\* A save that is given up still holds its own file, and the second open finds
\* the name free.
Place(w) ==
  /\ pc[w] = "abort" => fd[w] # 0 /\ dir[Tmp[w]] = fd[w]
  /\ pc[w] = "reopen" => dir[Tmp[w]] = 0
Alone(w) == Tmp[w] \notin crossed => Owns(w) /\ Place(w)
\* What was installed, opened or is used is a whole document on the medium, and no
\* writer has it under its temporary name, unless it was written by crossed saves.
Frozen(f) ==
  f # 0 /\ Born(f) \notin crossed =>
    /\ Whole(inode[f]) /\ inode[f].synced
    /\ \A n \in Names \ {Config} : dir[n] # f

SaveInv ==
  /\ FileTypes /\ OtherTypes
  /\ OneName /\ ByName /\ Apart
  /\ \A w \in Writers : HasOpen(w) /\ Alone(w)
  /\ Frozen(dir[Config]) /\ Frozen(rfd) /\ Frozen(adopted)
  /\ rpc \in {"open", "read"} => dir[Config] # 0
  /\ rpc = "read" => rfd # 0

\* What every step needs of the constants and of the types.
LEMMA Basics ==
  ASSUME FileTypes, NEW w \in Writers
  PROVE  /\ Tmp[w] \in Names /\ Config \in Names /\ Tmp[w] # Config
         /\ Len(inode) \in Nat /\ DOMAIN inode = 1..Len(inode)
         /\ \A f \in 1..Len(inode) : inode[f] \in File
         /\ \A n \in Names : dir[n] \in 0..Len(inode)
         /\ \A v \in Writers : fd[v] \in 0..Len(inode)
BY WritersKnown DEF FileTypes, Names

\* What a step of a writer does, as the others and the reader see it: it touches
\* inodes of its own name only, and only the one under the name when it is alone;
\* it moves on as a save should, and what it returns is true.
Effect(w) ==
  /\ FileTypes' /\ HasOpen(w)'
  /\ report' \in [Writers -> {"none", "ok", "failed"}] /\ saves' \in [Writers -> Nat]
  /\ \A v \in Writers \ {w} : pc'[v] = pc[v] /\ fd'[v] = fd[v]
  /\ \A n \in Names \ {Config, Tmp[w]} : dir'[n] = dir[n]
  /\ Len(inode) <= Len(inode')
  /\ \A f \in 1..Len(inode) :
       \/ inode'[f] = inode[f]
       \/ /\ Tmp[inode[f].by] = Tmp[w] /\ Tmp[inode'[f].by] = Tmp[w]
          /\ Tmp[w] \notin crossed => f = dir[Tmp[w]]
  /\ \/ dir'[Tmp[w]] \in {dir[Tmp[w]], 0}
     \/ dir'[Tmp[w]] = Len(inode) + 1 /\ Tmp[inode'[Len(inode) + 1].by] = Tmp[w]
  /\ \/ dir'[Config] = dir[Config]
     \/ /\ dir[Tmp[w]] # 0 /\ dir'[Config] = dir[Tmp[w]] /\ dir'[Tmp[w]] = 0 /\ inode' = inode
        /\ Tmp[w] \notin crossed =>
             Whole(inode[dir[Tmp[w]]]) /\ inode[dir[Tmp[w]]].synced
  /\ fd'[w] \in {0, fd[w]} \/ fd'[w] = dir'[Tmp[w]]
  /\ crossed \subseteq crossed' /\ crossed' \subseteq crossed \cup {Tmp[w]}
  /\ IF pc[w] = "idle"
     THEN Tmp[w] \notin crossed' => \A v \in Writers \ {w} : Tmp[v] = Tmp[w] => pc[v] = "idle"
     ELSE crossed' = crossed
  /\ Tmp[w] \notin crossed' =>
       /\ Owns(w)' /\ Place(w)'
       /\ pc[w] \in {"open", "reopen"} => pc'[w] # "idle"
       /\ pc[w] = "rename" => pc'[w] # "abort"
       /\ pc[w] # "idle" /\ pc'[w] = "idle" =>
            (report'[w] = "ok" <=> (fd[w] # 0 /\ dir'[Config] = fd[w]))

\* A new empty file under the writer's name.
LEMMA CreateStep ==
  ASSUME SaveInv, NEW w \in Writers, dir[Tmp[w]] = 0, Create(w), crossed' = crossed,
         pc[w] \in {"open", "reopen"}
  PROVE  Effect(w)
<1> FileTypes /\ OtherTypes BY DEF SaveInv
<1>0. /\ Tmp[w] \in Names /\ Config \in Names /\ Tmp[w] # Config
      /\ Len(inode) \in Nat /\ DOMAIN inode = 1..Len(inode)
      /\ \A f \in 1..Len(inode) : inode[f] \in File
      /\ \A n \in Names : dir[n] \in 0..Len(inode)
      /\ \A v \in Writers : fd[v] \in 0..Len(inode)
  BY Basics
<1>e. Empty(w) \in File /\ Empty(w).size = 0 /\ Empty(w).by = w
  BY DEF Empty, File
<1> DEFINE N == Len(inode) + 1
<1>1. /\ inode' \in Seq(File) /\ Len(inode') = N /\ inode'[N] = Empty(w)
      /\ \A f \in 1..Len(inode) : inode'[f] = inode[f]
      /\ DOMAIN inode' = 1..N
  BY <1>0, <1>e DEF Create, FileTypes
<1>2. /\ dir' = [dir EXCEPT ![Tmp[w]] = N] /\ fd' = [fd EXCEPT ![w] = N]
      /\ pc' = [pc EXCEPT ![w] = "write"]
  BY DEF Create, Goto
<1>n. N \in 0..N /\ N # 0 /\ \A k \in 0..Len(inode) : k \in 0..N /\ k # N
  BY <1>0
<1>m. Len(inode) <= N BY <1>0
<1>N. N = Len(inode) + 1 OBVIOUS
<1> HIDE DEF N
<1>3. FileTypes'
  <2>1. \A f \in DOMAIN inode' : inode'[f].size <= Blocks[inode'[f].by]
    <3> SUFFICES ASSUME NEW f \in 1..N PROVE inode'[f].size <= Blocks[inode'[f].by]
      BY <1>1
    <3>1. CASE f = N BY <3>1, <1>1, <1>e, WritersKnown
    <3>2. CASE f # N
      <4>1. f \in 1..Len(inode) BY <3>2, <1>0, <1>N
      <4> QED BY <4>1, <1>0, <1>1 DEF FileTypes
    <3> QED BY <3>1, <3>2
  <2>2. dir' \in [Names -> 0..Len(inode')]
    BY <1>0, <1>1, <1>2, <1>n DEF FileTypes
  <2>3. fd' \in [Writers -> 0..Len(inode')]
    BY <1>0, <1>1, <1>2, <1>n DEF FileTypes
  <2>4. pc' \in [Writers -> Labels] BY <1>2 DEF FileTypes, Labels
  <2> QED BY <2>1, <2>2, <2>3, <2>4, <1>1 DEF FileTypes
<1>4. /\ pc'[w] = "write" /\ fd'[w] = N /\ dir'[Tmp[w]] = N /\ dir'[Config] = dir[Config]
      /\ \A v \in Writers \ {w} : pc'[v] = pc[v] /\ fd'[v] = fd[v]
      /\ \A n \in Names \ {Config, Tmp[w]} : dir'[n] = dir[n]
  BY <1>0, <1>2 DEF FileTypes
<1>5. HasOpen(w)' /\ Owns(w)' /\ Place(w)'
  BY <1>1, <1>4, <1>n, <1>e DEF HasOpen, Owns, Place
<1>6. report' \in [Writers -> {"none", "ok", "failed"}] /\ saves' \in [Writers -> Nat]
  BY DEF Create, OtherTypes
<1> QED BY <1>1, <1>3, <1>4, <1>5, <1>6, <1>e, <1>m, <1>N DEF Effect

\* One file of the writer's name changes, or the place in the save: nothing else does.
LEMMA OwnFileStep ==
  ASSUME SaveInv, NEW w \in Writers, NEW f \in 1..Len(inode), Born(f) = Tmp[w],
         Tmp[w] \notin crossed => f = dir[Tmp[w]],
         NEW g \in File, g.size <= Blocks[g.by], Tmp[g.by] = Tmp[w],
         inode' = [inode EXCEPT ![f] = g], dir' = dir, report' = report, saves' = saves,
         crossed' = crossed,
         fd' \in [Writers -> 0..Len(inode)], pc' \in [Writers -> Labels],
         fd'[w] \in {fd[w], dir[Tmp[w]]},
         \A v \in Writers \ {w} : pc'[v] = pc[v] /\ fd'[v] = fd[v],
         pc[w] # "idle", pc'[w] \notin {"idle", "abort"}, HasOpen(w)',
         Tmp[w] \notin crossed => Owns(w)' /\ Place(w)'
  PROVE  Effect(w)
<1> FileTypes /\ OtherTypes BY DEF SaveInv
<1>0. /\ Len(inode) \in Nat /\ DOMAIN inode = 1..Len(inode)
      /\ \A h \in 1..Len(inode) : inode[h] \in File
  BY Basics
<1>1. /\ inode' \in Seq(File) /\ Len(inode') = Len(inode) /\ DOMAIN inode' = DOMAIN inode
      /\ inode'[f] = g /\ \A h \in 1..Len(inode) : h # f => inode'[h] = inode[h]
  BY <1>0 DEF FileTypes
<1>2. FileTypes'
  <2>1. \A h \in DOMAIN inode' : inode'[h].size <= Blocks[inode'[h].by]
    BY <1>0, <1>1 DEF FileTypes
  <2> QED BY <2>1, <1>0, <1>1 DEF FileTypes
<1>3. \A h \in 1..Len(inode) :
        \/ inode'[h] = inode[h]
        \/ /\ Tmp[inode[h].by] = Tmp[w] /\ Tmp[inode'[h].by] = Tmp[w]
           /\ Tmp[w] \notin crossed => h = dir[Tmp[w]]
  BY <1>1 DEF Born
<1> QED BY <1>0, <1>1, <1>2, <1>3 DEF Effect, OtherTypes

\* A name is taken away, the place in the save changes, no file does.
LEMMA NoFileStep ==
  ASSUME SaveInv, NEW w \in Writers, inode' = inode,
         dir' = dir \/ dir' = Unlinked(Tmp[w]),
         saves' \in [Writers -> Nat], report' \in [Writers -> {"none", "ok", "failed"}],
         fd' \in [Writers -> 0..Len(inode)], pc' \in [Writers -> Labels],
         fd'[w] \in {0, fd[w]},
         \A v \in Writers \ {w} : pc'[v] = pc[v] /\ fd'[v] = fd[v],
         crossed \subseteq crossed', crossed' \subseteq crossed \cup {Tmp[w]},
         IF pc[w] = "idle"
         THEN Tmp[w] \notin crossed' => \A v \in Writers \ {w} : Tmp[v] = Tmp[w] => pc[v] = "idle"
         ELSE crossed' = crossed,
         HasOpen(w)',
         Tmp[w] \notin crossed' =>
           /\ Owns(w)' /\ Place(w)'
           /\ pc[w] \in {"open", "reopen"} => pc'[w] # "idle"
           /\ pc[w] = "rename" => pc'[w] # "abort"
           /\ pc[w] # "idle" /\ pc'[w] = "idle" =>
                (report'[w] = "ok" <=> (fd[w] # 0 /\ dir'[Config] = fd[w]))
  PROVE  Effect(w)
<1> FileTypes /\ OtherTypes BY DEF SaveInv
<1>0. Tmp[w] \in Names /\ Config \in Names /\ Tmp[w] # Config /\ Len(inode) \in Nat
  BY Basics
<1>1. /\ dir' \in [Names -> 0..Len(inode)]
      /\ \A n \in Names : n # Tmp[w] => dir'[n] = dir[n]
      /\ dir'[Tmp[w]] = dir[Tmp[w]] \/ dir'[Tmp[w]] = 0
  <2>1. CASE dir' = dir BY <2>1, <1>0 DEF FileTypes
  <2>2. CASE dir' = Unlinked(Tmp[w])
    <3>1. dir' = [dir EXCEPT ![Tmp[w]] = 0] /\ 0 \in 0..Len(inode) BY <2>2, <1>0 DEF Unlinked
    <3>2. dir \in [Names -> 0..Len(inode)] BY DEF FileTypes
    <3> QED BY <3>1, <3>2, <1>0
  <2> QED BY <2>1, <2>2
<1>3. FileTypes' BY <1>1 DEF FileTypes
<1> QED BY <1>0, <1>1, <1>3 DEF Effect

LEMMA WriterEffect ==
  ASSUME SaveInv, NEW w \in Writers, Writer(w) PROVE Effect(w)
<1> FileTypes /\ OtherTypes /\ OneName /\ ByName /\ HasOpen(w) /\ Alone(w) BY DEF SaveInv
<1>n. /\ Tmp[w] \in Names /\ Config \in Names /\ Tmp[w] # Config
      /\ Len(inode) \in Nat /\ DOMAIN inode = 1..Len(inode)
      /\ \A f \in 1..Len(inode) : inode[f] \in File
      /\ \A n \in Names : dir[n] \in 0..Len(inode)
      /\ \A v \in Writers : fd[v] \in 0..Len(inode)
  BY Basics
<1>p. pc \in [Writers -> Labels] /\ fd \in [Writers -> 0..Len(inode)]
      /\ report \in [Writers -> {"none", "ok", "failed"}] /\ dir \in [Names -> 0..Len(inode)]
      /\ saves \in [Writers -> Nat]
  BY DEF FileTypes, OtherTypes
<1>e. Empty(w) \in File /\ Empty(w).size <= Blocks[Empty(w).by] /\ Empty(w).by = w
  BY WritersKnown DEF Empty, File
<1>1. CASE Begin(w)
  <2>1. /\ inode' = inode /\ dir' = dir /\ fd' \in [Writers -> 0..Len(inode)] /\ fd'[w] = 0
        /\ pc[w] = "idle" /\ pc' \in [Writers -> Labels] /\ pc'[w] \in {"unlink", "open"}
        /\ \A v \in Writers \ {w} : pc'[v] = pc[v] /\ fd'[v] = fd[v]
        /\ report' = report
    BY <1>1, <1>p, <1>n DEF Begin, Goto, Labels
  <2>2. saves' \in [Writers -> Nat]
    <3>1. saves[w] + 1 \in Nat BY <1>p
    <3> QED BY <3>1, <1>1, <1>p DEF Begin
  <2>3. /\ crossed \subseteq crossed' /\ crossed' \subseteq crossed \cup {Tmp[w]}
        /\ Tmp[w] \notin crossed' => \A v \in Writers \ {w} : Tmp[v] = Tmp[w] => pc[v] = "idle"
    BY <1>1 DEF Begin, UnderWay
  <2>4. Owns(w)' /\ Place(w)' /\ HasOpen(w)' BY <2>1 DEF Owns, Place, HasOpen
  <2> QED BY <2>1, <2>2, <2>3, <2>4, <1>p, NoFileStep
<1>2. CASE Open(w)
  <2>0. pc[w] = "open" /\ crossed' = crossed BY <1>2 DEF Open
  <2>1. CASE dir[Tmp[w]] = 0 /\ Create(w) BY <2>0, <2>1, CreateStep
  <2>2. CASE dir[Tmp[w]] # 0 /\ Goto(w, "unlink") /\ UNCHANGED <<dir, inode, fd, report, saves>>
    <3>1. /\ pc' \in [Writers -> Labels] /\ pc'[w] = "unlink"
          /\ \A v \in Writers \ {w} : pc'[v] = pc[v]
      BY <2>2, <1>p DEF Goto, Labels
    <3>2. Owns(w)' /\ Place(w)' /\ HasOpen(w)' BY <3>1 DEF Owns, Place, HasOpen
    <3> QED BY <2>0, <2>2, <3>1, <3>2, <1>p, NoFileStep
  <2>3. CASE /\ dir[Tmp[w]] # 0
             /\ inode' = [inode EXCEPT ![dir[Tmp[w]]] = Empty(w)]
             /\ fd' = [fd EXCEPT ![w] = dir[Tmp[w]]]
             /\ Goto(w, "write") /\ UNCHANGED <<dir, report, saves>>
    <3>1. dir[Tmp[w]] \in 1..Len(inode) /\ Born(dir[Tmp[w]]) = Tmp[w]
      BY <2>3, <1>n DEF ByName
    <3>2. /\ fd' \in [Writers -> 0..Len(inode)] /\ fd'[w] = dir[Tmp[w]]
          /\ pc' \in [Writers -> Labels] /\ pc'[w] = "write"
          /\ \A v \in Writers \ {w} : pc'[v] = pc[v] /\ fd'[v] = fd[v]
      BY <2>3, <3>1, <1>p, <1>n DEF Goto, Labels
    <3>3. inode'[dir[Tmp[w]]] = Empty(w) BY <2>3, <3>1, <1>n
    <3>4. Owns(w)' /\ Place(w)' /\ HasOpen(w)' BY <3>1, <3>2, <3>3, <2>3, <1>e DEF Owns, Place, HasOpen
    <3> QED BY <2>0, <2>3, <3>1, <3>2, <3>4, <1>e, OwnFileStep
  <2> QED BY <1>2, <2>1, <2>2, <2>3 DEF Open
<1>3. CASE Unlink(w)
  <2>1. /\ inode' = inode /\ dir' = Unlinked(Tmp[w]) /\ fd' = fd /\ report' = report
        /\ saves' = saves /\ crossed' = crossed /\ pc[w] = "unlink"
        /\ pc' \in [Writers -> Labels] /\ pc'[w] = "reopen"
        /\ \A v \in Writers \ {w} : pc'[v] = pc[v]
    BY <1>3, <1>p DEF Unlink, Goto, Labels
  <2>2. dir'[Tmp[w]] = 0 BY <2>1, <1>p, <1>n DEF Unlinked
  <2>3. Owns(w)' /\ Place(w)' /\ HasOpen(w)' BY <2>1, <2>2 DEF Owns, Place, HasOpen
  <2> QED BY <2>1, <2>3, <1>p, NoFileStep
<1>4. CASE Reopen(w)
  <2>0. pc[w] = "reopen" /\ crossed' = crossed BY <1>4 DEF Reopen
  <2>1. CASE dir[Tmp[w]] = 0 /\ Create(w) BY <2>0, <2>1, CreateStep
  <2>2. CASE dir[Tmp[w]] # 0 /\ Answer(w, "failed") /\ UNCHANGED <<dir, inode, fd, saves>>
    <3>1. Tmp[w] \in crossed BY <2>0, <2>2 DEF Alone, Place
    <3>2. /\ pc' \in [Writers -> Labels] /\ pc'[w] = "idle"
          /\ report' \in [Writers -> {"none", "ok", "failed"}]
          /\ \A v \in Writers \ {w} : pc'[v] = pc[v]
      BY <2>2, <1>p DEF Answer, Labels
    <3>3. HasOpen(w)' BY <3>2 DEF HasOpen
    <3> QED BY <2>0, <2>2, <3>1, <3>2, <3>3, <1>p, NoFileStep
  <2> QED BY <1>4, <2>1, <2>2 DEF Reopen
<1>5. CASE Write(w)
  <2>0. /\ pc[w] = "write" /\ dir' = dir /\ fd' = fd /\ report' = report /\ saves' = saves
        /\ crossed' = crossed /\ fd[w] # 0 /\ fd[w] \in 1..Len(inode) /\ Born(fd[w]) = Tmp[w]
    BY <1>5, <1>n DEF Write, HasOpen, ByName
  <2>o. Tmp[w] \notin crossed => dir[Tmp[w]] = fd[w] /\ inode[fd[w]].by = w
    BY <2>0 DEF Alone, Owns
  <2>1. CASE ~Whole(inode[fd[w]]) /\ inode' = [inode EXCEPT ![fd[w]].size = @ + 1] /\ pc' = pc
    <3> DEFINE g == [inode[fd[w]] EXCEPT !.size = @ + 1]
    <3>1. inode[fd[w]] \in File /\ inode[fd[w]].size <= Blocks[inode[fd[w]].by]
      BY <2>0, <1>n DEF FileTypes
    <3>2. inode[fd[w]].size \in Nat /\ Blocks[inode[fd[w]].by] \in Nat
      BY <3>1, WritersKnown DEF File
    <3>3. g \in File /\ g.by = inode[fd[w]].by BY <3>1, <3>2 DEF File
    <3>4. g.size <= Blocks[g.by]
      <4>1. g.size = inode[fd[w]].size + 1 BY <3>1 DEF File
      <4>2. inode[fd[w]].size # Blocks[inode[fd[w]].by] BY <2>1 DEF Whole
      <4> QED BY <3>1, <3>2, <3>3, <4>1, <4>2
    <3>5. inode' = [inode EXCEPT ![fd[w]] = g] BY <2>1
    <3>6. inode'[fd[w]] = g BY <3>5, <2>0, <1>n
    <3>7. Tmp[g.by] = Tmp[w] BY <3>3, <2>0 DEF Born
    <3> HIDE DEF g
    <3>8. HasOpen(w)' /\ (Tmp[w] \notin crossed => Owns(w)' /\ Place(w)')
      BY <2>0, <2>1, <2>o, <3>3, <3>6 DEF HasOpen, Owns, Place
    <3> QED BY <3>3, <3>4, <3>5, <3>7, <3>8, <2>0, <2>1, <2>o, <1>p, OwnFileStep
  <2>2. CASE Whole(inode[fd[w]]) /\ Goto(w, "sync") /\ inode' = inode
    <3>1. /\ pc' \in [Writers -> Labels] /\ pc'[w] = "sync"
          /\ \A v \in Writers \ {w} : pc'[v] = pc[v]
      BY <2>2, <1>p DEF Goto, Labels
    <3>2. HasOpen(w)' /\ (Tmp[w] \notin crossed => Owns(w)' /\ Place(w)')
      BY <3>1, <2>0, <2>o, <2>2 DEF HasOpen, Owns, Place, Whole
    <3> QED BY <3>1, <3>2, <2>0, <2>2, <1>p, NoFileStep
  <2>3. CASE Goto(w, "abort") /\ inode' = inode
    <3>1. /\ pc' \in [Writers -> Labels] /\ pc'[w] = "abort"
          /\ \A v \in Writers \ {w} : pc'[v] = pc[v]
      BY <2>3, <1>p DEF Goto, Labels
    <3>2. HasOpen(w)' /\ (Tmp[w] \notin crossed => Owns(w)' /\ Place(w)')
      BY <3>1, <2>0, <2>o DEF HasOpen, Owns, Place
    <3> QED BY <3>1, <3>2, <2>0, <2>3, <1>p, NoFileStep
  <2> QED BY <1>5, <2>1, <2>2, <2>3 DEF Write
<1>6. CASE Sync(w)
  <2>0. /\ pc[w] = "sync" /\ dir' = dir /\ fd' = fd /\ report' = report /\ saves' = saves
        /\ crossed' = crossed /\ fd[w] # 0 /\ fd[w] \in 1..Len(inode) /\ Born(fd[w]) = Tmp[w]
    BY <1>6, <1>n DEF Sync, HasOpen, ByName
  <2>o. Tmp[w] \notin crossed =>
          dir[Tmp[w]] = fd[w] /\ inode[fd[w]].by = w /\ Whole(inode[fd[w]])
    BY <2>0 DEF Alone, Owns
  <2>1. CASE inode' = [inode EXCEPT ![fd[w]].synced = TRUE] /\ Goto(w, "rename")
    <3> DEFINE g == [inode[fd[w]] EXCEPT !.synced = TRUE]
    <3>1. inode[fd[w]] \in File /\ inode[fd[w]].size <= Blocks[inode[fd[w]].by]
      BY <2>0, <1>n DEF FileTypes
    <3>3. g \in File /\ g.by = inode[fd[w]].by /\ g.size = inode[fd[w]].size /\ g.synced
      BY <3>1 DEF File
    <3>5. inode' = [inode EXCEPT ![fd[w]] = g] BY <2>1
    <3>6. inode'[fd[w]] = g BY <3>5, <2>0, <1>n
    <3>7. Tmp[g.by] = Tmp[w] BY <3>3, <2>0 DEF Born
    <3>8. /\ pc' \in [Writers -> Labels] /\ pc'[w] = "rename"
          /\ \A v \in Writers \ {w} : pc'[v] = pc[v]
      BY <2>1, <1>p DEF Goto, Labels
    <3> HIDE DEF g
    <3>9. HasOpen(w)' /\ (Tmp[w] \notin crossed => Owns(w)' /\ Place(w)')
      BY <2>0, <2>o, <3>3, <3>6, <3>8 DEF HasOpen, Owns, Place, Whole
    <3> QED BY <3>1, <3>3, <3>5, <3>7, <3>8, <3>9, <2>0, <2>o, <1>p, OwnFileStep
  <2>2. CASE Goto(w, "abort") /\ inode' = inode
    <3>1. /\ pc' \in [Writers -> Labels] /\ pc'[w] = "abort"
          /\ \A v \in Writers \ {w} : pc'[v] = pc[v]
      BY <2>2, <1>p DEF Goto, Labels
    <3>2. HasOpen(w)' /\ (Tmp[w] \notin crossed => Owns(w)' /\ Place(w)')
      BY <3>1, <2>0, <2>o DEF HasOpen, Owns, Place
    <3> QED BY <3>1, <3>2, <2>0, <2>2, <1>p, NoFileStep
  <2> QED BY <1>6, <2>1, <2>2 DEF Sync
<1>7. CASE Rename(w)
  <2>0. /\ pc[w] = "rename" /\ inode' = inode /\ fd' = fd /\ saves' = saves
        /\ crossed' = crossed /\ fd[w] # 0 /\ fd[w] \in 1..Len(inode)
    BY <1>7, <1>n DEF Rename, HasOpen
  <2>o. Tmp[w] \notin crossed =>
          dir[Tmp[w]] = fd[w] /\ Whole(inode[fd[w]]) /\ inode[fd[w]].synced
    BY <2>0 DEF Alone, Owns
  <2>1. CASE /\ dir[Tmp[w]] # 0 /\ Answer(w, "ok")
             /\ dir' = [Unlinked(Tmp[w]) EXCEPT ![Config] = dir[Tmp[w]]]
    <3>1. /\ dir' \in [Names -> 0..Len(inode)] /\ dir'[Tmp[w]] = 0 /\ dir'[Config] = dir[Tmp[w]]
          /\ \A n \in Names \ {Config, Tmp[w]} : dir'[n] = dir[n]
      <4> DEFINE d == Unlinked(Tmp[w])
      <4>1. /\ d \in [Names -> 0..Len(inode)] /\ d[Tmp[w]] = 0
            /\ \A n \in Names \ {Tmp[w]} : d[n] = dir[n]
        BY <1>n, <1>p DEF Unlinked
      <4>2. dir' = [d EXCEPT ![Config] = dir[Tmp[w]]] BY <2>1
      <4> HIDE DEF d
      <4> QED BY <4>1, <4>2, <1>n
    <3>2. /\ pc' \in [Writers -> Labels] /\ pc'[w] = "idle"
          /\ \A v \in Writers \ {w} : pc'[v] = pc[v]
          /\ report'[w] = "ok" /\ report' \in [Writers -> {"none", "ok", "failed"}]
      BY <2>1, <1>p DEF Answer, Labels
    <3>3. FileTypes' BY <2>0, <3>1, <3>2, <1>p DEF FileTypes
    <3>4. HasOpen(w)' /\ Owns(w)' /\ Place(w)' BY <3>2 DEF HasOpen, Owns, Place
    <3> QED BY <2>0, <2>o, <2>1, <3>1, <3>2, <3>3, <3>4, <1>n, <1>p DEF Effect
  <2>2. CASE dir[Tmp[w]] = 0 /\ Goto(w, "abort") /\ dir' = dir /\ report' = report
    <3>1. Tmp[w] \in crossed BY <2>0, <2>o, <2>2
    <3>2. /\ pc' \in [Writers -> Labels] /\ pc'[w] = "abort"
          /\ \A v \in Writers \ {w} : pc'[v] = pc[v]
      BY <2>2, <1>p DEF Goto, Labels
    <3>3. HasOpen(w)' BY <3>2, <2>0 DEF HasOpen
    <3> QED BY <2>0, <2>2, <3>1, <3>2, <3>3, <1>p, NoFileStep
  <2> QED BY <1>7, <2>1, <2>2 DEF Rename
<1>8. CASE Abort(w)
  <2>0. /\ pc[w] = "abort" /\ inode' = inode /\ fd' = fd /\ saves' = saves /\ crossed' = crossed
        /\ Answer(w, "failed") /\ dir' = Unlinked(Tmp[w])
    BY <1>8 DEF Abort
  <2>1. dir'[Tmp[w]] = 0 /\ dir'[Config] = dir[Config]
    BY <2>0, <1>n, <1>p DEF Unlinked
  <2>2. /\ pc' \in [Writers -> Labels] /\ pc'[w] = "idle"
        /\ \A v \in Writers \ {w} : pc'[v] = pc[v]
        /\ report'[w] = "failed" /\ report' \in [Writers -> {"none", "ok", "failed"}]
    BY <2>0, <1>p DEF Answer, Labels
  <2>3. HasOpen(w)' /\ Owns(w)' /\ Place(w)' BY <2>2 DEF HasOpen, Owns, Place
  <2>4. Tmp[w] \notin crossed => fd[w] # 0 /\ dir'[Config] # fd[w]
    BY <2>0, <2>1, <1>n DEF Alone, Place, OneName
  <2> QED BY <2>0, <2>2, <2>3, <2>4, <1>p, NoFileStep
<1> QED BY <1>1, <1>2, <1>3, <1>4, <1>5, <1>6, <1>7, <1>8 DEF Writer

LEMMA InitSaveInv == Init => SaveInv
<1> SUFFICES ASSUME Init PROVE SaveInv OBVIOUS
<1>1. FileTypes BY WritersKnown DEF Init, FileTypes, Labels
<1>2. OtherTypes BY <1>1 DEF Init, OtherTypes
<1>3. OneName /\ ByName /\ Apart BY DEF Init, OneName, ByName, Apart
<1>4. \A w \in Writers : HasOpen(w) /\ Alone(w) BY DEF Init, HasOpen, Alone, Owns, Place
<1>5. Frozen(dir[Config]) /\ Frozen(rfd) /\ Frozen(adopted)
  BY DEF Init, Frozen, Names
<1> QED BY <1>1, <1>2, <1>3, <1>4, <1>5 DEF SaveInv, Init

\* What a step of a writer leaves of a file that is whole under no temporary name.
LEMMA FrozenKept ==
  ASSUME SaveInv, NEW w \in Writers, Effect(w), NEW f \in 0..Len(inode), Frozen(f)
  PROVE  /\ Frozen(f)'
         /\ f # 0 /\ Born(f) \notin crossed => inode'[f] = inode[f]
<1>1. FileTypes /\ OneName BY DEF SaveInv
<1>2. Len(inode) \in Nat /\ Tmp[w] \in Names /\ Tmp[w] # Config BY <1>1, Basics
<1>3. ASSUME f # 0, Born(f) \notin crossed PROVE inode'[f] = inode[f]
  <2>1. f \in 1..Len(inode) /\ f # dir[Tmp[w]] BY <1>2, <1>3 DEF Frozen
  <2> QED BY <2>1, <1>3 DEF Effect, Born
<1>4. f # 0 => Born(f)' = Born(f)
  <2>1. f # 0 => f \in 1..Len(inode) BY <1>2
  <2> QED BY <2>1 DEF Effect, Born
<1>5. ASSUME f # 0, Born(f)' \notin crossed' PROVE Frozen(f)'
  <2>1. Born(f) \notin crossed BY <1>4, <1>5 DEF Effect
  <2>2. inode'[f] = inode[f] BY <1>3, <1>5, <2>1
  <2>3. Whole(inode[f]) /\ inode[f].synced /\ \A n \in Names \ {Config} : dir[n] # f
    BY <1>5, <2>1 DEF Frozen
  <2>4. \A n \in Names \ {Config} : dir'[n] # f
    <3> SUFFICES ASSUME NEW n \in Names \ {Config} PROVE dir'[n] # f OBVIOUS
    <3>1. CASE n = Tmp[w] BY <3>1, <2>3, <1>2, <1>5 DEF Effect
    <3>2. CASE n # Tmp[w] BY <3>2, <2>3 DEF Effect
    <3> QED BY <3>1, <3>2
  <2> QED BY <2>2, <2>3, <2>4 DEF Frozen, Whole
<1> QED BY <1>3, <1>5 DEF Frozen

LEMMA WriterKeeps ==
  ASSUME SaveInv, NEW w \in Writers, Effect(w), UNCHANGED <<reader, crashes>>
  PROVE  SaveInv'
<1> FileTypes /\ OtherTypes /\ OneName /\ ByName /\ Apart BY DEF SaveInv
<1>n. /\ Tmp[w] \in Names /\ Config \in Names /\ Tmp[w] # Config
      /\ Len(inode) \in Nat /\ \A n \in Names : dir[n] \in 0..Len(inode)
      /\ \A v \in Writers : fd[v] \in 0..Len(inode)
      /\ \A v \in Writers : Tmp[v] \in Names /\ Tmp[v] # Config
  BY Basics
<1>1. FileTypes' BY DEF Effect
<1>2. OtherTypes'
  <2>1. Len(inode') \in Nat /\ Len(inode) <= Len(inode') BY <1>1 DEF Effect, FileTypes
  <2>2. rfd' \in 0..Len(inode') /\ adopted' \in 0..Len(inode')
    BY <2>1, <1>n DEF reader, OtherTypes
  <2>3. crossed' \subseteq Names BY <1>n DEF Effect, OtherTypes
  <2> QED BY <2>2, <2>3 DEF OtherTypes, reader, Effect
<1>b. \A f \in 1..Len(inode) : Born(f)' = Born(f) BY DEF Effect, Born
<1>3. OneName'
  <2>1. \A m \in Names \ {Config, Tmp[w]} : dir'[m] = dir[m] BY DEF Effect
  <2>2. \A m \in Names : dir[m] # Len(inode) + 1 BY <1>n
  <2>3. dir'[Tmp[w]] \in {dir[Tmp[w]], 0, Len(inode) + 1} BY DEF Effect
  <2>4. dir'[Config] = dir[Config] \/ (dir'[Config] = dir[Tmp[w]] /\ dir'[Tmp[w]] = 0)
    BY DEF Effect
  <2> QED BY <2>1, <2>2, <2>3, <2>4, <1>n DEF OneName
<1>4. ByName'
  <2>1. ASSUME NEW n \in Names \ {Config}, dir'[n] # 0 PROVE Born(dir[n])' = n
    <3>1. CASE n # Tmp[w] \/ dir'[n] = dir[n]
      <4>1. dir'[n] = dir[n] BY <3>1 DEF Effect
      <4>2. dir[n] \in 1..Len(inode) BY <4>1, <2>1, <1>n
      <4>3. Born(dir[n]) = n BY <4>2 DEF ByName
      <4> QED BY <4>1, <4>2, <4>3, <1>b DEF Born
    <3>2. CASE n = Tmp[w] /\ dir'[n] # dir[n]
      <4>1. dir'[n] = Len(inode) + 1 /\ Tmp[inode'[Len(inode) + 1].by] = Tmp[w]
        BY <3>2, <2>1 DEF Effect
      <4> QED BY <4>1, <3>2 DEF Born
    <3> QED BY <3>1, <3>2
  <2>2. ASSUME NEW v \in Writers, fd'[v] # 0 PROVE Born(fd[v])' = Tmp[v]
    <3>1. CASE v # w \/ fd'[v] = fd[v]
      <4>1. fd'[v] = fd[v] BY <3>1 DEF Effect
      <4>2. fd[v] \in 1..Len(inode) BY <4>1, <2>2, <1>n
      <4>3. Born(fd[v]) = Tmp[v] BY <4>2 DEF ByName
      <4> QED BY <4>1, <4>2, <4>3, <1>b DEF Born
    <3>2. CASE v = w /\ fd'[v] # fd[v]
      <4>1. fd'[w] = dir'[Tmp[w]] /\ dir'[Tmp[w]] # 0 BY <3>2, <2>2 DEF Effect
      <4>2. Born(dir[Tmp[w]])' = Tmp[w] BY <4>1, <2>1, <1>n
      <4> QED BY <4>1, <4>2, <3>2 DEF Born
    <3> QED BY <3>1, <3>2
  <2> QED BY <2>1, <2>2 DEF ByName
\* Alone before is alone after, unless the step crossed a save.
<1>i. ASSUME NEW v \in Writers \ {w}, Tmp[v] = Tmp[w], Tmp[w] \notin crossed',
             pc'[w] # "idle" \/ pc[w] # "idle"
      PROVE  pc[v] = "idle" /\ pc'[v] = "idle"
  <2>1. CASE pc[w] = "idle" BY <2>1, <1>i DEF Effect
  <2>2. CASE pc[w] # "idle" BY <2>2, <1>i DEF Effect, Apart
  <2> QED BY <2>1, <2>2
<1>5. Apart'
  <2> SUFFICES ASSUME NEW u \in Writers, NEW v \in Writers, u # v, Tmp[u] = Tmp[v],
                      Tmp[v] \notin crossed'
               PROVE  pc'[u] = "idle" \/ pc'[v] = "idle"
    BY DEF Apart
  <2>1. CASE u = w BY <2>1, <1>i
  <2>2. CASE v = w BY <2>2, <1>i
  <2>3. CASE u # w /\ v # w BY <2>3 DEF Effect, Apart
  <2> QED BY <2>1, <2>2, <2>3
<1>6. ASSUME NEW v \in Writers PROVE HasOpen(v)' /\ Alone(v)'
  <2>1. CASE v = w BY <2>1 DEF Effect, Alone
  <2>2. CASE v # w
    <3>1. pc'[v] = pc[v] /\ fd'[v] = fd[v] /\ HasOpen(v) /\ Alone(v)
      BY <2>2 DEF Effect, SaveInv
    <3>2. ASSUME Tmp[v] \notin crossed' PROVE Owns(v)' /\ Place(v)'
      <4>0. Owns(v) /\ Place(v) BY <3>1, <3>2 DEF Alone, Effect
      <4>1. CASE Tmp[v] # Tmp[w]
        <5>1. dir'[Tmp[v]] = dir[Tmp[v]] BY <4>1, <1>n DEF Effect
        <5>2. fd[v] # 0 /\ inode[fd[v]].by = v => inode'[fd[v]] = inode[fd[v]]
          <6> SUFFICES ASSUME fd[v] # 0, inode[fd[v]].by = v PROVE inode'[fd[v]] = inode[fd[v]]
            OBVIOUS
          <6>1. fd[v] \in 1..Len(inode) BY <1>n
          <6>2. Tmp[inode[fd[v]].by] # Tmp[w] BY <4>1
          <6> QED BY <6>1, <6>2 DEF Effect
        <5>3. Place(v)' BY <3>1, <4>0, <5>1 DEF Place
        <5>4. CASE pc[v] \in {"write", "sync", "rename"}
          <6>1. fd[v] # 0 /\ inode[fd[v]].by = v /\ inode'[fd[v]] = inode[fd[v]]
            BY <4>0, <5>2, <5>4 DEF Owns
          <6>2. inode'[fd'[v]] = inode[fd[v]] BY <6>1, <3>1
          <6> QED BY <3>1, <4>0, <5>1, <5>3, <6>1, <6>2 DEF Owns, Whole
        <5>5. CASE pc[v] \notin {"write", "sync", "rename"}
          BY <3>1, <5>3, <5>5 DEF Owns
        <5> QED BY <5>4, <5>5
      <4>2. CASE Tmp[v] = Tmp[w] /\ (pc'[w] # "idle" \/ pc[w] # "idle")
        <5>1. pc'[v] = "idle" BY <4>2, <2>2, <3>2, <1>i
        <5> QED BY <5>1 DEF Owns, Place
      <4>3. CASE Tmp[v] = Tmp[w] /\ pc'[w] = "idle" /\ pc[w] = "idle"
        <5>1. pc[v] = "idle" BY <4>3, <3>2, <2>2 DEF Effect
        <5> QED BY <5>1, <3>1 DEF Owns, Place
      <4> QED BY <4>1, <4>2, <4>3
    <3> QED BY <3>1, <3>2 DEF HasOpen, Alone
  <2> QED BY <2>1, <2>2
<1>f. ASSUME NEW f \in 0..Len(inode), Frozen(f) PROVE Frozen(f)'
  BY <1>f, FrozenKept
<1>7. Frozen(rfd)' /\ Frozen(adopted)'
  <2>1. Frozen(rfd) /\ Frozen(adopted) /\ rfd' = rfd /\ adopted' = adopted
    BY DEF SaveInv, reader
  <2>2. rfd \in 0..Len(inode) /\ adopted \in 0..Len(inode) BY DEF OtherTypes
  <2> QED BY <2>1, <2>2, <1>f DEF Frozen, Born
<1>8. Frozen(dir[Config])'
  <2>1. CASE dir'[Config] = dir[Config]
    <3>1. Frozen(dir[Config]) /\ dir[Config] \in 0..Len(inode) BY <1>n DEF SaveInv
    <3> QED BY <2>1, <3>1, <1>f DEF Frozen, Born
  <2>2. CASE dir'[Config] # dir[Config]
    <3> DEFINE f == dir[Tmp[w]]
    <3>1. /\ f # 0 /\ dir'[Config] = f /\ dir'[Tmp[w]] = 0 /\ inode' = inode
          /\ Tmp[w] \notin crossed => Whole(inode[f]) /\ inode[f].synced
      BY <2>2 DEF Effect
    <3>2. Tmp[inode[f].by] = Tmp[w] /\ (Tmp[w] \notin crossed' => Tmp[w] \notin crossed)
      BY <3>1, <1>n DEF ByName, Born, Effect
    <3>3. \A n \in Names \ {Config} : dir'[n] # f
      BY <3>1, <1>n DEF Effect, OneName
    <3> HIDE DEF f
    <3> QED BY <3>1, <3>2, <3>3 DEF Frozen, Whole, Born
  <2> QED BY <2>1, <2>2
<1>9. dir[Config] # 0 => dir'[Config] # 0 BY DEF Effect
<1> QED BY <1>1, <1>2, <1>3, <1>4, <1>5, <1>6, <1>7, <1>8, <1>9 DEF SaveInv, reader

\* A power failure changes no file that was synced, and the writer of none.
LEMMA CrashKeeps ==
  ASSUME FileTypes, Crash
  PROVE  /\ FileTypes' /\ Len(inode') = Len(inode)
         /\ \A f \in 1..Len(inode) : inode'[f].by = inode[f].by
         /\ \A f \in 1..Len(inode) : inode[f].synced => inode'[f] = inode[f]
<1>0. Len(inode) \in Nat /\ DOMAIN inode = 1..Len(inode)
      /\ \A f \in 1..Len(inode) : inode[f] \in File
  BY DEF FileTypes
<1>1. PICK left \in [DOMAIN inode -> 0..MaxBlocks] :
        /\ \A f \in DOMAIN inode :
             left[f] <= inode[f].size /\ (inode[f].synced => left[f] = inode[f].size)
        /\ inode' = [f \in DOMAIN inode |-> [inode[f] EXCEPT !.size = left[f]]]
  BY DEF Crash
<1>2. \A f \in 1..Len(inode) :
        /\ inode'[f] = [inode[f] EXCEPT !.size = left[f]] /\ inode'[f] \in File
        /\ inode'[f].by = inode[f].by /\ inode'[f].size = left[f]
  BY <1>0, <1>1, WritersKnown DEF File
<1>3. inode' \in Seq(File) /\ Len(inode') = Len(inode) /\ DOMAIN inode' = 1..Len(inode)
  BY <1>0, <1>1, <1>2
<1>4. \A f \in DOMAIN inode' : inode'[f].size <= Blocks[inode'[f].by]
  <2> SUFFICES ASSUME NEW f \in 1..Len(inode) PROVE inode'[f].size <= Blocks[inode'[f].by]
    BY <1>3
  <2> DEFINE b == Blocks[inode[f].by]
  <2>1. inode[f] \in File /\ inode[f].size \in Nat /\ inode[f].by \in Writers
    BY <1>0 DEF File
  <2>2. inode[f].size <= b /\ b \in Nat
    <3>1. f \in DOMAIN inode BY <1>0
    <3>2. inode[f].size <= b BY <3>1, Zenon DEF FileTypes
    <3>3. Blocks \in [Writers -> 1..MaxBlocks] /\ MaxBlocks \in Nat BY WritersKnown
    <3>4. b \in 1..MaxBlocks BY <3>3, <2>1
    <3>5. b \in Nat BY <3>3, <3>4
    <3> QED BY <3>2, <3>5
  <2>3. left[f] \in Nat /\ left[f] <= inode[f].size
    <3>1. left \in [1..Len(inode) -> 0..MaxBlocks] /\ MaxBlocks \in Nat
      BY <1>0, <1>1, WritersKnown
    <3>2. left[f] \in 0..MaxBlocks BY <3>1
    <3>3. f \in DOMAIN inode BY <1>0
    <3>4. left[f] <= inode[f].size BY <3>3, <1>1
    <3> QED BY <3>1, <3>2, <3>4
  <2>4. left[f] <= b
    <3> DEFINE l == left[f]
           n == inode[f].size
    <3>1. l \in Nat /\ n \in Nat /\ b \in Nat /\ l <= n /\ n <= b BY <2>1, <2>2, <2>3
    <3> HIDE DEF b, l, n
    <3>2. l <= b BY <3>1
    <3> QED BY <3>2 DEF l
  <2> QED BY <2>4, <1>2
<1>5. dir' = dir /\ pc' = [w \in Writers |-> "idle"] /\ fd' = [w \in Writers |-> 0]
  BY DEF Crash
<1>6. FileTypes' BY <1>3, <1>4, <1>5, <1>0 DEF FileTypes, Labels
<1>7. ASSUME NEW f \in 1..Len(inode), inode[f].synced PROVE inode'[f] = inode[f]
  <2>1. left[f] = inode[f].size /\ inode[f] \in File BY <1>7, <1>0, <1>1
  <2> QED BY <2>1, <1>2, <1>7 DEF File
<1> QED BY <1>2, <1>3, <1>6, <1>7

LEMMA NextSaveInv == ASSUME SaveInv, [Next]_vars PROVE SaveInv'
<1> FileTypes /\ OtherTypes /\ OneName /\ ByName /\ Apart BY DEF SaveInv
<1>n. /\ Len(inode) \in Nat /\ Config \in Names /\ dir[Config] \in 0..Len(inode)
      /\ \A n \in Names : dir[n] \in 0..Len(inode)
      /\ rfd \in 0..Len(inode) /\ adopted \in 0..Len(inode)
  BY DEF FileTypes, OtherTypes, Names
<1>w. ASSUME NEW w \in Writers, Writer(w) PROVE SaveInv'
  <2>1. Effect(w) BY <1>w, WriterEffect
  <2>2. UNCHANGED <<reader, crashes>>
    BY <1>w DEF Writer, Begin, Open, Unlink, Reopen, Write, Sync, Rename, Abort
  <2> QED BY <2>1, <2>2, WriterKeeps
\* What the reader does is to none of the files.
<1>r. ASSUME UNCHANGED <<dir, inode, writers, crashes, crossed>>
      PROVE  /\ FileTypes' /\ OneName' /\ ByName' /\ Apart'
             /\ \A w \in Writers : HasOpen(w)' /\ Alone(w)'
             /\ Frozen(dir[Config])' /\ \A f \in Nat : Frozen(f)' <=> Frozen(f)
  <2>1. FileTypes' /\ OneName' /\ Apart' BY <1>r DEF writers, FileTypes, OneName, Apart
  <2>2. ByName' BY <1>r DEF writers, ByName, Born
  <2>3. \A w \in Writers : HasOpen(w)' /\ Alone(w)'
    BY <1>r DEF writers, SaveInv, HasOpen, Alone, Owns, Place, Whole
  <2>4. Frozen(dir[Config])' /\ \A f \in Nat : Frozen(f)' <=> Frozen(f)
    BY <1>r DEF SaveInv, Frozen, Whole, Born
  <2> QED BY <2>1, <2>2, <2>3, <2>4
<1>1. CASE Stat
  <2>1. /\ UNCHANGED <<dir, inode, writers, rfd, adopted, crashes, crossed>>
        /\ rsize' = inode[dir[Config]].size /\ rpc' = "open" /\ dir[Config] # 0
    BY <1>1 DEF Stat
  <2>2. inode[dir[Config]].size \in Nat
    <3>1. dir[Config] \in 1..Len(inode) BY <2>1, <1>n
    <3>2. inode[dir[Config]] \in File BY <3>1 DEF FileTypes
    <3> QED BY <3>2 DEF File
  <2>3. OtherTypes' BY <2>1, <2>2 DEF OtherTypes, writers
  <2> QED BY <2>1, <2>3, <1>r, <1>n DEF SaveInv, Frozen, Whole, Born
<1>2. CASE OpenRead
  <2>1. /\ UNCHANGED <<dir, inode, writers, rsize, adopted, crashes, crossed>>
        /\ rfd' = dir[Config] /\ rpc' = "read" /\ rfd' # 0
    BY <1>2 DEF OpenRead, SaveInv
  <2>2. OtherTypes' BY <2>1, <1>n DEF OtherTypes, writers
  <2>3. Frozen(rfd)' /\ Frozen(adopted)' BY <2>1 DEF Frozen, Whole, Born, SaveInv
  <2> QED BY <2>1, <2>2, <2>3, <1>r DEF SaveInv
<1>3. CASE ReadAll
  <2>1. /\ UNCHANGED <<dir, inode, writers, rsize, rfd, crashes, crossed>>
        /\ adopted' = rfd \/ adopted' = adopted
        /\ rpc' = "stat"
    BY <1>3 DEF ReadAll
  <2>2. OtherTypes' BY <2>1, <1>n DEF OtherTypes, writers
  <2>3. Frozen(rfd)' /\ Frozen(adopted)' BY <2>1 DEF Frozen, Whole, Born, SaveInv
  <2> QED BY <2>1, <2>2, <2>3, <1>r DEF SaveInv
<1>4. CASE Crash
  <2>1. /\ dir' = dir /\ rfd' = rfd /\ adopted' = 0 /\ rpc' = "stat" /\ crashes' = crashes + 1
        /\ pc' = [w \in Writers |-> "idle"] /\ report' = [w \in Writers |-> "none"]
        /\ fd' = [w \in Writers |-> 0] /\ UNCHANGED <<saves, rsize, crossed>>
    BY <1>4 DEF Crash
  <2>2. /\ FileTypes' /\ Len(inode') = Len(inode)
        /\ \A f \in 1..Len(inode) : inode'[f].by = inode[f].by
        /\ \A f \in 1..Len(inode) : inode[f].synced => inode'[f] = inode[f]
    BY <1>4, CrashKeeps
  <2>3. OtherTypes' BY <2>1, <2>2, <1>n DEF OtherTypes
  <2>4. OneName' /\ Apart' BY <2>1 DEF OneName, Apart
  <2>5. ByName'
    <3>1. \A n \in Names \ {Config} : dir[n] # 0 => dir[n] \in 1..Len(inode) BY <1>n
    <3> QED BY <3>1, <2>1, <2>2 DEF ByName, Born
  <2>6. \A w \in Writers : HasOpen(w)' /\ Alone(w)' BY <2>1 DEF HasOpen, Alone, Owns, Place
  <2>7. ASSUME NEW f \in 0..Len(inode), Frozen(f) PROVE Frozen(f)'
    <3>1. CASE f = 0 BY <3>1 DEF Frozen
    <3>2. CASE f # 0
      <4>1. f \in 1..Len(inode) BY <3>2, <1>n
      <4> QED BY <4>1, <2>1, <2>2, <2>7 DEF Frozen, Whole, Born
    <3> QED BY <3>1, <3>2
  <2>8. Frozen(dir[Config])' /\ Frozen(rfd)' /\ Frozen(adopted)'
    <3>1. Frozen(dir[Config]) /\ Frozen(rfd) BY DEF SaveInv
    <3>2. Frozen(adopted)' BY <2>1 DEF Frozen
    <3>3. Frozen(dir[Config])' BY <3>1, <1>n, <2>1, <2>7 DEF Frozen, Born
    <3>4. Frozen(rfd)' BY <3>1, <1>n, <2>1, <2>7 DEF Frozen, Born
    <3> QED BY <3>2, <3>3, <3>4
  <2> QED BY <2>1, <2>2, <2>3, <2>4, <2>5, <2>6, <2>8 DEF SaveInv
<1>5. CASE UNCHANGED vars
  <2>1. UNCHANGED <<dir, inode, writers, reader, crashes, crossed>> BY <1>5 DEF vars
  <2>2. OtherTypes' BY <2>1 DEF OtherTypes, writers, reader
  <2> QED BY <2>1, <2>2, <1>r, <1>n DEF SaveInv, reader, Frozen, Whole, Born
<1> QED BY <1>w, <1>1, <1>2, <1>3, <1>4, <1>5 DEF Next, Reader

\* Every variable keeps its type: no writer writes beyond its document, whoever else
\* has the file open.
THEOREM FileTypeCorrect == Spec => []TypeOK
<1>1. SaveInv => TypeOK BY DEF SaveInv, FileTypes, OtherTypes, TypeOK, Labels
<1> QED BY <1>1, InitSaveInv, NextSaveInv, PTL DEF Spec

\* No number of writers, errors of the medium and power failures leaves a torn
\* config.json, unless it was written under a name through which two saves crossed.
THEOREM OnlyCrossedSavesTear == Spec => []WholeUnlessCrossed
<1>1. SaveInv => WholeUnlessCrossed BY DEF SaveInv, Frozen, Born, WholeUnlessCrossed
<1> QED BY <1>1, InitSaveInv, NextSaveInv, PTL DEF Spec

\* No save is in the way of another that does not cross it, and no leftover is.
THEOREM SavesOnlyFailForTheMedium == Spec => SavesSucceed
<1> DEFINE Moves == \A w \in Writers : crashes' = crashes /\ Tmp[w] \notin crossed' =>
       /\ pc[w] \in {"open", "reopen"} => pc'[w] # "idle"
       /\ pc[w] = "rename" => pc'[w] # "abort"
<1>1. Init => SaveInv BY InitSaveInv
<1>2. SaveInv /\ [Next]_vars => SaveInv' BY NextSaveInv
<1>3. SaveInv /\ [Next]_vars => [Moves]_vars
  <2> SUFFICES ASSUME SaveInv, Next PROVE Moves BY DEF vars, writers
  <2>1. ASSUME NEW v \in Writers, Writer(v) PROVE Moves
    <3>1. Effect(v) BY <2>1, WriterEffect
    <3> QED BY <3>1 DEF Effect
  <2>2. CASE Reader BY <2>2 DEF Reader, Stat, OpenRead, ReadAll, writers
  <2>3. CASE Crash BY <2>3 DEF Crash, SaveInv, OtherTypes
  <2> QED BY <2>1, <2>2, <2>3 DEF Next
<1>4. SavesSucceed <=> [][Moves]_vars BY DEF SavesSucceed
<1> QED BY <1>1, <1>2, <1>3, <1>4, PTL DEF Spec

\* What a save returns is what config.json shows, for every save that is not crossed.
THEOREM ReportsAreTrue == Spec => ReportIsTrue
<1> DEFINE Truth == \A w \in Writers :
       pc[w] # "idle" /\ pc'[w] = "idle" /\ crashes' = crashes /\ Tmp[w] \notin crossed' =>
         (report'[w] = "ok" <=> (fd[w] # 0 /\ dir'[Config] = fd[w]))
<1>1. Init => SaveInv BY InitSaveInv
<1>2. SaveInv /\ [Next]_vars => SaveInv' BY NextSaveInv
<1>3. SaveInv /\ [Next]_vars => [Truth]_vars
  <2> SUFFICES ASSUME SaveInv, Next PROVE Truth BY DEF vars, writers
  <2>1. ASSUME NEW v \in Writers, Writer(v) PROVE Truth
    <3>1. Effect(v) BY <2>1, WriterEffect
    <3> QED BY <3>1 DEF Effect
  <2>2. CASE Reader BY <2>2 DEF Reader, Stat, OpenRead, ReadAll, writers
  <2>3. CASE Crash BY <2>3 DEF Crash, SaveInv, OtherTypes
  <2> QED BY <2>1, <2>2, <2>3 DEF Next
<1>4. ReportIsTrue <=> [][Truth]_vars BY DEF ReportIsTrue
<1> QED BY <1>1, <1>2, <1>3, <1>4, PTL DEF Spec

\* The programs, the file system and the power failures take only steps of a register
\* of whole documents, as long as no two saves have crossed.
THEOREM IsARegister == Spec => IsRegister
<1> DEFINE Promised == crossed' = {} => [Register!Next]_(Register!vars)
<1>1. Init => SaveInv BY InitSaveInv
<1>2. SaveInv /\ [Next]_vars => SaveInv' BY NextSaveInv
<1>3. Init => Register!Init BY DEF Init, Register!Init, Doc, Names
<1>4. SaveInv /\ [Next]_vars => [Promised]_vars
  <2> SUFFICES ASSUME SaveInv, [Next]_vars, crossed' = {} PROVE [Register!Next]_(Register!vars)
    OBVIOUS
  <2> FileTypes /\ OtherTypes BY DEF SaveInv
  <2>n. /\ Len(inode) \in Nat /\ Config \in Names /\ dir[Config] \in 0..Len(inode)
        /\ rfd \in 0..Len(inode) /\ adopted \in 0..Len(inode)
        /\ DOMAIN inode = 1..Len(inode) /\ \A f \in 1..Len(inode) : inode[f] \in File
    BY DEF FileTypes, OtherTypes, Names
  <2>f. Frozen(rfd) /\ Frozen(adopted) /\ Frozen(dir[Config]) BY DEF SaveInv
  <2>w. ASSUME NEW w \in Writers, Writer(w) PROVE [Register!Next]_(Register!vars)
    <3>1. Effect(w) /\ rfd' = rfd /\ adopted' = adopted
      BY <2>w, WriterEffect
         DEF Writer, Begin, Open, Unlink, Reopen, Write, Sync, Rename, Abort, reader
    <3>0. crossed = {} BY <3>1 DEF Effect
    <3>d. ASSUME NEW f \in 0..Len(inode), Frozen(f) PROVE Doc(f)' = Doc(f)
      <4>1. f # 0 => inode'[f] = inode[f] BY <3>0, <3>1, <3>d, FrozenKept
      <4> QED BY <4>1 DEF Doc
    <3>2. Doc(rfd)' = Doc(rfd) /\ Doc(adopted)' = Doc(adopted)
      BY <3>1, <3>d, <2>f, <2>n DEF Doc
    <3>3. CASE dir'[Config] = dir[Config]
      <4>1. Doc(dir[Config])' = Doc(dir[Config])
        BY <3>3, <3>d, <2>f, <2>n DEF Doc
      <4> QED BY <4>1, <3>2 DEF Register!vars
    <3>4. CASE /\ dir[Tmp[w]] # 0 /\ dir'[Config] = dir[Tmp[w]] /\ inode' = inode
               /\ Whole(inode[dir[Tmp[w]]]) /\ inode[dir[Tmp[w]]].synced
      <4> DEFINE f == dir[Tmp[w]]
      <4>1. f \in 1..Len(inode) /\ Whole(inode[f]) /\ inode[f].synced
        BY <3>4, Basics
      <4>2. inode[f] \in File /\ inode[f].size \in 0..MaxBlocks
        BY <4>1, <2>n, WritersKnown DEF File, Whole
      <4>3. Doc(dir[Config])' = <<f, inode[f].by, inode[f].size, inode[f].synced>>
        BY <3>4, <4>1 DEF Doc
      <4>4. <<f, inode[f].by, inode[f].size, inode[f].synced>> \in WholeDocuments
        <5> DEFINE d == <<f, inode[f].by, inode[f].size, inode[f].synced>>
        <5>1. f \in Nat /\ inode[f].by \in Writers /\ inode[f].synced = TRUE
          BY <4>1, <4>2, <2>n DEF File
        <5>2. d \in Nat \X Writers \X (0..MaxBlocks) \X {TRUE} BY <5>1, <4>2
        <5>3. d[3] = Blocks[d[2]] BY <4>1 DEF Whole
        <5> HIDE DEF d
        <5>4. d \in WholeDocuments BY <5>2, <5>3 DEF WholeDocuments
        <5> QED BY <5>4 DEF d
      <4> QED BY <4>3, <4>4, <3>2 DEF Register!Next, Register!Replace
    <3> QED BY <3>0, <3>1, <3>3, <3>4 DEF Effect
  <2>1. CASE Stat BY <2>1 DEF Stat, writers, Doc, Register!vars
  <2>2. CASE OpenRead
    <3>1. /\ UNCHANGED <<dir, inode, adopted>> /\ rfd' = dir[Config] /\ dir[Config] # 0
      BY <2>2 DEF OpenRead, SaveInv
    <3>2. Doc(rfd)' = Doc(dir[Config]) /\ Doc(dir[Config]) # <<>>
          /\ Doc(dir[Config])' = Doc(dir[Config]) /\ Doc(adopted)' = Doc(adopted)
      BY <3>1 DEF Doc
    <3> QED BY <3>2 DEF Register!Next, Register!Open
  <2>3. CASE ReadAll
    <3>1. /\ UNCHANGED <<dir, inode, rfd>> /\ rfd # 0
          /\ adopted' = rfd \/ adopted' = adopted
      BY <2>3 DEF ReadAll, SaveInv
    <3>2. Doc(dir[Config])' = Doc(dir[Config]) /\ Doc(rfd)' = Doc(rfd) /\ Doc(rfd) # <<>>
          /\ (Doc(adopted)' = Doc(rfd) \/ Doc(adopted)' = Doc(adopted))
      BY <3>1 DEF Doc
    <3> QED BY <3>2 DEF Register!Next, Register!Adopt, Register!vars
  <2>4. CASE Crash
    <3>1. dir' = dir /\ rfd' = rfd /\ adopted' = 0 /\ crossed = {} BY <2>4 DEF Crash
    <3>2. \A f \in 1..Len(inode) : inode[f].synced => inode'[f] = inode[f]
      BY <2>4, CrashKeeps
    <3>3. Doc(dir[Config])' = Doc(dir[Config]) /\ Doc(rfd)' = Doc(rfd) /\ Doc(adopted)' = <<>>
      BY <3>1, <3>2, <2>f, <2>n DEF Doc, Frozen
    <3> QED BY <3>3 DEF Register!Next, Register!Forget
  <2>5. CASE UNCHANGED vars BY <2>5 DEF vars, writers, reader, Doc, Register!vars
  <2> QED BY <2>w, <2>1, <2>2, <2>3, <2>4, <2>5 DEF Next, Reader
<1>5. IsRegister <=> Register!Init /\ [][Promised]_vars BY DEF IsRegister
<1> QED BY <1>1, <1>2, <1>3, <1>4, <1>5, PTL DEF Spec

\* A save that does not cross another fails only for the medium, says what is so, and
\* is one step of the register (routine_config.c:491-521).
THEOREM SavesAreReported == Spec => SavesReport
BY SavesOnlyFailForTheMedium, ReportsAreTrue, IsARegister DEF SavesReport

-----------------------------------------------------------------------------
(* The messages of WeChat: WeixinPoll. *)

\* A sequence without repetitions is no longer than the set it is taken from.
LEMMA DistinctFit ==
  ASSUME NEW S, IsFiniteSet(S), NEW q \in Seq(S),
         \A i, j \in 1..Len(q) : q[i] = q[j] => i = j
  PROVE  Len(q) <= Cardinality(S)
<1> SUFFICES ASSUME ~(Len(q) <= Cardinality(S)) PROVE FALSE
  OBVIOUS
<1>1. Len(q) \in Nat /\ q \in [1..Len(q) -> S]
  OBVIOUS
<1>2. IsFiniteSet(1..Len(q)) /\ Cardinality(1..Len(q)) = Len(q)
  BY <1>1, FS_Interval
<1>3. Cardinality(S) \in Nat
  BY FS_CardinalityType
<1>4. Cardinality(S) < Cardinality(1..Len(q))
  BY <1>1, <1>2, <1>3
<1>5. \E x, y \in 1..Len(q) : x # y /\ q[x] = q[y]
  BY ONLY <1>1, <1>2, <1>4, IsFiniteSet(S), FS_PigeonHole
<1> QED
  BY <1>5

\* A step of the model is one of WeChat or none, when it moves.
LEMMA WeixinMoves ==
  ASSUME [PartsNext]_<<part, moving>>, part = "weixin"
  PROVE  part' = "weixin" /\ (Weixin!Next \/ UNCHANGED weixinVars)
<1>1. CASE PartsNext
  BY <1>1 DEF PartsNext
<1>2. CASE UNCHANGED <<part, moving>>
  BY <1>2 DEF moving
<1> QED
  BY <1>1, <1>2

\* What is in the ring, in the hands of the task and passed on are messages of the
\* service; the ring holds each of the first once, and it holds all that were
\* passed on or refused.
WeixinInv ==
  /\ written \in 0..MaxMessages /\ cursor \in 0..written
  /\ ring \in Seq(1..written) /\ wxOut \in Seq(1..written)
  /\ task = [pc |-> task.pc, token |-> task.token, left |-> task.left]
  /\ task.left \in Seq(1..written)
  /\ task.pc # "dispatch" => task.left = <<>>
  /\ \A i, j \in 1..Len(ring) : ring[i] = ring[j] => i = j
  /\ \A i \in 1..Len(wxOut) : \E k \in 1..Len(ring) : ring[k] = wxOut[i]
  /\ \A k \in 1..Len(ring) : ring[k] \in refused \/ \E i \in 1..Len(wxOut) : ring[k] = wxOut[i]
  /\ Weixin!HandledOnce

\* A ring that has room for all messages loses none of them.
LEMMA RingHoldsAll ==
  ASSUME WeixinInv, MaxMessages <= PollRing, NEW m \in 1..written,
         ~ \E i \in 1..Len(ring) : ring[i] = m
  PROVE  Weixin!Recorded(m) = Append(ring, m) /\ Append(ring, m) \in Seq(1..written)
<1> DEFINE all == Append(ring, m)
<1>1. written \in Nat /\ ring \in Seq(1..written) /\ written <= MaxMessages
  BY PollAssumption DEF WeixinInv
<1>2. all \in Seq(1..written) /\ Len(all) = Len(ring) + 1
  BY <1>1
<1>3. \A i, j \in 1..Len(all) : all[i] = all[j] => i = j
  BY <1>1, <1>2 DEF WeixinInv
<1>4. IsFiniteSet(1..written) /\ Cardinality(1..written) = written
  BY <1>1, FS_Interval
<1>5. Len(all) <= written
  <2> HIDE DEF all
  <2> QED
    BY <1>2, <1>3, <1>4, DistinctFit
<1>6. ~(Len(all) > PollRing)
  BY <1>1, <1>2, <1>5, PollAssumption
<1> QED
  BY <1>2, <1>6 DEF Weixin!Recorded

\* Every step of the poll, of the service and of a restart keeps the poll's invariant.
LEMMA WeixinKept ==
  ASSUME MaxMessages <= PollRing, WeixinInv, Weixin!Next \/ UNCHANGED weixinVars
  PROVE  WeixinInv'
<1>t. written \in Nat /\ cursor \in Nat /\ cursor <= written /\ MaxMessages \in Nat
  BY PollAssumption DEF WeixinInv
\* What leaves the messages alone.
<1>1. ASSUME UNCHANGED <<ring, written, wxOut, refused>>, cursor' \in {0, cursor},
             task' = task \/ (task.left = <<>> /\ task' = [pc |-> task'.pc, token |-> task'.token, left |-> <<>>])
      PROVE  WeixinInv'
  <2>1. task'.left = task.left
    BY <1>1
  <2>2. Weixin!Handled' = Weixin!Handled
    BY <1>1, <2>1 DEF Weixin!Handled
  <2>3. 1..cursor' \subseteq 1..cursor
    BY <1>1, <1>t
  <2>4. Weixin!HandledOnce'
    BY <1>1, <2>2, <2>3 DEF WeixinInv, Weixin!HandledOnce
  <2>5. task'.pc # "dispatch" => task'.left = <<>>
    BY <1>1, <2>1 DEF WeixinInv
  <2>6. task' = [pc |-> task'.pc, token |-> task'.token, left |-> task'.left]
    BY <1>1, <2>1 DEF WeixinInv
  <2>7. cursor' \in 0..written'
    BY <1>1, <1>t
  <2> QED
    BY <1>1, <2>1, <2>4, <2>5, <2>6, <2>7 DEF WeixinInv
<1>2. CASE UNCHANGED weixinVars
  BY <1>2, <1>1 DEF weixinVars
<1>3. CASE Weixin!Stop \/ Weixin!Login
  BY <1>3, <1>1 DEF Weixin!Stop, Weixin!Login
<1>4. CASE Weixin!Start
  BY <1>4, <1>1 DEF Weixin!Start, Weixin!Top, WeixinInv
<1>5. CASE Weixin!Exit \/ Weixin!Ask \/ Weixin!Fails \/ Weixin!Expired
  <2>0. task.pc # "dispatch" /\ \E p, t : task' = [pc |-> p, token |-> t, left |-> <<>>]
    <3>1. CASE Weixin!Exit \/ Weixin!Fails \/ Weixin!Expired
      BY <3>1 DEF Weixin!Exit, Weixin!Fails, Weixin!Expired, Weixin!Top, Weixin!Off
    <3>2. CASE Weixin!Ask
      <4>1. task.pc = "top" /\ task' = [pc |-> "asked", token |-> wxToken, left |-> <<>>]
        BY <3>2 DEF Weixin!Ask, Weixin!Top
      <4> QED
        BY <4>1
    <3> QED
      BY <1>5, <3>1, <3>2
  <2>1. task.left = <<>> /\ task' = [pc |-> task'.pc, token |-> task'.token, left |-> <<>>]
    BY <2>0 DEF WeixinInv
  <2> QED
    BY <1>5, <2>1, <1>1 DEF Weixin!Exit, Weixin!Ask, Weixin!Fails, Weixin!Expired
<1>6. CASE Weixin!Answer
  <2>0. /\ task.pc = "asked" /\ UNCHANGED <<wxRunning, wxToken, wxSaved, ring, valid, written, wxOut, refused, wxStarts>>
        /\ \E upTo \in cursor..written :
             /\ cursor' = upTo
             /\ task' = [Weixin!Top EXCEPT !.pc = "dispatch", !.left = Weixin!Taken(cursor, upTo)]
    BY <1>6 DEF Weixin!Answer
  <2>1. PICK upTo \in cursor..written :
          /\ cursor' = upTo
          /\ task' = [Weixin!Top EXCEPT !.pc = "dispatch", !.left = Weixin!Taken(cursor, upTo)]
    BY <2>0
  <2> DEFINE new == [i \in 1..(upTo - cursor) |-> cursor + i]
  <2>2. upTo \in Nat /\ upTo - cursor \in Nat /\ new \in Seq(1..written) /\ Len(new) = upTo - cursor
    BY <1>t
  <2>3. task' = [pc |-> "dispatch", token |-> 0, left |-> new]
    BY <2>1 DEF Weixin!Taken, Weixin!Top
  <2>4. task.left = <<>>
    BY <2>0 DEF WeixinInv
  <2>5. \A m \in 1..upTo : m \in Weixin!Handled'
    <3> TAKE m \in 1..upTo
    <3>1. CASE m <= cursor
      <4>1. m \in Weixin!Handled
        BY <3>1, <2>2, <1>t DEF WeixinInv, Weixin!HandledOnce
      <4> QED
        BY <4>1, <2>0, <2>4 DEF Weixin!Handled
    <3>2. CASE ~(m <= cursor)
      <4>1. m - cursor \in 1..Len(new) /\ new[m - cursor] = m
        BY <3>2, <2>2, <1>t
      <4> QED
        BY <4>1, <2>3 DEF Weixin!Handled
    <3> QED
      BY <3>1, <3>2
  <2>6. Weixin!HandledOnce'
    BY <2>0, <2>1, <2>5 DEF WeixinInv, Weixin!HandledOnce
  <2> HIDE DEF new
  <2>7. task'.left = new /\ task'.pc = "dispatch" /\ task' = [pc |-> task'.pc, token |-> task'.token, left |-> task'.left]
    BY <2>3
  <2>8. cursor' \in 0..written'
    BY <2>0, <2>1, <1>t
  <2> QED
    BY <2>0, <2>2, <2>6, <2>7, <2>8 DEF WeixinInv
<1>7. CASE Weixin!Dispatch
  <2>0. task.pc = "dispatch" /\ UNCHANGED <<cursor, written>>
    BY <1>7 DEF Weixin!Dispatch
  <2>1. CASE task.left = <<>>
    BY <1>7, <2>0, <2>1, <1>1 DEF Weixin!Dispatch, Weixin!Top
  <2>2. CASE task.left # <<>>
    <3> DEFINE m == Head(task.left)
    <3>1. /\ m \in 1..written /\ Tail(task.left) \in Seq(1..written) /\ Len(task.left) >= 1
          /\ \A i \in 1..Len(task.left) : task.left[i] = m \/ (i - 1 \in 1..Len(Tail(task.left)) /\ Tail(task.left)[i - 1] = task.left[i])
      BY <2>2 DEF WeixinInv
    <3>2. task' = [task EXCEPT !.left = Tail(@)]
      BY <1>7, <2>2 DEF Weixin!Dispatch
    <3>3. task' = [pc |-> "dispatch", token |-> task.token, left |-> Tail(task.left)]
      BY <3>2, <2>0 DEF WeixinInv
    <3>4. task'.left = Tail(task.left) /\ task'.pc = "dispatch" /\ task' = [pc |-> task'.pc, token |-> task'.token, left |-> task'.left]
      BY <3>3
    <3> HIDE DEF m
    \* The message was handled, and what else was handled is still.
    <3>5. ASSUME /\ \A i \in 1..Len(wxOut) : \E k \in 1..Len(wxOut') : wxOut'[k] = wxOut[i]
                 /\ refused \subseteq refused'
                 /\ m \in refused' \/ \E k \in 1..Len(wxOut') : wxOut'[k] = m
                 /\ \A i, j \in 1..Len(wxOut') : i # j => wxOut'[i] # wxOut'[j]
          PROVE  Weixin!HandledOnce'
      <4>1. ASSUME NEW x \in Weixin!Handled PROVE x \in Weixin!Handled'
        BY <4>1, <3>1, <3>4, <3>5 DEF Weixin!Handled
      <4> QED
        BY <4>1, <3>5, <2>0 DEF WeixinInv, Weixin!HandledOnce
    <3>6. CASE \E i \in 1..Len(ring) : ring[i] = m
      <4>1. UNCHANGED <<ring, wxOut, refused>>
        BY <1>7, <2>2, <3>6 DEF Weixin!Dispatch, m
      <4>2. m \in refused \/ \E k \in 1..Len(wxOut) : wxOut[k] = m
        BY <3>6 DEF WeixinInv
      <4>3. Weixin!HandledOnce'
        BY <4>1, <4>2, <3>5 DEF WeixinInv, Weixin!HandledOnce
      <4> QED
        BY <4>1, <4>3, <2>0, <3>1, <3>4 DEF WeixinInv
    <3>7. CASE ~ \E i \in 1..Len(ring) : ring[i] = m
      <4>1. /\ ring' = Weixin!Recorded(m)
            /\ (wxOut' = Append(wxOut, m) /\ refused' = refused) \/ (refused' = refused \cup {m} /\ wxOut' = wxOut)
        BY <1>7, <2>2, <3>7 DEF Weixin!Dispatch, m
      <4>2. ring' = Append(ring, m) /\ ring' \in Seq(1..written) /\ Len(ring') = Len(ring) + 1
        <5>1. Weixin!Recorded(m) = Append(ring, m) /\ Append(ring, m) \in Seq(1..written)
          BY <3>1, <3>7, RingHoldsAll
        <5>2. ring \in Seq(1..written)
          BY DEF WeixinInv
        <5> QED
          BY <4>1, <5>1, <5>2
      <4>3. \A i \in 1..Len(wxOut) : wxOut[i] # m
        BY <3>7 DEF WeixinInv
      <4>4. wxOut' \in Seq(1..written)
        <5>1. wxOut \in Seq(1..written) /\ m \in 1..written
          BY <3>1 DEF WeixinInv
        <5>2. Append(wxOut, m) \in Seq(1..written)
          BY <5>1, AppendProperties
        <5>3. wxOut' = Append(wxOut, m) \/ wxOut' = wxOut
          BY <4>1
        <5> QED
          BY <5>1, <5>2, <5>3, Zenon
      <4>5. Weixin!HandledOnce'
        <5>1. \A i, j \in 1..Len(wxOut) : i # j => wxOut[i] # wxOut[j]
          BY DEF WeixinInv, Weixin!HandledOnce
        <5>2. wxOut \in Seq(1..written)
          BY DEF WeixinInv
        <5>3. CASE wxOut' = Append(wxOut, m) /\ refused' = refused
          <6>1. Len(wxOut') = Len(wxOut) + 1 /\ wxOut'[Len(wxOut) + 1] = m /\ \A i \in 1..Len(wxOut) : wxOut'[i] = wxOut[i]
            BY <5>2, <5>3
          <6> QED
            BY <6>1, <5>1, <5>2, <5>3, <4>3, <3>5
        <5>4. CASE refused' = refused \cup {m} /\ wxOut' = wxOut
          BY <5>1, <5>4, <3>5
        <5> QED
          BY <4>1, <5>3, <5>4
      <4>6. \A i, j \in 1..Len(ring') : ring'[i] = ring'[j] => i = j
        BY <4>2, <3>7 DEF WeixinInv
      <4>7. \A i \in 1..Len(wxOut') : \E k \in 1..Len(ring') : ring'[k] = wxOut'[i]
        <5> TAKE i \in 1..Len(wxOut')
        <5>1. wxOut'[i] = m \/ (i \in 1..Len(wxOut) /\ wxOut'[i] = wxOut[i])
          BY <4>1 DEF WeixinInv
        <5>2. ring'[Len(ring')] = m /\ Len(ring') \in 1..Len(ring') /\ \A k \in 1..Len(ring) : k \in 1..Len(ring') /\ ring'[k] = ring[k]
          BY <4>2 DEF WeixinInv
        <5> QED
          BY <5>1, <5>2 DEF WeixinInv
      <4>8. \A k \in 1..Len(ring') : ring'[k] \in refused' \/ \E i \in 1..Len(wxOut') : ring'[k] = wxOut'[i]
        <5> TAKE k \in 1..Len(ring')
        <5>1. ring'[k] = m \/ (k \in 1..Len(ring) /\ ring'[k] = ring[k])
          BY <4>2 DEF WeixinInv
        <5>0. wxOut \in Seq(1..written) /\ Len(wxOut) \in Nat
          BY DEF WeixinInv
        <5>2. m \in refused' \/ \E i \in 1..Len(wxOut') : wxOut'[i] = m
          <6>1. CASE wxOut' = Append(wxOut, m)
            <7>1. Len(wxOut') = Len(wxOut) + 1 /\ wxOut'[Len(wxOut) + 1] = m
              BY <5>0, <6>1
            <7> QED
              BY <5>0, <7>1
          <6> QED
            BY <4>1, <6>1
        <5>3. /\ refused \subseteq refused'
              /\ \A i \in 1..Len(wxOut) : i \in 1..Len(wxOut') /\ wxOut'[i] = wxOut[i]
          BY <4>1 DEF WeixinInv
        <5> QED
          BY <5>1, <5>2, <5>3 DEF WeixinInv
      <4> QED
        BY <4>2, <4>4, <4>5, <4>6, <4>7, <4>8, <2>0, <3>1, <3>4 DEF WeixinInv
    <3> QED
      BY <3>6, <3>7
  <2> QED
    BY <2>1, <2>2
<1>8. CASE Weixin!Write
  <2>1. written' = written + 1 /\ written < MaxMessages /\ UNCHANGED <<task, cursor, ring, wxOut, refused>>
    BY <1>8 DEF Weixin!Write
  <2>2. 1..written \subseteq 1..written' /\ written' \in 0..MaxMessages /\ cursor \in 0..written'
    BY <2>1, <1>t
  <2>3. \A q \in Seq(1..written) : q \in Seq(1..written')
    BY <2>2, SeqMonotonic
  <2>4. Weixin!Handled' = Weixin!Handled
    BY <2>1, Zenon DEF Weixin!Handled
  <2>5. Weixin!HandledOnce'
    BY <2>1, <2>4 DEF WeixinInv, Weixin!HandledOnce
  <2> QED
    BY <2>1, <2>2, <2>3, <2>5 DEF WeixinInv
<1> QED
  BY <1>2, <1>3, <1>4, <1>5, <1>6, <1>7, <1>8 DEF Weixin!Next

\* The poll's invariant holds whenever it moves, when the ring has room for the messages.
LEMMA WeixinHolds == MaxMessages <= PollRing => (PartsSpec => [](part = "weixin" => WeixinInv))
<1> SUFFICES ASSUME MaxMessages <= PollRing PROVE PartsSpec => [](part = "weixin" => WeixinInv)
  OBVIOUS
<1>1. PartsInit => WeixinInv
  <2> SUFFICES ASSUME Weixin!Init PROVE WeixinInv
    BY DEF PartsInit
  <2>1. task = Weixin!Off /\ cursor = 0 /\ ring = <<>> /\ written = 0 /\ wxOut = <<>>
    BY Zenon DEF Weixin!Init
  <2>2. Weixin!HandledOnce
    BY <2>1 DEF Weixin!HandledOnce
  <2> QED
    BY <2>1, <2>2, PollAssumption DEF WeixinInv, Weixin!Off
<1>2. (part = "weixin" => WeixinInv) /\ [PartsNext]_<<part, moving>> => (part = "weixin" => WeixinInv)'
  <2> SUFFICES ASSUME part = "weixin" => WeixinInv, [PartsNext]_<<part, moving>>, part' = "weixin"
               PROVE  WeixinInv'
    OBVIOUS
  <2>1. part = "weixin"
    BY DEF PartsNext, moving
  <2> QED
    BY <2>1, WeixinMoves, WeixinKept
<1> QED
  BY <1>1, <1>2, PTL DEF PartsSpec

-----------------------------------------------------------------------------
(* The messages of Feishu: FeishuInbox. *)

\* A step of the model is one of the inbox or none, when it moves.
LEMMA InboxMoves ==
  ASSUME [PartsNext]_<<part, moving>>, part = "feishu"
  PROVE  part' = "feishu" /\ (Inbox!Next \/ UNCHANGED feishuVars)
<1>1. CASE PartsNext
  BY <1>1 DEF PartsNext
<1>2. CASE UNCHANGED <<part, moving>>
  BY <1>2 DEF moving
<1> QED
  BY <1>1, <1>2

\* The module's sizes of sets are those of the theorems about them.
LEMMA InboxSize == ASSUME NEW S PROVE Inbox!Cardinality(S) = Cardinality(S)
  BY DEF Inbox!Cardinality, Cardinality

\* The chats that bots write in, and what is given to the assistant.
BotChats == {Message[m].chat : m \in {n \in DOMAIN Message : Inbox!ByBot(n)}}
Answers == [id : DOMAIN Message, at : Nat]
ByBotIn(a, c) == Inbox!ByBot(a.id) /\ Message[a.id].chat = c
\* The messages of bots in a chat since t, and those of the window that begins with
\* the i-th.
Since(o, c, t) == {j \in 1..Len(o) : ByBotIn(o[j], c) /\ o[j].at >= t}
Within(o, i) == {j \in i..Len(o) : ByBotIn(o[j], Message[o[i].id].chat) /\ o[j].at - o[i].at < RateWindow}
\* What is given is in the order of time, and no window has more than the limit.
Timely(o, n) ==
  /\ o \in Seq(Answers)
  /\ \A i \in 1..Len(o) : o[i].at \in 1..n
  /\ \A i, j \in 1..Len(o) : i <= j => o[i].at <= o[j].at
  /\ \A i \in 1..Len(o) : Cardinality(Within(o, i)) <= RateMax

Unnamed == ""
Named == {Unnamed} \cup BotChats
Entries == [chat : Named, stamps : [1..RateMax -> Nat], next : 1..RateMax]
\* j was stamped after i: the stamps go round, and the next is the oldest.
After(e, i, j) == \/ i <= j /\ (j < e.next \/ e.next <= i)
                  \/ e.next <= i /\ j < e.next
Held(e, t) == {k \in 1..RateMax : e.stamps[k] >= t}
\* The stamps of an entry are those of its chat's latest messages of bots, or of more.
Rating(e, o, n) ==
  /\ e \in Entries
  /\ \A k \in 1..RateMax : e.stamps[k] <= n
  /\ \A i, j \in 1..RateMax : After(e, i, j) => e.stamps[i] <= e.stamps[j]
  /\ \A t \in Nat : Held(e, t) = 1..RateMax \/ Cardinality(Since(o, e.chat, t)) <= Cardinality(Held(e, t))
Ratings(r, o, n) ==
  /\ r \in [1..RateSlots -> Entries]
  /\ \A s \in 1..RateSlots : Rating(r[s], o, n)
  /\ \A s, u \in 1..RateSlots : r[s].chat = r[u].chat /\ r[s].chat # Unnamed => s = u
  /\ \A j \in 1..Len(o) : Inbox!ByBot(o[j].id) => \E s \in 1..RateSlots : r[s].chat = Message[o[j].id].chat

\* The sizes, without the names.
LEMMA InboxSizes ==
  /\ IsFiniteSet(DOMAIN Message) /\ InboxRing \in Nat /\ RateSlots \in Nat /\ RateWindow \in Nat
  /\ RateMax \in Nat \ {0}
  BY Zenon, InboxAssumption

\* The stamps of an entry since t are finitely many, and as many as there are or fewer.
LEMMA HeldSize ==
  ASSUME NEW e, NEW t
  PROVE  /\ IsFiniteSet(Held(e, t)) /\ Cardinality(Held(e, t)) \in Nat
         /\ Cardinality(Held(e, t)) <= RateMax
         /\ Held(e, t) # 1..RateMax => Cardinality(Held(e, t)) < RateMax
<1>1. RateMax \in Nat \ {0}
  BY InboxSizes
<1>2. IsFiniteSet(1..RateMax) /\ Cardinality(1..RateMax) = RateMax
  BY <1>1, FS_Interval
<1>3. Held(e, t) \in SUBSET (1..RateMax)
  BY DEF Held
<1>4. /\ IsFiniteSet(Held(e, t)) /\ Cardinality(Held(e, t)) <= Cardinality(1..RateMax)
      /\ Cardinality(1..RateMax) = Cardinality(Held(e, t)) => 1..RateMax = Held(e, t)
  BY ONLY <1>2, <1>3, FS_Subset
<1>5. Cardinality(Held(e, t)) \in Nat
  BY <1>4, FS_CardinalityType
<1> QED
  BY <1>1, <1>2, <1>4, <1>5

\* The messages of bots since t are finitely many.
LEMMA SinceSize ==
  ASSUME NEW o, Len(o) \in Nat, NEW c, NEW t
  PROVE  IsFiniteSet(Since(o, c, t)) /\ Cardinality(Since(o, c, t)) \in Nat
<1>1. IsFiniteSet(1..Len(o))
  BY FS_Interval
<1>2. Since(o, c, t) \in SUBSET (1..Len(o))
  BY DEF Since
<1>3. IsFiniteSet(Since(o, c, t))
  BY ONLY <1>1, <1>2, FS_Subset
<1> QED
  BY <1>3, FS_CardinalityType

\* In the chat c, p has one message more than o, of now, or none.
Follows(p, o, c, n) ==
  /\ \A t \in Nat : Since(p, c, t) \subseteq Since(o, c, t) \cup {Len(o) + 1}
  /\ \A t \in Nat : t > n => Since(p, c, t) = {}
Restamped(e, n) == [chat |-> e.chat, stamps |-> [e.stamps EXCEPT ![e.next] = n],
                    next |-> IF e.next = RateMax THEN 1 ELSE e.next + 1]

\* The oldest stamp becomes the newest: the entry stands for one message more.
LEMMA StampedRates ==
  ASSUME NEW n \in Nat, NEW o, NEW p, Len(o) \in Nat, Len(p) \in Nat, NEW e, Rating(e, o, n),
         Follows(p, o, e.chat, n)
  PROVE  Rating(Restamped(e, n), p, n) /\ Restamped(e, n).chat = e.chat
<1> DEFINE stamps == [e.stamps EXCEPT ![e.next] = n]
           next == IF e.next = RateMax THEN 1 ELSE e.next + 1
           f == Restamped(e, n)
<1>1. RateMax \in Nat \ {0} /\ e \in Entries
  BY InboxSizes DEF Rating
<1>2. e.next \in 1..RateMax /\ e.stamps \in [1..RateMax -> Nat] /\ e.chat \in Named
  BY <1>1 DEF Entries
<1>3. stamps \in [1..RateMax -> Nat] /\ next \in 1..RateMax
      /\ stamps[e.next] = n /\ \A k \in 1..RateMax : k # e.next => stamps[k] = e.stamps[k]
  BY <1>1, <1>2
<1>f. f = [chat |-> e.chat, stamps |-> stamps, next |-> next]
  BY DEF Restamped
<1> HIDE DEF f, stamps, next
<1>4. f \in Entries /\ f.chat = e.chat /\ f.stamps = stamps /\ f.next = next
  BY <1>2, <1>3, <1>f DEF Entries
<1>5. \A k \in 1..RateMax : f.stamps[k] <= n
  BY <1>1, <1>3, <1>4 DEF Rating
<1>6. ASSUME NEW i \in 1..RateMax, NEW j \in 1..RateMax, After(f, i, j)
      PROVE  f.stamps[i] <= f.stamps[j]
  <2>1. CASE j = e.next
    BY <2>1, <1>3, <1>4, <1>5
  <2>2. CASE j # e.next
    <3>1. i # e.next /\ After(e, i, j)
      <4>1. CASE e.next = RateMax
        BY <1>1, <1>2, <1>4, <1>6, <2>2, <4>1 DEF After, next
      <4>2. CASE e.next # RateMax
        BY <1>1, <1>2, <1>4, <1>6, <2>2, <4>2 DEF After, next
      <4> QED
        BY <4>1, <4>2
    <3> QED
      BY <3>1, <2>2, <1>3, <1>4 DEF Rating
  <2> QED
    BY <2>1, <2>2
<1>7. ASSUME NEW t \in Nat, Held(f, t) # 1..RateMax
      PROVE  Cardinality(Since(p, f.chat, t)) <= Cardinality(Held(f, t))
  <2>1. CASE t > n
    <3>1. Since(p, f.chat, t) = {}
      BY <2>1, <1>4 DEF Follows
    <3>2. Cardinality(Since(p, f.chat, t)) = 0
      BY <3>1, FS_EmptySet, Zenon
    <3> QED
      BY <3>2, HeldSize
  <2>2. CASE ~(t > n)
    <3>1. e.stamps[e.next] < t
      <4> SUFFICES ASSUME ~(e.stamps[e.next] < t) PROVE FALSE
        OBVIOUS
      <4>1. \A k \in 1..RateMax : e.stamps[k] >= t
        <5> TAKE k \in 1..RateMax
        <5>1. After(e, e.next, k)
          BY <1>1, <1>2 DEF After
        <5>2. e.stamps[e.next] <= e.stamps[k] /\ e.stamps[k] \in Nat /\ e.stamps[e.next] \in Nat
          BY <5>1, <1>1, <1>2 DEF Rating
        <5> QED
          BY <5>2
      <4>2. \A k \in 1..RateMax : f.stamps[k] >= t
        BY <4>1, <2>2, <1>3, <1>4
      <4> QED
        BY <4>2, <1>7 DEF Held
    <3>2. Held(f, t) = Held(e, t) \cup {e.next} /\ e.next \notin Held(e, t)
      <4>1. ASSUME NEW k \in 1..RateMax
            PROVE  f.stamps[k] >= t <=> (e.stamps[k] >= t \/ k = e.next)
        <5>0. f.stamps[k] = IF k = e.next THEN n ELSE e.stamps[k]
          BY <1>3, <1>4
        <5>1. CASE k = e.next
          <6>1. f.stamps[k] >= t
            BY <5>0, <5>1, <2>2
          <6> QED
            BY <5>1, <6>1
        <5>2. CASE k # e.next
          BY <5>0, <5>2
        <5> QED
          BY <5>1, <5>2
      <4>2. ~(e.stamps[e.next] >= t)
        <5>1. e.stamps[e.next] \in Nat
          BY <1>2
        <5> QED
          BY <3>1, <5>1
      <4> QED
        BY <4>1, <4>2, <1>2 DEF Held
    <3>3. Cardinality(Held(f, t)) = Cardinality(Held(e, t)) + 1
      <4>1. IsFiniteSet(Held(e, t))
        BY HeldSize
      <4>2. Cardinality(Held(e, t) \cup {e.next}) = Cardinality(Held(e, t)) + 1
        BY ONLY <4>1, <3>2, FS_AddElement
      <4> QED
        BY <4>2, <3>2
    <3>4. Held(e, t) # 1..RateMax
      BY <3>2, <1>2
    <3>5. Cardinality(Since(o, e.chat, t)) <= Cardinality(Held(e, t))
      BY <3>4 DEF Rating
    <3>6. Cardinality(Since(p, e.chat, t)) <= Cardinality(Since(o, e.chat, t)) + 1
      <4> DEFINE old == Since(o, e.chat, t)
                 new == Since(p, e.chat, t)
                 x == Len(o) + 1
      <4>1. IsFiniteSet(old) /\ Cardinality(old) \in Nat /\ new \subseteq old \cup {x}
        BY SinceSize DEF Follows
      <4> HIDE DEF old, new, x
      <4>2. IsFiniteSet(old \cup {x}) /\ Cardinality(old \cup {x}) = IF x \in old THEN Cardinality(old) ELSE Cardinality(old) + 1
        BY ONLY <4>1, FS_AddElement
      <4>3. Cardinality(new) <= Cardinality(old \cup {x})
        BY ONLY <4>1, <4>2, FS_Subset
      <4>4. Cardinality(new) \in Nat
        BY SinceSize DEF new
      <4> QED
        BY <4>1, <4>2, <4>3, <4>4 DEF old, new
    <3>7. Cardinality(Held(e, t)) \in Nat /\ Cardinality(Since(o, e.chat, t)) \in Nat /\ Cardinality(Since(p, e.chat, t)) \in Nat
      BY HeldSize, SinceSize
    <3> QED
      BY <3>3, <3>5, <3>6, <3>7, <1>4
  <2> QED
    BY <2>1, <2>2
<1>8. Rating(f, p, n)
  BY <1>4, <1>5, <1>6, <1>7 DEF Rating
<1> QED
  BY <1>4, <1>8 DEF f

\* The number of chats of bots is that of the entries, or less, and the ring has room
\* for all messages.
RoomForAll ==
  /\ Cardinality(DOMAIN Message) <= InboxRing
  /\ Cardinality(BotChats) <= RateSlots

\* Bots write in finitely many chats.
LEMMA BotChatsFinite == IsFiniteSet(BotChats)
<1> DEFINE B == {n \in DOMAIN Message : Inbox!ByBot(n)}
           f == [m \in B |-> Message[m].chat]
<1>1. IsFiniteSet(B)
  <2>1. B \in SUBSET DOMAIN Message
    OBVIOUS
  <2> QED
    BY ONLY <2>1, InboxSizes, FS_Subset
<1>2. f \in Surjection(B, BotChats)
  BY DEF BotChats, Surjection
<1> QED
  BY ONLY <1>1, <1>2, FS_Surjection

\* The chats that bots write in have names.
LEMMA BotChatNamed == ASSUME NEW c \in BotChats PROVE c # Unnamed
  BY Zenon, InboxAssumption DEF BotChats, Unnamed

\* There is an entry for the chat, or one to take.
LEMMA EntryToTake ==
  ASSUME RoomForAll, NEW r, NEW o, NEW n, Ratings(r, o, n), NEW c \in BotChats,
         \A s \in 1..RateSlots : r[s].chat # c
  PROVE  \E s \in 1..RateSlots : r[s].chat = Unnamed
<1> SUFFICES ASSUME \A s \in 1..RateSlots : r[s].chat # Unnamed PROVE FALSE
  OBVIOUS
<1>1. RateSlots \in Nat /\ r \in [1..RateSlots -> Entries]
  BY InboxSizes DEF Ratings
<1> DEFINE T == BotChats \ {c}
           f == [s \in 1..RateSlots |-> r[s].chat]
<1>2. IsFiniteSet(T) /\ Cardinality(T) = Cardinality(BotChats) - 1
  BY BotChatsFinite, FS_RemoveElement
<1>3. IsFiniteSet(1..RateSlots) /\ Cardinality(1..RateSlots) = RateSlots
  BY <1>1, FS_Interval
<1>4. Cardinality(BotChats) \in Nat
  BY BotChatsFinite, FS_CardinalityType
<1>5. Cardinality(T) < Cardinality(1..RateSlots)
  BY <1>1, <1>2, <1>3, <1>4 DEF RoomForAll
<1>6. f \in [1..RateSlots -> T]
  <2>1. ASSUME NEW s \in 1..RateSlots PROVE r[s].chat \in T
    <3>1. r[s].chat \in Named
      BY <1>1 DEF Entries
    <3> QED
      BY <3>1 DEF Named
  <2> QED
    BY <2>1
<1> HIDE DEF T
<1>7. \E s, u \in 1..RateSlots : s # u /\ f[s] = f[u]
  <2> HIDE DEF f
  <2> QED
    BY ONLY <1>2, <1>3, <1>5, <1>6, FS_PigeonHole
<1> QED
  BY <1>7 DEF Ratings

\* The slot of a chat is its own or an unused one.
LEMMA SlotIs ==
  ASSUME RoomForAll, NEW o, NEW n, Ratings(rate, o, n), NEW c \in BotChats
  PROVE  /\ Inbox!Slot(c) \in 1..RateSlots
         /\ \/ rate[Inbox!Slot(c)].chat = c
            \/ rate[Inbox!Slot(c)].chat = Unnamed /\ \A s \in 1..RateSlots : rate[s].chat # c
<1> DEFINE own == {i \in 1..RateSlots : rate[i].chat = c}
           unused == {i \in 1..RateSlots : rate[i].chat = Unnamed}
           S == IF own # {} THEN own ELSE unused
<1>1. S # {}
  BY EntryToTake
<1>2. Inbox!Slot(c) = Inbox!Min(S)
  BY <1>1, Zenon DEF Inbox!Slot, Unnamed
<1>3. S \subseteq 1..RateSlots /\ RateSlots \in Nat
  BY InboxSizes
<1>4. Inbox!Slot(c) \in S
  <2> HIDE DEF S
  <2>0. S \subseteq Nat
    BY <1>3
  <2>1. \E s \in S : \A x \in S : s <= x
    BY ONLY <1>1, <2>0, LeastNumber
  <2> QED
    BY <1>2, <2>1, Zenon DEF Inbox!Min
<1> QED
  BY <1>3, <1>4

\* An entry not used yet stands for a chat without messages.
LEMMA FreshRates ==
  ASSUME NEW r, NEW o, NEW n \in Nat, Timely(o, n), Ratings(r, o, n), NEW c \in BotChats,
         \A s \in 1..RateSlots : r[s].chat # c
  PROVE  Rating([chat |-> c, stamps |-> [j \in 1..RateMax |-> 0], next |-> 1], o, n)
<1> DEFINE e == [chat |-> c, stamps |-> [j \in 1..RateMax |-> 0], next |-> 1]
<1>1. e \in Entries /\ e.chat = c /\ \A k \in 1..RateMax : e.stamps[k] = 0
  BY InboxSizes DEF Entries, Named
<1> HIDE DEF e
<1>2. \A t : Since(o, c, t) = {}
  BY DEF Ratings, Since, ByBotIn
<1>3. \A t \in Nat : Cardinality(Since(o, c, t)) <= Cardinality(Held(e, t))
  <2> TAKE t \in Nat
  <2>1. Cardinality(Since(o, c, t)) = 0
    BY <1>2, FS_EmptySet, Zenon
  <2>2. Cardinality(Held(e, t)) \in Nat
    BY HeldSize
  <2> QED
    BY <2>1, <2>2
<1>4. Rating(e, o, n)
  BY <1>1, <1>3 DEF Rating
<1> QED
  BY <1>4 DEF e

\* The entry of a chat, found or taken, holds what was given of that chat.
LEMMA EntryIs ==
  ASSUME RoomForAll, NEW o, NEW n \in Nat, Timely(o, n), Ratings(rate, o, n), NEW c \in BotChats
  PROVE  Rating(Inbox!Entry(c), o, n) /\ Inbox!Entry(c).chat = c
<1> DEFINE z == [chat |-> c, stamps |-> [j \in 1..RateMax |-> 0], next |-> 1]
           s == Inbox!Slot(c)
<1>1. Inbox!Entry(c) = IF rate[s].chat = c THEN rate[s] ELSE z
  BY Zenon DEF Inbox!Entry
<1>2. s \in 1..RateSlots /\ (rate[s].chat = c \/ \A u \in 1..RateSlots : rate[u].chat # c)
  BY SlotIs
<1>3. z.chat = c
  OBVIOUS
<1> HIDE DEF z, s
<1>4. CASE rate[s].chat = c
  BY <1>1, <1>2, <1>4 DEF Ratings
<1>5. CASE rate[s].chat # c
  <2>1. Rating(z, o, n)
    BY <1>2, <1>5, FreshRates DEF z
  <2> QED
    BY <1>1, <1>3, <1>5, <2>1
<1> QED
  BY <1>4, <1>5

\* The entry of a chat changes for what becomes of it, while the others stay.
LEMMA SlotRates ==
  ASSUME RoomForAll, NEW n \in Nat, NEW o, NEW p, Ratings(rate, o, n), NEW c \in BotChats, NEW e,
         Rating(e, p, n), e.chat = c, p \in Seq(Answers),
         \A d, t : d # c => Since(p, d, t) = Since(o, d, t),
         \A j \in 1..Len(p) : Inbox!ByBot(p[j].id) =>
           Message[p[j].id].chat = c \/ \E i \in 1..Len(o) : Inbox!ByBot(o[i].id) /\ Message[p[j].id].chat = Message[o[i].id].chat
  PROVE  Ratings([rate EXCEPT ![Inbox!Slot(c)] = e], p, n)
<1> DEFINE s == Inbox!Slot(c)
           r == [rate EXCEPT ![s] = e]
<1>1. /\ s \in 1..RateSlots
      /\ rate[s].chat = c \/ (rate[s].chat = Unnamed /\ \A u \in 1..RateSlots : rate[u].chat # c)
  BY SlotIs
<1>2. rate \in [1..RateSlots -> Entries] /\ e \in Entries
  BY DEF Ratings, Rating
<1> HIDE DEF s
<1>3. r \in [1..RateSlots -> Entries] /\ r[s] = e /\ \A u \in 1..RateSlots : u # s => r[u] = rate[u]
  BY <1>1, <1>2
<1> HIDE DEF r
<1>4. \A u \in 1..RateSlots : u # s => rate[u].chat # c
  BY <1>1, BotChatNamed DEF Ratings
<1>5. ASSUME NEW u \in 1..RateSlots PROVE Rating(r[u], p, n)
  <2>1. CASE u = s
    BY <2>1, <1>3
  <2>2. CASE u # s
    <3>1. r[u] = rate[u] /\ Rating(rate[u], o, n) /\ rate[u].chat # c
      BY <2>2, <1>3, <1>4 DEF Ratings
    <3>2. \A t : Since(p, rate[u].chat, t) = Since(o, rate[u].chat, t)
      BY <3>1
    <3> QED
      BY <3>1, <3>2, Zenon DEF Rating
  <2> QED
    BY <2>1, <2>2
<1>6. \A u, v \in 1..RateSlots : r[u].chat = r[v].chat /\ r[u].chat # Unnamed => u = v
  BY <1>3, <1>4 DEF Ratings
<1>7. ASSUME NEW j \in 1..Len(p), Inbox!ByBot(p[j].id)
      PROVE  \E u \in 1..RateSlots : r[u].chat = Message[p[j].id].chat
  <2>1. CASE Message[p[j].id].chat = c
    BY <2>1, <1>1, <1>3
  <2>2. CASE Message[p[j].id].chat # c
    <3>1. PICK i \in 1..Len(o) : Inbox!ByBot(o[i].id) /\ Message[p[j].id].chat = Message[o[i].id].chat
      BY <1>7, <2>2
    <3>2. PICK u \in 1..RateSlots : rate[u].chat = Message[o[i].id].chat
      BY <3>1 DEF Ratings
    <3>3. u # s
      <4>1. Message[o[i].id].chat # Unnamed
        <5>0. p[j].id \in DOMAIN Message
          <6>1. p[j] \in Answers
            OBVIOUS
          <6> QED
            BY <6>1 DEF Answers
        <5>1. Message[p[j].id].chat # Unnamed
          BY <1>7, <5>0, BotChatNamed DEF BotChats
        <5> QED
          BY <3>1, <5>1
      <4> QED
        BY <4>1, <1>1, <2>2, <3>1, <3>2
    <3> QED
      BY <1>3, <3>1, <3>2, <3>3
  <2> QED
    BY <2>1, <2>2
<1>8. Ratings(r, p, n)
  BY <1>3, <1>5, <1>6, <1>7 DEF Ratings
<1> QED
  BY <1>8 DEF r, s

\* What is given is given now, after the others.
Given(o, m, n) == Append(o, [id |-> m, at |-> n])

\* A message that is given comes after those that were.
LEMMA GivenIs ==
  ASSUME NEW n \in Nat, NEW o, Timely(o, n), NEW m \in DOMAIN Message
  PROVE  /\ Given(o, m, n) \in Seq(Answers) /\ Len(o) \in Nat /\ Len(Given(o, m, n)) = Len(o) + 1
         /\ Given(o, m, n)[Len(o) + 1].id = m /\ Given(o, m, n)[Len(o) + 1].at = n
         /\ \A i \in 1..Len(o) : Given(o, m, n)[i] = o[i]
<1> DEFINE a == [id |-> m, at |-> n]
<1>1. o \in Seq(Answers) /\ a \in Answers /\ a.id = m /\ a.at = n
  BY DEF Timely, Answers
<1> HIDE DEF a
<1>2. Append(o, a) \in Seq(Answers) /\ Len(Append(o, a)) = Len(o) + 1 /\ Append(o, a)[Len(o) + 1] = a
      /\ \A i \in 1..Len(o) : Append(o, a)[i] = o[i]
  BY <1>1
<1>3. Given(o, m, n) = Append(o, a)
  BY DEF Given, a
<1>4. Len(o) \in Nat
  BY <1>1
<1> QED
  BY <1>1, <1>2, <1>3, <1>4

\* Only the chat of a message of a bot has one more.
LEMMA GivenFollows ==
  ASSUME NEW n \in Nat, NEW o, Timely(o, n), NEW m \in DOMAIN Message, NEW c
  PROVE  /\ Follows(Given(o, m, n), o, c, n) /\ Follows(o, o, c, n)
         /\ Inbox!ByBot(m) => \A d, t : d # Message[m].chat => Since(Given(o, m, n), d, t) = Since(o, d, t)
         /\ ~Inbox!ByBot(m) => \A d, t : Since(Given(o, m, n), d, t) = Since(o, d, t)
<1> DEFINE p == Given(o, m, n)
<1>1. /\ Len(o) \in Nat /\ Len(p) = Len(o) + 1 /\ p[Len(o) + 1].id = m /\ p[Len(o) + 1].at = n
      /\ \A i \in 1..Len(o) : p[i] = o[i]
  BY GivenIs
<1> HIDE DEF p
<1>2. \A i \in 1..Len(p) : i \in 1..Len(o) \/ i = Len(o) + 1
  BY <1>1
<1>3. \A d, t : Since(p, d, t) \subseteq Since(o, d, t) \cup {Len(o) + 1}
  BY <1>1, <1>2 DEF Since
<1>4. \A d, t : Len(o) + 1 \notin Since(p, d, t) => Since(p, d, t) = Since(o, d, t)
  <2> TAKE d, t
  <2> HAVE Len(o) + 1 \notin Since(p, d, t)
  <2>1. \A i \in 1..Len(o) : i \in 1..Len(p) /\ p[i] = o[i]
    BY <1>1
  <2> QED
    BY <1>2, <2>1 DEF Since
<1>5. \A d, t : Len(o) + 1 \in Since(p, d, t) => Inbox!ByBot(m) /\ d = Message[m].chat
  BY <1>1 DEF Since, ByBotIn
<1>6. \A i \in 1..Len(o) : o[i].at \in Nat /\ o[i].at <= n
  BY DEF Timely
<1>7. \A t \in Nat : t > n => Since(o, c, t) = {}
  BY <1>6 DEF Since
<1>8. \A t \in Nat : t > n => Since(p, c, t) = {}
  <2> TAKE t \in Nat
  <2> HAVE t > n
  <2>1. Len(o) + 1 \notin Since(p, c, t)
    BY <1>1 DEF Since
  <2> QED
    BY <2>1, <1>4, <1>7
<1> QED
  BY <1>3, <1>4, <1>5, <1>7, <1>8 DEF Follows, p

Recent(e, n) == {k \in 1..RateMax : e.stamps[k] > 0 /\ n - e.stamps[k] < RateWindow}
\* What is given is in time and within the limit, if an entry of a bot's chat has room.
LEMMA GivenInTime ==
  ASSUME NEW n \in Nat \ {0}, NEW o, Timely(o, n), NEW m \in DOMAIN Message,
         Inbox!ByBot(m) => \E e : Rating(e, o, n) /\ e.chat = Message[m].chat /\ ~(Cardinality(Recent(e, n)) >= RateMax)
  PROVE  Timely(Given(o, m, n), n)
<1> DEFINE p == Given(o, m, n)
           x == Len(o) + 1
<1>1. /\ p \in Seq(Answers) /\ Len(o) \in Nat /\ Len(p) = x /\ p[x].id = m /\ p[x].at = n
      /\ \A i \in 1..Len(o) : p[i] = o[i]
  BY GivenIs
<1> HIDE DEF p
<1>2. \A i \in 1..Len(o) : o[i].at \in 1..n
  BY DEF Timely
<1>3. \A i \in 1..Len(p) : p[i].at \in 1..n
  <2> TAKE i \in 1..Len(p)
  <2>1. i \in 1..Len(o) \/ i = x
    BY <1>1
  <2> QED
    BY <2>1, <1>1, <1>2
<1>4. \A i, j \in 1..Len(p) : i <= j => p[i].at <= p[j].at
  <2> TAKE i, j \in 1..Len(p)
  <2>1. CASE j = x
    BY <2>1, <1>1, <1>3
  <2>2. CASE j # x
    BY <2>2, <1>1 DEF Timely
  <2> QED
    BY <2>1, <2>2
<1>s. RateMax \in Nat \ {0} /\ RateWindow \in Nat
  BY InboxSizes
<1>5. ASSUME NEW i \in 1..Len(p) PROVE Cardinality(Within(p, i)) <= RateMax
  <2>1. CASE i = x
    <3>1. Within(p, i) \in SUBSET {i}
      BY <2>1, <1>1 DEF Within
    <3>2. IsFiniteSet({i}) /\ Cardinality({i}) = 1
      BY FS_Singleton
    <3>3. IsFiniteSet(Within(p, i)) /\ Cardinality(Within(p, i)) <= 1
      BY <3>1, <3>2, FS_Subset
    <3>4. Cardinality(Within(p, i)) \in Nat
      BY <3>3, FS_CardinalityType
    <3> QED
      BY <3>3, <3>4, <1>s
  <2>2. CASE i # x /\ x \notin Within(p, i)
    <3>1. i \in 1..Len(o) /\ \A j \in i..Len(p) : j = x \/ j \in i..Len(o)
      BY <2>2, <1>1
    <3>2. \A j \in i..Len(o) : j \in i..Len(p) /\ p[j] = o[j] /\ p[i] = o[i]
      BY <3>1, <1>1
    <3>3. Within(p, i) = Within(o, i)
      BY <3>1, <3>2, <2>2 DEF Within
    <3> QED
      BY <3>1, <3>3 DEF Timely
  <2>3. CASE i # x /\ x \in Within(p, i)
    <3> DEFINE t == o[i].at
               c == Message[m].chat
    <3>1. i \in 1..Len(o) /\ p[i] = o[i] /\ t \in 1..n
      BY <2>3, <1>1, <1>2
    <3>2. Inbox!ByBot(m) /\ Message[o[i].id].chat = c /\ n - t < RateWindow
      BY <2>3, <3>1, <1>1 DEF Within, ByBotIn
    <3>3. PICK e : Rating(e, o, n) /\ e.chat = c /\ ~(Cardinality(Recent(e, n)) >= RateMax)
      BY <3>2
    <3>4. \A k \in 1..RateMax : e.stamps[k] \in Nat /\ e.stamps[k] <= n
      BY <3>3 DEF Rating, Entries
    <3>5. Held(e, t) # 1..RateMax
      <4> SUFFICES ASSUME Held(e, t) = 1..RateMax PROVE FALSE
        OBVIOUS
      <4>1. Recent(e, n) = 1..RateMax
        <5>1. ASSUME NEW k \in 1..RateMax PROVE e.stamps[k] > 0 /\ n - e.stamps[k] < RateWindow
          <6>1. e.stamps[k] >= t
            BY DEF Held
          <6> QED
            BY <6>1, <3>1, <3>2, <3>4, <1>s
        <5> QED
          BY <5>1 DEF Recent
      <4>2. Cardinality(1..RateMax) = RateMax
        BY <1>s, FS_Interval
      <4> QED
        BY <4>1, <4>2, <3>3, <1>s
    <3>6. Cardinality(Since(o, c, t)) < RateMax
      <4>1. t \in Nat
        BY <3>1
      <4>2. Cardinality(Since(o, c, t)) <= Cardinality(Held(e, t))
        BY <3>3, <3>5, <4>1 DEF Rating
      <4>3. Cardinality(Held(e, t)) < RateMax /\ Cardinality(Held(e, t)) \in Nat
        BY <3>5, HeldSize
      <4>4. Cardinality(Since(o, c, t)) \in Nat
        BY <1>1, SinceSize
      <4> QED
        BY <4>2, <4>3, <4>4, <1>s
    <3>7. Within(p, i) \subseteq Since(o, c, t) \cup {x}
      <4>1. ASSUME NEW j \in Within(p, i), j # x PROVE j \in Since(o, c, t)
        <5>1. j \in i..Len(o) /\ p[j] = o[j] /\ ByBotIn(o[j], c)
          BY <4>1, <1>1, <3>1, <3>2 DEF Within
        <5>2. t <= o[j].at /\ j \in 1..Len(o)
          BY <5>1, <3>1, <1>1 DEF Timely
        <5>3. o[j].at >= t
          BY <5>1, <5>2, <1>2, <3>1
        <5> QED
          BY <5>1, <5>2, <5>3 DEF Since
      <4> QED
        BY <4>1
    <3> DEFINE S == Since(o, c, t)
               W == Within(p, i)
    <3>8. IsFiniteSet(S) /\ Cardinality(S) \in Nat
      BY <1>1, SinceSize
    <3> HIDE DEF S, W, x
    <3>9. IsFiniteSet(S \cup {x}) /\ Cardinality(S \cup {x}) <= Cardinality(S) + 1
      <4>1. IsFiniteSet(S \cup {x}) /\ Cardinality(S \cup {x}) = IF x \in S THEN Cardinality(S) ELSE Cardinality(S) + 1
        BY ONLY <3>8, FS_AddElement
      <4> QED
        BY <4>1, <3>8
    <3>10. W \in SUBSET (S \cup {x})
      BY <3>7 DEF S, W
    <3>11. IsFiniteSet(W) /\ Cardinality(W) <= Cardinality(S \cup {x})
      BY ONLY <3>9, <3>10, FS_Subset
    <3>12. Cardinality(W) \in Nat /\ Cardinality(S \cup {x}) \in Nat
      BY <3>9, <3>11, FS_CardinalityType
    <3> QED
      BY <3>6, <3>8, <3>9, <3>11, <3>12, <1>s DEF S, W
  <2> QED
    BY <2>1, <2>2, <2>3
<1> QED
  BY <1>1, <1>3, <1>4, <1>5 DEF Timely, p

\* Every text given is in the ring of messages, which holds each once; no text was
\* given twice, and no chat got more of bots than the limit.
InboxInv ==
  /\ inboxNow \in Nat \ {0}
  /\ Timely(inboxOut, inboxNow) /\ Ratings(rate, inboxOut, inboxNow)
  /\ messages \in Seq(DOMAIN Message)
  /\ \A i, j \in 1..Len(messages) : messages[i] = messages[j] => i = j
  /\ \A j \in 1..Len(inboxOut) : inboxOut[j].id \in Inbox!Texts => Inbox!Seen(inboxOut[j].id)
  /\ Inbox!AnsweredOnce

\* Time that passes keeps the inbox's invariant.
LEMMA InboxTicks ==
  ASSUME InboxInv, Inbox!Tick
  PROVE  InboxInv'
<1>1. /\ inboxNow \in Nat \ {0} /\ inboxNow' = inboxNow + 1
      /\ UNCHANGED <<messages, rate, inboxOut>>
  BY DEF InboxInv, Inbox!Tick
<1>2. Timely(inboxOut, inboxNow')
  <2>1. Timely(inboxOut, inboxNow)
    BY DEF InboxInv
  <2>2. \A a \in 1..inboxNow : a \in 1..inboxNow'
    BY <1>1
  <2> QED
    BY <2>1, <2>2 DEF Timely
<1>3. Ratings(rate, inboxOut, inboxNow')
  <2>1. Ratings(rate, inboxOut, inboxNow)
    BY DEF InboxInv
  <2>2. ASSUME NEW e, Rating(e, inboxOut, inboxNow) PROVE Rating(e, inboxOut, inboxNow')
    <3>1. \A k \in 1..RateMax : e.stamps[k] \in Nat /\ e.stamps[k] <= inboxNow
      BY <2>2 DEF Rating, Entries
    <3>2. \A k \in 1..RateMax : e.stamps[k] <= inboxNow'
      BY <3>1, <1>1
    <3> QED
      BY <2>2, <3>2 DEF Rating
  <2> QED
    BY <2>1, <2>2 DEF Ratings
<1>4. Inbox!AnsweredOnce' /\ \A j \in 1..Len(inboxOut) : inboxOut[j].id \in Inbox!Texts => Inbox!Has(messages', inboxOut[j].id)
  BY <1>1 DEF InboxInv, Inbox!AnsweredOnce, Inbox!Seen
<1> QED
  BY <1>1, <1>2, <1>3, <1>4 DEF InboxInv, Inbox!Seen

\* A text that was not seen is not given yet; the ring keeps all it had.
LEMMA TextsOnce ==
  ASSUME RoomForAll, InboxInv, NEW m \in DOMAIN Message, NEW first \in BOOLEAN,
         first => ~Inbox!Seen(m),
         messages' = IF first THEN Inbox!Recorded(messages, m) ELSE messages,
         inboxOut' = inboxOut \/ (inboxOut' = Given(inboxOut, m, inboxNow) /\ (first \/ m \notin Inbox!Texts))
  PROVE  /\ messages' \in Seq(DOMAIN Message)
         /\ \A i, j \in 1..Len(messages') : messages'[i] = messages'[j] => i = j
         /\ \A j \in 1..Len(inboxOut') : inboxOut'[j].id \in Inbox!Texts => Inbox!Has(messages', inboxOut'[j].id)
         /\ Inbox!AnsweredOnce'
<1>1. messages \in Seq(DOMAIN Message) /\ Len(messages) \in Nat
      /\ \A i, j \in 1..Len(messages) : messages[i] = messages[j] => i = j
  BY DEF InboxInv
<1> DEFINE all == Append(messages, m)
<1>2. all \in Seq(DOMAIN Message) /\ Len(all) = Len(messages) + 1 /\ all[Len(messages) + 1] = m
      /\ \A i \in 1..Len(messages) : all[i] = messages[i]
  BY <1>1
<1> HIDE DEF all
<1>3. CASE first
  <2>1. \A i \in 1..Len(messages) : messages[i] # m
    BY <1>3 DEF Inbox!Seen, Inbox!Has
  <2>2. \A i, j \in 1..Len(all) : all[i] = all[j] => i = j
    <3> TAKE i, j \in 1..Len(all)
    <3>1. (i \in 1..Len(messages) \/ i = Len(messages) + 1) /\ (j \in 1..Len(messages) \/ j = Len(messages) + 1)
      BY <1>1, <1>2
    <3> QED
      BY <3>1, <1>1, <1>2, <2>1
  <2>3. Len(all) <= Cardinality(DOMAIN Message)
    BY ONLY <1>2, <2>2, InboxSizes, DistinctFit
  <2>4. Cardinality(DOMAIN Message) \in Nat /\ Len(all) \in Nat /\ InboxRing \in Nat
    BY <1>1, <1>2, InboxSizes, FS_CardinalityType
  <2>5. ~(Len(all) > InboxRing)
    BY <2>3, <2>4 DEF RoomForAll
  <2>6. messages' = all
    BY <1>3, <2>5, Zenon DEF Inbox!Recorded, all
  <2>7. \A x : Inbox!Has(messages', x) <=> Inbox!Seen(x) \/ x = m
    <3> TAKE x
    <3>1. \A i \in 1..Len(all) : i \in 1..Len(messages) \/ i = Len(messages) + 1
      BY <1>1, <1>2
    <3>2. Len(messages) + 1 \in 1..Len(all) /\ \A i \in 1..Len(messages) : i \in 1..Len(all)
      BY <1>1, <1>2
    <3> QED
      BY <1>2, <2>6, <3>1, <3>2 DEF Inbox!Seen, Inbox!Has
  <2>8. \A j \in 1..Len(inboxOut) : inboxOut[j].id \in Inbox!Texts => inboxOut[j].id # m /\ Inbox!Seen(inboxOut[j].id)
    BY <1>3 DEF InboxInv
  <2>9. CASE inboxOut' = inboxOut
    BY <1>2, <2>2, <2>6, <2>7, <2>8, <2>9 DEF InboxInv, Inbox!AnsweredOnce
  <2>10. CASE inboxOut' = Given(inboxOut, m, inboxNow)
    <3>1. /\ Len(inboxOut) \in Nat /\ Len(inboxOut') = Len(inboxOut) + 1 /\ inboxOut'[Len(inboxOut) + 1].id = m
          /\ \A i \in 1..Len(inboxOut) : inboxOut'[i] = inboxOut[i]
      BY <2>10, GivenIs DEF InboxInv
    <3>2. \A j \in 1..Len(inboxOut') : j \in 1..Len(inboxOut) \/ j = Len(inboxOut) + 1
      BY <3>1
    <3>3. \A j \in 1..Len(inboxOut') : inboxOut'[j].id \in Inbox!Texts => Inbox!Has(messages', inboxOut'[j].id)
      BY <2>7, <2>8, <3>1, <3>2
    <3>4. Inbox!AnsweredOnce'
      <4> SUFFICES ASSUME NEW i \in 1..Len(inboxOut'), NEW j \in 1..Len(inboxOut'), i < j,
                          inboxOut'[i].id = inboxOut'[j].id, inboxOut'[i].id \in Inbox!Texts
                   PROVE  FALSE
        BY DEF Inbox!AnsweredOnce, Inbox!Texts
      <4>1. i \in 1..Len(inboxOut)
        BY <3>1
      <4>2. CASE j \in 1..Len(inboxOut)
        BY <3>1, <4>1, <4>2 DEF InboxInv, Inbox!AnsweredOnce
      <4>3. CASE j = Len(inboxOut) + 1
        BY <2>8, <3>1, <4>1, <4>3
      <4> QED
        BY <3>2, <4>2, <4>3
    <3> QED
      BY <1>2, <2>2, <2>6, <3>3, <3>4
  <2> QED
    BY <2>9, <2>10
<1>4. CASE ~first
  <2>1. messages' = messages
    BY <1>4
  <2>2. \A x : Inbox!Has(messages', x) <=> Inbox!Seen(x)
    BY <2>1 DEF Inbox!Seen
  <2>3. CASE inboxOut' = inboxOut
    BY <1>1, <2>1, <2>2, <2>3 DEF InboxInv, Inbox!AnsweredOnce
  <2>4. CASE inboxOut' = Given(inboxOut, m, inboxNow) /\ m \notin Inbox!Texts
    <3>1. /\ Len(inboxOut) \in Nat /\ Len(inboxOut') = Len(inboxOut) + 1 /\ inboxOut'[Len(inboxOut) + 1].id = m
          /\ \A i \in 1..Len(inboxOut) : inboxOut'[i] = inboxOut[i]
      BY <2>4, GivenIs DEF InboxInv
    <3>2. \A j \in 1..Len(inboxOut') : j \in 1..Len(inboxOut) \/ j = Len(inboxOut) + 1
      BY <3>1
    <3>3. \A j \in 1..Len(inboxOut') : inboxOut'[j].id \in Inbox!Texts => Inbox!Has(messages', inboxOut'[j].id)
      BY <2>2, <2>4, <3>1, <3>2 DEF InboxInv
    <3>4. Inbox!AnsweredOnce'
      <4> SUFFICES ASSUME NEW i \in 1..Len(inboxOut'), NEW j \in 1..Len(inboxOut'), i < j,
                          inboxOut'[i].id = inboxOut'[j].id, inboxOut'[i].id \in Inbox!Texts
                   PROVE  FALSE
        BY DEF Inbox!AnsweredOnce, Inbox!Texts
      <4>1. i \in 1..Len(inboxOut)
        BY <3>1
      <4>2. CASE j \in 1..Len(inboxOut)
        BY <3>1, <4>1, <4>2 DEF InboxInv, Inbox!AnsweredOnce
      <4>3. CASE j = Len(inboxOut) + 1
        BY <2>4, <3>1, <4>1, <4>3
      <4> QED
        BY <3>2, <4>2, <4>3
    <3> QED
      BY <1>1, <2>1, <3>3, <3>4
  <2> QED
    BY <1>4, <2>3, <2>4
<1> QED
  BY <1>3, <1>4

\* The entries and the messages of bots, after an event of a bot or of a user.
LEMMA BotsCounted ==
  ASSUME RoomForAll, InboxInv, NEW m \in DOMAIN Message,
         LET c == Message[m].chat IN
         \/ /\ ~Inbox!ByBot(m) /\ rate' = rate
            /\ inboxOut' = inboxOut \/ inboxOut' = Given(inboxOut, m, inboxNow)
         \/ rate' = rate /\ inboxOut' = inboxOut
         \/ /\ Inbox!ByBot(m) /\ Inbox!Limited(c) /\ inboxOut' = inboxOut
            /\ Inbox!Rated(c, TRUE)
         \/ /\ Inbox!ByBot(m) /\ ~Inbox!Limited(c)
            /\ inboxOut' = inboxOut \/ inboxOut' = Given(inboxOut, m, inboxNow)
            /\ Inbox!Rated(c, FALSE)
  PROVE  Timely(inboxOut', inboxNow) /\ Ratings(rate', inboxOut', inboxNow)
<1> DEFINE c == Message[m].chat
           o == inboxOut
           p == Given(inboxOut, m, inboxNow)
           n == inboxNow
<1>1. n \in Nat \ {0} /\ Timely(o, n) /\ Ratings(rate, o, n) /\ Len(o) \in Nat
  BY DEF InboxInv, Timely
<1>2. /\ p \in Seq(Answers) /\ Len(p) = Len(o) + 1 /\ p[Len(o) + 1].id = m
      /\ \A i \in 1..Len(o) : p[i] = o[i]
  BY <1>1, GivenIs
<1>3. \A j \in 1..Len(p) : j \in 1..Len(o) \/ j = Len(o) + 1
  BY <1>1, <1>2
<1>4. CASE rate' = rate /\ inboxOut' = inboxOut
  BY <1>1, <1>4
<1>5. CASE ~Inbox!ByBot(m) /\ rate' = rate /\ inboxOut' = p
  <2>1. Timely(p, n)
    BY <1>1, <1>5, GivenInTime
  <2>2. \A d, t : Since(p, d, t) = Since(o, d, t)
    BY <1>1, <1>5, GivenFollows
  <2> HIDE DEF p, o, n
  <2>3. \A j \in 1..Len(p) : Inbox!ByBot(p[j].id) => j \in 1..Len(o) /\ p[j] = o[j]
    BY <1>2, <1>3, <1>5
  <2>4. ASSUME NEW e, Rating(e, o, n) PROVE Rating(e, p, n)
    BY <2>2, <2>4, Zenon DEF Rating
  <2>5. Ratings(rate, p, n)
    BY <1>1, <2>3, <2>4 DEF Ratings
  <2> QED
    BY <1>5, <2>1, <2>5 DEF n
<1>6. ASSUME Inbox!ByBot(m)
      PROVE  /\ c \in BotChats
             /\ Rating(Inbox!Entry(c), o, n) /\ Inbox!Entry(c).chat = c
             /\ Inbox!Limited(c) <=> Cardinality(Recent(Inbox!Entry(c), n)) >= RateMax
  <2>1. c \in BotChats
    BY <1>6 DEF BotChats
  <2>2. Rating(Inbox!Entry(c), o, n) /\ Inbox!Entry(c).chat = c
    BY <1>1, <2>1, EntryIs
  <2>3. Inbox!Limited(c) <=> Inbox!Cardinality(Recent(Inbox!Entry(c), n)) >= RateMax
    BY Zenon DEF Inbox!Limited, Recent
  <2>4. Inbox!Cardinality(Recent(Inbox!Entry(c), n)) = Cardinality(Recent(Inbox!Entry(c), n))
    BY InboxSize, Zenon
  <2> QED
    BY <2>1, <2>2, <2>3, <2>4
<1>7. CASE Inbox!ByBot(m) /\ inboxOut' = inboxOut /\ Inbox!Rated(c, TRUE)
  <2>1. rate' = [rate EXCEPT ![Inbox!Slot(c)] = Inbox!Entry(c)]
    BY <1>7, Zenon DEF Inbox!Rated
  <2> DEFINE e == Inbox!Entry(c)
  <2>2. c \in BotChats /\ Rating(e, o, n) /\ e.chat = c
    BY <1>6, <1>7
  <2>3. o \in Seq(Answers)
    BY <1>1 DEF Timely
  <2> HIDE DEF c, o, n, e
  <2>4. Ratings([rate EXCEPT ![Inbox!Slot(c)] = e], o, n)
    BY <1>1, <2>2, <2>3, SlotRates
  <2> QED
    BY <1>1, <1>7, <2>1, <2>4 DEF o, n, e
<1>8. CASE /\ Inbox!ByBot(m) /\ ~Inbox!Limited(c) /\ Inbox!Rated(c, FALSE)
           /\ inboxOut' = inboxOut \/ inboxOut' = p
  <2> DEFINE e == Inbox!Entry(c)
  <2>1. c \in BotChats /\ Rating(e, o, n) /\ e.chat = c /\ ~(Cardinality(Recent(e, n)) >= RateMax)
    BY <1>6, <1>8
  <2>2. rate' = [rate EXCEPT ![Inbox!Slot(c)] = Inbox!Stamped(e)]
    BY <1>8, Zenon DEF Inbox!Rated
  <2>3. Timely(p, n)
    BY <1>1, <2>1, GivenInTime
  <2>4. Follows(p, o, c, n) /\ Follows(o, o, c, n) /\ \A d, t : d # c => Since(p, d, t) = Since(o, d, t)
    BY <1>1, <1>8, GivenFollows
  <2>5. Timely(inboxOut', n)
    BY <1>1, <1>8, <2>3
  <2> HIDE DEF e
  <2>6. Inbox!Stamped(e) = Restamped(e, n)
    <3>1. e = [chat |-> e.chat, stamps |-> e.stamps, next |-> e.next]
      BY <2>1 DEF Rating, Entries
    <3> DEFINE q == e.stamps
               x == e.next
    <3>2. e = [chat |-> e.chat, stamps |-> q, next |-> x]
      BY <3>1
    <3>3. Inbox!Stamped(e) = [chat |-> e.chat, stamps |-> [q EXCEPT ![x] = n], next |-> IF x = RateMax THEN 1 ELSE x + 1]
      <4>1. Inbox!Stamped(e) = [e EXCEPT !.stamps[e.next] = n, !.next = IF e.next = RateMax THEN 1 ELSE e.next + 1]
        BY Zenon DEF Inbox!Stamped
      <4> QED
        BY <3>1, <4>1
    <3> QED
      BY <3>3, Zenon DEF Restamped
  <2>7. o \in Seq(Answers)
    BY <1>1 DEF Timely
  <2> HIDE DEF c, o, p, n
  <2> DEFINE f == Restamped(e, n)
  <2>8. Rating(f, o, n) /\ Rating(f, p, n) /\ f.chat = c
    <3>1. Len(p) \in Nat
      BY <1>1, <1>2
    <3>2. Rating(f, o, n) /\ f.chat = e.chat
      BY <1>1, <2>1, <2>4, StampedRates
    <3>3. Rating(f, p, n)
      BY <1>1, <2>1, <2>4, <3>1, StampedRates
    <3> QED
      BY <2>1, <3>2, <3>3
  <2> HIDE DEF f
  <2>9. CASE inboxOut' = o
    <3>1. Ratings([rate EXCEPT ![Inbox!Slot(c)] = f], o, n)
      BY <1>1, <2>1, <2>7, <2>8, SlotRates
    <3> QED
      BY <2>2, <2>5, <2>6, <2>9, <3>1 DEF f, n
  <2>10. CASE inboxOut' = p
    <3>1. \A j \in 1..Len(p) : Inbox!ByBot(p[j].id) =>
           Message[p[j].id].chat = c \/ \E i \in 1..Len(o) : Inbox!ByBot(o[i].id) /\ Message[p[j].id].chat = Message[o[i].id].chat
      BY <1>2, <1>3 DEF c
    <3>2. Ratings([rate EXCEPT ![Inbox!Slot(c)] = f], p, n)
      BY <1>1, <1>2, <2>1, <2>4, <2>8, <3>1, SlotRates
    <3> QED
      BY <2>2, <2>5, <2>6, <2>10, <3>2 DEF f, n
  <2> QED
    BY <1>8, <2>9, <2>10 DEF o, p
<1> QED
  BY <1>4, <1>5, <1>7, <1>8

\* Every step of the inbox keeps its invariant, when its rings have room.
LEMMA InboxKept ==
  ASSUME RoomForAll, InboxInv, Inbox!Next \/ UNCHANGED feishuVars
  PROVE  InboxInv'
<1>1. CASE UNCHANGED feishuVars
  BY <1>1 DEF feishuVars, InboxInv, Inbox!Seen, Inbox!AnsweredOnce
<1>2. CASE Inbox!Tick
  BY <1>2, InboxTicks
<1>3. ASSUME NEW m \in DOMAIN Message, NEW k, Inbox!Arrive(m, k)
      PROVE  InboxInv'
  <2> DEFINE msg == Message[m]
             heard == Inbox!New(m, k) /\ Inbox!SenderIsHeard(m)
             limited == Inbox!ByBot(m) /\ Inbox!Limited(msg.chat)
             fresh == heard /\ ~limited /\ ~Inbox!Stale(m)
             text == fresh /\ Inbox!Textual(m)
             first == text /\ ~Inbox!Seen(m)
             given == first /\ (msg.kind = "post with image" \/ ~Inbox!Repeated(m))
             image == fresh /\ Inbox!Pictured(m)
  <2>1. /\ IF heard /\ Inbox!ByBot(m) THEN Inbox!Rated(msg.chat, limited) ELSE UNCHANGED rate
        /\ messages' = IF first THEN Inbox!Recorded(messages, m) ELSE messages
        /\ inboxOut' \in {inboxOut} \cup (IF given \/ image THEN {Append(inboxOut, [id |-> m, at |-> inboxNow])} ELSE {})
        /\ inboxNow' = inboxNow
    BY <1>3, Zenon DEF Inbox!Arrive
  <2>2. inboxOut' = inboxOut \/ ((given \/ image) /\ inboxOut' = Given(inboxOut, m, inboxNow))
    BY <2>1 DEF Given
  <2>3. image => m \notin Inbox!Texts
    BY DEF Inbox!Pictured, Inbox!Texts
  <2>4. first => ~Inbox!Seen(m)
    OBVIOUS
  <2>5. given \/ image => heard /\ ~limited
    OBVIOUS
  <2>6. given => first
    OBVIOUS
  <2>7. heard \in BOOLEAN /\ first \in BOOLEAN
    BY Zenon DEF Inbox!Seen, Inbox!Has, Inbox!New, Inbox!SenderIsHeard, Inbox!Textual
  <2> HIDE DEF heard, fresh, text, first, given, image
  <2>8. /\ messages' \in Seq(DOMAIN Message)
        /\ \A i, j \in 1..Len(messages') : messages'[i] = messages'[j] => i = j
        /\ \A j \in 1..Len(inboxOut') : inboxOut'[j].id \in Inbox!Texts => Inbox!Has(messages', inboxOut'[j].id)
        /\ Inbox!AnsweredOnce'
    BY <2>1, <2>2, <2>3, <2>4, <2>6, <2>7, TextsOnce
  <2>9. Timely(inboxOut', inboxNow) /\ Ratings(rate', inboxOut', inboxNow)
    <3>1. CASE heard /\ Inbox!ByBot(m) /\ limited
      <4>1. Inbox!Rated(msg.chat, TRUE) /\ Inbox!Limited(msg.chat) /\ inboxOut' = inboxOut
        <5>1. limited = TRUE
          BY <3>1
        <5> QED
          BY <5>1, <3>1, <2>1, <2>2, <2>5, Zenon
      <4> QED
        BY <3>1, <4>1, BotsCounted
    <3>2. CASE heard /\ Inbox!ByBot(m) /\ ~limited
      <4>1. Inbox!Rated(msg.chat, FALSE) /\ ~Inbox!Limited(msg.chat)
        <5>1. limited = FALSE /\ ~Inbox!Limited(msg.chat)
          BY <3>2
        <5> QED
          BY <5>1, <3>2, <2>1, Zenon
      <4> QED
        BY <2>2, <3>2, <4>1, BotsCounted
    <3>3. CASE ~Inbox!ByBot(m)
      BY <2>1, <2>2, <3>3, BotsCounted
    <3>4. CASE ~heard
      BY <2>1, <2>2, <2>5, <3>4, BotsCounted
    <3> QED
      BY <3>1, <3>2, <3>3, <3>4
  <2> QED
    BY <2>1, <2>8, <2>9 DEF InboxInv, Inbox!Seen
<1> QED
  BY <1>1, <1>2, <1>3 DEF Inbox!Next, Inbox!Ids

\* The inbox's invariant holds at first.
LEMMA InboxBegins == ASSUME Inbox!Init PROVE InboxInv
<1> DEFINE z == [chat |-> Unnamed, stamps |-> [j \in 1..RateMax |-> 0], next |-> 1]
<1>1. inboxNow = 1 /\ messages = <<>> /\ inboxOut = <<>> /\ rate = [i \in 1..RateSlots |-> z]
  BY Zenon DEF Inbox!Init, Unnamed
<1>2. Timely(inboxOut, inboxNow)
  BY <1>1 DEF Timely
<1>3. Rating(z, inboxOut, inboxNow) /\ z.chat = Unnamed
  <2>1. z \in Entries /\ z.chat = Unnamed /\ \A k \in 1..RateMax : z.stamps[k] = 0
    BY InboxSizes DEF Entries, Named
  <2> HIDE DEF z
  <2>2. ASSUME NEW t \in Nat PROVE Cardinality(Since(inboxOut, z.chat, t)) <= Cardinality(Held(z, t))
    <3>1. Since(inboxOut, z.chat, t) = {}
      BY <1>1 DEF Since
    <3>2. Cardinality(Since(inboxOut, z.chat, t)) = 0
      BY <3>1, FS_EmptySet, Zenon
    <3>3. Cardinality(Held(z, t)) \in Nat
      BY HeldSize
    <3> QED
      BY <3>2, <3>3
  <2> QED
    BY <1>1, <2>1, <2>2 DEF Rating
<1> HIDE DEF z
<1>4. Ratings(rate, inboxOut, inboxNow)
  <2>1. z \in Entries
    BY <1>3 DEF Rating
  <2> QED
    BY <1>1, <1>3, <2>1 DEF Ratings
<1>5. Inbox!AnsweredOnce
  BY <1>1 DEF Inbox!AnsweredOnce
<1> QED
  BY <1>1, <1>2, <1>4, <1>5 DEF InboxInv

\* As long as the tables of the inbox have room, what it keeps it keeps.
LEMMA InboxHolds == RoomForAll => (PartsSpec => [](part = "feishu" => InboxInv))
<1> SUFFICES ASSUME RoomForAll PROVE PartsSpec => [](part = "feishu" => InboxInv)
  OBVIOUS
<1>1. PartsInit => InboxInv
  BY InboxBegins DEF PartsInit
<1>2. (part = "feishu" => InboxInv) /\ [PartsNext]_<<part, moving>> => (part = "feishu" => InboxInv)'
  <2> SUFFICES ASSUME part = "feishu" => InboxInv, [PartsNext]_<<part, moving>>, part' = "feishu"
               PROVE  InboxInv'
    OBVIOUS
  <2>1. part = "feishu"
    BY DEF PartsNext, moving
  <2> QED
    BY <2>1, InboxMoves, InboxKept
<1> QED
  BY <1>1, <1>2, PTL DEF PartsSpec

\* No window has more messages of bots than the limit.
LEMMA InboxLimits == InboxInv => Inbox!BotsAreLimited
<1> SUFFICES ASSUME InboxInv PROVE Inbox!BotsAreLimited
  OBVIOUS
<1>1. \A i \in 1..Len(inboxOut) : Cardinality(Within(inboxOut, i)) <= RateMax
  BY DEF InboxInv, Timely
<1>2. \A i \in 1..Len(inboxOut) : Inbox!Cardinality(Within(inboxOut, i)) <= RateMax
  <2> TAKE i \in 1..Len(inboxOut)
  <2>1. Inbox!Cardinality(Within(inboxOut, i)) = Cardinality(Within(inboxOut, i))
    BY InboxSize, Zenon
  <2> QED
    BY <1>1, <2>1
<1>3. ASSUME NEW i \in 1..Len(inboxOut)
      PROVE  {j \in i..Len(inboxOut) :
                /\ Inbox!ByBot(inboxOut[j].id) /\ Message[inboxOut[j].id].chat = Message[inboxOut[i].id].chat
                /\ inboxOut[j].at - inboxOut[i].at < RateWindow} = Within(inboxOut, i)
  BY DEF Within, ByBotIn
<1> QED
  BY <1>2, <1>3, Zenon DEF Inbox!BotsAreLimited

\* A message that Feishu or WeChat sends again is handled once, and bots do not keep
\* each other busy (FeishuInbox, WeixinPoll), as long as the rings that remember the
\* messages have room for all that are sent again.
THEOREM MessagesAreHandledOnce ==
  RoomForAll /\ MaxMessages <= PollRing => (PartsSpec => []HandledOnce)
<1> SUFFICES ASSUME RoomForAll, MaxMessages <= PollRing PROVE PartsSpec => []HandledOnce
  OBVIOUS
<1>1. PartsSpec => [](part = "feishu" => InboxInv)
  BY InboxHolds
<1>2. PartsSpec => [](part = "weixin" => WeixinInv)
  BY WeixinHolds
<1>3. InboxInv => Inbox!AnsweredOnce
  BY DEF InboxInv
<1>4. WeixinInv => Weixin!HandledOnce
  BY DEF WeixinInv
<1>5. (part = "feishu" => InboxInv) /\ (part = "weixin" => WeixinInv) => HandledOnce
  BY <1>3, <1>4, InboxLimits DEF HandledOnce
<1> QED
  BY <1>1, <1>2, <1>5, PTL

-----------------------------------------------------------------------------
(* The services after quit: AgentMain. *)

\* A stop that is behind the main thread leaves its service stopped, and where it
\* waits for the thread without one, unless the network watcher started it after quit.
Assisting == {"loop", "ws", "cron", "heartbeat", "lvgl", "feishu", "node", "mqtt", "weixin"}
RunInv ==
  /\ runs \subseteq alive /\ alive \subseteq Assisting
  /\ mainPc \in {"weixin", "node", "mqtt", "ws", "lvgl", "cron", "heartbeat", "pause", "over"} => shutdown
  /\ mainPc \in {"node", "mqtt", "ws", "lvgl", "cron", "heartbeat", "pause", "over"} =>
       "weixin" \notin alive \/ "weixin" \in tardy
  /\ mainPc \in {"mqtt", "ws", "lvgl", "cron", "heartbeat", "pause", "over"} =>
       "node" \notin alive \/ "node" \in tardy
  /\ mainPc \in {"ws", "lvgl", "cron", "heartbeat", "pause", "over"} => "mqtt" \notin runs \/ "mqtt" \in tardy
  /\ mainPc \in {"lvgl", "cron", "heartbeat", "pause", "over"} => "ws" \notin runs
  /\ mainPc \in {"cron", "heartbeat", "pause", "over"} => "lvgl" \notin runs
  /\ mainPc \in {"heartbeat", "pause", "over"} => "cron" \notin runs
  /\ mainPc \in {"pause", "over"} => "heartbeat" \notin runs

\* The stops, one by one.
LEMMA StopsAre ==
  /\ Life!Left(0) = "weixin"
  /\ Life!Stop => \/ mainPc = "weixin" /\ mainPc' = "node" /\ runs' = runs \ {"weixin"} /\ alive' = alive \ {"weixin"}
                  \/ mainPc = "node" /\ mainPc' = "mqtt" /\ runs' = runs \ {"node"} /\ alive' = alive \ {"node"}
                  \/ mainPc = "mqtt" /\ mainPc' = "ws" /\ runs' = runs \ {"mqtt"} /\ alive' = alive
                  \/ mainPc = "ws" /\ mainPc' = "lvgl" /\ runs' = runs \ {"ws"} /\ alive' = alive
                  \/ mainPc = "lvgl" /\ mainPc' = "cron" /\ runs' = runs \ {"lvgl"} /\ alive' = alive
                  \/ mainPc = "cron" /\ mainPc' = "heartbeat" /\ runs' = runs \ {"cron"} /\ alive' = alive
                  \/ mainPc = "heartbeat" /\ mainPc' = "pause" /\ runs' = runs \ {"heartbeat"} /\ alive' = alive
<1>1. /\ Life!Stops[1] = "weixin" /\ Life!Stops[2] = "node" /\ Life!Stops[3] = "mqtt" /\ Life!Stops[4] = "ws"
      /\ Life!Stops[5] = "lvgl" /\ Life!Stops[6] = "cron" /\ Life!Stops[7] = "heartbeat"
      /\ DOMAIN Life!Stops = 1..7 /\ Len(Life!Stops) = 7
  BY DEF Life!Stops
<1>2. /\ Life!Left(0) = "weixin" /\ Life!Left(1) = "node" /\ Life!Left(2) = "mqtt" /\ Life!Left(3) = "ws"
      /\ Life!Left(4) = "lvgl" /\ Life!Left(5) = "cron" /\ Life!Left(6) = "heartbeat" /\ Life!Left(7) = "pause"
  BY <1>1 DEF Life!Left
<1>3. ASSUME Life!Stop
      PROVE  \E n \in {1, 2, 3, 4, 5, 6, 7} : /\ mainPc = Life!Stops[n] /\ mainPc' = Life!Left(n)
                                             /\ runs' = runs \ {Life!Stops[n]}
                                             /\ alive' = alive \ ({Life!Stops[n]} \cap Life!Awaited)
  <2>1. PICK n \in DOMAIN Life!Stops : /\ mainPc = Life!Stops[n] /\ mainPc' = Life!Left(n)
                                     /\ runs' = runs \ {Life!Stops[n]}
                                     /\ alive' = alive \ ({Life!Stops[n]} \cap Life!Awaited)
    BY <1>3, Zenon DEF Life!Stop, Life!Goes
  <2>2. n \in {1, 2, 3, 4, 5, 6, 7}
    BY <1>1
  <2> QED
    BY <2>1, <2>2
<1>4. ASSUME NEW n \in {1, 2, 3, 4, 5, 6, 7},
             mainPc = Life!Stops[n], mainPc' = Life!Left(n), runs' = runs \ {Life!Stops[n]},
             alive' = alive \ ({Life!Stops[n]} \cap Life!Awaited)
      PROVE  \/ mainPc = "weixin" /\ mainPc' = "node" /\ runs' = runs \ {"weixin"} /\ alive' = alive \ {"weixin"}
             \/ mainPc = "node" /\ mainPc' = "mqtt" /\ runs' = runs \ {"node"} /\ alive' = alive \ {"node"}
             \/ mainPc = "mqtt" /\ mainPc' = "ws" /\ runs' = runs \ {"mqtt"} /\ alive' = alive
             \/ mainPc = "ws" /\ mainPc' = "lvgl" /\ runs' = runs \ {"ws"} /\ alive' = alive
             \/ mainPc = "lvgl" /\ mainPc' = "cron" /\ runs' = runs \ {"lvgl"} /\ alive' = alive
             \/ mainPc = "cron" /\ mainPc' = "heartbeat" /\ runs' = runs \ {"cron"} /\ alive' = alive
             \/ mainPc = "heartbeat" /\ mainPc' = "pause" /\ runs' = runs \ {"heartbeat"} /\ alive' = alive
  <2>1. CASE n \in {1, 2, 3, 4}
    BY <2>1, <1>1, <1>2, <1>4 DEF Life!Awaited
  <2>2. CASE n \in {5, 6, 7}
    BY <2>2, <1>1, <1>2, <1>4 DEF Life!Awaited
  <2> QED
    BY <2>1, <2>2
<1> QED
  BY <1>2, <1>3, <1>4, Zenon

\* The services of the cloud, by name.
LEMMA CloudIs ==
  /\ Life!Local = {"loop", "ws", "cron", "heartbeat", "lvgl"}
  /\ Life!StartCloud =>
       /\ UNCHANGED <<mainPc, shutdown>>
       /\ \/ \E c \in {"feishu", "node", "mqtt", "weixin"} :
               /\ runs' = runs \cup {c} /\ alive' = alive \cup {c}
               /\ tardy' = IF shutdown THEN tardy \cup {c} ELSE tardy
          \/ UNCHANGED <<runs, alive, tardy>>
<1>1. Life!Cloud[1] = "feishu" /\ Life!Cloud[2] = "node" /\ Life!Cloud[3] = "mqtt" /\ Life!Cloud[4] = "weixin"
      /\ DOMAIN Life!Cloud = {1, 2, 3, 4}
  BY DEF Life!Cloud
<1>2. ASSUME Life!StartCloud
      PROVE  \/ \E n \in {1, 2, 3, 4} :
                  /\ runs' = runs \cup {Life!Cloud[n]} /\ alive' = alive \cup {Life!Cloud[n]}
                  /\ tardy' = IF shutdown THEN tardy \cup {Life!Cloud[n]} ELSE tardy
             \/ UNCHANGED <<runs, alive, tardy>>
  BY <1>1, <1>2 DEF Life!StartCloud
<1> QED
  BY <1>1, <1>2 DEF Life!StartCloud, Life!rest, Life!Local

\* Every step of the assistant's life leaves stopped what was stopped.
LEMMA QuitKept ==
  ASSUME RunInv, Life!Next \/ UNCHANGED mainVars
  PROVE  RunInv'
<1>1. ASSUME UNCHANGED <<mainPc, runs, alive, shutdown, tardy>>
      PROVE  RunInv'
  BY <1>1 DEF RunInv, Assisting
<1>2. CASE Life!Initialised \/ Life!StartDispatch \/ Life!StartWatcher \/ Life!StartCli
  <2>1. mainPc' \in {"dispatch", "failed", "local", "cli", "ready"} /\ UNCHANGED <<runs, alive, shutdown, tardy>>
    BY <1>2 DEF Life!Initialised, Life!StartDispatch, Life!StartWatcher, Life!StartCli, Life!Goes
  <2> QED
    BY <2>1 DEF RunInv, Assisting
<1>3. CASE Life!StartLocal
  <2>1. mainPc' = "watch" /\ alive' = runs' /\ runs' \subseteq {"loop", "ws", "cron", "heartbeat", "lvgl"}
    BY <1>3, CloudIs DEF Life!StartLocal, Life!Goes
  <2> QED
    BY <2>1 DEF RunInv, Assisting
<1>4. CASE Life!Quits
  <2>1. mainPc' = "weixin" /\ shutdown' /\ UNCHANGED <<runs, alive, tardy>>
    BY <1>4, StopsAre DEF Life!Quits, Life!Goes
  <2> QED
    BY <2>1 DEF RunInv, Assisting
<1>5. CASE Life!Stop
  <2>1. UNCHANGED <<shutdown, tardy>>
    BY <1>5 DEF Life!Stop
  <2> QED
    BY <1>5, <2>1, StopsAre DEF RunInv, Assisting
<1>6. CASE Life!StartCloud
  BY <1>6, CloudIs DEF RunInv, Assisting
<1>7. CASE Life!Quit
  <2>1. shutdown' = TRUE /\ UNCHANGED <<mainPc, runs, alive, tardy>>
    BY <1>7 DEF Life!Quit
  <2> QED
    BY <2>1 DEF RunInv, Assisting
<1>8. CASE Life!Restart
  <2>1. mainPc' = "init" /\ runs' = {} /\ alive' = {}
    BY <1>8 DEF Life!Restart
  <2> QED
    BY <2>1 DEF RunInv, Assisting
<1>9. CASE \/ Life!WatchReads \/ Life!NothingSaved \/ Life!Joined \/ Life!Connected \/ Life!Offline
           \/ Life!SetWifi \/ Life!WifiReconnect \/ Life!ConfigReset \/ Life!InputEnds
           \/ \E c \in Life!Callers : Life!Joining(c)
  <2>1. UNCHANGED <<mainPc, runs, alive, shutdown, tardy>>
    BY <1>9 DEF Life!WatchReads, Life!NothingSaved, Life!Joined, Life!Connected, Life!Offline, Life!SetWifi,
      Life!WifiReconnect, Life!ConfigReset, Life!InputEnds, Life!Joining, Life!rest, Life!threads
  <2> QED
    BY <2>1, <1>1
<1>10. CASE UNCHANGED mainVars
  BY <1>10, <1>1 DEF mainVars
<1>11. CASE Life!Destroys
  <2>1. mainPc = "pause" /\ mainPc' = "over" /\ UNCHANGED <<runs, alive, shutdown, tardy>>
    BY <1>11 DEF Life!Destroys, Life!Goes
  <2> QED
    BY <2>1 DEF RunInv, Assisting
<1>12. CASE Life!Leaves
  <2>1. /\ UNCHANGED <<mainPc, shutdown, tardy>>
        /\ \E a \in alive : alive' = alive \ {a} /\ runs' = runs \ {a}
    BY <1>12 DEF Life!Leaves
  <2> QED
    BY <2>1 DEF RunInv, Assisting
<1> QED
  BY <1>2, <1>3, <1>4, <1>5, <1>6, <1>7, <1>8, <1>9, <1>10, <1>11, <1>12 DEF Life!Next, Life!Main, Life!Watcher, Life!Cli

\* After quit only what has no stop runs, and what the watcher started late.
LEMMA NothingStays == PartsSpec => [](part = "main" => Life!NothingIsLeft)
<1>1. PartsInit => RunInv
  <2> SUFFICES ASSUME Life!Init PROVE RunInv
    BY DEF PartsInit
  <2>1. mainPc = "init" /\ runs = {} /\ alive = {}
    BY DEF Life!Init
  <2> QED
    BY <2>1 DEF RunInv, Assisting
<1>2. (part = "main" => RunInv) /\ [PartsNext]_<<part, moving>> => (part = "main" => RunInv)'
  <2> SUFFICES ASSUME part = "main" => RunInv, [PartsNext]_<<part, moving>>, part' = "main"
               PROVE  RunInv'
    OBVIOUS
  <2>1. part = "main"
    BY DEF PartsNext, moving
  <2> QED
    BY <2>1, LifeMoves, QuitKept
<1>3. RunInv => Life!NothingIsLeft
  BY DEF RunInv, Assisting, Life!NothingIsLeft, Life!Awaited
<1> QED
  BY <1>1, <1>2, <1>3, PTL DEF PartsSpec

-----------------------------------------------------------------------------
(* The slots of the calls to nodes: NodeLink. *)

\* A slot that is taken is that of a caller who sends or waits.
CallInv ==
  /\ nodeSlot \in [NodeSlots -> [call : Int, done : BOOLEAN]]
  /\ call \in [NodeCallers -> Int] /\ nodeCalls \in Int
  /\ mine \in [NodeCallers -> NodeSlots \cup {0}]
  /\ nodePc \in [NodeCallers -> {"idle", "alloc", "claim", "send", "wait"}]
  /\ \A t \in NodeCallers : nodePc[t] \in {"claim", "send", "wait"} => mine[t] \in NodeSlots
  /\ \A s \in NodeSlots : nodeSlot[s].call # 0 =>
       \E t \in NodeCallers : mine[t] = s /\ nodePc[t] \in {"send", "wait"}

\* A step that leaves the callers where they are and takes no slot.
LEMMA SlotsMarked ==
  ASSUME CallInv, UNCHANGED <<nodePc, mine, call, nodeCalls>>,
         nodeSlot' \in [NodeSlots -> [call : Int, done : BOOLEAN]],
         \A s \in NodeSlots : nodeSlot'[s].call = nodeSlot[s].call
  PROVE  CallInv'
  BY DEF CallInv

\* Every step of the gateway and its callers keeps the slots accounted for.
LEMMA CallsKept ==
  ASSUME CallInv, Gateway!Next \/ UNCHANGED nodesVars
  PROVE  CallInv'
<1>t. /\ nodeSlot \in [NodeSlots -> [call : Int, done : BOOLEAN]] /\ nodeCalls \in Int
      /\ call \in [NodeCallers -> Int] /\ mine \in [NodeCallers -> NodeSlots \cup {0}]
      /\ nodePc \in [NodeCallers -> {"idle", "alloc", "claim", "send", "wait"}]
  BY DEF CallInv
<1>f. Gateway!Free \in [call : Int, done : BOOLEAN] /\ Gateway!Free.call = 0
  BY DEF Gateway!Free, Gateway!None
<1>1. ASSUME UNCHANGED <<nodeSlot, nodePc, mine, call, nodeCalls>>
      PROVE  CallInv'
  BY <1>1, <1>t, SlotsMarked
<1>2. CASE UNCHANGED nodesVars \/ Gateway!GetTools
  BY <1>2, <1>1 DEF nodesVars, Gateway!GetTools, Gateway!invokes
<1>3. ASSUME NEW c \in Conns,
             Gateway!Register(c) \/ Gateway!Invalidate(c) \/ Gateway!Rebuild(c) \/ Gateway!Disconnect(c)
      PROVE  CallInv'
  BY <1>3, <1>1 DEF Gateway!Register, Gateway!Invalidate, Gateway!Rebuild, Gateway!Disconnect, Gateway!invokes
<1>4. ASSUME NEW c \in Conns, Gateway!Wake(c)
      PROVE  CallInv'
  <2>1. UNCHANGED <<nodePc, mine, call, nodeCalls>>
    BY <1>4 DEF Gateway!Wake
  <2>2. /\ nodeSlot' = [s \in NodeSlots |-> nodeSlot'[s]]
        /\ \A s \in NodeSlots : nodeSlot'[s] = nodeSlot[s] \/ nodeSlot'[s] = [nodeSlot[s] EXCEPT !.done = TRUE]
    BY <1>4 DEF Gateway!Wake
  <2>3. \A s \in NodeSlots : nodeSlot'[s] \in [call : Int, done : BOOLEAN] /\ nodeSlot'[s].call = nodeSlot[s].call
    BY <2>2, <1>t
  <2>4. nodeSlot' \in [NodeSlots -> [call : Int, done : BOOLEAN]]
    BY <2>2, <2>3
  <2> QED
    BY <2>1, <2>3, <2>4, SlotsMarked
<1>5. ASSUME NEW c \in Conns, Gateway!Answer(c)
      PROVE  CallInv'
  <2>1. UNCHANGED <<nodePc, mine, call, nodeCalls>>
    BY <1>5 DEF Gateway!Answer
  <2>2. nodeSlot' = nodeSlot \/ nodeSlot' = [nodeSlot EXCEPT ![found[c]].done = TRUE]
    BY <1>5 DEF Gateway!Answer
  <2>3. /\ nodeSlot' \in [NodeSlots -> [call : Int, done : BOOLEAN]]
        /\ \A s \in NodeSlots : nodeSlot'[s].call = nodeSlot[s].call
    <3>1. CASE found[c] \in NodeSlots
      <4>1. /\ [nodeSlot[found[c]] EXCEPT !.done = TRUE] \in [call : Int, done : BOOLEAN]
            /\ [nodeSlot[found[c]] EXCEPT !.done = TRUE].call = nodeSlot[found[c]].call
        BY <3>1, <1>t
      <4> QED
        BY <2>2, <3>1, <4>1, <1>t
    <3>2. CASE found[c] \notin NodeSlots
      BY <2>2, <3>2, <1>t
    <3> QED
      BY <3>1, <3>2
  <2> QED
    BY <2>1, <2>3, SlotsMarked
<1>6. ASSUME NEW t \in NodeCallers, Gateway!Find(t)
      PROVE  CallInv'
  <2>1. /\ nodePc[t] = "idle" /\ nodePc' = [nodePc EXCEPT ![t] = "alloc"] /\ nodeCalls' = nodeCalls + 1
        /\ call' = [call EXCEPT ![t] = nodeCalls + 1] /\ UNCHANGED <<nodeSlot, mine>>
    BY <1>6 DEF Gateway!Find, Gateway!Step
  <2> QED
    BY <2>1 DEF CallInv
<1>7. ASSUME NEW t \in NodeCallers, Gateway!Alloc(t)
      PROVE  CallInv'
  <2>1. nodePc[t] = "alloc" /\ UNCHANGED <<nodeSlot, call, nodeCalls>>
    BY <1>7 DEF Gateway!Alloc, Gateway!Step
  <2>2. \/ \E s \in NodeSlots : mine' = [mine EXCEPT ![t] = s] /\ nodePc' = [nodePc EXCEPT ![t] = "claim"]
        \/ mine' = mine /\ nodePc' = [nodePc EXCEPT ![t] = "idle"]
    BY <1>7 DEF Gateway!Alloc, Gateway!Step
  <2> QED
    BY <2>1, <2>2 DEF CallInv
<1>8. ASSUME NEW t \in NodeCallers, Gateway!Claim(t)
      PROVE  CallInv'
  <2>1. /\ nodePc[t] = "claim" /\ nodePc' = [nodePc EXCEPT ![t] = "send"] /\ UNCHANGED <<mine, call, nodeCalls>>
        /\ nodeSlot' = [nodeSlot EXCEPT ![mine[t]] = [Gateway!Free EXCEPT !.call = call[t]]]
    BY <1>8 DEF Gateway!Claim, Gateway!Step
  <2>2. mine[t] \in NodeSlots /\ [Gateway!Free EXCEPT !.call = call[t]] \in [call : Int, done : BOOLEAN]
    BY <2>1, <1>t, <1>f DEF CallInv
  <2>3. nodeSlot' \in [NodeSlots -> [call : Int, done : BOOLEAN]] /\ \A s \in NodeSlots \ {mine[t]} : nodeSlot'[s] = nodeSlot[s]
    BY <2>1, <2>2, <1>t
  <2> QED
    BY <2>1, <2>2, <2>3 DEF CallInv
<1>9. ASSUME NEW t \in NodeCallers, Gateway!Send(t) \/ Gateway!Return(t)
      PROVE  CallInv'
  <2>1. nodePc[t] \in {"send", "wait"} /\ mine[t] \in NodeSlots /\ nodeCalls' = nodeCalls
    BY <1>9 DEF Gateway!Send, Gateway!Return, Gateway!Step, CallInv
  <2>2. CASE nodePc' = [nodePc EXCEPT ![t] = "wait"] /\ UNCHANGED <<nodeSlot, mine, call>>
    BY <2>1, <2>2 DEF CallInv
  <2>3. CASE /\ nodePc' = [nodePc EXCEPT ![t] = "idle"] /\ nodeSlot' = [nodeSlot EXCEPT ![mine[t]] = Gateway!Free]
             /\ \/ UNCHANGED <<mine, call>>
                \/ mine' = [mine EXCEPT ![t] = 0] /\ call' = [call EXCEPT ![t] = 0]
    <3>1. /\ nodeSlot' \in [NodeSlots -> [call : Int, done : BOOLEAN]]
          /\ nodeSlot'[mine[t]].call = 0 /\ \A s \in NodeSlots \ {mine[t]} : nodeSlot'[s] = nodeSlot[s]
      BY <2>1, <2>3, <1>t, <1>f
    <3>2. \A u \in NodeCallers \ {t} : mine'[u] = mine[u] /\ nodePc'[u] = nodePc[u]
      BY <2>3, <1>t
    <3>3. /\ mine' \in [NodeCallers -> NodeSlots \cup {0}] /\ call' \in [NodeCallers -> Int]
          /\ nodePc' \in [NodeCallers -> {"idle", "alloc", "claim", "send", "wait"}] /\ nodePc'[t] = "idle"
      BY <2>3, <1>t
    <3> QED
      BY <2>1, <3>1, <3>2, <3>3 DEF CallInv
  <2> QED
    BY <1>9, <2>2, <2>3 DEF Gateway!Send, Gateway!Return, Gateway!Step, Gateway!Unsent, Gateway!None
<1> QED
  BY <1>2, <1>3, <1>4, <1>5, <1>6, <1>7, <1>8, <1>9 DEF Gateway!Next, Gateway!Client, Gateway!Caller

\* However calls end and overlap, a slot is free when nobody calls.
LEMMA CallSlotsComeFree == PartsSpec => [](part = "nodes" => Gateway!SlotsComeBack)
<1>1. PartsInit => CallInv
  BY DEF PartsInit, Gateway!Init, CallInv, Gateway!None, Gateway!Free
<1>2. (part = "nodes" => CallInv) /\ [PartsNext]_<<part, moving>> => (part = "nodes" => CallInv)'
  <2> SUFFICES ASSUME part = "nodes" => CallInv, [PartsNext]_<<part, moving>>, part' = "nodes"
               PROVE  CallInv'
    OBVIOUS
  <2>1. part = "nodes"
    BY DEF PartsNext, moving
  <2> QED
    BY <2>1, NodesMove, CallsKept
<1>3. CallInv => Gateway!SlotsComeBack
  BY DEF CallInv, Gateway!SlotsComeBack, Gateway!None
<1> QED
  BY <1>1, <1>2, <1>3, PTL DEF PartsSpec

-----------------------------------------------------------------------------
(* The connection of this device to a gateway: NodeClient. *)

\* A step of the model is one of the client and its commands, or leaves them alone.
LEMMA ClientMoves ==
  ASSUME [PartsNext]_<<part, moving>>
  PROVE  [Client!Next]_(Client!vars)
<1>1. UNCHANGED clientVars => UNCHANGED Client!vars
  BY DEF clientVars, Client!vars, Client!client, Client!command
<1>2. CASE PartsNext
  <2>1. part # "client" => UNCHANGED clientVars
    BY <1>2 DEF PartsNext, OthersStay
  <2>2. part = "client" => Client!Next
    BY <1>2 DEF PartsNext
  <2> QED
    BY <1>1, <2>1, <2>2
<1>3. CASE UNCHANGED <<part, moving>>
  BY <1>1, <1>3 DEF moving
<1> QED
  BY <1>2, <1>3

\* A command that frees or starts comes after the end of the thread, and no thread
\* is there when nothing runs and no command is on its way.
ClientInv ==
  /\ cmd \in {"free", "spawn"} => worker = "gone"
  /\ cmd = "idle" /\ ~clientRunning => worker = "gone"
  /\ cmd # "idle" => ~clientRunning

\* Every step keeps this, and none frees TLS or starts a thread beside another.
LEMMA ClientKept ==
  ASSUME ClientInv, [Client!Next]_(Client!vars)
  PROVE  /\ ClientInv'
         /\ [(cmd = "free" \/ (clientRunning' # clientRunning /\ clientRunning')) => worker = "gone"]_(Client!vars)
<1>1. CASE UNCHANGED Client!vars
  BY <1>1 DEF ClientInv, Client!vars, Client!client, Client!command
<1>2. CASE Client!Worker
  <2>1. worker # "gone" /\ UNCHANGED <<clientRunning, cmd>>
    BY <1>2 DEF Client!Worker, Client!Top, Client!Connect, Client!Handshake, Client!Upgrade, Client!Receive, Client!Silence,
      Client!Leave, Client!Disconnect, Client!Wake, Client!Goes, Client!Stays, Client!command
  <2> QED
    BY <2>1 DEF ClientInv
<1>3. CASE Client!Command
  BY <1>3 DEF ClientInv, Client!Command, Client!Commanded, Client!Begin, Client!Shut, Client!Join, Client!Joined,
    Client!FreeTls, Client!Spawn, Client!client
<1> QED
  BY <1>1, <1>2, <1>3 DEF Client!Next

\* While the thread may be reading through TLS nobody frees it, and no second
\* thread is started beside it.
LEMMA ReadersAreAlone == PartsSpec => Client!ReaderIsAlone
<1>1. PartsInit => ClientInv
  BY DEF PartsInit, Client!Init, ClientInv
<1> DEFINE Unshared == (cmd = "free" \/ (clientRunning' # clientRunning /\ clientRunning')) => worker = "gone"
<1>2. ClientInv /\ [PartsNext]_<<part, moving>> => ClientInv' /\ [Unshared]_(Client!vars)
  BY ClientMoves, ClientKept
<1>3. Client!ReaderIsAlone <=> [][Unshared]_(Client!vars)
  BY DEF Client!ReaderIsAlone
<1> QED
  BY <1>1, <1>2, <1>3, PTL DEF PartsSpec

-----------------------------------------------------------------------------
(* The connection to a broker: MqttChannel. *)

\* A step of the model is one of the channel or none, when the channel moves.
LEMMA MqttMoves ==
  ASSUME [PartsNext]_<<part, moving>>, part = "mqtt"
  PROVE  part' = "mqtt" /\ (Mqtt!Next \/ UNCHANGED mqttVars)
<1>1. CASE PartsNext
  BY <1>1 DEF PartsNext
<1>2. CASE UNCHANGED <<part, moving>>
  BY <1>2 DEF moving
<1> QED
  BY <1>1, <1>2

\* A thread of an earlier run has left before the next one synchronises.
OneSynchronises ==
  part = "mqtt" => \A t, u \in Mqtt!Threads : {mqttPc[t], mqttPc[u]} \subseteq {"loop", "connect"} => t = u

\* The only socket that may be open is s_sockfd, and none is while a connection is made.
SocketInv ==
  /\ opened \in Nat /\ mqttFd \in Nat
  /\ mqttPc \in [Mqtt!Threads -> {"none", "loop", "connect", "gone"}]
  /\ mqttOpen \subseteq {mqttFd} \ {0}
  /\ \A t \in Mqtt!Threads : mqttPc[t] = "connect" => mqttOpen = {}
\* After the first k entries of the queue come replies only, no more of them than
\* are neither waited for nor acknowledged nor lost; and a connection is or will be subscribed.
Subscribed == mqttSocket \in listens \/ \E i \in DOMAIN queued : queued[i] = "subscribe"
Mailed(k) ==
  /\ \A i \in DOMAIN queued : IF i <= k THEN queued[i] \in {"connect", "subscribe"} ELSE queued[i] = "reply"
  /\ mqttTold + unacked + Len(queued) - k <= replies
QueueInv ==
  /\ queued \in Seq({"connect", "subscribe", "reply"}) /\ {replies, mqttTold, unacked} \subseteq Nat
  /\ \E k \in 0..Len(queued) : Mailed(k)
  /\ ~error /\ mqttSocket # 0 => Subscribed
MqttInv == SocketInv /\ QueueInv

\* What the channel's other variables are does not matter.
SocketVars == <<opened, mqttFd, mqttPc, mqttOpen>>
QueueVars == <<queued, replies, mqttTold, unacked, error, mqttSocket, listens>>
\* The variables of SocketInv.
LEMMA SocketStays == ASSUME SocketInv, UNCHANGED SocketVars PROVE SocketInv'
  BY DEF SocketInv, SocketVars
\* The variables of QueueInv.
LEMMA QueueStays == ASSUME QueueInv, UNCHANGED QueueVars PROVE QueueInv'
  BY DEF QueueInv, QueueVars, Mailed, Subscribed

\* A queue that begins anew.
LEMMA QueueBegins ==
  ASSUME QueueInv, UNCHANGED <<replies, mqttTold>>, unacked' = 0,
         \/ queued' = <<>> /\ error' = TRUE
         \/ queued' = <<"connect", "subscribe">>
  PROVE  QueueInv'
<1>t. {replies, mqttTold, unacked} \subseteq Nat /\ mqttTold <= replies /\ unacked' \in Nat
  BY DEF QueueInv, Mailed
<1>1. CASE queued' = <<>> /\ error' = TRUE
  <2>1. Mailed(0)' /\ Len(queued') = 0
    BY <1>1, <1>t DEF Mailed
  <2> QED
    BY <1>1, <1>t, <2>1 DEF QueueInv
<1>2. CASE queued' = <<"connect", "subscribe">>
  <2>1. Len(queued') = 2 /\ DOMAIN queued' = 1..2 /\ queued'[1] = "connect" /\ queued'[2] = "subscribe"
    BY <1>2
  <2>2. Mailed(2)' /\ Subscribed'
    BY <2>1, <1>t DEF Mailed, Subscribed
  <2>3. queued' \in Seq({"connect", "subscribe", "reply"})
    BY <1>2
  <2> QED
    BY <1>t, <2>1, <2>2, <2>3 DEF QueueInv
<1> QED
  BY <1>1, <1>2

\* A reply joins the queue.
LEMMA QueueGrows ==
  ASSUME QueueInv, queued' = Append(queued, "reply"), replies' = replies + 1,
         UNCHANGED <<mqttTold, unacked, error, mqttSocket, listens>>
  PROVE  QueueInv'
<1>1. PICK k \in 0..Len(queued) : Mailed(k)
  BY DEF QueueInv
<1>2. /\ queued \in Seq({"connect", "subscribe", "reply"}) /\ {replies, mqttTold, unacked} \subseteq Nat
      /\ Len(queued) \in Nat /\ DOMAIN queued = 1..Len(queued)
  BY DEF QueueInv
<1>3. /\ queued' \in Seq({"connect", "subscribe", "reply"}) /\ Len(queued') = Len(queued) + 1
      /\ DOMAIN queued' = 1..(Len(queued) + 1)
      /\ queued'[Len(queued) + 1] = "reply" /\ \A i \in 1..Len(queued) : queued'[i] = queued[i]
  BY <1>2
<1>4. Mailed(k)' /\ k \in 0..Len(queued')
  BY <1>1, <1>2, <1>3 DEF Mailed
<1>5. Subscribed => Subscribed'
  BY <1>2, <1>3 DEF Subscribed
<1> QED
  BY <1>2, <1>3, <1>4, <1>5 DEF QueueInv

\* The first entry of the queue is sent.
LEMMA QueueShrinks ==
  ASSUME QueueInv, queued # <<>>, queued' = Tail(queued), UNCHANGED <<replies, mqttTold, error, mqttSocket>>,
         listens' = IF Head(queued) = "subscribe" THEN listens \cup {mqttSocket} ELSE listens,
         unacked' = IF Head(queued) = "reply" THEN unacked + 1 ELSE unacked
  PROVE  QueueInv'
<1>1. PICK k \in 0..Len(queued) : Mailed(k)
  BY DEF QueueInv
<1>2. /\ queued \in Seq({"connect", "subscribe", "reply"}) /\ {replies, mqttTold, unacked} \subseteq Nat
      /\ Len(queued) \in Nat \ {0} /\ DOMAIN queued = 1..Len(queued) /\ Head(queued) = queued[1]
  BY DEF QueueInv
<1>3. /\ queued' \in Seq({"connect", "subscribe", "reply"}) /\ Len(queued') = Len(queued) - 1
      /\ DOMAIN queued' = 1..(Len(queued) - 1)
      /\ \A i \in 1..(Len(queued) - 1) : queued'[i] = queued[i + 1]
  BY <1>2
<1>4. Subscribed => Subscribed'
  <2>1. CASE Head(queued) = "subscribe"
    BY <2>1 DEF Subscribed
  <2>2. CASE Head(queued) # "subscribe"
    <3>1. listens' = listens
      BY <2>2
    <3>2. ASSUME NEW i \in DOMAIN queued, queued[i] = "subscribe"
          PROVE  i - 1 \in DOMAIN queued' /\ queued'[i - 1] = "subscribe"
      <4>1. i # 1 /\ i \in Nat
        BY <1>2, <2>2, <3>2
      <4> QED
        BY <1>2, <1>3, <3>2, <4>1
    <3> QED
      BY <3>1, <3>2 DEF Subscribed
  <2> QED
    BY <2>1, <2>2
<1>5. CASE k = 0
  <2>1. queued[1] = "reply"
    BY <1>1, <1>2, <1>5 DEF Mailed
  <2>2. unacked' = unacked + 1
    BY <1>2, <2>1
  <2>3. Mailed(0)' /\ 0 \in 0..Len(queued')
    BY <1>1, <1>2, <1>3, <1>5, <2>2 DEF Mailed
  <2> QED
    BY <1>2, <1>3, <1>4, <2>2, <2>3 DEF QueueInv
<1>6. CASE k # 0
  <2>1. queued[1] \in {"connect", "subscribe"}
    BY <1>1, <1>2, <1>6 DEF Mailed
  <2>2. unacked' = unacked
    BY <1>2, <2>1
  <2>3. k - 1 \in 0..Len(queued')
    BY <1>2, <1>3, <1>6
  <2>4. Mailed(k - 1)'
    <3>1. \A i \in DOMAIN queued' : IF i <= k - 1 THEN queued'[i] \in {"connect", "subscribe"} ELSE queued'[i] = "reply"
      BY <1>1, <1>2, <1>3, <1>6 DEF Mailed
    <3>2. mqttTold' + unacked' + Len(queued') - (k - 1) <= replies'
      BY <1>1, <1>2, <1>3, <2>2 DEF Mailed
    <3> QED
      BY <3>1, <3>2 DEF Mailed
  <2> QED
    BY <1>2, <1>3, <1>4, <2>2, <2>3, <2>4 DEF QueueInv
<1> QED
  BY <1>5, <1>6

\* What was waited for is acknowledged.
LEMMA QueueAcknowledged ==
  ASSUME QueueInv, ~error, UNCHANGED <<queued, replies, mqttSocket, listens>>, unacked' \in Nat, mqttTold' \in Nat,
         mqttTold' + unacked' = mqttTold + unacked
  PROVE  QueueInv'
<1>1. PICK k \in 0..Len(queued) : Mailed(k)
  BY DEF QueueInv
<1>2. {replies, mqttTold, unacked} \subseteq Nat /\ Len(queued) \in Nat
  BY DEF QueueInv
<1>3. Mailed(k)'
  BY <1>1, <1>2 DEF Mailed
<1>4. Subscribed' <=> Subscribed
  BY DEF Subscribed
<1> QED
  BY <1>2, <1>3, <1>4 DEF QueueInv

\* Every step of the channel keeps its connection whole, when no two threads synchronise.
LEMMA MqttKept ==
  ASSUME MqttInv, part = "mqtt", OneSynchronises, Mqtt!Next \/ UNCHANGED mqttVars
  PROVE  MqttInv'
<1>t. SocketInv /\ QueueInv
  BY DEF MqttInv
<1>p. mqttPc \in [Mqtt!Threads -> {"none", "loop", "connect", "gone"}]
  BY <1>t DEF SocketInv
<1>1. CASE UNCHANGED mqttVars
  BY <1>1, <1>t, SocketStays, QueueStays DEF MqttInv, mqttVars, SocketVars, QueueVars
<1>2. CASE Mqtt!Start
  <2>1. /\ error' = TRUE /\ queued' = <<>> /\ UNCHANGED <<mqttFd, opened, mqttOpen, replies, mqttTold>> /\ unacked' = 0
        /\ mqttPc' = mqttPc \/ mqttPc' = [mqttPc EXCEPT ![mqttStarts'] = "loop"]
    BY <1>2 DEF Mqtt!Start, Mqtt!net, Mqtt!counts, Mqtt!Forgotten
  <2> QED
    BY <1>t, <2>1, QueueBegins DEF MqttInv, SocketInv
<1>3. CASE Mqtt!Stop
  BY <1>3, <1>t, SocketStays, QueueStays DEF MqttInv, Mqtt!Stop, Mqtt!client, Mqtt!pending, Mqtt!net, Mqtt!counts, SocketVars, QueueVars
<1>4. CASE Mqtt!Close
  <2>1. mqttOpen' = mqttOpen \ {mqttFd} /\ mqttFd' = 0 /\ UNCHANGED <<opened, mqttPc, QueueVars>>
    BY <1>4 DEF Mqtt!Close, Mqtt!client, Mqtt!pending, Mqtt!counts, Mqtt!None, QueueVars
  <2> QED
    BY <1>t, <2>1, QueueStays DEF MqttInv, SocketInv
<1>5. CASE Mqtt!Send
  <2>1. queued' = Append(queued, "reply") /\ replies' = replies + 1
        /\ UNCHANGED <<mqttTold, unacked, error, mqttSocket, listens, SocketVars>>
    BY <1>5 DEF Mqtt!Send, Mqtt!pending, Mqtt!net, SocketVars
  <2> QED
    BY <1>t, <2>1, SocketStays, QueueGrows DEF MqttInv
<1>6. ASSUME NEW t \in Mqtt!Threads, Mqtt!Leave(t)
      PROVE  MqttInv'
  <2>1. mqttPc' = [mqttPc EXCEPT ![t] = "gone"] /\ UNCHANGED <<opened, mqttFd, mqttOpen, QueueVars>>
    BY <1>6 DEF Mqtt!Leave, Mqtt!client, Mqtt!pending, Mqtt!net, Mqtt!counts, QueueVars
  <2> QED
    BY <1>t, <2>1, QueueStays DEF MqttInv, SocketInv
<1>7. ASSUME NEW t \in Mqtt!Threads, Mqtt!Reconnect(t)
      PROVE  MqttInv'
  <2>1. mqttPc' = [mqttPc EXCEPT ![t] = "connect"] /\ mqttOpen' = mqttOpen \ {mqttFd} /\ mqttFd' = 0
        /\ UNCHANGED <<opened, QueueVars>>
    BY <1>7 DEF Mqtt!Reconnect, Mqtt!Dropped, Mqtt!client, Mqtt!pending, Mqtt!counts, Mqtt!None, QueueVars
  <2> QED
    BY <1>t, <2>1, QueueStays DEF MqttInv, SocketInv
<1>8. ASSUME NEW t \in Mqtt!Threads, Mqtt!Connect(t)
      PROVE  MqttInv'
  <2>1. mqttPc[t] = "connect" /\ mqttPc' = [mqttPc EXCEPT ![t] = "loop"] /\ UNCHANGED <<replies, mqttTold>> /\ unacked' = 0
    BY <1>8 DEF Mqtt!Connect, Mqtt!counts, Mqtt!Forgotten
  <2>2. mqttOpen = {}
    BY <2>1, <1>t DEF SocketInv
  <2>3. \A u \in Mqtt!Threads : mqttPc'[u] # "connect"
    BY <2>1, <1>p DEF OneSynchronises
  <2>4. \/ opened' = opened + 1 /\ mqttOpen' = {opened'} /\ mqttFd' = opened'
           /\ queued' = <<"connect", "subscribe">>
        \/ error' = TRUE /\ queued' = <<>> /\ UNCHANGED <<opened, mqttOpen, mqttFd>>
    BY <1>8, <2>2 DEF Mqtt!Connect, Mqtt!Asked
  <2>5. QueueInv'
    BY <1>t, <2>1, <2>4, QueueBegins
  <2>6. SocketInv'
    <3>1. opened' \in Nat /\ mqttFd' \in Nat /\ mqttOpen' \subseteq {mqttFd'} \ {0}
      <4>1. opened \in Nat /\ mqttFd \in Nat
        BY <1>t DEF SocketInv
      <4>2. CASE opened' = opened + 1 /\ mqttOpen' = {opened'} /\ mqttFd' = opened'
        BY <4>1, <4>2
      <4>3. CASE UNCHANGED <<opened, mqttOpen, mqttFd>>
        BY <4>1, <4>3, <2>2
      <4> QED
        BY <2>4, <4>2, <4>3
    <3>2. mqttPc' \in [Mqtt!Threads -> {"none", "loop", "connect", "gone"}]
      BY <1>p, <2>1
    <3> QED
      BY <2>3, <3>1, <3>2 DEF SocketInv
  <2> QED
    BY <2>5, <2>6 DEF MqttInv
<1>9. ASSUME NEW t \in Mqtt!Threads, Mqtt!Breaks(t)
      PROVE  MqttInv'
  <2>1. error' = TRUE /\ UNCHANGED <<queued, replies, mqttTold, unacked, SocketVars>>
    BY <1>9 DEF Mqtt!Breaks, Mqtt!pending, Mqtt!net, Mqtt!counts, SocketVars
  <2>2. QueueInv'
    BY <1>t, <2>1 DEF QueueInv, Mailed
  <2> QED
    BY <1>t, <2>1, <2>2, SocketStays DEF MqttInv
<1>10. ASSUME NEW t \in Mqtt!Threads, Mqtt!Sends(t)
       PROVE  MqttInv'
  <2>1. /\ queued # <<>> /\ queued' = Tail(queued) /\ UNCHANGED <<replies, mqttTold, error, mqttSocket, SocketVars>>
        /\ listens' = IF Head(queued) = "subscribe" THEN listens \cup {mqttSocket} ELSE listens
        /\ unacked' = IF Head(queued) = "reply" THEN unacked + 1 ELSE unacked
    BY <1>10 DEF Mqtt!Sends, Mqtt!counts, Mqtt!pending, SocketVars
  <2> QED
    BY <1>t, <2>1, SocketStays, QueueShrinks DEF MqttInv
<1>11. ASSUME NEW t \in Mqtt!Threads, Mqtt!Receives(t)
       PROVE  MqttInv'
  BY <1>11, <1>t, SocketStays, QueueStays DEF MqttInv, Mqtt!Receives, Mqtt!client, Mqtt!pending, Mqtt!net, SocketVars, QueueVars
<1>12. ASSUME NEW t \in Mqtt!Threads, Mqtt!Resends(t)
       PROVE  MqttInv'
  BY <1>12, <1>t, SocketStays, QueueStays DEF MqttInv, Mqtt!Resends, Mqtt!net, Mqtt!counts, SocketVars, QueueVars
<1>13. ASSUME NEW t \in Mqtt!Threads, Mqtt!Acknowledged(t)
       PROVE  MqttInv'
  <2>1. ~error /\ UNCHANGED <<queued, replies, mqttSocket, listens, SocketVars>>
    BY <1>13 DEF Mqtt!Acknowledged, Mqtt!Syncs, Mqtt!net, SocketVars
  <2>2. (unacked > 0 /\ unacked' = unacked - 1 /\ mqttTold' = mqttTold + 1) \/ UNCHANGED <<unacked, mqttTold>>
    BY <1>13 DEF Mqtt!Acknowledged
  <2>3. unacked' \in Nat /\ mqttTold' \in Nat /\ mqttTold' + unacked' = mqttTold + unacked
    BY <2>2, <1>t DEF QueueInv
  <2> QED
    BY <1>t, <2>1, <2>3, SocketStays, QueueAcknowledged DEF MqttInv
<1> QED
  BY <1>1, <1>2, <1>3, <1>4, <1>5, <1>6, <1>7, <1>8, <1>9, <1>10, <1>11, <1>12, <1>13 DEF Mqtt!Next

\* The channel's set of open sockets has the size it seems to have.
LEMMA MqttSize == ASSUME NEW S PROVE Mqtt!Cardinality(S) = Cardinality(S)
  BY DEF Mqtt!Cardinality, Cardinality, Mqtt!IsFiniteSet, IsFiniteSet

\* However often the line breaks, one connection is open, its topic is or will be
\* asked for, and a reply is queued, waited for or acknowledged once.
LEMMA LinksAreWhole == PartsSpec /\ []OneSynchronises => [](part = "mqtt" => Mqtt!LinkIsWhole)
<1>1. PartsInit => MqttInv
  <2> SUFFICES ASSUME Mqtt!Init PROVE MqttInv
    BY DEF PartsInit
  <2>1. /\ mqttFd = 0 /\ mqttSocket = 0 /\ queued = <<>> /\ opened = 0 /\ mqttOpen = {} /\ replies = 0 /\ mqttTold = 0 /\ unacked = 0
        /\ mqttPc = [t \in Mqtt!Threads |-> "none"]
    BY DEF Mqtt!Init, Mqtt!None
  <2>2. Mailed(0) /\ Len(queued) = 0
    BY <2>1 DEF Mailed
  <2>3. QueueInv
    BY <2>1, <2>2 DEF QueueInv
  <2> QED
    BY <2>1, <2>3 DEF MqttInv, SocketInv
<1>2. (part = "mqtt" => MqttInv) /\ OneSynchronises /\ [PartsNext]_<<part, moving>> => (part = "mqtt" => MqttInv)'
  <2> SUFFICES ASSUME part = "mqtt" => MqttInv, OneSynchronises, [PartsNext]_<<part, moving>>, part' = "mqtt"
               PROVE  MqttInv'
    OBVIOUS
  <2>1. part = "mqtt"
    BY DEF PartsNext, moving
  <2> QED
    BY <2>1, MqttMoves, MqttKept
<1>3. MqttInv => Mqtt!LinkIsWhole
  <2> SUFFICES ASSUME MqttInv PROVE Mqtt!LinkIsWhole
    OBVIOUS
  <2>1. Cardinality(mqttOpen) <= 1
    <3>1. mqttOpen = {} \/ mqttOpen = {mqttFd}
      BY DEF MqttInv, SocketInv
    <3> QED
      <4>1. CASE mqttOpen = {}
        BY <4>1, FS_EmptySet
      <4>2. CASE mqttOpen = {mqttFd}
        <5>1. Cardinality({mqttFd}) = 1
          BY FS_Singleton
        <5> QED
          BY <4>2, <5>1
      <4> QED
        BY <3>1, <4>1, <4>2
  <2>2. Mqtt!Waiting + unacked + mqttTold <= replies
    <3>1. PICK k \in 0..Len(queued) : Mailed(k)
      BY DEF MqttInv, QueueInv
    <3>2. {replies, mqttTold, unacked} \subseteq Nat /\ Len(queued) \in Nat /\ DOMAIN queued = 1..Len(queued)
      BY DEF MqttInv, QueueInv
    <3>3. {i \in DOMAIN queued : queued[i] = "reply"} = (k + 1)..Len(queued)
      BY <3>1, <3>2 DEF Mailed
    <3>4. Cardinality((k + 1)..Len(queued)) = Len(queued) - k
      <4>0. k + 1 \in Int /\ Len(queued) \in Int
        BY <3>2
      <4>1. Cardinality((k + 1)..Len(queued)) =
              IF k + 1 > Len(queued) THEN 0 ELSE Len(queued) - (k + 1) + 1
        BY <4>0, FS_Interval, Zenon
      <4> QED
        BY <3>2, <4>1
    <3>5. Mqtt!Waiting = Len(queued) - k
      BY <3>3, <3>4, MqttSize DEF Mqtt!Waiting
    <3> QED
      BY <3>1, <3>2, <3>5 DEF Mailed
  <2>3. ~error /\ mqttSocket \in mqttOpen => Subscribed
    BY DEF MqttInv, SocketInv, QueueInv
  <2> QED
    BY <2>1, <2>2, <2>3, MqttSize DEF Mqtt!LinkIsWhole, Subscribed
<1> QED
  BY <1>1, <1>2, <1>3, PTL DEF PartsSpec

-----------------------------------------------------------------------------
(* The chat on the display: LvglChat. *)

\* A step of the model is one of the chat or none, when the chat moves.
LEMMA DisplayMoves ==
  ASSUME [PartsNext]_<<part, moving>>, part = "display"
  PROVE  part' = "display" /\ (Display!Next \/ UNCHANGED displayVars)
<1>1. CASE PartsNext
  BY <1>1 DEF PartsNext
<1>2. CASE UNCHANGED <<part, moving>>
  BY <1>2 DEF moving
<1> QED
  BY <1>1, <1>2

\* The first m entries of b are those of the first n of h that are not 0, in their order.
Fits(h, n, b, m, at) ==
  /\ at \in [1..m -> 1..n]
  /\ \A i, j \in 1..m : i < j => at[i] < at[j]
  /\ \A i \in 1..m : b[i] = h[at[i]]
  /\ \A k \in 1..n : h[k] # 0 <=> \E i \in 1..m : at[i] = k
Matched(h, b) == \E at : Fits(h, Len(h), b, Len(b), at)

\* Nothing matches nothing.
LEMMA NothingMatches == Matched(<<>>, <<>>)
<1>1. Fits(<<>>, 0, <<>>, 0, [i \in 1..0 |-> 0])
  BY DEF Fits
<1> QED
  BY <1>1 DEF Matched

\* An entry added to both.
LEMMA BothGrow ==
  ASSUME NEW h \in Seq(Nat), NEW b \in Seq(Nat), Matched(h, b), NEW e \in Nat \ {0}
  PROVE  Matched(Append(h, e), Append(b, e))
<1>1. ASSUME NEW n \in Nat, NEW m \in Nat, NEW at, Fits(h, n, b, m, at), NEW H, NEW B,
             H[n + 1] # 0, B[m + 1] = H[n + 1], \A i \in 1..n : H[i] = h[i], \A i \in 1..m : B[i] = b[i]
      PROVE  \E new : Fits(H, n + 1, B, m + 1, new)
  <2> DEFINE new == [i \in 1..(m + 1) |-> IF i = m + 1 THEN n + 1 ELSE at[i]]
  <2>1. \A i \in 1..m : at[i] \in 1..n
    BY <1>1 DEF Fits
  <2>2. new[m + 1] = n + 1 /\ \A i \in 1..m : i # m + 1 /\ new[i] = at[i]
    OBVIOUS
  <2>3. new \in [1..(m + 1) -> 1..(n + 1)]
    BY <2>1
  <2> HIDE DEF new
  <2>4. \A i, j \in 1..(m + 1) : i < j => new[i] < new[j]
    <3> SUFFICES ASSUME NEW i \in 1..(m + 1), NEW j \in 1..(m + 1), i < j PROVE new[i] < new[j]
      OBVIOUS
    <3>1. CASE j = m + 1
      BY <3>1, <2>1, <2>2
    <3>2. CASE j # m + 1
      BY <3>2, <1>1, <2>2 DEF Fits
    <3> QED
      BY <3>1, <3>2
  <2>5. \A i \in 1..(m + 1) : B[i] = H[new[i]]
    <3> SUFFICES ASSUME NEW i \in 1..(m + 1) PROVE B[i] = H[new[i]]
      OBVIOUS
    <3>1. CASE i = m + 1
      BY <3>1, <1>1, <2>2
    <3>2. CASE i # m + 1
      <4>1. i \in 1..m /\ b[i] = h[at[i]]
        BY <3>2, <1>1 DEF Fits
      <4> QED
        BY <4>1, <1>1, <2>1, <2>2
    <3> QED
      BY <3>1, <3>2
  <2>6. ASSUME NEW k \in 1..(n + 1) PROVE H[k] # 0 <=> \E i \in 1..(m + 1) : new[i] = k
    <3>1. CASE k = n + 1
      BY <3>1, <1>1, <2>2
    <3>2. CASE k # n + 1
      <4>1. k \in 1..n /\ H[k] = h[k]
        BY <3>2, <1>1
      <4>2. (\E i \in 1..m : at[i] = k) <=> (\E i \in 1..(m + 1) : new[i] = k)
        <5>1. ASSUME NEW i \in 1..(m + 1), new[i] = k PROVE \E j \in 1..m : at[j] = k
          <6>1. i # m + 1 /\ i \in 1..m
            BY <3>2, <5>1, <2>2
          <6> QED
            BY <5>1, <6>1, <2>2
        <5>2. ASSUME NEW i \in 1..m, at[i] = k PROVE \E j \in 1..(m + 1) : new[j] = k
          <6>1. i \in 1..(m + 1) /\ new[i] = k
            BY <5>2, <2>2
          <6> QED
            BY <6>1
        <5> QED
          BY <5>1, <5>2
      <4>3. h[k] # 0 <=> \E i \in 1..m : at[i] = k
        BY <4>1, <1>1 DEF Fits
      <4> QED
        BY <4>1, <4>2, <4>3
    <3> QED
      BY <3>1, <3>2
  <2> QED
    BY <2>3, <2>4, <2>5, <2>6 DEF Fits
<1>2. PICK at : Fits(h, Len(h), b, Len(b), at)
  BY DEF Matched
<1> DEFINE H == Append(h, e)
           B == Append(b, e)
<1>3. Len(H) = Len(h) + 1 /\ H[Len(h) + 1] = e /\ \A i \in 1..Len(h) : H[i] = h[i]
  BY AppendProperties
<1>4. Len(B) = Len(b) + 1 /\ B[Len(b) + 1] = e /\ \A i \in 1..Len(b) : B[i] = b[i]
  BY AppendProperties
<1> HIDE DEF H, B
<1>5. Len(h) \in Nat /\ Len(b) \in Nat
  OBVIOUS
<1>6. \E new : Fits(H, Len(h) + 1, B, Len(b) + 1, new)
  BY <1>1, <1>2, <1>3, <1>4, <1>5
<1> QED
  BY <1>3, <1>4, <1>6 DEF Matched, H, B

\* An entry that has no bubble.
LEMMA LostGrows ==
  ASSUME NEW h \in Seq(Nat), NEW b \in Seq(Nat), Matched(h, b)
  PROVE  Matched(Append(h, 0), b)
<1>1. ASSUME NEW n \in Nat, NEW m \in Nat, NEW at, Fits(h, n, b, m, at), NEW H,
             H[n + 1] = 0, \A i \in 1..n : H[i] = h[i]
      PROVE  Fits(H, n + 1, b, m, at)
  <2>1. \A i \in 1..m : at[i] \in 1..n
    BY <1>1 DEF Fits
  <2>2. at \in [1..m -> 1..(n + 1)]
    BY <1>1 DEF Fits
  <2>4. ASSUME NEW i \in 1..m PROVE b[i] = H[at[i]]
    <3>1. b[i] = h[at[i]]
      BY <1>1 DEF Fits
    <3> QED
      BY <3>1, <1>1, <2>1
  <2>3. ASSUME NEW k \in 1..(n + 1) PROVE H[k] # 0 <=> \E i \in 1..m : at[i] = k
    <3>1. CASE k = n + 1
      BY <3>1, <1>1, <2>1
    <3>2. CASE k # n + 1
      BY <3>2, <1>1 DEF Fits
    <3> QED
      BY <3>1, <3>2
  <2> QED
    BY <1>1, <2>2, <2>3, <2>4 DEF Fits
<1>2. PICK at : Fits(h, Len(h), b, Len(b), at)
  BY DEF Matched
<1> DEFINE H == Append(h, 0)
<1>3. Len(H) = Len(h) + 1 /\ H[Len(h) + 1] = 0 /\ \A i \in 1..Len(h) : H[i] = h[i]
  BY AppendProperties
<1> HIDE DEF H
<1>4. Len(h) \in Nat /\ Len(b) \in Nat
  OBVIOUS
<1>5. Fits(H, Len(h) + 1, b, Len(b), at)
  BY <1>1, <1>2, <1>3, <1>4
<1> QED
  BY <1>3, <1>5 DEF Matched, H

Shifted(h, n, H) == \A i \in 1..n : H[i] = h[i + 1]

\* The first entry goes: with its bubble, which is the first one, or without any.
LEMMA FirstGoes ==
  ASSUME NEW h \in Seq(Nat), NEW b \in Seq(Nat), Matched(h, b), h # <<>>,
         \A i, j \in 1..Len(h) : h[i] = h[j] /\ h[i] # 0 => i = j
  PROVE  /\ h[1] = 0 => Matched(Tail(h), b) /\ \A i \in 1..Len(b) : b[i] # h[1]
         /\ h[1] # 0 => /\ b # <<>> /\ b[1] = h[1] /\ \A i \in 1..Len(b) : b[i] = h[1] => i = 1
                        /\ Matched(Tail(h), Tail(b))
<1>1. ASSUME NEW n \in Nat, NEW m \in Nat, NEW at, Fits(h, n + 1, b, m, at), NEW H, h[1] = 0, Shifted(h, n, H)
      PROVE  (\E new : Fits(H, n, b, m, new)) /\ \A i \in 1..m : b[i] # 0
  <2> DEFINE new == [i \in 1..m |-> at[i] - 1]
  <2>1. ASSUME NEW i \in 1..m PROVE b[i] # 0 /\ at[i] \in 1..(n + 1) /\ at[i] # 1
    <3>1. at[i] \in 1..(n + 1) /\ b[i] = h[at[i]]
      BY <1>1 DEF Fits
    <3>2. h[at[i]] # 0
      BY <3>1, <1>1 DEF Fits
    <3> QED
      BY <3>1, <3>2, <1>1
  <2>2. \A i \in 1..m : new[i] = at[i] - 1 /\ new[i] \in 1..n
    BY <2>1
  <2>3. new \in [1..m -> 1..n]
    BY <2>2
  <2> HIDE DEF new
  <2>4. \A i, j \in 1..m : i < j => new[i] < new[j]
    BY <1>1, <2>1, <2>2 DEF Fits
  <2>5. ASSUME NEW i \in 1..m PROVE b[i] = H[new[i]]
    <3>1. H[new[i]] = h[new[i] + 1] /\ new[i] + 1 = at[i]
      BY <1>1, <2>1, <2>2 DEF Shifted
    <3> QED
      BY <3>1, <1>1 DEF Fits
  <2>6. ASSUME NEW k \in 1..n PROVE H[k] # 0 <=> \E i \in 1..m : new[i] = k
    <3>1. k + 1 \in 1..(n + 1) /\ H[k] = h[k + 1]
      BY <1>1 DEF Shifted
    <3>2. \A i \in 1..m : at[i] = k + 1 <=> new[i] = k
      BY <2>1, <2>2
    <3>3. h[k + 1] # 0 <=> \E i \in 1..m : at[i] = k + 1
      BY <3>1, <1>1 DEF Fits
    <3>4. (\E i \in 1..m : at[i] = k + 1) <=> (\E i \in 1..m : new[i] = k)
      BY <3>2
    <3> QED
      BY <3>1, <3>3, <3>4
  <2> QED
    BY <2>1, <2>3, <2>4, <2>5, <2>6 DEF Fits
<1>2. ASSUME NEW n \in Nat, NEW m \in Nat, NEW at, Fits(h, n + 1, b, m, at), h[1] # 0,
             \A i, j \in 1..(n + 1) : h[i] = h[j] /\ h[i] # 0 => i = j
      PROVE  m # 0 /\ at[1] = 1 /\ b[1] = h[1] /\ \A i \in 1..m : b[i] = h[1] => i = 1
  <2>1. PICK i \in 1..m : at[i] = 1
    BY <1>2 DEF Fits
  <2>2. 1 \in 1..m /\ at[1] \in 1..(n + 1)
    BY <2>1, <1>2 DEF Fits
  <2>3. i = 1
    <3> SUFFICES ASSUME i # 1 PROVE FALSE
      OBVIOUS
    <3>1. 1 < i
      BY <2>1
    <3>2. at[1] < at[i]
      BY <3>1, <2>2, <1>2 DEF Fits
    <3> QED
      BY <3>2, <2>1, <2>2
  <2>4. b[1] = h[1]
    BY <2>1, <2>2, <2>3, <1>2 DEF Fits
  <2>5. ASSUME NEW k \in 1..m, b[k] = h[1] PROVE k = 1
    <3>1. at[k] \in 1..(n + 1) /\ h[at[k]] = h[1]
      BY <2>5, <1>2 DEF Fits
    <3>2. at[k] = 1
      BY <3>1, <1>2
    <3> SUFFICES ASSUME k # 1 PROVE FALSE
      OBVIOUS
    <3>3. at[1] < at[k]
      BY <2>2, <1>2 DEF Fits
    <3> QED
      BY <3>2, <3>3, <2>2
  <2> QED
    BY <2>1, <2>2, <2>3, <2>4, <2>5
<1>3. ASSUME NEW n \in Nat, NEW m \in Nat, NEW at, Fits(h, n + 1, b, m + 1, at), at[1] = 1,
             NEW H, \A i \in 1..n : H[i] = h[i + 1], NEW B, \A i \in 1..m : B[i] = b[i + 1]
      PROVE  \E new : Fits(H, n, B, m, new)
  <2> DEFINE new == [i \in 1..m |-> at[i + 1] - 1]
  <2>1. ASSUME NEW i \in 1..m PROVE i + 1 \in 1..(m + 1) /\ at[i + 1] \in 1..(n + 1) /\ at[i + 1] > 1
    <3>1. i + 1 \in 1..(m + 1) /\ 1 \in 1..(m + 1) /\ 1 < i + 1
      OBVIOUS
    <3>2. at[1] < at[i + 1] /\ at[i + 1] \in 1..(n + 1)
      BY <3>1, <1>3 DEF Fits
    <3> QED
      BY <3>1, <3>2, <1>3
  <2>2. \A i \in 1..m : new[i] = at[i + 1] - 1 /\ new[i] \in 1..n
    BY <2>1
  <2>3. new \in [1..m -> 1..n]
    BY <2>2
  <2> HIDE DEF new
  <2>4. ASSUME NEW i \in 1..m, NEW j \in 1..m, i < j PROVE new[i] < new[j]
    <3>1. at[i + 1] < at[j + 1]
      BY <2>1, <2>4, <1>3 DEF Fits
    <3> QED
      BY <3>1, <2>1, <2>2
  <2>5. ASSUME NEW i \in 1..m PROVE B[i] = H[new[i]]
    <3>1. B[i] = h[at[i + 1]]
      <4>1. b[i + 1] = h[at[i + 1]]
        BY <2>1, <1>3 DEF Fits
      <4> QED
        BY <4>1, <1>3
    <3>2. new[i] \in 1..n /\ new[i] + 1 = at[i + 1]
      BY <2>1, <2>2
    <3>3. \A k \in 1..n : H[k] = h[k + 1]
      BY <1>3
    <3>4. H[new[i]] = h[new[i] + 1]
      BY <3>2, <3>3
    <3> QED
      BY <3>1, <3>2, <3>4
  <2>6. ASSUME NEW k \in 1..n PROVE H[k] # 0 <=> \E i \in 1..m : new[i] = k
    <3>1. k + 1 \in 1..(n + 1) /\ H[k] = h[k + 1] /\ k + 1 # 1
      BY <1>3
    <3>2. ASSUME NEW i \in 1..(m + 1), at[i] = k + 1 PROVE \E j \in 1..m : new[j] = k
      <4>1. i # 1
        BY <3>1, <3>2, <1>3
      <4>2. i - 1 \in 1..m /\ (i - 1) + 1 = i
        BY <4>1
      <4>3. new[i - 1] = at[i] - 1
        BY <4>2, <2>2
      <4> QED
        BY <4>2, <4>3, <3>2
    <3>3. ASSUME NEW j \in 1..m, new[j] = k PROVE \E i \in 1..(m + 1) : at[i] = k + 1
      <4>1. at[j + 1] = k + 1
        BY <3>3, <2>1, <2>2
      <4> QED
        BY <4>1, <2>1
    <3> QED
      BY <3>1, <3>2, <3>3, <1>3 DEF Fits
  <2> QED
    BY <2>3, <2>4, <2>5, <2>6 DEF Fits
<1>4. PICK at : Fits(h, Len(h), b, Len(b), at)
  BY DEF Matched
<1>5. PICK n \in Nat : Len(h) = n + 1
  <2>1. Len(h) - 1 \in Nat /\ Len(h) = (Len(h) - 1) + 1
    OBVIOUS
  <2> QED
    BY <2>1
<1>6. Len(b) \in Nat
  OBVIOUS
<1>7. Len(Tail(h)) = n /\ \A i \in 1..n : Tail(h)[i] = h[i + 1]
  BY <1>5, HeadTailProperties
<1>8. CASE h[1] = 0
  <2>1. (\E new : Fits(Tail(h), n, b, Len(b), new)) /\ \A i \in 1..Len(b) : b[i] # 0
    <3>1. Fits(h, n + 1, b, Len(b), at)
      BY <1>4, <1>5
    <3> DEFINE H == Tail(h)
    <3>2. Shifted(h, n, H)
      BY <1>7 DEF Shifted
    <3> HIDE DEF H
    <3>m. PICK m \in Nat : m = Len(b)
      BY <1>6
    <3>f. Fits(h, n + 1, b, m, at)
      BY <3>1, <3>m
    <3>g. h[1] = 0
      BY <1>8
    <3>h. (\E new : Fits(H, n, b, m, new)) /\ \A i \in 1..m : b[i] # 0
      BY <3>f, <3>2, <1>1, <3>g
    <3>3. (\E new : Fits(H, n, b, Len(b), new)) /\ \A i \in 1..Len(b) : b[i] # 0
      BY <3>m, <3>h
    <3> QED
      BY <3>3 DEF H
  <2> QED
    BY <2>1, <1>7, <1>8 DEF Matched
<1>9. CASE h[1] # 0
  <2>1. Len(b) # 0 /\ at[1] = 1 /\ b[1] = h[1] /\ \A i \in 1..Len(b) : b[i] = h[1] => i = 1
    BY <1>2, <1>4, <1>5, <1>6, <1>9
  <2>2. PICK m \in Nat : Len(b) = m + 1
    <3>1. Len(b) - 1 \in Nat /\ Len(b) = (Len(b) - 1) + 1
      BY <2>1, <1>6
    <3> QED
      BY <3>1
  <2>3. b # <<>>
    BY <2>1
  <2>4. Len(Tail(b)) = m /\ \A i \in 1..m : Tail(b)[i] = b[i + 1]
    BY <2>2, <2>3, HeadTailProperties
  <2>5. \E new : Fits(Tail(h), n, Tail(b), m, new)
    BY <1>3, <1>4, <1>5, <1>7, <2>1, <2>2, <2>4
  <2> QED
    BY <2>1, <2>3, <2>4, <2>5, <1>7, <1>9 DEF Matched
<1> QED
  BY <1>8, <1>9

\* A bubble goes from the front of the bubbles as the oldest message does from the
\* front of the history, when that is full.
LEMMA OldestGoes ==
  ASSUME history \in Seq(Nat), bubbles \in Seq(Nat), Matched(history, bubbles),
         \A i, j \in 1..Len(history) : history[i] = history[j] /\ history[i] # 0 => i = j
  PROVE  /\ Display!Kept \in Seq(Nat) /\ Display!Recycled(bubbles) \in Seq(Nat)
         /\ Matched(Display!Kept, Display!Recycled(bubbles))
         /\ \/ Display!Kept = history
            \/ /\ Len(Display!Kept) = Len(history) - 1
               /\ \A i \in 1..Len(Display!Kept) : Display!Kept[i] = history[i + 1]
<1>1. CASE Len(history) # ChatSlots
  <2>1. Display!Kept = history /\ Display!Recycled(bubbles) = bubbles
    BY <1>1 DEF Display!Kept, Display!Recycled
  <2> QED
    BY <2>1
<1>2. CASE Len(history) = ChatSlots
  <2>1. history # <<>> /\ Display!Kept = Tail(history) /\ Head(history) = history[1]
    BY <1>2, CountsAssumption DEF Display!Kept
  <2>2. /\ Tail(history) \in Seq(Nat) /\ Len(Tail(history)) = Len(history) - 1
        /\ \A i \in 1..Len(Tail(history)) : Tail(history)[i] = history[i + 1]
    BY <2>1, HeadTailProperties
  <2>3. CASE history[1] = 0
    <3>1. Matched(Tail(history), bubbles) /\ \A i \in 1..Len(bubbles) : bubbles[i] # history[1]
      BY <2>1, <2>3, FirstGoes
    <3>2. DOMAIN bubbles = 1..Len(bubbles)
      OBVIOUS
    <3>3. Display!Recycled(bubbles) = bubbles
      BY <2>1, <3>1, <3>2 DEF Display!Recycled
    <3> QED
      BY <2>1, <2>2, <3>1, <3>3
  <2>4. CASE history[1] # 0
    <3>1. /\ bubbles # <<>> /\ bubbles[1] = history[1]
          /\ \A i \in 1..Len(bubbles) : bubbles[i] = history[1] => i = 1
          /\ Matched(Tail(history), Tail(bubbles))
      BY <2>1, <2>4, FirstGoes
    <3>2. DOMAIN bubbles = 1..Len(bubbles) /\ 1 \in DOMAIN bubbles
      BY <3>1
    <3>3. \A i \in DOMAIN bubbles : bubbles[i] = Head(history) <=> i = 1
      BY <2>1, <3>1, <3>2
    <3>4. (CHOOSE i \in DOMAIN bubbles : bubbles[i] = Head(history)) = 1
      BY <3>2, <3>3
    <3>5. Display!Recycled(bubbles) = SubSeq(bubbles, 1, 1 - 1) \o SubSeq(bubbles, 1 + 1, Len(bubbles))
      BY <1>2, <3>2, <3>3, <3>4 DEF Display!Recycled
    <3>6. SubSeq(bubbles, 1, 0) = <<>> /\ SubSeq(bubbles, 2, Len(bubbles)) = Tail(bubbles)
      BY <3>1
    <3>7. Tail(bubbles) \in Seq(Nat) /\ <<>> \o Tail(bubbles) = Tail(bubbles)
      BY <3>1, HeadTailProperties, ConcatEmptySeq
    <3>8. Display!Recycled(bubbles) = Tail(bubbles)
      BY <3>5, <3>6, <3>7
    <3> QED
      BY <2>1, <2>2, <3>1, <3>7, <3>8
  <2> QED
    BY <2>3, <2>4
<1> QED
  BY <1>1, <1>2

\* The messages of the history differ, wait for nobody, and have a bubble each.
ChatInv ==
  /\ history \in Seq(Nat) /\ bubbles \in Seq(Nat) /\ lvglSent \in Nat /\ posts \subseteq 1..lvglSent
  /\ \A i \in 1..Len(history) : history[i] <= lvglSent /\ history[i] \notin posts
  /\ \A i, j \in 1..Len(history) : history[i] = history[j] /\ history[i] # 0 => i = j
  /\ Matched(history, bubbles)
  /\ screen = 0 => bubbles = <<>>

\* A message that is new to the history enters it, with a bubble or without.
LEMMA ChatGrows ==
  ASSUME ChatInv, NEW e \in Nat \ {0}, Display!Add(e), \A i \in 1..Len(history) : history[i] # e,
         screen # 0, screen' = screen, lvglSent' \in Nat, lvglSent <= lvglSent', e <= lvglSent',
         posts' \subseteq posts, e \notin posts'
  PROVE  ChatInv'
<1> DEFINE K == Display!Kept
           B == Display!Recycled(bubbles)
<1>1. /\ K \in Seq(Nat) /\ B \in Seq(Nat) /\ Matched(K, B)
      /\ K = history \/ (Len(K) = Len(history) - 1 /\ \A i \in 1..Len(K) : K[i] = history[i + 1])
  BY OldestGoes DEF ChatInv
<1>2. \/ history' = Append(K, e) /\ bubbles' = Append(B, e)
      \/ history' = Append(K, 0) /\ bubbles' = B
  BY DEF Display!Add, Display!Lost
<1> HIDE DEF K, B
<1>c. PICK d \in {0, 1} : \A i \in 1..Len(K) : i + d \in 1..Len(history) /\ K[i] = history[i + d]
  <2>1. CASE K = history
    <3>1. \A i \in 1..Len(K) : i + 0 \in 1..Len(history) /\ K[i] = history[i + 0]
      BY <2>1 DEF ChatInv
    <3> QED
      BY <3>1
  <2>2. CASE Len(K) = Len(history) - 1 /\ \A i \in 1..Len(K) : K[i] = history[i + 1]
    <3>1. \A i \in 1..Len(K) : i + 1 \in 1..Len(history) /\ K[i] = history[i + 1]
      BY <2>2, <1>1 DEF ChatInv
    <3> QED
      BY <3>1
  <2> QED
    BY <1>1, <2>1, <2>2
<1>3. ASSUME NEW i \in 1..Len(K)
      PROVE  K[i] <= lvglSent' /\ K[i] \notin posts' /\ K[i] # e /\ K[i] \in Nat
  <2>1. PICK j \in 1..Len(history) : K[i] = history[j]
    BY <1>c
  <2>2. history[j] \in Nat /\ history[j] <= lvglSent /\ history[j] \notin posts /\ lvglSent \in Nat
    BY DEF ChatInv
  <2> QED
    BY <2>1, <2>2
<1>4. ASSUME NEW i \in 1..Len(K), NEW j \in 1..Len(K), K[i] = K[j], K[i] # 0 PROVE i = j
  <2>1. i + d \in 1..Len(history) /\ j + d \in 1..Len(history) /\ history[i + d] = history[j + d] /\ history[i + d] # 0
    BY <1>4, <1>c
  <2>2. i + d = j + d
    BY <2>1 DEF ChatInv
  <2> QED
    BY <2>2
<1>5. posts' \subseteq 1..lvglSent' /\ 0 \notin posts'
  BY DEF ChatInv
<1>6. PICK x \in {e, 0} : history' = Append(K, x) /\ Matched(history', bubbles') /\ bubbles' \in Seq(Nat)
  <2>1. CASE history' = Append(K, e) /\ bubbles' = Append(B, e)
    <3>1. Matched(Append(K, e), Append(B, e))
      BY <1>1, BothGrow
    <3> QED
      BY <2>1, <3>1, <1>1, AppendProperties
  <2>2. CASE history' = Append(K, 0) /\ bubbles' = B
    <3>1. Matched(Append(K, 0), B)
      BY <1>1, LostGrows
    <3> QED
      BY <2>2, <3>1, <1>1
  <2> QED
    BY <1>2, <2>1, <2>2
<1>7. x \in Nat /\ x <= lvglSent' /\ x \notin posts'
  BY <1>5, <1>6
<1>8. /\ history' \in Seq(Nat) /\ Len(history') = Len(K) + 1 /\ history'[Len(K) + 1] = x
      /\ \A i \in 1..Len(K) : history'[i] = K[i]
  BY <1>1, <1>6, <1>7, AppendProperties
<1>9. Len(K) \in Nat
  BY <1>1
<1>10. ASSUME NEW i \in 1..Len(history') PROVE history'[i] <= lvglSent' /\ history'[i] \notin posts'
  <2>1. CASE i = Len(K) + 1
    BY <2>1, <1>7, <1>8
  <2>2. CASE i # Len(K) + 1
    BY <2>2, <1>3, <1>8, <1>9
  <2> QED
    BY <2>1, <2>2
<1>11. ASSUME NEW i \in 1..Len(history'), NEW j \in 1..Len(history'), history'[i] = history'[j], history'[i] # 0
      PROVE  i = j
  <2>1. CASE i = Len(K) + 1 \/ j = Len(K) + 1
    BY <2>1, <1>3, <1>6, <1>8, <1>9, <1>11
  <2>2. CASE i # Len(K) + 1 /\ j # Len(K) + 1
    BY <2>2, <1>4, <1>8, <1>9, <1>11
  <2> QED
    BY <2>1, <2>2
<1> QED
  BY <1>5, <1>6, <1>8, <1>10, <1>11 DEF ChatInv

\* Who deletes the screen and when: the screen of the channel exists from its start
\* to its stop, is the one displayed if any of it is, and is deleted only while no
\* callback can use it.
ScreenInv ==
  /\ lvglShown # 0 => visible /\ lvglShown = screen
  /\ visible => lvglShown # 0
  /\ screen # 0 => screen \in live
  /\ ~initialized => screen = 0
  /\ initialized /\ lvglMain # "wait" => screen # 0
  /\ lvglMain = "wait" => ~lvglRunning
  /\ ui = "ptt" => screen # 0
  /\ "stop" \in queue => lvglMain = "wait" /\ sem = "waited"
  /\ sem = "posted" => lvglMain = "wait" /\ screen = 0
  /\ ~lvglBad /\ inits \in Nat
DisplayInv == ~late => ScreenInv /\ ChatInv

\* What the chat's other variables are does not matter.
ScreenVars == <<initialized, lvglRunning, visible, screen, live, lvglShown, lvglMain, ui, queue, sem, lvglBad, inits>>
ChatVars == <<history, bubbles, lvglSent, posts, screen>>
\* The variables of ScreenInv.
LEMMA ScreenStays == ASSUME ScreenInv, UNCHANGED ScreenVars PROVE ScreenInv'
  BY DEF ScreenInv, ScreenVars
\* The variables of ChatInv.
LEMMA ChatStays == ASSUME ChatInv, UNCHANGED ChatVars PROVE ChatInv'
  BY DEF ChatInv, ChatVars

\* A chat that begins anew, or goes with its screen.
LEMMA ChatBegins ==
  ASSUME ChatInv, history' = <<>>, bubbles' = <<>>, UNCHANGED <<lvglSent, posts>>
  PROVE  ChatInv'
<1>1. Len(history') = 0 /\ history' \in Seq(Nat) /\ bubbles' \in Seq(Nat) /\ Matched(history', bubbles')
  BY NothingMatches
<1> QED
  BY <1>1 DEF ChatInv

\* What is said on the thread of LVGL gets the next number, which nobody has.
LEMMA SayKeeps ==
  ASSUME ScreenInv, ChatInv, Display!Say, screen # 0, UNCHANGED posts
  PROVE  ChatInv' /\ lvglBad' = FALSE /\ UNCHANGED <<screen, live, lvglShown>>
<1>1. /\ lvglSent' = lvglSent + 1 /\ Display!Add(lvglSent + 1) /\ UNCHANGED <<screen, live, lvglShown>>
      /\ lvglBad' = (lvglBad \/ screen \notin live)
  BY DEF Display!Say, Display!NewId, Display!Used
<1>2. /\ lvglSent \in Nat /\ posts \subseteq 1..lvglSent
      /\ \A i \in 1..Len(history) : history[i] <= lvglSent
      /\ \A i \in 1..Len(history) : history[i] \in Nat
  BY DEF ChatInv
<1>3. lvglSent + 1 \in Nat \ {0} /\ lvglSent + 1 \notin posts /\ \A i \in 1..Len(history) : history[i] # lvglSent + 1
  BY <1>2
<1>4. ChatInv'
  BY <1>1, <1>2, <1>3, ChatGrows
<1> QED
  BY <1>1, <1>4 DEF ScreenInv

\* lvgl_ui_do_cleanup, by whoever calls it.
LEMMA CleanupKeeps ==
  ASSUME ScreenInv, ChatInv, Display!Cleanup, UNCHANGED <<lvglSent, posts>>
  PROVE  ChatInv' /\ lvglShown' = 0 /\ visible' = FALSE /\ screen' = 0
<1>1. screen' = 0 /\ visible' = FALSE /\ history' = <<>>
  BY DEF Display!Cleanup, Display!NoScreen
<1>2. bubbles' = <<>> /\ lvglShown' = 0
  <2>1. CASE screen = 0
    BY <2>1 DEF Display!Cleanup, Display!NoScreen, ScreenInv, ChatInv
  <2>2. CASE screen # 0
    BY <2>2 DEF Display!Cleanup, Display!NoScreen, Display!Restored, ScreenInv
  <2> QED
    BY <2>1, <2>2
<1> QED
  BY <1>1, <1>2, ChatBegins

\* Every step keeps this.
LEMMA DisplayKept == ASSUME DisplayInv, Display!Next PROVE DisplayInv'
<1> SUFFICES ASSUME ~late' PROVE ScreenInv' /\ ChatInv'
  BY DEF DisplayInv
<1>late. ~Display!TimesOut /\ ~late
  BY DEF Display!Next, Display!TimesOut, Display!InitChannel, Display!StartChannel, Display!Stop, Display!Ask,
    Display!Stopped, Display!Send, Display!Queue, Display!RunShow, Display!RunMessage, Display!RunStop, Display!Taken,
    Display!Record, Display!Recognise, Display!Recognised, Display!Close, Display!threads
<1>i. ScreenInv /\ ChatInv
  BY <1>late DEF DisplayInv
<1>1. CASE Display!InitChannel
  <2>1. /\ lvglMain = "idle" /\ ~initialized /\ inits' = inits + 1
        /\ UNCHANGED <<lvglRunning, visible, lvglShown, sem, queue, posts, ui, lvglMain, lvglSent, lvglBad>>
        /\ \/ /\ initialized' = TRUE /\ screen' = inits + 1 /\ live' = live \cup {inits + 1}
              /\ history' = <<>> /\ bubbles' = <<>>
           \/ UNCHANGED <<initialized, screen, live, history, bubbles>>
    BY <1>1 DEF Display!InitChannel, Display!async, Display!threads
  <2>2. screen = 0 /\ lvglShown = 0 /\ inits + 1 # 0 /\ inits + 1 \in Nat
    BY <1>i, <2>1 DEF ScreenInv
  <2>3. ScreenInv'
    BY <1>i, <2>1, <2>2 DEF ScreenInv
  <2>4. ChatInv'
    BY <1>i, <2>1, ChatBegins, ChatStays DEF ChatVars
  <2> QED
    BY <2>3, <2>4
<1>2. CASE Display!StartChannel
  <2>1. lvglMain = "idle" /\ UNCHANGED <<initialized, visible, screen, live, lvglShown, lvglMain, ui, queue, sem, lvglBad, inits>>
    BY <1>2 DEF Display!StartChannel, Display!async, Display!threads, Display!widgets
  <2>2. UNCHANGED ChatVars
    BY <1>2 DEF Display!StartChannel, Display!async, Display!widgets, ChatVars
  <2> QED
    BY <1>i, <2>1, <2>2, ChatStays DEF ScreenInv
<1>3. CASE Display!Stop
  <2>1. /\ lvglMain = "idle" /\ initialized /\ lvglMain' = "stop"
        /\ UNCHANGED <<initialized, lvglRunning, visible, screen, live, lvglShown, ui, queue, sem, lvglBad, inits>>
    BY <1>3 DEF Display!Stop, Display!async, Display!state, Display!widgets
  <2>2. UNCHANGED ChatVars
    BY <1>3 DEF Display!Stop, Display!async, Display!widgets, ChatVars
  <2> QED
    BY <1>i, <2>1, <2>2, ChatStays DEF ScreenInv
<1>4. CASE Display!Ask
  <2>1. /\ lvglMain = "stop" /\ lvglMain' = "wait" /\ lvglRunning' = FALSE /\ sem' = "waited" /\ queue' = queue \cup {"stop"}
        /\ UNCHANGED <<initialized, visible, screen, live, lvglShown, ui, lvglBad, inits>>
    BY <1>4 DEF Display!Ask, Display!widgets
  <2>2. UNCHANGED ChatVars
    BY <1>4 DEF Display!Ask, Display!widgets, ChatVars
  <2> QED
    BY <1>i, <2>1, <2>2, ChatStays DEF ScreenInv
<1>5. CASE Display!Stopped
  <2>1. /\ lvglMain = "wait" /\ sem = "posted" /\ lvglMain' = "idle" /\ sem' = "destroyed" /\ initialized' = FALSE
        /\ UNCHANGED <<lvglRunning, visible, screen, live, lvglShown, ui, queue, lvglBad, inits>>
    BY <1>5 DEF Display!Stopped, Display!Gone, Display!widgets, Display!async
  <2>2. UNCHANGED ChatVars
    BY <1>5 DEF Display!Stopped, Display!widgets, Display!async, ChatVars
  <2> QED
    BY <1>i, <2>1, <2>2, ChatStays DEF ScreenInv
<1>6. CASE Display!Send
  <2>1. /\ queue' \subseteq queue \cup {"show"}
        /\ UNCHANGED <<initialized, lvglRunning, visible, screen, live, lvglShown, lvglMain, ui, sem, lvglBad, inits>>
    BY <1>6 DEF Display!Send, Display!state, Display!widgets
  <2>2. UNCHANGED ChatVars
    BY <1>6 DEF Display!Send, Display!widgets, ChatVars
  <2> QED
    BY <1>i, <2>1, <2>2, ChatStays DEF ScreenInv
<1>7. CASE Display!Queue
  <2>1. /\ UNCHANGED ScreenVars /\ UNCHANGED <<history, bubbles, screen>>
        /\ (lvglSent' = lvglSent + 1 /\ posts' = posts \cup {lvglSent + 1}) \/ UNCHANGED <<lvglSent, posts>>
    BY <1>7 DEF Display!Queue, Display!NewId, Display!state, Display!widgets, ScreenVars
  <2>2. CASE lvglSent' = lvglSent + 1 /\ posts' = posts \cup {lvglSent + 1}
    <3>1. lvglSent \in Nat /\ \A i \in 1..Len(history) : history[i] \in Nat /\ history[i] <= lvglSent /\ history[i] \notin posts
      BY <1>i DEF ChatInv
    <3>2. lvglSent' \in Nat /\ \A i \in 1..Len(history) : history[i] <= lvglSent' /\ history[i] \notin posts'
      BY <2>2, <3>1
    <3>3. posts' \subseteq 1..lvglSent'
      BY <1>i, <2>2 DEF ChatInv
    <3> QED
      BY <1>i, <2>1, <3>2, <3>3, ScreenStays DEF ChatInv
  <2>3. CASE UNCHANGED <<lvglSent, posts>>
    BY <1>i, <2>1, <2>3, ScreenStays, ChatStays DEF ChatVars
  <2> QED
    BY <2>1, <2>2, <2>3
<1>8. CASE Display!RunShow
  <2>1. /\ queue' \subseteq queue /\ UNCHANGED <<initialized, lvglRunning, screen, live, lvglMain, ui, sem, lvglBad, inits>>
        /\ \/ screen # 0 /\ visible' = TRUE /\ lvglShown' = screen
           \/ UNCHANGED <<visible, lvglShown>>
    BY <1>8 DEF Display!RunShow, Display!Taken, Display!NoScreen, Display!threads
  <2>2. UNCHANGED ChatVars
    BY <1>8 DEF Display!RunShow, Display!Taken, ChatVars
  <2> QED
    BY <1>i, <2>1, <2>2, ChatStays DEF ScreenInv
<1>9. CASE Display!RunMessage
  <2>1. PICK e \in posts :
          /\ posts' = posts \ {e}
          /\ IF Display!Open THEN Display!Add(e) /\ Display!Used /\ UNCHANGED <<screen, live, lvglShown>>
             ELSE UNCHANGED <<screen, history, live, bubbles, lvglShown, lvglBad>>
    BY <1>9 DEF Display!RunMessage, Display!widgets
  <2>2. UNCHANGED <<initialized, lvglRunning, visible, queue, lvglMain, ui, sem, lvglSent, inits>>
    BY <1>9 DEF Display!RunMessage, Display!state, Display!threads
  <2>3. CASE Display!Open
    <3>1. screen # 0 /\ screen \in live
      BY <1>i, <2>3 DEF Display!Open, Display!Ready, ScreenInv
    <3>2. /\ e \in Nat \ {0} /\ e <= lvglSent /\ lvglSent \in Nat /\ \A i \in 1..Len(history) : history[i] # e
      BY <1>i DEF ChatInv
    <3>3. lvglSent <= lvglSent' /\ e <= lvglSent' /\ e \notin posts' /\ posts' \subseteq posts /\ lvglSent' \in Nat
      BY <2>1, <2>2, <3>2
    <3>4. ChatInv'
      BY <1>i, <2>1, <2>3, <3>1, <3>2, <3>3, ChatGrows
    <3>5. UNCHANGED <<screen, live, lvglShown>> /\ lvglBad' = FALSE
      BY <1>i, <2>1, <2>3, <3>1 DEF Display!Used, ScreenInv
    <3> QED
      BY <1>i, <2>2, <3>4, <3>5 DEF ScreenInv
  <2>4. CASE ~Display!Open
    <3>1. UNCHANGED ScreenVars
      BY <2>1, <2>2, <2>4 DEF ScreenVars
    <3>2. \A i \in 1..Len(history) : history[i] \notin posts'
      BY <1>i, <2>1 DEF ChatInv
    <3>3. UNCHANGED <<history, bubbles, lvglSent, screen>> /\ posts' \subseteq posts
      BY <2>1, <2>2, <2>4
    <3>4. ChatInv'
      BY <1>i, <3>2, <3>3 DEF ChatInv
    <3> QED
      BY <1>i, <3>1, <3>4, ScreenStays
  <2> QED
    BY <2>3, <2>4
<1>10. CASE Display!RunStop
  <2>1. /\ ui = "loop" /\ "stop" \in queue /\ queue' = queue \ {"stop"} /\ Display!Cleanup
        /\ sem' = (IF sem = "waited" THEN "posted" ELSE sem)
        /\ UNCHANGED <<initialized, lvglRunning, lvglMain, ui, posts, lvglSent, lvglBad, inits>>
    BY <1>10 DEF Display!RunStop, Display!Taken, Display!threads
  <2>2. ChatInv' /\ lvglShown' = 0 /\ visible' = FALSE /\ screen' = 0
    BY <1>i, <2>1, CleanupKeeps
  <2> QED
    BY <1>i, <2>1, <2>2 DEF ScreenInv
<1>11. CASE Display!Record
  <2>1. /\ lvglShown # 0
        /\ UNCHANGED <<initialized, lvglRunning, visible, lvglMain, ui, queue, posts, sem, inits>>
        /\ \/ Display!Used /\ UNCHANGED <<screen, history, live, bubbles, lvglShown, lvglSent>>
           \/ Display!Say
    BY <1>11 DEF Display!Record, Display!NoScreen, Display!widgets, Display!async, Display!threads
  <2>2. screen # 0 /\ screen \in live
    BY <1>i, <2>1 DEF ScreenInv
  <2>3. ChatInv' /\ lvglBad' = FALSE /\ UNCHANGED <<screen, live, lvglShown>>
    BY <1>i, <2>1, <2>2, SayKeeps, ChatStays DEF ChatVars, Display!Used, ScreenInv
  <2> QED
    BY <1>i, <2>1, <2>3 DEF ScreenInv
<1>12. CASE Display!Recognise
  <2>1. /\ lvglShown # 0 /\ Display!Used
        /\ UNCHANGED <<initialized, lvglRunning, visible, screen, live, lvglShown, lvglMain, queue, sem, inits>>
    BY <1>12 DEF Display!Recognise, Display!NoScreen, Display!widgets, Display!async
  <2>2. UNCHANGED ChatVars
    BY <1>12 DEF Display!Recognise, Display!widgets, Display!async, ChatVars
  <2>3. screen # 0 /\ lvglBad' = FALSE
    BY <1>i, <2>1 DEF ScreenInv, Display!Used
  <2> QED
    BY <1>i, <2>1, <2>2, <2>3, ChatStays DEF ScreenInv
<1>13. CASE Display!Recognised
  <2>1. /\ ui = "ptt" /\ ui' = "loop"
        /\ UNCHANGED <<initialized, lvglRunning, visible, lvglMain, queue, posts, sem, inits>>
        /\ \/ Display!Used /\ UNCHANGED <<screen, history, live, bubbles, lvglShown, lvglSent>>
           \/ Display!Say
    BY <1>13 DEF Display!Recognised, Display!widgets, Display!async, Display!state
  <2>2. screen # 0 /\ screen \in live
    BY <1>i, <2>1 DEF ScreenInv
  <2>3. ChatInv' /\ lvglBad' = FALSE /\ UNCHANGED <<screen, live, lvglShown>>
    BY <1>i, <2>1, <2>2, SayKeeps, ChatStays DEF ChatVars, Display!Used, ScreenInv
  <2> QED
    BY <1>i, <2>1, <2>3 DEF ScreenInv
<1>14. CASE Display!Close
  <2>1. /\ ui = "loop" /\ Display!Ready /\ Display!Cleanup /\ lvglRunning' = FALSE /\ initialized' = FALSE
        /\ UNCHANGED <<lvglMain, ui, queue, posts, sem, lvglSent, lvglBad, inits>>
    BY <1>14 DEF Display!Close, Display!async, Display!threads
  <2>2. ChatInv' /\ lvglShown' = 0 /\ visible' = FALSE /\ screen' = 0
    BY <1>i, <2>1, CleanupKeeps
  <2> QED
    BY <1>i, <2>1, <2>2 DEF ScreenInv, Display!Ready
<1> QED
  BY <1>late, <1>1, <1>2, <1>3, <1>4, <1>5, <1>6, <1>7, <1>8, <1>9, <1>10, <1>11, <1>12, <1>13, <1>14 DEF Display!Next

\* What is kept is what the chat promises.
LEMMA ScreenIsHeld == ASSUME DisplayInv PROVE Display!ScreenHolds
<1> SUFFICES ASSUME ScreenInv, ChatInv
             PROVE  /\ ~lvglBad /\ lvglShown \in live \cup {0}
                    /\ \E at \in [DOMAIN bubbles -> DOMAIN history] :
                         /\ \A i, j \in DOMAIN bubbles : i < j => at[i] < at[j]
                         /\ \A i \in DOMAIN bubbles : bubbles[i] = history[at[i]]
                         /\ \A k \in DOMAIN history : history[k] # 0 <=> \E i \in DOMAIN bubbles : at[i] = k
  BY Zenon DEF DisplayInv, Display!ScreenHolds, Display!NoScreen, Display!Lost
<1>1. ~lvglBad /\ lvglShown \in live \cup {0}
  BY DEF ScreenInv
<1>2. PICK at : Fits(history, Len(history), bubbles, Len(bubbles), at)
  BY DEF ChatInv, Matched
<1>3. DOMAIN history = 1..Len(history) /\ DOMAIN bubbles = 1..Len(bubbles)
  BY DEF ChatInv
<1>4. /\ at \in [DOMAIN bubbles -> DOMAIN history]
      /\ \A i, j \in DOMAIN bubbles : i < j => at[i] < at[j]
      /\ \A i \in DOMAIN bubbles : bubbles[i] = history[at[i]]
      /\ \A k \in DOMAIN history : history[k] # 0 <=> \E i \in DOMAIN bubbles : at[i] = k
  BY <1>2, <1>3, Zenon DEF Fits
<1> QED
  BY <1>1, <1>4

\* The chat's widgets are used while they exist, and show the history.
LEMMA ChatsAreHeld == PartsSpec => [](part = "display" => Display!ScreenHolds)
<1>1. PartsInit => DisplayInv
  <2> SUFFICES ASSUME PartsInit PROVE ScreenInv /\ ChatInv
    BY DEF DisplayInv
  <2>1. ScreenInv
    BY DEF PartsInit, Display!Init, Display!NoScreen, ScreenInv
  <2>2. history = <<>> /\ bubbles = <<>> /\ lvglSent = 0 /\ posts = {}
    BY DEF PartsInit, Display!Init
  <2>3. ChatInv
    BY <2>2, NothingMatches DEF ChatInv
  <2> QED
    BY <2>1, <2>3
<1>2. (part = "display" => DisplayInv) /\ [PartsNext]_<<part, moving>> => (part = "display" => DisplayInv)'
  <2> SUFFICES ASSUME part = "display" => DisplayInv, [PartsNext]_<<part, moving>>, part' = "display" PROVE DisplayInv'
    OBVIOUS
  <2>1. part = "display"
    BY DEF PartsNext, moving
  <2>2. Display!Next \/ UNCHANGED displayVars
    BY <2>1, DisplayMoves
  <2>3. CASE UNCHANGED displayVars
    <3>1. UNCHANGED late /\ UNCHANGED ScreenVars /\ UNCHANGED ChatVars
      BY <2>3 DEF displayVars, ScreenVars, ChatVars
    <3>2. CASE late
      BY <3>1, <3>2 DEF DisplayInv
    <3>3. CASE ~late
      BY <2>1, <3>1, <3>3, ScreenStays, ChatStays DEF DisplayInv
    <3> QED
      BY <3>2, <3>3
  <2> QED
    BY <2>1, <2>2, <2>3, DisplayKept
<1>3. DisplayInv => Display!ScreenHolds
  BY ScreenIsHeld
<1> QED
  BY <1>1, <1>2, <1>3, PTL DEF PartsSpec

-----------------------------------------------------------------------------
(* Recordings: VoiceChannel. *)

\* A step of the model is one of the channel or none, when the channel moves.
LEMMA ChannelMoves ==
  ASSUME [PartsNext]_<<part, moving>>, part = "channel"
  PROVE  part' = "channel" /\ (Channel!Next \/ UNCHANGED channelVars)
<1>1. CASE PartsNext
  BY <1>1 DEF PartsNext
<1>2. CASE UNCHANGED <<part, moving>>
  BY <1>2 DEF moving
<1> QED
  BY <1>1, <1>2

\* Who holds the stream of a recording: s_voice (a), a thread (T) or a call (C); what
\* is held is open (S) and has one holder.
Numbers == 0..MaxRecordings
States == {"none", "open", "closed"}
StreamsHeld(a, T, C, S) ==
  /\ a \in Numbers /\ T \in [Channel!Ids -> Numbers] /\ C \in [Recorders -> Numbers] /\ S \in [Channel!Ids -> States]
  /\ a # 0 => S[a] = "open"
  /\ \A n \in Channel!Ids : T[n] # 0 => S[T[n]] = "open"
  /\ \A c \in Recorders : C[c] # 0 => S[C[c]] = "open"
  /\ \A n, m \in Channel!Ids : T[n] # 0 /\ T[n] = T[m] => n = m
  /\ \A c, d \in Recorders : C[c] # 0 /\ C[c] = C[d] => c = d
  /\ \A n \in Channel!Ids : \A c \in Recorders : T[n] # 0 => T[n] # C[c]
  /\ a # 0 => (\A n \in Channel!Ids : T[n] # a) /\ \A c \in Recorders : C[c] # a

\* Some give up what they hold, and what nobody holds any more is closed.
LEMMA HeldLess ==
  ASSUME NEW a, NEW T, NEW C, NEW S, StreamsHeld(a, T, C, S), NEW x \in Numbers,
         NEW b \in {a, 0}, b # 0 => b # x,
         NEW U \in [Channel!Ids -> Numbers], \A n \in Channel!Ids : U[n] = 0 \/ (U[n] = T[n] /\ U[n] # x),
         NEW D \in [Recorders -> Numbers], \A c \in Recorders : D[c] = 0 \/ (D[c] = C[c] /\ D[c] # x)
  PROVE  StreamsHeld(b, U, D, Channel!Closed(S, x))
<1> DEFINE R == Channel!Closed(S, x)
<1>1. R \in [Channel!Ids -> States] /\ \A k \in Channel!Ids : k # x => R[k] = S[k]
  BY DEF StreamsHeld, Channel!Closed, Channel!None, States
<1> HIDE DEF R
<1>n. (\A k \in Numbers : k # 0 => k \in Channel!Ids) /\ 0 \in Numbers
  BY CountsAssumption DEF Numbers, Channel!Ids
<1>2. b \in Numbers /\ (b # 0 => R[b] = "open")
  <2>1. CASE b = 0
    BY <2>1, <1>n
  <2>2. CASE b # 0
    <3>1. b = a /\ a # 0 /\ a \in Numbers /\ S[a] = "open"
      BY <2>2 DEF StreamsHeld
    <3> QED
      BY <3>1, <2>2, <1>1, <1>n
  <2> QED
    BY <2>1, <2>2
<1>3. ASSUME NEW n \in Channel!Ids, U[n] # 0 PROVE R[U[n]] = "open"
  <2>1. U[n] = T[n] /\ U[n] # x /\ U[n] \in Numbers
    BY <1>3
  <2>2. U[n] \in Channel!Ids /\ S[T[n]] = "open"
    BY <2>1, <1>3, <1>n DEF StreamsHeld
  <2> QED
    BY <2>1, <2>2, <1>1
<1>4. ASSUME NEW c \in Recorders, D[c] # 0 PROVE R[D[c]] = "open"
  <2>1. D[c] = C[c] /\ D[c] # x /\ D[c] \in Numbers
    BY <1>4
  <2>2. D[c] \in Channel!Ids /\ S[C[c]] = "open"
    BY <2>1, <1>4, <1>n DEF StreamsHeld
  <2> QED
    BY <2>1, <2>2, <1>1
<1>6. \A n, m \in Channel!Ids : U[n] # 0 /\ U[n] = U[m] => n = m
  BY DEF StreamsHeld
<1>7. \A c, d \in Recorders : D[c] # 0 /\ D[c] = D[d] => c = d
  BY DEF StreamsHeld
<1>8. \A n \in Channel!Ids : \A c \in Recorders : U[n] # 0 => U[n] # D[c]
  BY DEF StreamsHeld
<1>9. b # 0 => (\A n \in Channel!Ids : U[n] # b) /\ \A c \in Recorders : D[c] # b
  BY DEF StreamsHeld
<1>10. StreamsHeld(b, U, D, R)
  BY <1>1, <1>2, <1>3, <1>4, <1>6, <1>7, <1>8, <1>9 DEF StreamsHeld
<1> QED
  BY <1>10 DEF R

\* A thread takes the stream from s_voice.
LEMMA ThreadTakes ==
  ASSUME NEW a, NEW T, NEW C, NEW S, StreamsHeld(a, T, C, S), NEW n \in Channel!Ids
  PROVE  StreamsHeld(0, [T EXCEPT ![n] = a], C, S)
<1> DEFINE U == [T EXCEPT ![n] = a]
<1>1. U \in [Channel!Ids -> Numbers] /\ U[n] = a /\ \A k \in Channel!Ids : k # n => U[k] = T[k]
  BY DEF StreamsHeld
<1> HIDE DEF U
<1>2. \A k \in Channel!Ids : U[k] # 0 => S[U[k]] = "open"
  BY <1>1 DEF StreamsHeld
<1>3. \A k, m \in Channel!Ids : U[k] # 0 /\ U[k] = U[m] => k = m
  BY <1>1 DEF StreamsHeld
<1>4. \A k \in Channel!Ids : \A c \in Recorders : U[k] # 0 => U[k] # C[c]
  BY <1>1 DEF StreamsHeld
<1>5. 0 \in Numbers
  BY CountsAssumption DEF Numbers
<1>6. StreamsHeld(0, U, C, S)
  BY <1>1, <1>2, <1>3, <1>4, <1>5 DEF StreamsHeld
<1> QED
  BY <1>6 DEF U

\* It gives the stream back.
LEMMA ThreadReturns ==
  ASSUME NEW a, NEW T, NEW C, NEW S, StreamsHeld(a, T, C, S), NEW n \in Channel!Ids
  PROVE  StreamsHeld(T[n], [T EXCEPT ![n] = 0], C, S)
<1> DEFINE U == [T EXCEPT ![n] = 0]
<1>0. 0 \in Numbers
  BY CountsAssumption DEF Numbers
<1>1. U \in [Channel!Ids -> Numbers] /\ U[n] = 0 /\ \A k \in Channel!Ids : k # n => U[k] = T[k]
  BY <1>0 DEF StreamsHeld
<1> HIDE DEF U
<1>2. \A k \in Channel!Ids : U[k] # 0 => S[U[k]] = "open"
  BY <1>1 DEF StreamsHeld
<1>3. \A k, m \in Channel!Ids : U[k] # 0 /\ U[k] = U[m] => k = m
  BY <1>1 DEF StreamsHeld
<1>4. \A k \in Channel!Ids : \A c \in Recorders : U[k] # 0 => U[k] # C[c]
  BY <1>1 DEF StreamsHeld
<1>5. T[n] # 0 => (\A k \in Channel!Ids : U[k] # T[n]) /\ \A c \in Recorders : C[c] # T[n]
  BY <1>1 DEF StreamsHeld
<1>6. T[n] \in Numbers /\ (T[n] # 0 => S[T[n]] = "open")
  BY DEF StreamsHeld
<1>7. StreamsHeld(T[n], U, C, S)
  BY <1>1, <1>2, <1>3, <1>4, <1>5, <1>6 DEF StreamsHeld
<1> QED
  BY <1>7 DEF U

\* The call that stops the recording takes it.
LEMMA CallTakes ==
  ASSUME NEW a, NEW T, NEW C, NEW S, StreamsHeld(a, T, C, S), NEW c \in Recorders
  PROVE  StreamsHeld(0, T, [C EXCEPT ![c] = a], S)
<1> DEFINE D == [C EXCEPT ![c] = a]
<1>1. D \in [Recorders -> Numbers] /\ D[c] = a /\ \A d \in Recorders : d # c => D[d] = C[d]
  BY DEF StreamsHeld
<1> HIDE DEF D
<1>2. \A d \in Recorders : D[d] # 0 => S[D[d]] = "open"
  BY <1>1 DEF StreamsHeld
<1>3. \A d, e \in Recorders : D[d] # 0 /\ D[d] = D[e] => d = e
  BY <1>1 DEF StreamsHeld
<1>4. \A n \in Channel!Ids : \A d \in Recorders : T[n] # 0 => T[n] # D[d]
  BY <1>1 DEF StreamsHeld
<1>5. 0 \in Numbers
  BY CountsAssumption DEF Numbers
<1>6. StreamsHeld(0, T, D, S)
  BY <1>1, <1>2, <1>3, <1>4, <1>5 DEF StreamsHeld
<1> QED
  BY <1>6 DEF D

\* A stream nobody holds may be opened, and s_voice points to it or to none.
LEMMA VoiceOpens ==
  ASSUME NEW a, NEW T, NEW C, NEW S, StreamsHeld(a, T, C, S), NEW x \in Channel!Ids, S[x] # "open",
         NEW s \in States, NEW b \in {0, x}, b = x => s = "open",
         NEW D \in [Recorders -> Numbers], \A c \in Recorders : D[c] = 0 \/ D[c] = C[c]
  PROVE  StreamsHeld(b, T, D, [S EXCEPT ![x] = s])
<1> DEFINE R == [S EXCEPT ![x] = s]
<1>1. R \in [Channel!Ids -> States] /\ R[x] = s /\ \A k \in Channel!Ids : k # x => R[k] = S[k]
  BY DEF StreamsHeld
<1> HIDE DEF R
<1>n. (\A k \in Numbers : k # 0 => k \in Channel!Ids) /\ 0 \in Numbers /\ x \in Numbers /\ x # 0
  BY CountsAssumption DEF Numbers, Channel!Ids
<1>2. ASSUME NEW n \in Channel!Ids, T[n] # 0 PROVE T[n] # x /\ R[T[n]] = "open"
  BY <1>1, <1>2, <1>n DEF StreamsHeld
<1>3. ASSUME NEW c \in Recorders, D[c] # 0 PROVE D[c] # x /\ R[D[c]] = "open"
  BY <1>1, <1>3, <1>n DEF StreamsHeld
<1>4. \A n \in Channel!Ids : T[n] # x
  BY <1>2, <1>n
<1>5. \A c \in Recorders : D[c] # x
  BY <1>3, <1>n
<1>6. b \in Numbers /\ (b # 0 => R[b] = "open")
  BY <1>1, <1>n
<1>7. \A c, d \in Recorders : D[c] # 0 /\ D[c] = D[d] => c = d
  BY DEF StreamsHeld
<1>8. \A n \in Channel!Ids : \A c \in Recorders : T[n] # 0 => T[n] # D[c]
  BY DEF StreamsHeld
<1>9. b # 0 => (\A n \in Channel!Ids : T[n] # b) /\ \A c \in Recorders : D[c] # b
  BY <1>4, <1>5
<1>10. StreamsHeld(b, T, D, R)
  BY <1>1, <1>2, <1>3, <1>6, <1>7, <1>8, <1>9 DEF StreamsHeld
<1> QED
  BY <1>10 DEF R

\* A thread opens the stream of its own number.
LEMMA ThreadOpens ==
  ASSUME NEW a, NEW T, NEW C, NEW S, StreamsHeld(a, T, C, S), NEW x \in Channel!Ids, S[x] # "open"
  PROVE  StreamsHeld(a, [T EXCEPT ![x] = x], C, [S EXCEPT ![x] = "open"])
<1> DEFINE R == [S EXCEPT ![x] = "open"]
           U == [T EXCEPT ![x] = x]
<1>n. (\A k \in Numbers : k # 0 => k \in Channel!Ids) /\ 0 \in Numbers /\ x \in Numbers /\ x # 0
  BY CountsAssumption DEF Numbers, Channel!Ids
<1>1. R \in [Channel!Ids -> States] /\ R[x] = "open" /\ \A k \in Channel!Ids : k # x => R[k] = S[k]
  BY DEF StreamsHeld, States
<1>2. U \in [Channel!Ids -> Numbers] /\ U[x] = x /\ \A k \in Channel!Ids : k # x => U[k] = T[k]
  BY <1>n DEF StreamsHeld
<1> HIDE DEF R, U
<1>3. ASSUME NEW n \in Channel!Ids, T[n] # 0 PROVE T[n] # x /\ R[T[n]] = "open"
  BY <1>1, <1>3, <1>n DEF StreamsHeld
<1>4. ASSUME NEW c \in Recorders, C[c] # 0 PROVE C[c] # x /\ R[C[c]] = "open"
  BY <1>1, <1>4, <1>n DEF StreamsHeld
<1>5. (\A n \in Channel!Ids : T[n] # x) /\ (\A c \in Recorders : C[c] # x)
  BY <1>3, <1>4, <1>n
<1>6. a # 0 => a # x /\ R[a] = "open"
  BY <1>1, <1>n DEF StreamsHeld
<1>7. ASSUME NEW n \in Channel!Ids, U[n] # 0 PROVE R[U[n]] = "open"
  BY <1>1, <1>2, <1>3, <1>7
<1>8. \A n, m \in Channel!Ids : U[n] # 0 /\ U[n] = U[m] => n = m
  BY <1>2, <1>5 DEF StreamsHeld
<1>9. \A n \in Channel!Ids : \A c \in Recorders : U[n] # 0 => U[n] # C[c]
  BY <1>2, <1>5 DEF StreamsHeld
<1>10. a # 0 => (\A n \in Channel!Ids : U[n] # a) /\ \A c \in Recorders : C[c] # a
  BY <1>2, <1>6 DEF StreamsHeld
<1>11. StreamsHeld(a, U, C, R)
  BY <1>1, <1>2, <1>4, <1>6, <1>7, <1>8, <1>9, <1>10 DEF StreamsHeld
<1> QED
  BY <1>11 DEF R, U

\* What has not begun has neither stream nor thread, and the device s_voice points
\* to is open.
Threads == [pc : {"none", "begin", "late", "alloc", "post", "loop", "done"}, stream : Numbers, fallback : BOOLEAN]
Calls == [pc : {"idle", "silence", "recheck", "spawn", "await", "undo", "join", "finish"},
          own : Numbers, stream : Numbers, len : Nat]
Buffers == [own : Numbers, len : Nat]
OfThreads == [n \in Channel!Ids |-> recThr[n].stream]
OfCalls == [c \in Recorders |-> recCalls[c].stream]
HeldInv == StreamsHeld(asr, OfThreads, OfCalls, streams)
NumberInv ==
  /\ recStarts \in Numbers /\ buf \in Buffers /\ recThr \in [Channel!Ids -> Threads] /\ recCalls \in [Recorders -> Calls]
  /\ \A n \in Channel!Ids : n > recStarts => streams[n] = "none" /\ recThr[n].pc = "none"
  /\ \A c \in Recorders : recCalls[c].pc = "spawn" => recCalls[c].own \in Channel!Ids /\ recCalls[c].own <= recStarts
DeviceInv ==
  /\ devices \in [Channel!Ids -> States] /\ cap \in Numbers
  /\ cap # 0 => devices[cap] = "open"
ChannelInv == HeldInv /\ NumberInv /\ DeviceInv

\* A thread changes.
LEMMA ThreadSet ==
  ASSUME NumberInv, NEW n \in Channel!Ids, NEW r \in Threads, recThr' = [recThr EXCEPT ![n] = r]
  PROVE  /\ recThr' \in [Channel!Ids -> Threads] /\ OfThreads' = [OfThreads EXCEPT ![n] = r.stream]
         /\ r.stream = recThr[n].stream => OfThreads' = OfThreads
         /\ recThr'[n] = r /\ \A k \in Channel!Ids : k # n => recThr'[k] = recThr[k]
<1>1. recThr' \in [Channel!Ids -> Threads] /\ recThr'[n] = r /\ \A k \in Channel!Ids : k # n => recThr'[k] = recThr[k]
  BY DEF NumberInv
<1>2. \A k \in Channel!Ids : recThr'[k].stream = IF k = n THEN r.stream ELSE recThr[k].stream
  BY <1>1
<1>3. OfThreads' = [OfThreads EXCEPT ![n] = r.stream]
  BY <1>2 DEF OfThreads
<1>4. r.stream = recThr[n].stream => OfThreads' = OfThreads
  BY <1>2 DEF OfThreads
<1> QED
  BY <1>1, <1>3, <1>4

\* Its place in the code does.
LEMMA ThreadGoes ==
  ASSUME NumberInv, NEW n \in Channel!Ids, NEW p \in {"begin", "late", "alloc", "post", "loop", "done"},
         recThr' = [recThr EXCEPT ![n].pc = p]
  PROVE  /\ recThr' \in [Channel!Ids -> Threads] /\ OfThreads' = OfThreads
         /\ \A k \in Channel!Ids : k # n => recThr'[k] = recThr[k]
<1>1. [recThr[n] EXCEPT !.pc = p] \in Threads /\ [recThr[n] EXCEPT !.pc = p].stream = recThr[n].stream
  BY DEF NumberInv, Threads
<1>2. recThr' = [recThr EXCEPT ![n] = [recThr[n] EXCEPT !.pc = p]]
  OBVIOUS
<1> QED
  BY <1>1, <1>2, ThreadSet

\* A call changes.
LEMMA CallSet ==
  ASSUME NumberInv, NEW c \in Recorders, NEW r \in Calls, recCalls' = [recCalls EXCEPT ![c] = r]
  PROVE  /\ recCalls' \in [Recorders -> Calls] /\ OfCalls' = [OfCalls EXCEPT ![c] = r.stream]
         /\ r.stream = recCalls[c].stream => OfCalls' = OfCalls
         /\ recCalls'[c] = r /\ \A k \in Recorders : k # c => recCalls'[k] = recCalls[k]
<1>1. recCalls' \in [Recorders -> Calls] /\ recCalls'[c] = r /\ \A k \in Recorders : k # c => recCalls'[k] = recCalls[k]
  BY DEF NumberInv
<1>2. \A k \in Recorders : recCalls'[k].stream = IF k = c THEN r.stream ELSE recCalls[k].stream
  BY <1>1
<1>3. OfCalls' = [OfCalls EXCEPT ![c] = r.stream]
  BY <1>2 DEF OfCalls
<1>4. r.stream = recCalls[c].stream => OfCalls' = OfCalls
  BY <1>2 DEF OfCalls
<1> QED
  BY <1>1, <1>3, <1>4

\* Its place in the code does, and it is not the place where a thread is made.
LEMMA CallGoes ==
  ASSUME NumberInv, NEW c \in Recorders, NEW p \in {"silence", "recheck", "await", "undo", "join"}, Channel!Goes(c, p)
  PROVE  /\ recCalls' \in [Recorders -> Calls] /\ OfCalls' = OfCalls
         /\ \A k \in Recorders : recCalls'[k].pc = "spawn" => recCalls'[k] = recCalls[k]
<1>1. /\ [recCalls[c] EXCEPT !.pc = p] \in Calls /\ [recCalls[c] EXCEPT !.pc = p].stream = recCalls[c].stream
      /\ [recCalls[c] EXCEPT !.pc = p].pc # "spawn"
  BY DEF NumberInv, Calls
<1>2. recCalls' = [recCalls EXCEPT ![c] = [recCalls[c] EXCEPT !.pc = p]]
  BY DEF Channel!Goes
<1>3. /\ recCalls' \in [Recorders -> Calls] /\ OfCalls' = OfCalls
      /\ recCalls'[c].pc # "spawn" /\ \A k \in Recorders : k # c => recCalls'[k] = recCalls[k]
  BY <1>1, <1>2, CallSet
<1> QED
  BY <1>3

\* It ends, and holds nothing then.
LEMMA CallOver ==
  ASSUME NumberInv, NEW c \in Recorders, Channel!Ends(c)
  PROVE  /\ recCalls' \in [Recorders -> Calls] /\ OfCalls' = [OfCalls EXCEPT ![c] = 0]
         /\ \A k \in Recorders : recCalls'[k].pc = "spawn" => recCalls'[k] = recCalls[k]
<1>1. Channel!Idle \in Calls /\ Channel!Idle.stream = 0 /\ Channel!Idle.pc = "idle"
  BY CountsAssumption DEF Channel!Idle, Channel!None, Calls, Numbers
<1>2. recCalls' = [recCalls EXCEPT ![c] = Channel!Idle]
  BY DEF Channel!Ends
<1>3. /\ recCalls' \in [Recorders -> Calls] /\ OfCalls' = [OfCalls EXCEPT ![c] = 0]
      /\ recCalls'[c].pc = "idle" /\ \A k \in Recorders : k # c => recCalls'[k] = recCalls[k]
  BY <1>1, <1>2, CallSet
<1> QED
  BY <1>3

\* Some give up what they hold, and what nobody holds any more is closed.
LEMMA GivesUp ==
  ASSUME HeldInv, NEW x \in Numbers, streams' = Channel!Closed(streams, x),
         asr' \in {asr, 0}, asr' # 0 => asr' # x,
         \A n \in Channel!Ids : OfThreads'[n] = 0 \/ (OfThreads'[n] = OfThreads[n] /\ OfThreads'[n] # x),
         \A c \in Recorders : OfCalls'[c] = 0 \/ (OfCalls'[c] = OfCalls[c] /\ OfCalls'[c] # x),
         OfThreads' \in [Channel!Ids -> Numbers], OfCalls' \in [Recorders -> Numbers]
  PROVE  HeldInv'
<1>1. StreamsHeld(asr', OfThreads', OfCalls', Channel!Closed(streams, x))
  BY HeldLess DEF HeldInv
<1> QED
  BY <1>1 DEF HeldInv

\* Nothing that is held changes but a call that gives its stream up.
LEMMA Stays ==
  ASSUME HeldInv, UNCHANGED <<streams, asr, OfThreads>>, NEW c \in Recorders,
         OfCalls' = OfCalls \/ OfCalls' = [OfCalls EXCEPT ![c] = 0]
  PROVE  HeldInv'
<1>1. OfThreads \in [Channel!Ids -> Numbers] /\ OfCalls \in [Recorders -> Numbers] /\ 0 \in Numbers
  BY CountsAssumption DEF HeldInv, StreamsHeld, Numbers
<1>2. OfCalls' \in [Recorders -> Numbers] /\ \A d \in Recorders : OfCalls'[d] = 0 \/ OfCalls'[d] = OfCalls[d]
  BY <1>1
<1>3. streams = Channel!Closed(streams, 0)
  BY DEF Channel!Closed, Channel!None
<1>4. OfThreads' = OfThreads /\ streams' = streams /\ asr' = asr
  OBVIOUS
<1>5. StreamsHeld(asr, OfThreads, OfCalls', Channel!Closed(streams, 0))
  BY <1>1, <1>2, HeldLess DEF HeldInv
<1> QED
  BY <1>3, <1>4, <1>5 DEF HeldInv

\* Devices.
LEMMA DeviceGoes == ASSUME DeviceInv, devices' = Channel!Closed(devices, cap), cap' = 0 PROVE DeviceInv'
<1>1. devices' \in [Channel!Ids -> States]
  BY DEF DeviceInv, Channel!Closed, Channel!None, States
<1>2. 0 \in Numbers
  BY CountsAssumption DEF Numbers
<1> QED
  BY <1>1, <1>2 DEF DeviceInv
\* Nothing happens to them.
LEMMA DeviceStays == ASSUME DeviceInv, UNCHANGED <<devices, cap>> PROVE DeviceInv'
  BY DEF DeviceInv

\* What of a recording is not part of its number keeps that.
LEMMA NumbersStay ==
  ASSUME NumberInv, UNCHANGED <<recStarts, streams>>, buf' \in Buffers,
         recThr' = recThr, recCalls' \in [Recorders -> Calls],
         \A k \in Recorders : recCalls'[k].pc = "spawn" => recCalls'[k] = recCalls[k]
  PROVE  NumberInv'
  BY DEF NumberInv
\* A stream that is closed was open, so its number has begun.
LEMMA BegunStays ==
  ASSUME HeldInv, NumberInv, NEW x \in Numbers, x # 0 => streams[x] = "open", streams' = Channel!Closed(streams, x)
  PROVE  \A n \in Channel!Ids : n > recStarts => streams'[n] = "none"
<1>1. \A n \in Channel!Ids : n # x => streams'[n] = streams[n]
  BY DEF HeldInv, StreamsHeld, Channel!Closed, Channel!None
<1>2. ASSUME NEW n \in Channel!Ids, n > recStarts PROVE streams[n] = "none" /\ n # x
  <2>1. streams[n] = "none" /\ n # 0
    BY <1>2 DEF NumberInv, Channel!Ids
  <2> QED
    BY <2>1
<1> QED
  BY <1>1, <1>2
\* What s_voice, a thread and a call hold is open.
LEMMA HeldIsOpen ==
  ASSUME HeldInv
  PROVE  /\ asr \in Numbers /\ (asr # 0 => streams[asr] = "open")
         /\ \A n \in Channel!Ids : OfThreads[n] \in Numbers /\ OfThreads[n] = recThr[n].stream
                                   /\ (OfThreads[n] # 0 => streams[OfThreads[n]] = "open")
         /\ \A c \in Recorders : OfCalls[c] \in Numbers /\ OfCalls[c] = recCalls[c].stream
                                 /\ (OfCalls[c] # 0 => streams[OfCalls[c]] = "open")
         /\ OfThreads \in [Channel!Ids -> Numbers] /\ OfCalls \in [Recorders -> Numbers] /\ 0 \in Numbers
         /\ streams \in [Channel!Ids -> States]
<1>1. \A n \in Channel!Ids : OfThreads[n] = recThr[n].stream
  BY DEF OfThreads
<1>2. \A c \in Recorders : OfCalls[c] = recCalls[c].stream
  BY DEF OfCalls
<1>3. 0 \in Numbers
  BY CountsAssumption DEF Numbers
<1> QED
  BY <1>1, <1>2, <1>3 DEF HeldInv, StreamsHeld

\* A recording begins: the stream and the device of its number are nobody's.
LEMMA OpenedKeeps ==
  ASSUME ChannelInv, NEW c \in Recorders, Channel!Opened(c), UNCHANGED recThr
  PROVE  ChannelInv'
<1> DEFINE n == recStarts + 1
<1>1. PICK stream \in BOOLEAN, device \in BOOLEAN :
        /\ n \in Channel!Ids /\ recStarts' = n /\ buf' = Channel!NoBuffer
        /\ streams' = [streams EXCEPT ![n] = IF ~stream THEN "none" ELSE IF device THEN "open" ELSE "closed"]
        /\ devices' = [k \in Channel!Ids |-> IF k = n /\ device THEN "open" ELSE IF devices[k] = "open" THEN "closed" ELSE devices[k]]
        /\ asr' = (IF stream /\ device THEN n ELSE 0)
        /\ cap' = (IF device THEN n ELSE 0)
        /\ recCalls' = [recCalls EXCEPT ![c] = IF device THEN [Channel!Idle EXCEPT !.pc = "spawn", !.own = n] ELSE Channel!Idle]
  BY DEF Channel!Opened, Channel!None
<1>2. recStarts \in Nat /\ n > recStarts /\ streams[n] = "none" /\ n \in Numbers /\ n # 0 /\ 0 \in Numbers
  BY <1>1, CountsAssumption DEF ChannelInv, NumberInv, Numbers, Channel!Ids
<1> DEFINE r == IF device THEN [Channel!Idle EXCEPT !.pc = "spawn", !.own = n] ELSE Channel!Idle
<1>3. r \in Calls /\ r.stream = 0 /\ (r.pc = "spawn" => r.own = n)
  BY <1>2 DEF Channel!Idle, Channel!None, Calls
<1> HIDE DEF r
<1>4. /\ recCalls' \in [Recorders -> Calls] /\ OfCalls' = [OfCalls EXCEPT ![c] = 0]
      /\ recCalls'[c] = r /\ \A k \in Recorders : k # c => recCalls'[k] = recCalls[k]
  <2>1. recCalls' = [recCalls EXCEPT ![c] = r]
    BY <1>1 DEF r
  <2> QED
    BY <2>1, <1>3, CallSet DEF ChannelInv
<1> DEFINE s == IF ~stream THEN "none" ELSE IF device THEN "open" ELSE "closed"
<1>5. HeldInv'
  <2>1. s \in States /\ asr' \in {0, n} /\ (asr' = n => s = "open")
    BY <1>1, <1>2 DEF States
  <2>2. OfCalls' \in [Recorders -> Numbers] /\ \A d \in Recorders : OfCalls'[d] = 0 \/ OfCalls'[d] = OfCalls[d]
    BY <1>2, <1>4, HeldIsOpen DEF ChannelInv
  <2>3. streams' = [streams EXCEPT ![n] = s]
    BY <1>1
  <2>4. OfThreads' = OfThreads
    BY DEF OfThreads
  <2> HIDE DEF s, n
  <2>5. StreamsHeld(asr, OfThreads, OfCalls, streams) /\ n \in Channel!Ids /\ streams[n] # "open"
    BY <1>1, <1>2 DEF ChannelInv, HeldInv
  <2>6. StreamsHeld(asr', OfThreads, OfCalls', [streams EXCEPT ![n] = s])
    BY <2>1, <2>2, <2>5, VoiceOpens
  <2> QED
    BY <2>3, <2>4, <2>6 DEF HeldInv
<1>6. NumberInv'
  <2>1. buf' \in Buffers /\ recStarts' \in Numbers
    BY <1>1, <1>2 DEF Channel!NoBuffer, Channel!None, Buffers
  <2>2. ASSUME NEW k \in Channel!Ids, k > recStarts' PROVE streams'[k] = "none" /\ recThr'[k].pc = "none"
    <3>1. k > recStarts /\ k # n
      BY <1>1, <1>2, <2>2 DEF Channel!Ids
    <3>2. streams[k] = "none" /\ recThr[k].pc = "none"
      BY <3>1 DEF ChannelInv, NumberInv
    <3> QED
      BY <3>1, <3>2, <1>1 DEF ChannelInv, HeldInv, StreamsHeld
  <2>3. ASSUME NEW d \in Recorders, recCalls'[d].pc = "spawn"
        PROVE  recCalls'[d].own \in Channel!Ids /\ recCalls'[d].own <= recStarts'
    <3>1. CASE d = c
      BY <3>1, <2>3, <1>1, <1>2, <1>3, <1>4
    <3>2. CASE d # c
      <4>1. recCalls[d].own \in Channel!Ids /\ recCalls[d].own <= recStarts
        BY <3>2, <2>3, <1>4 DEF ChannelInv, NumberInv
      <4> QED
        BY <4>1, <3>2, <1>1, <1>2, <1>4 DEF Channel!Ids
    <3> QED
      BY <3>1, <3>2
  <2>4. recThr' \in [Channel!Ids -> Threads]
    BY DEF ChannelInv, NumberInv
  <2> QED
    BY <2>1, <2>2, <2>3, <2>4, <1>4 DEF NumberInv
<1>7. DeviceInv'
  <2>1. devices' \in [Channel!Ids -> States]
    BY <1>1 DEF ChannelInv, DeviceInv, States
  <2> QED
    BY <2>1, <1>1, <1>2 DEF DeviceInv
<1> QED
  BY <1>5, <1>6, <1>7 DEF ChannelInv

\* Nothing changes but the place of a call.
LEMMA GoesKeeps ==
  ASSUME ChannelInv, NEW c \in Recorders, NEW p \in {"silence", "recheck", "await", "undo", "join"},
         Channel!Goes(c, p), UNCHANGED <<cap, asr, buf, devices, streams, recStarts, recThr>>
  PROVE  ChannelInv'
<1>2. /\ recCalls' \in [Recorders -> Calls] /\ OfCalls' = OfCalls
      /\ \A k \in Recorders : recCalls'[k].pc = "spawn" => recCalls'[k] = recCalls[k]
  BY CallGoes DEF ChannelInv
<1>3. NumberInv' /\ DeviceInv'
  BY <1>2, NumbersStay, DeviceStays DEF ChannelInv, NumberInv
<1>4. HeldInv'
  BY <1>2, Stays DEF ChannelInv, OfThreads
<1> QED
  BY <1>3, <1>4 DEF ChannelInv
\* Nothing changes but a call, that ends.
LEMMA EndsKeeps ==
  ASSUME ChannelInv, NEW c \in Recorders, Channel!Ends(c), UNCHANGED <<cap, asr, buf, devices, streams, recStarts, recThr>>
  PROVE  ChannelInv'
<1>2. /\ recCalls' \in [Recorders -> Calls] /\ OfCalls' = [OfCalls EXCEPT ![c] = 0]
      /\ \A k \in Recorders : recCalls'[k].pc = "spawn" => recCalls'[k] = recCalls[k]
  BY CallOver DEF ChannelInv
<1>3. NumberInv' /\ DeviceInv'
  BY <1>2, NumbersStay, DeviceStays DEF ChannelInv, NumberInv
<1>4. HeldInv'
  BY <1>2, Stays DEF ChannelInv, OfThreads
<1> QED
  BY <1>3, <1>4 DEF ChannelInv

\* voice_channel_start, as far as the recording's thread.
LEMMA StartKeeps ==
  ASSUME ChannelInv, NEW c \in Recorders, Channel!Start(c) \/ Channel!Silenced(c) \/ Channel!Recheck(c) \/ Channel!Stop(c)
  PROVE  ChannelInv'
<1>1. CASE Channel!Start(c)
  <2>1. Channel!Opened(c) \/ (Channel!Goes(c, "silence") /\ UNCHANGED <<cap, asr, buf, devices, streams, recStarts>>)
    BY <1>1 DEF Channel!Start, Channel!voice, Channel!things
  <2>2. UNCHANGED recThr
    BY <1>1 DEF Channel!Start
  <2> QED
    BY <2>1, <2>2, OpenedKeeps, GoesKeeps
<1>2. CASE Channel!Silenced(c)
  <2>1. Channel!Goes(c, "recheck") /\ UNCHANGED <<cap, asr, buf, devices, streams, recStarts, recThr>>
    BY <1>2 DEF Channel!Silenced, Channel!voice, Channel!things
  <2> QED
    BY <2>1, GoesKeeps
<1>3. CASE Channel!Recheck(c)
  <2>1. Channel!Opened(c) \/ (Channel!Ends(c) /\ UNCHANGED <<cap, asr, buf, devices, streams, recStarts>>)
    BY <1>3 DEF Channel!Recheck, Channel!voice, Channel!things
  <2>2. UNCHANGED recThr
    BY <1>3 DEF Channel!Recheck
  <2> QED
    BY <2>1, <2>2, OpenedKeeps, EndsKeeps
<1>4. CASE Channel!Stop(c)
  <2>1. Channel!Goes(c, "join") /\ UNCHANGED <<cap, asr, buf, devices, streams, recStarts, recThr>>
    BY <1>4 DEF Channel!Stop, Channel!things
  <2> QED
    BY <2>1, GoesKeeps
<1> QED
  BY <1>1, <1>2, <1>3, <1>4

\* A call gives up the stream of s_voice: the recording does not start.
LEMMA VoiceGivesUp ==
  ASSUME ChannelInv, NEW c \in Recorders, streams' = Channel!Closed(streams, asr), asr' = 0, UNCHANGED <<recThr, recStarts>>,
         buf' \in Buffers, recCalls' \in [Recorders -> Calls], OfCalls' = OfCalls \/ OfCalls' = [OfCalls EXCEPT ![c] = 0],
         \A k \in Recorders : recCalls'[k].pc = "spawn" => recCalls'[k] = recCalls[k]
  PROVE  HeldInv' /\ NumberInv'
<1>1. OfThreads' = OfThreads
  BY DEF OfThreads
<1>2. HeldInv'
  <2>1. \A n \in Channel!Ids : OfThreads[n] = 0 \/ OfThreads[n] # asr
    BY DEF ChannelInv, HeldInv, StreamsHeld
  <2>2. \A d \in Recorders : OfCalls[d] = 0 \/ OfCalls[d] # asr
    BY DEF ChannelInv, HeldInv, StreamsHeld
  <2>3. OfThreads \in [Channel!Ids -> Numbers] /\ OfCalls \in [Recorders -> Numbers] /\ 0 \in Numbers /\ asr \in Numbers
    BY HeldIsOpen DEF ChannelInv
  <2>4. OfCalls' \in [Recorders -> Numbers] /\ \A d \in Recorders : OfCalls'[d] = 0 \/ OfCalls'[d] = OfCalls[d]
    BY <2>3
  <2>5. StreamsHeld(0, OfThreads, OfCalls', Channel!Closed(streams, asr))
    BY <2>1, <2>2, <2>3, <2>4, HeldLess DEF ChannelInv, HeldInv
  <2> QED
    BY <1>1, <2>5 DEF HeldInv
<1>3. \A n \in Channel!Ids : n > recStarts => streams'[n] = "none"
  BY BegunStays, HeldIsOpen DEF ChannelInv
<1>4. NumberInv'
  BY <1>3 DEF ChannelInv, NumberInv
<1> QED
  BY <1>2, <1>4

\* The thread is made, or it is not.
LEMMA SpawnKeeps == ASSUME ChannelInv, NEW c \in Recorders, Channel!Spawn(c) PROVE ChannelInv'
<1>0. recCalls[c].pc = "spawn" /\ UNCHANGED recStarts
  BY DEF Channel!Spawn, Channel!At
<1>1. CASE /\ recRec' = recCalls[c].own /\ recThr' = [recThr EXCEPT ![recRec'].pc = "begin"] /\ Channel!Goes(c, "await")
           /\ UNCHANGED <<cap, asr, buf, devices, streams>>
  <2> DEFINE n == recCalls[c].own
  <2>1. n \in Channel!Ids /\ n <= recStarts
    BY <1>0 DEF ChannelInv, NumberInv
  <2>2. recThr' = [recThr EXCEPT ![n].pc = "begin"]
    BY <1>1
  <2> HIDE DEF n
  <2>3. /\ recThr' \in [Channel!Ids -> Threads] /\ OfThreads' = OfThreads
        /\ \A k \in Channel!Ids : k # n => recThr'[k] = recThr[k]
    BY <2>1, <2>2, ThreadGoes DEF ChannelInv
  <2>4. /\ recCalls' \in [Recorders -> Calls] /\ OfCalls' = OfCalls
        /\ \A k \in Recorders : recCalls'[k].pc = "spawn" => recCalls'[k] = recCalls[k]
    BY <1>1, CallGoes DEF ChannelInv
  <2>5. HeldInv'
    BY <1>1, <2>3, <2>4 DEF ChannelInv, HeldInv
  <2>6. \A k \in Channel!Ids : k > recStarts => k # n
    BY <2>1 DEF ChannelInv, NumberInv, Numbers, Channel!Ids
  <2>7. NumberInv'
    BY <1>0, <1>1, <2>3, <2>4, <2>6 DEF ChannelInv, NumberInv
  <2> QED
    BY <1>1, <2>5, <2>7, DeviceStays DEF ChannelInv
<1>2. CASE /\ devices' = Channel!Closed(devices, cap) /\ cap' = 0
           /\ streams' = Channel!Closed(streams, asr) /\ asr' = 0 /\ buf' = Channel!NoBuffer /\ Channel!Ends(c)
           /\ UNCHANGED recThr
  <2>1. /\ recCalls' \in [Recorders -> Calls] /\ OfCalls' = [OfCalls EXCEPT ![c] = 0]
        /\ \A k \in Recorders : recCalls'[k].pc = "spawn" => recCalls'[k] = recCalls[k]
    BY <1>2, CallOver DEF ChannelInv
  <2>2. buf' \in Buffers
    BY <1>2, CountsAssumption DEF Channel!NoBuffer, Channel!None, Buffers, Numbers
  <2>3. HeldInv' /\ NumberInv'
    BY <1>0, <1>2, <2>1, <2>2, VoiceGivesUp
  <2> QED
    BY <1>2, <2>3, DeviceGoes DEF ChannelInv
<1> QED
  BY <1>1, <1>2 DEF Channel!Spawn, Channel!things, Channel!None

\* The device is started, or not: then the thread is waited for.
LEMMA AwaitKeeps == ASSUME ChannelInv, NEW c \in Recorders, Channel!Await(c) \/ Channel!Undo(c) PROVE ChannelInv'
<1>1. CASE Channel!Await(c)
  <2>1. UNCHANGED <<cap, buf, devices, recStarts, recThr>>
    BY <1>1 DEF Channel!Await
  <2>2. CASE Channel!Ends(c) /\ UNCHANGED <<asr, streams>>
    BY <2>1, <2>2, EndsKeeps
  <2>3. CASE streams' = Channel!Closed(streams, asr) /\ asr' = 0 /\ Channel!Goes(c, "undo")
    <3>1. /\ recCalls' \in [Recorders -> Calls] /\ OfCalls' = OfCalls
          /\ \A k \in Recorders : recCalls'[k].pc = "spawn" => recCalls'[k] = recCalls[k]
      BY <2>3, CallGoes DEF ChannelInv
    <3>2. HeldInv' /\ NumberInv'
      BY <2>1, <2>3, <3>1, VoiceGivesUp DEF ChannelInv, NumberInv
    <3> QED
      BY <2>1, <3>2, DeviceStays DEF ChannelInv
  <2> QED
    BY <1>1, <2>2, <2>3 DEF Channel!Await, Channel!None
<1>2. CASE Channel!Undo(c)
  <2>1. /\ Channel!Ends(c) /\ devices' = Channel!Closed(devices, cap) /\ cap' = 0
        /\ UNCHANGED <<asr, buf, recThr, streams, recStarts>>
    BY <1>2 DEF Channel!Undo, Channel!None
  <2>2. /\ recCalls' \in [Recorders -> Calls] /\ OfCalls' = [OfCalls EXCEPT ![c] = 0]
        /\ \A k \in Recorders : recCalls'[k].pc = "spawn" => recCalls'[k] = recCalls[k]
    BY <2>1, CallOver DEF ChannelInv
  <2>3. NumberInv' /\ DeviceInv'
    BY <2>1, <2>2, NumbersStay, DeviceGoes DEF ChannelInv, NumberInv
  <2>4. HeldInv'
    BY <2>1, <2>2, Stays DEF ChannelInv, OfThreads
  <2> QED
    BY <2>3, <2>4 DEF ChannelInv
<1> QED
  BY <1>1, <1>2

\* voice_channel_stop: it takes the stream, and closes it.
LEMMA JoinKeeps == ASSUME ChannelInv, NEW c \in Recorders, Channel!Join(c) PROVE ChannelInv'
<1> DEFINE r == [Channel!Idle EXCEPT !.pc = "finish", !.stream = asr, !.len = buf.len]
<1>1. /\ devices' = Channel!Closed(devices, cap) /\ cap' = 0 /\ asr' = 0
      /\ recCalls' = [recCalls EXCEPT ![c] = r]
      /\ UNCHANGED <<buf, recThr, streams, recStarts>>
  BY DEF Channel!Join, Channel!None
<1>2. r \in Calls /\ r.stream = asr /\ r.pc = "finish"
  <2>1. asr \in Numbers /\ 0 \in Numbers /\ buf.len \in Nat
    BY HeldIsOpen DEF ChannelInv, NumberInv, Buffers
  <2> QED
    BY <2>1 DEF Channel!Idle, Channel!None, Calls
<1> HIDE DEF r
<1>3. /\ recCalls' \in [Recorders -> Calls] /\ OfCalls' = [OfCalls EXCEPT ![c] = asr]
      /\ recCalls'[c] = r /\ \A k \in Recorders : k # c => recCalls'[k] = recCalls[k]
  BY <1>1, <1>2, CallSet DEF ChannelInv
<1>4. HeldInv'
  <2>1. StreamsHeld(0, OfThreads, [OfCalls EXCEPT ![c] = asr], streams)
    BY CallTakes DEF ChannelInv, HeldInv
  <2>2. OfThreads' = OfThreads
    BY <1>1 DEF OfThreads
  <2> QED
    BY <1>1, <1>3, <2>1, <2>2 DEF HeldInv
<1>5. \A k \in Recorders : recCalls'[k].pc = "spawn" => recCalls'[k] = recCalls[k]
  BY <1>2, <1>3
<1>6. NumberInv' /\ DeviceInv'
  BY <1>1, <1>3, <1>5, NumbersStay, DeviceGoes DEF ChannelInv, NumberInv
<1> QED
  BY <1>4, <1>6 DEF ChannelInv
\* The end of it.
LEMMA FinishKeeps == ASSUME ChannelInv, NEW c \in Recorders, Channel!Finish(c) PROVE ChannelInv'
<1> DEFINE x == recCalls[c].stream
<1>1. /\ Channel!Ends(c) /\ buf' = Channel!NoBuffer /\ streams' = Channel!Closed(streams, x)
      /\ UNCHANGED <<cap, asr, recThr, devices, recStarts>>
  BY DEF Channel!Finish, Channel!Closed, Channel!None
<1> HIDE DEF x
<1>2. /\ recCalls' \in [Recorders -> Calls] /\ OfCalls' = [OfCalls EXCEPT ![c] = 0]
      /\ \A k \in Recorders : recCalls'[k].pc = "spawn" => recCalls'[k] = recCalls[k]
  BY <1>1, CallOver DEF ChannelInv
<1>3. x \in Numbers /\ x = OfCalls[c] /\ (x # 0 => streams[x] = "open")
  BY HeldIsOpen DEF ChannelInv, x
<1>4. HeldInv'
  <2>1. \A n \in Channel!Ids : OfThreads[n] = 0 \/ OfThreads[n] # x
    BY <1>3 DEF ChannelInv, HeldInv, StreamsHeld
  <2>2. \A d \in Recorders : OfCalls'[d] = 0 \/ (OfCalls'[d] = OfCalls[d] /\ OfCalls'[d] # x)
    BY <1>2, <1>3 DEF ChannelInv, HeldInv, StreamsHeld
  <2>3. asr # 0 => asr # x
    BY <1>3 DEF ChannelInv, HeldInv, StreamsHeld
  <2>4. OfThreads \in [Channel!Ids -> Numbers] /\ OfCalls' \in [Recorders -> Numbers]
    BY <1>2, HeldIsOpen DEF ChannelInv
  <2>5. StreamsHeld(asr, OfThreads, OfCalls', Channel!Closed(streams, x))
    BY <1>3, <2>1, <2>2, <2>3, <2>4, HeldLess DEF ChannelInv, HeldInv
  <2>6. OfThreads' = OfThreads
    BY <1>1 DEF OfThreads
  <2> QED
    BY <1>1, <2>5, <2>6 DEF HeldInv
<1>5. \A n \in Channel!Ids : n > recStarts => streams'[n] = "none"
  BY <1>1, <1>3, BegunStays DEF ChannelInv
<1>6. buf' \in Buffers
  BY <1>1, CountsAssumption DEF Channel!NoBuffer, Channel!None, Buffers, Numbers
<1>7. NumberInv'
  BY <1>1, <1>2, <1>5, <1>6 DEF ChannelInv, NumberInv
<1> QED
  BY <1>1, <1>4, <1>7, DeviceStays DEF ChannelInv

\* A thread that is there has a number that has begun.
LEMMA ThreadBegan ==
  ASSUME NumberInv, NEW n \in Channel!Ids, recThr[n].pc # "none"
  PROVE  n <= recStarts /\ \A k \in Channel!Ids : k > recStarts => k # n
  BY DEF NumberInv, Numbers, Channel!Ids
\* Only the thread's place changes, and perhaps the buffer.
LEMMA PlaceKeeps ==
  ASSUME ChannelInv, NEW n \in Channel!Ids, recThr[n].pc # "none", NEW p \in {"begin", "late", "alloc", "post", "loop", "done"},
         recThr' = [recThr EXCEPT ![n].pc = p], buf' \in Buffers,
         UNCHANGED <<cap, asr, devices, streams, recStarts, recCalls>>
  PROVE  ChannelInv'
<1>1. /\ recThr' \in [Channel!Ids -> Threads] /\ OfThreads' = OfThreads
      /\ \A k \in Channel!Ids : k # n => recThr'[k] = recThr[k]
  BY ThreadGoes DEF ChannelInv
<1>2. OfCalls' = OfCalls
  BY DEF OfCalls
<1>3. NumberInv'
  BY <1>1, ThreadBegan DEF ChannelInv, NumberInv
<1>4. HeldInv'
  BY <1>1, <1>2 DEF ChannelInv, HeldInv
<1> QED
  BY <1>3, <1>4, DeviceStays DEF ChannelInv

\* The buffer, as a thread may leave it.
LEMMA BufferIs ==
  ASSUME NumberInv, NEW n \in Channel!Ids
  PROVE  buf \in Buffers /\ Channel!NoBuffer \in Buffers /\ Channel!Allocated(n) \in Buffers /\ Channel!Kept(n) \in Buffers
<1>1. n \in Numbers /\ 0 \in Numbers /\ buf \in Buffers
  BY CountsAssumption DEF NumberInv, Numbers, Channel!Ids
<1>2. Channel!NoBuffer \in Buffers /\ [own |-> n, len |-> 0] \in Buffers /\ [buf EXCEPT !.len = @ + 1] \in Buffers
  BY <1>1 DEF Buffers, Channel!NoBuffer, Channel!None
<1> QED
  BY <1>1, <1>2 DEF Channel!Allocated, Channel!Kept

\* The thread takes the stream, or opens its own, and comes to its loop.
LEMMA BeginKeeps ==
  ASSUME ChannelInv, NEW n \in Channel!Ids, Channel!Take(n) \/ Channel!Late(n) \/ Channel!OpenLate(n)
  PROVE  ChannelInv'
<1>0. recThr[n].pc # "none" /\ UNCHANGED <<cap, buf, devices, recStarts, recCalls>>
  BY DEF Channel!Take, Channel!Late, Channel!OpenLate, Channel!Thread, Channel!voice, Channel!things
<1>c. OfCalls' = OfCalls
  BY <1>0 DEF OfCalls
<1>1. CASE Channel!Take(n)
  <2> DEFINE r == [pc |-> IF asr = 0 THEN "late" ELSE "post", stream |-> asr, fallback |-> asr = 0]
  <2>1. asr' = 0 /\ UNCHANGED streams /\ recThr' = [recThr EXCEPT ![n] = r]
    BY <1>1 DEF Channel!Take, Channel!Taken, Channel!None, Channel!things
  <2>2. r \in Threads /\ r.stream = asr
    BY HeldIsOpen DEF ChannelInv, Threads
  <2> HIDE DEF r
  <2>3. /\ recThr' \in [Channel!Ids -> Threads] /\ OfThreads' = [OfThreads EXCEPT ![n] = asr]
        /\ \A k \in Channel!Ids : k # n => recThr'[k] = recThr[k]
    BY <2>1, <2>2, ThreadSet DEF ChannelInv
  <2>4. StreamsHeld(0, [OfThreads EXCEPT ![n] = asr], OfCalls, streams)
    BY ThreadTakes DEF ChannelInv, HeldInv
  <2>5. HeldInv'
    BY <1>c, <2>1, <2>3, <2>4 DEF HeldInv
  <2>6. NumberInv'
    BY <1>0, <2>1, <2>3, ThreadBegan DEF ChannelInv, NumberInv
  <2> QED
    BY <1>0, <2>5, <2>6, DeviceStays DEF ChannelInv
<1>2. CASE Channel!Late(n)
  <2>1. recThr' = [recThr EXCEPT ![n].pc = "alloc"] /\ UNCHANGED <<asr, streams>>
    BY <1>2 DEF Channel!Late, Channel!voice, Channel!things
  <2>2. buf' \in Buffers
    BY <1>0 DEF ChannelInv, NumberInv
  <2> QED
    BY <1>0, <2>1, <2>2, PlaceKeeps
<1>3. CASE Channel!OpenLate(n)
  <2> DEFINE r == [recThr[n] EXCEPT !.pc = "alloc", !.stream = n]
  <2>1. /\ streams[n] = "none" /\ streams' = [streams EXCEPT ![n] = "open"] /\ UNCHANGED asr
        /\ recThr' = [recThr EXCEPT ![n] = r]
    BY <1>3 DEF Channel!OpenLate, Channel!voice
  <2>2. r \in Threads /\ r.stream = n
    <3>1. n \in Numbers /\ recThr[n] \in Threads
      BY DEF ChannelInv, NumberInv, Numbers, Channel!Ids
    <3> QED
      BY <3>1 DEF Threads
  <2> HIDE DEF r
  <2>3. /\ recThr' \in [Channel!Ids -> Threads] /\ OfThreads' = [OfThreads EXCEPT ![n] = n]
        /\ \A k \in Channel!Ids : k # n => recThr'[k] = recThr[k]
    BY <2>1, <2>2, ThreadSet DEF ChannelInv
  <2>4. StreamsHeld(asr, [OfThreads EXCEPT ![n] = n], OfCalls, [streams EXCEPT ![n] = "open"])
    BY <2>1, ThreadOpens DEF ChannelInv, HeldInv
  <2>5. HeldInv'
    BY <1>c, <2>1, <2>3, <2>4 DEF HeldInv
  <2>6. \A k \in Channel!Ids : k > recStarts => streams'[k] = "none"
    BY <1>0, <2>1, ThreadBegan, HeldIsOpen DEF ChannelInv, NumberInv
  <2>7. NumberInv'
    BY <1>0, <2>3, <2>6, ThreadBegan DEF ChannelInv, NumberInv
  <2> QED
    BY <1>0, <2>5, <2>7, DeviceStays DEF ChannelInv
<1> QED
  BY <1>1, <1>2, <1>3
\* The buffer and the post.
LEMMA PostKeeps ==
  ASSUME ChannelInv, NEW n \in Channel!Ids, Channel!Alloc(n) \/ Channel!Post(n)
  PROVE  ChannelInv'
<1>1. recThr[n].pc # "none" /\ UNCHANGED <<cap, asr, devices, streams, recStarts, recCalls>>
  BY DEF Channel!Alloc, Channel!Post, Channel!Thread, Channel!voice, Channel!things
<1>2. buf' \in {buf, Channel!Allocated(n)}
  BY DEF Channel!Alloc, Channel!Post, Channel!voice
<1>3. PICK p \in {"post", "done", "loop"} : recThr' = [recThr EXCEPT ![n].pc = p]
  BY DEF Channel!Alloc, Channel!Post
<1>4. buf' \in Buffers
  BY <1>2, BufferIs DEF ChannelInv
<1> QED
  BY <1>1, <1>3, <1>4, PlaceKeeps

\* The thread gives its stream up.
LEMMA ThreadGivesUp ==
  ASSUME ChannelInv, NEW n \in Channel!Ids, recThr[n].pc # "none", NEW r \in Threads, r.stream = 0,
         recThr' = [recThr EXCEPT ![n] = r], streams' = Channel!Closed(streams, recThr[n].stream),
         asr' = asr \/ asr' = 0, buf' \in Buffers, UNCHANGED <<recStarts, recCalls>>
  PROVE  HeldInv' /\ NumberInv'
<1> DEFINE x == recThr[n].stream
<1>1. x \in Numbers /\ x = OfThreads[n] /\ (x # 0 => streams[x] = "open") /\ streams' = Channel!Closed(streams, x)
  BY HeldIsOpen DEF ChannelInv
<1> HIDE DEF x
<1>2. /\ recThr' \in [Channel!Ids -> Threads] /\ OfThreads' = [OfThreads EXCEPT ![n] = 0]
      /\ \A k \in Channel!Ids : k # n => recThr'[k] = recThr[k]
  BY ThreadSet DEF ChannelInv
<1>3. OfCalls' = OfCalls
  BY DEF OfCalls
<1>4. \A c \in Recorders : OfCalls[c] = 0 \/ OfCalls[c] # x
  BY <1>1 DEF ChannelInv, HeldInv, StreamsHeld
<1>5. \A k \in Channel!Ids : OfThreads'[k] = 0 \/ (OfThreads'[k] = OfThreads[k] /\ OfThreads'[k] # x)
  BY <1>1, <1>2 DEF ChannelInv, HeldInv, StreamsHeld
<1>6. asr # 0 => asr # x
  BY <1>1 DEF ChannelInv, HeldInv, StreamsHeld
<1>7. OfThreads' \in [Channel!Ids -> Numbers] /\ OfCalls \in [Recorders -> Numbers]
  BY <1>2, HeldIsOpen DEF ChannelInv
<1>8. asr' \in {asr, 0} /\ (asr' # 0 => asr' # x)
  BY <1>6
<1>9. StreamsHeld(asr', OfThreads', OfCalls, Channel!Closed(streams, x))
  BY <1>1, <1>4, <1>5, <1>7, <1>8, HeldLess DEF ChannelInv, HeldInv
<1>10. HeldInv'
  BY <1>1, <1>3, <1>9 DEF HeldInv
<1>11. \A k \in Channel!Ids : k > recStarts => streams'[k] = "none"
  BY <1>1, BegunStays DEF ChannelInv
<1>12. NumberInv'
  BY <1>2, <1>11, ThreadBegan DEF ChannelInv, NumberInv
<1> QED
  BY <1>10, <1>12

\* A chunk, with a stream that fails or not.
LEMMA ChunkKeeps == ASSUME ChannelInv, NEW n \in Channel!Ids, Channel!Chunk(n) PROVE ChannelInv'
<1>1. recThr[n].pc # "none" /\ UNCHANGED <<cap, asr, devices, recStarts, recCalls>>
  BY DEF Channel!Chunk, Channel!Thread
<1>2. CASE buf' = Channel!Kept(n) /\ UNCHANGED <<recThr, streams>>
  <2>1. buf' \in Buffers
    BY <1>2, BufferIs DEF ChannelInv
  <2>2. OfThreads' = OfThreads /\ OfCalls' = OfCalls
    BY <1>1, <1>2 DEF OfThreads, OfCalls
  <2>3. HeldInv' /\ NumberInv'
    BY <1>1, <1>2, <2>1, <2>2 DEF ChannelInv, HeldInv, NumberInv
  <2> QED
    BY <1>1, <2>3, DeviceStays DEF ChannelInv
<1>3. CASE Channel!Failed(n)
  <2> DEFINE r == [recThr[n] EXCEPT !.stream = 0, !.fallback = TRUE]
  <2>1. /\ streams' = Channel!Closed(streams, recThr[n].stream) /\ recThr' = [recThr EXCEPT ![n] = r]
        /\ buf' \in {Channel!Kept(n), Channel!Allocated(n)}
    BY <1>3 DEF Channel!Failed, Channel!None
  <2>2. r \in Threads /\ r.stream = 0
    <3>1. 0 \in Numbers /\ recThr[n] \in Threads
      BY CountsAssumption DEF ChannelInv, NumberInv, Numbers
    <3> QED
      BY <3>1 DEF Threads
  <2>3. buf' \in Buffers
    BY <2>1, BufferIs DEF ChannelInv
  <2> HIDE DEF r
  <2>4. HeldInv' /\ NumberInv'
    BY <1>1, <2>1, <2>2, <2>3, ThreadGivesUp
  <2> QED
    BY <1>1, <2>4, DeviceStays DEF ChannelInv
<1> QED
  BY <1>2, <1>3 DEF Channel!Chunk

\* The loop ends.
LEMMA LeaveKeeps ==
  ASSUME ChannelInv, NEW n \in Channel!Ids, Channel!Leave(n) \/ Channel!DeviceFails(n)
  PROVE  ChannelInv'
<1> DEFINE r == [recThr[n] EXCEPT !.pc = "done", !.stream = 0]
<1>1. recThr[n].pc # "none" /\ UNCHANGED <<recStarts, recCalls>> /\ recThr' = [recThr EXCEPT ![n] = r]
  BY DEF Channel!Leave, Channel!DeviceFails, Channel!Thread, Channel!Returned, Channel!None
<1>2. r \in Threads /\ r.stream = 0
  <2>1. 0 \in Numbers /\ recThr[n] \in Threads
    BY CountsAssumption DEF ChannelInv, NumberInv, Numbers
  <2> QED
    BY <2>1 DEF Threads
<1> HIDE DEF r
<1>3. CASE asr' = recThr[n].stream /\ UNCHANGED <<cap, buf, devices, streams>>
  <2>1. /\ recThr' \in [Channel!Ids -> Threads] /\ OfThreads' = [OfThreads EXCEPT ![n] = 0]
        /\ \A k \in Channel!Ids : k # n => recThr'[k] = recThr[k]
    BY <1>1, <1>2, ThreadSet DEF ChannelInv
  <2>2. OfCalls' = OfCalls /\ asr' = OfThreads[n]
    BY <1>1, <1>3 DEF OfCalls, OfThreads
  <2>3. StreamsHeld(OfThreads[n], [OfThreads EXCEPT ![n] = 0], OfCalls, streams)
    BY ThreadReturns DEF ChannelInv, HeldInv
  <2>4. HeldInv'
    BY <1>3, <2>1, <2>2, <2>3 DEF HeldInv
  <2>5. NumberInv'
    BY <1>1, <1>3, <2>1, ThreadBegan DEF ChannelInv, NumberInv
  <2> QED
    BY <1>3, <2>4, <2>5, DeviceStays DEF ChannelInv
<1>4. CASE /\ streams' = Channel!Closed(streams, recThr[n].stream) /\ devices' = Channel!Closed(devices, cap)
           /\ asr' = 0 /\ cap' = 0 /\ buf' = Channel!NoBuffer
  <2>1. buf' \in Buffers
    BY <1>4, BufferIs DEF ChannelInv
  <2>2. HeldInv' /\ NumberInv'
    BY <1>1, <1>2, <1>4, <2>1, ThreadGivesUp
  <2> QED
    BY <1>4, <2>2, DeviceGoes DEF ChannelInv
<1> QED
  BY <1>3, <1>4 DEF Channel!Leave, Channel!DeviceFails, Channel!things, Channel!None

\* Who speaks holds no stream and no device of a recording.
LEMMA SpeakersKeep ==
  ASSUME ChannelInv, UNCHANGED <<asr, cap, buf, recThr, recCalls, devices, streams, recStarts>>
  PROVE  ChannelInv'
<1>1. OfThreads' = OfThreads /\ OfCalls' = OfCalls
  BY DEF OfThreads, OfCalls
<1> QED
  BY <1>1, DeviceStays DEF ChannelInv, HeldInv, NumberInv

\* Every step keeps this.
LEMMA ChannelKept == ASSUME ChannelInv, Channel!Next PROVE ChannelInv'
<1>1. ASSUME NEW c \in Recorders, Channel!Start(c) \/ Channel!Stop(c) \/ Channel!Caller(c) PROVE ChannelInv'
  BY <1>1, StartKeeps, SpawnKeeps, AwaitKeeps, JoinKeeps, FinishKeeps DEF Channel!Caller
<1>2. ASSUME NEW n \in Channel!Ids, Channel!Recording(n) \/ Channel!Chunk(n) PROVE ChannelInv'
  BY <1>2, BeginKeeps, PostKeeps, ChunkKeeps, LeaveKeeps DEF Channel!Recording
<1>3. ASSUME NEW s \in Speakers, Channel!Speak(s) \/ Channel!Speaker(s) PROVE ChannelInv'
  <2>1. UNCHANGED <<asr, cap, buf, recThr, recCalls, devices, streams, recStarts>>
    BY <1>3 DEF Channel!Speak, Channel!Speaker, Channel!Turn, Channel!Register, Channel!Unregister, Channel!Close,
      Channel!voice, Channel!things
  <2> QED
    BY <2>1, SpeakersKeep
<1> QED
  BY <1>1, <1>2, <1>3 DEF Channel!Next

\* No thread, call or s_voice holds a stream or a device that was closed.
LEMMA NothingDangles == ASSUME ChannelInv PROVE Channel!NoDangling
<1>1. \A p \in {asr} \cup {recThr[n].stream : n \in Channel!Ids} \cup {recCalls[c].stream : c \in Recorders} :
        p # 0 => streams[p] = "open"
  BY HeldIsOpen DEF ChannelInv
<1> QED
  BY <1>1 DEF ChannelInv, DeviceInv, Channel!NoDangling, Channel!None

\* A recording holds what is open.
LEMMA StreamsAreHeld == PartsSpec => [](part = "channel" => Channel!NoDangling)
<1>1. PartsInit => ChannelInv
  <2> SUFFICES ASSUME PartsInit PROVE ChannelInv
    OBVIOUS
  <2>1. /\ cap = 0 /\ asr = 0 /\ buf = [own |-> 0, len |-> 0] /\ recStarts = 0
        /\ recThr = [n \in Channel!Ids |-> [pc |-> "none", stream |-> 0, fallback |-> FALSE]]
        /\ recCalls = [c \in Recorders |-> [pc |-> "idle", own |-> 0, stream |-> 0, len |-> 0]]
        /\ devices = [n \in Channel!Ids |-> "none"] /\ streams = devices
    BY DEF PartsInit, Channel!Init, Channel!NoBuffer, Channel!Idle, Channel!None
  <2>2. 0 \in Numbers
    BY CountsAssumption DEF Numbers
  <2>3. /\ recThr \in [Channel!Ids -> Threads] /\ OfThreads = [n \in Channel!Ids |-> 0]
        /\ \A n \in Channel!Ids : recThr[n].pc = "none"
    BY <2>1, <2>2 DEF Threads, OfThreads
  <2>4. /\ recCalls \in [Recorders -> Calls] /\ OfCalls = [c \in Recorders |-> 0]
        /\ \A c \in Recorders : recCalls[c].pc = "idle"
    BY <2>1, <2>2 DEF Calls, OfCalls
  <2>5. HeldInv
    BY <2>1, <2>2, <2>3, <2>4 DEF HeldInv, StreamsHeld, States
  <2>6. NumberInv
    BY <2>1, <2>2, <2>3, <2>4 DEF NumberInv, Buffers
  <2>7. DeviceInv
    BY <2>1, <2>2 DEF DeviceInv, States
  <2> QED
    BY <2>5, <2>6, <2>7 DEF ChannelInv
<1>2. (part = "channel" => ChannelInv) /\ [PartsNext]_<<part, moving>> => (part = "channel" => ChannelInv)'
  <2> SUFFICES ASSUME part = "channel" => ChannelInv, [PartsNext]_<<part, moving>>, part' = "channel" PROVE ChannelInv'
    OBVIOUS
  <2>1. part = "channel"
    BY DEF PartsNext, moving
  <2>2. Channel!Next \/ UNCHANGED channelVars
    BY <2>1, ChannelMoves
  <2>3. CASE UNCHANGED channelVars
    <3>1. UNCHANGED <<asr, cap, buf, recThr, recCalls, devices, streams, recStarts>>
      BY <2>3 DEF channelVars
    <3> QED
      BY <2>1, <3>1, SpeakersKeep
  <2> QED
    BY <2>1, <2>2, <2>3, ChannelKept
<1>3. ChannelInv => Channel!NoDangling
  BY NothingDangles
<1> QED
  BY <1>1, <1>2, <1>3, PTL DEF PartsSpec

-----------------------------------------------------------------------------
(* What threads share. *)

\* What threads share is neither used after it was given up nor lost to everybody
\* (VoiceChannel, NodeClient, MqttChannel, LvglChat, LanPanel, NodeLink, AgentMain): the
\* streams of a recording, the connection to a gateway and that to a broker, the
\* widgets of the chat, the slots of the panel and of the calls to nodes, and the
\* services after quit, as long as a synchronising thread of MQTT has left before the
\* next one synchronises.
THEOREM ResourcesStay == PartsSpec /\ []OneSynchronises => ResourcesAreHeld
<1>1. PartsSpec => [](part = "channel" => Channel!NoDangling)
  BY StreamsAreHeld
<1>2. PartsSpec /\ []OneSynchronises => [](part = "mqtt" => Mqtt!LinkIsWhole)
  BY LinksAreWhole
<1>3. PartsSpec => [](part = "display" => Display!ScreenHolds)
  BY ChatsAreHeld
<1>4. PartsSpec => [](part = "panel" => Panel!SlotsAreKept)
  BY SlotsComeFree
<1>5. PartsSpec => [](part = "nodes" => Gateway!SlotsComeBack)
  BY CallSlotsComeFree
<1>6. PartsSpec => [](part = "main" => Life!NothingIsLeft)
  BY NothingStays
<1>7. PartsSpec => Client!ReaderIsAlone
  BY ReadersAreAlone
<1> QED
  BY <1>1, <1>2, <1>3, <1>4, <1>5, <1>6, <1>7, PTL DEF ResourcesAreHeld
=============================================================================
