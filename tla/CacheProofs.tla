----------------------------- MODULE CacheProofs -----------------------------
(***************************************************************************)
(* The two caches: the lift cache on disk, shared by processes, and the    *)
(* API's context cache in memory, shared by threads.                       *)
(*                                                                         *)
(* The lift cache, for any number of processes, any sources and any index  *)
(* function: an entry is torn only by a removal, and a hit that answers    *)
(* with another lift has one of two named causes.  A directory belongs to  *)
(* the process that staged it, and only two others touch it: a remover     *)
(* that opened it, and a reader.  Both met it as an entry, and an entry's  *)
(* owner is done (EntryInv, OpenInv, ReadInv), so what the owner was keyed *)
(* and ran on no longer changes.  What is in the directory at each place   *)
(* of its owner is DirInv; that the manifest names the owner's source is   *)
(* KeyInv.                                                                 *)
(*                                                                         *)
(* The context cache answers every request with the realization of its own *)
(* inputs and stays within its bound, for any number of threads, any       *)
(* inputs and any hash function, colliding or not.  Between the two        *)
(* critical sections a thread holds nothing but its own answer, so the     *)
(* argument needs only what the map and each thread carry: every entry is  *)
(* the realization of the source it records, that source was accepted and  *)
(* hashes to the key it is under (MapInv); a thread on its way to insert   *)
(* carries such an entry for its own input (ThreadInv).  The bound holds   *)
(* because the size is read under the mutex that covers the insertion too  *)
(* (SizeInv).                                                              *)
(***************************************************************************)
EXTENDS LiftCache, ContextCache, FiniteSetTheorems, TLAPS

-----------------------------------------------------------------------------
(* The lift cache.                                                         *)

Early     == {"key", "manifest", "lift", "tools"}
Replacing == {"exists", "unlink", "rmdir", "rename"}
Storing   == {"stage", "write lift"} \cup Replacing

(* What p's tools made of what they read.                                  *)
Made(p) == Lift(<<source[p], ghost[p].ran>>)

KeyOf(p) ==
    /\ key[p] # None => key[p] = <<source[p], key[p][2]>>
    /\ pc[p] \in {"manifest", "lift"} \cup Storing => key[p] # None
    /\ outcome[p] = "hit" => pc[p] = "done" /\ key[p] # None

KeyInv == \A p \in Procs : KeyOf(p)

DirOf(p) ==
    /\ dir[p].manifest \in {None, key[p]}
    /\ dir[p].lift \in {None, Made(p)}
    /\ pc[p] \in Early => dir[p] = NoFile
    /\ pc[p] \in Storing => lift[p] = Made(p) /\ lift[p] # None
    /\ pc[p] \in {"write lift"} \cup Replacing => dir[p].manifest = key[p]
    /\ pc[p] \in Replacing => dir[p].lift = lift[p]
    /\ p \in staged => pc[p] \notin Early \cup {"stage", "done"}

DirInv == \A p \in Procs : DirOf(p)

(* The owner of a directory that others can reach is done.                 *)
Published(d) == pc[d] = "done" /\ key[d] # None

Whole(d) == dir[d].manifest # None /\ dir[d].lift # None

EntryOf(i) ==
    entry[i] # None =>
        /\ Published(entry[i]) /\ index(key[entry[i]]) = i
        /\ Whole(entry[i]) \/ \E p \in Procs : opened[p] = entry[i]

EntryInv == \A i \in Indices : EntryOf(i)

OpenOf(p) ==
    /\ pc[p] \in Early \cup {"stage", "write lift", "exists"} => opened[p] = None
    /\ pc[p] \in {"unlink", "rmdir"} => opened[p] # None
    /\ opened[p] # None =>
         /\ Published(opened[p]) /\ key[p] # None
         /\ index(key[opened[p]]) = index(key[p])

OpenInv == \A p \in Procs : OpenOf(p)

ReadOf(p) ==
    /\ \A d \in ghost[p].from : Published(d)
    /\ pc[p] = "lift" => \E d \in Procs : ghost[p].from = {d} /\ key[d] = key[p]

ReadInv == \A p \in Procs : ReadOf(p)

WrongOf(p) ==
    outcome[p] = "hit" /\ lift[p] # Lift(key[p]) =>
        Swapped(p) \/ \E d \in ghost[p].from : Drifted(d)

IndInv == TypeOK /\ KeyInv /\ DirInv /\ EntryInv /\ OpenInv /\ ReadInv /\ WrongHitHasCause

-----------------------------------------------------------------------------
(* An absence is none of the values it stands beside.                      *)
LEMMA NoneIsNoValue ==
    None \notin Procs /\ None \notin Manifests /\ None \notin Lifts /\ None \notin Headers
BY NoneApart

(* The manifest of a source and include files, and their lift.             *)
LEMMA ManifestType ==
    ASSUME NEW p \in Procs, NEW h \in Headers
    PROVE  <<source[p], h>> \in Manifests /\ Lift(<<source[p], h>>) \in Lifts
BY DEF Manifests, Lifts

(* The index of a key is an index.                                         *)
LEMMA KeyIndex ==
    ASSUME NEW m \in Manifests
    PROVE  index(m) \in Indices
BY DEF Indices

(* A path that a keyed process resolves leads to a published directory.    *)
LEMMA KeyDir ==
    ASSUME TypeOK, KeyInv, NEW p \in Procs, pc[p] \in {"manifest", "lift"} \cup Storing
    PROVE  /\ key[p] \in Manifests /\ index(key[p]) \in Indices
           /\ EntryDir(p) \subseteq Procs
           /\ \A d \in EntryDir(p) : entry[index(key[p])] = d /\ d # None
<1>1. key[p] \in Manifests
    BY DEF TypeOK, KeyInv, KeyOf
<1>2. index(key[p]) \in Indices
    BY <1>1, KeyIndex
<1> QED
    BY <1>1, <1>2 DEF TypeOK, EntryDir

(* A process moves only itself, and never after it has ended.              *)
LEMMA Local ==
    ASSUME TypeOK, NEW p \in Procs, Step(p) \/ Killed(p)
    PROVE  /\ ~Ended(p)
           /\ pc[p] # "key" => key' = key
           /\ \A q \in Procs \ {p} :
                /\ pc'[q] = pc[q] /\ key'[q] = key[q] /\ opened'[q] = opened[q]
                /\ lift'[q] = lift[q] /\ outcome'[q] = outcome[q] /\ ghost'[q] = ghost[q]
<1> USE DEF TypeOK, Goto, StepsTo, DiskUnchanged, Ended
<1>1. CASE BuildKey(p)
    BY <1>1 DEF BuildKey
<1>2. CASE ReadManifest(p)
    BY <1>2 DEF ReadManifest
<1>3. CASE ReadLift(p)
    BY <1>3 DEF ReadLift
<1>4. CASE RunTools(p)
    BY <1>4 DEF RunTools
<1>5. CASE Stage(p)
    BY <1>5 DEF Stage
<1>6. CASE WriteLift(p)
    BY <1>6 DEF WriteLift
<1>7. CASE Exists(p)
    BY <1>7 DEF Exists
<1>8. CASE Unlink(p)
    BY <1>8 DEF Unlink
<1>9. CASE RemoveDir(p)
    BY <1>9 DEF RemoveDir
<1>10. CASE Rename(p)
    BY <1>10 DEF Rename
<1>11. CASE Cleanup(p)
    BY <1>11 DEF Cleanup
<1>12. CASE StoreFails(p)
    BY <1>12 DEF StoreFails
<1>13. CASE Killed(p)
    BY <1>13 DEF Killed
<1> QED
    BY <1>1, <1>2, <1>3, <1>4, <1>5, <1>6, <1>7, <1>8, <1>9, <1>10, <1>11, <1>12, <1>13 DEF Step

(* What a read adds to the history of a process.                           *)
Ghosts == [from : SUBSET Procs, ran : Headers \cup {None}]

LEMMA GhostType ==
    ASSUME NEW g \in [Procs -> Ghosts], NEW p \in Procs, NEW e \in Procs, NEW h \in Headers
    PROVE  /\ [g EXCEPT ![p].from = {e}] \in [Procs -> Ghosts]
           /\ [g EXCEPT ![p].from = @ \cup {e}, ![p].ran = h] \in [Procs -> Ghosts]
<1>1. g[p] \in Ghosts /\ g[p].from \in SUBSET Procs
    BY DEF Ghosts
<1>2. [g[p] EXCEPT !.from = {e}] \in Ghosts
    BY <1>1 DEF Ghosts
<1>3. [g[p] EXCEPT !.from = @ \cup {e}, !.ran = h] \in Ghosts
    BY <1>1 DEF Ghosts
<1>4. [g EXCEPT ![p].from = {e}] = [g EXCEPT ![p] = [g[p] EXCEPT !.from = {e}]]
    OBVIOUS
<1>5. [g EXCEPT ![p].from = @ \cup {e}, ![p].ran = h]
        = [g EXCEPT ![p] = [g[p] EXCEPT !.from = @ \cup {e}, !.ran = h]]
    OBVIOUS
<1> QED
    BY <1>2, <1>3, <1>4, <1>5

(* Removing a file leaves a directory with files or none.                  *)
LEMMA RemovedType ==
    ASSUME NEW ds \in [Procs -> Files], NEW d, NEW f \in {"manifest", "lift"}
    PROVE  [ds EXCEPT ![d][f] = None] \in [Procs -> Files]
<1>1. CASE d \notin Procs
    BY <1>1
<1>2. CASE d \in Procs
  <2>1. ds[d] \in Files
      BY <1>2
  <2>2. [ds[d] EXCEPT !["manifest"] = None] \in Files
      BY <2>1 DEF Files
  <2>3. [ds[d] EXCEPT !["lift"] = None] \in Files
      BY <2>1 DEF Files
  <2>4. [ds[d] EXCEPT ![f] = None] \in Files
      BY <2>2, <2>3
  <2>5. [ds EXCEPT ![d][f] = None] = [ds EXCEPT ![d] = [ds[d] EXCEPT ![f] = None]]
      OBVIOUS
  <2> QED
      BY <1>2, <2>4, <2>5
<1> QED
    BY <1>1, <1>2

(* Every step keeps the types.                                             *)
LEMMA TypeStep ==
    ASSUME TypeOK, KeyInv, OpenInv, NEW p \in Procs, Step(p) \/ Killed(p)
    PROVE  TypeOK'
<1> USE DEF TypeOK, Goto, StepsTo, DiskUnchanged, Places
<1>1. CASE BuildKey(p)
  <2>1. <<source[p], header>> \in Manifests
      BY ManifestType
  <2>2. key' \in [Procs -> Manifests \cup {None}]
      BY <1>1, <2>1 DEF BuildKey
  <2> QED
      BY <1>1, <2>2 DEF BuildKey
<1>2. CASE ReadManifest(p)
  <2>1. EntryDir(p) \subseteq Procs
      BY <1>2, KeyDir DEF ReadManifest
  <2>2. ghost' \in [Procs -> [from : SUBSET Procs, ran : Headers \cup {None}]]
    <3>1. CASE UNCHANGED ghost
        BY <3>1
    <3>2. ASSUME NEW e \in EntryDir(p), ghost' = [ghost EXCEPT ![p].from = {e}]
          PROVE  ghost' \in [Procs -> [from : SUBSET Procs, ran : Headers \cup {None}]]
        BY <2>1, <3>2, GhostType DEF Ghosts
    <3> QED
        BY <1>2, <3>1, <3>2 DEF ReadManifest
  <2>3. pc' \in [Procs -> Places]
      BY <1>2 DEF ReadManifest
  <2>4. UNCHANGED <<header, edits, dir, staged, entry, key, opened, lift, outcome>>
      BY <1>2 DEF ReadManifest
  <2> QED
      BY <2>2, <2>3, <2>4
<1>3. CASE ReadLift(p)
  <2>1. EntryDir(p) \subseteq Procs
      BY <1>3, KeyDir DEF ReadLift
  <2>2. CASE Goto(p, "tools") /\ UNCHANGED <<lift, outcome, ghost>>
      BY <1>3, <2>2 DEF ReadLift
  <2>3. ASSUME NEW e \in EntryDir(p), dir[e].lift # None,
               lift' = [lift EXCEPT ![p] = dir[e].lift],
               ghost' = [ghost EXCEPT ![p].from = @ \cup {e}, ![p].ran = header],
               outcome' = [outcome EXCEPT ![p] = "hit"],
               Goto(p, "done")
        PROVE  TypeOK'
    <3>1. dir[e].lift \in Lifts \cup {None}
        BY <2>1, <2>3 DEF Files
    <3>2. lift' \in [Procs -> Lifts \cup {None}]
        BY <2>3, <3>1
    <3>3. ghost' \in [Procs -> [from : SUBSET Procs, ran : Headers \cup {None}]]
        <4>1. e \in Procs /\ header \in Headers
            BY <2>1
        <4> QED
            BY <2>3, <4>1, GhostType DEF Ghosts
    <3> QED
        BY <1>3, <2>3, <3>2, <3>3 DEF ReadLift
  <2> QED
      BY <1>3, <2>2, <2>3 DEF ReadLift
<1>4. CASE RunTools(p)
  <2>1. Lift(<<source[p], header>>) \in Lifts
      BY ManifestType
  <2>2. lift' \in [Procs -> Lifts \cup {None}]
      BY <1>4, <2>1 DEF RunTools
  <2>3. ghost' \in [Procs -> [from : SUBSET Procs, ran : Headers \cup {None}]]
    <3>1. ghost' = [ghost EXCEPT ![p].ran = header]
        BY <1>4 DEF RunTools
    <3> QED
        BY <3>1
  <2>4. \E o \in {"bypassed", "miss", "error"}, to \in {"done", "stage"} :
          outcome' = [outcome EXCEPT ![p] = o] /\ pc' = [pc EXCEPT ![p] = to]
      BY <1>4 DEF RunTools
  <2>5. /\ pc' \in [Procs -> Places]
        /\ outcome' \in [Procs -> {"none", "hit", "miss", "bypassed", "error"}]
      BY <2>4
  <2> QED
      BY <1>4, <2>2, <2>3, <2>5 DEF RunTools
<1>5. CASE Stage(p)
    BY <1>5 DEF Stage, Files
<1>6. CASE WriteLift(p)
    BY <1>6 DEF WriteLift, Files
<1>7. CASE Exists(p)
  <2>1. EntryDir(p) \subseteq Procs
      BY <1>7, KeyDir DEF Exists, Storing, Replacing
  <2>2. CASE StepsTo(p, "exists", "rename") /\ UNCHANGED opened
      BY <1>7, <2>2 DEF Exists
  <2>3. ASSUME StepsTo(p, "exists", "unlink"),
               NEW e \in EntryDir(p), opened' = [opened EXCEPT ![p] = e]
        PROVE  TypeOK'
      BY <1>7, <2>1, <2>3 DEF Exists
  <2> QED
      BY <1>7, <2>2, <2>3 DEF Exists
<1>8. CASE Unlink(p)
  <2>1. dir' \in [Procs -> Files]
    <3>1. CASE UNCHANGED dir
        BY <3>1
    <3>2. ASSUME NEW f \in {"manifest", "lift"}, dir' = [dir EXCEPT ![opened[p]][f] = None]
          PROVE  dir' \in [Procs -> Files]
        BY <3>2, RemovedType
    <3> QED
        BY ONLY <1>8, <3>1, <3>2 DEF Unlink
  <2> QED
      BY <1>8, <2>1 DEF Unlink
<1>9. CASE RemoveDir(p)
    BY <1>9 DEF RemoveDir
<1>10. CASE Rename(p)
    BY <1>10 DEF Rename
<1>11. CASE Cleanup(p)
  <2>1. NoFile \in Files
      BY DEF NoFile, Files
  <2>2. dir' \in [Procs -> Files]
      BY <1>11, <2>1 DEF Cleanup
  <2> QED
      BY <1>11, <2>2 DEF Cleanup
<1>12. CASE StoreFails(p)
  <2>1. UNCHANGED <<header, edits, dir, staged, entry, key, opened, lift, outcome, ghost>>
      BY ONLY <1>12 DEF StoreFails, DiskUnchanged
  <2>2. pc' \in [Procs -> Places]
      BY <1>12 DEF StoreFails
  <2> QED
      BY <2>1, <2>2
<1>13. CASE Killed(p)
  <2>1. UNCHANGED <<header, edits, dir, staged, entry, key, opened, lift, outcome, ghost>>
      BY ONLY <1>13 DEF Killed, DiskUnchanged
  <2>2. pc' \in [Procs -> Places]
      BY <1>13 DEF Killed
  <2> QED
      BY <2>1, <2>2
<1> HIDE DEF TypeOK, Goto, StepsTo, DiskUnchanged, Places
<1> QED
    BY <1>1, <1>2, <1>3, <1>4, <1>5, <1>6, <1>7, <1>8, <1>9, <1>10, <1>11, <1>12, <1>13 DEF Step

(* A key names the source of its process and stays with it.                 *)
LEMMA KeyStep ==
    ASSUME TypeOK, KeyInv, NEW p \in Procs, Step(p) \/ Killed(p)
    PROVE  KeyInv'
<1> SUFFICES ASSUME NEW q \in Procs PROVE KeyOf(q)'
    BY DEF KeyInv
<1>0. KeyOf(q)
    BY DEF KeyInv
<1>1. CASE q # p
    BY <1>0, <1>1, Local DEF KeyOf
<1>2. CASE q = p
  <2>0. <<source[p], header>> \in Manifests /\ <<source[p], header>> # None
    <3>1. header \in Headers
        BY DEF TypeOK
    <3>2. <<source[p], header>> \in Manifests
        BY <3>1, ManifestType
    <3> QED
        BY ONLY <3>2, NoneIsNoValue
  <2> USE <1>0, <1>2 DEF KeyOf, TypeOK, Goto, StepsTo, DiskUnchanged, Storing, Replacing
  <2>1. CASE BuildKey(p)
    <3>2. CASE key' = [key EXCEPT ![p] = <<source[p], header>>]
      <4>1. key'[p] = <<source[p], header>>
          BY <3>2
      <4>2. key'[p] = <<source[p], key'[p][2]>>
          BY ONLY <4>1
      <4>3. UNCHANGED outcome /\ pc[p] = "key"
          BY <2>1 DEF BuildKey
      <4> QED
          BY <2>0, <4>1, <4>2, <4>3
    <3>3. CASE UNCHANGED key /\ Goto(p, "tools")
        BY <2>1, <3>3 DEF BuildKey
    <3> QED
        BY <2>1, <3>2, <3>3 DEF BuildKey
  <2>2. CASE ReadManifest(p)
      BY <2>2 DEF ReadManifest
  <2>3. CASE ReadLift(p)
      BY <2>3 DEF ReadLift
  <2>4. CASE RunTools(p)
      BY <2>4 DEF RunTools
  <2>5. CASE Stage(p)
      BY <2>5 DEF Stage
  <2>6. CASE WriteLift(p)
      BY <2>6 DEF WriteLift
  <2>7. CASE Exists(p)
      BY <2>7 DEF Exists
  <2>8. CASE Unlink(p)
      BY <2>8 DEF Unlink
  <2>9. CASE RemoveDir(p)
      BY <2>9 DEF RemoveDir
  <2>10. CASE Rename(p)
      BY <2>10 DEF Rename
  <2>11. CASE Cleanup(p)
      BY <2>11 DEF Cleanup
  <2>12. CASE StoreFails(p)
      BY <2>12 DEF StoreFails
  <2>13. CASE Killed(p)
      BY <2>13 DEF Killed, Ended
  <2> QED
      BY <2>1, <2>2, <2>3, <2>4, <2>5, <2>6, <2>7, <2>8, <2>9, <2>10, <2>11, <2>12, <2>13 DEF Step
<1> QED
    BY <1>1, <1>2

(* Of another process's directory, a step only removes files, and only if  *)
(* it opened it as a published entry.                                      *)
LEMMA DirLocal ==
    ASSUME TypeOK, OpenInv, NEW p \in Procs, Step(p) \/ Killed(p), NEW q \in Procs \ {p}
    PROVE  /\ q \in staged' => q \in staged
           /\ \/ dir'[q] = dir[q]
              \/ /\ opened[p] = q /\ opened' = opened /\ Published(q)
                 /\ dir'[q].manifest \in {None, dir[q].manifest}
                 /\ dir'[q].lift \in {None, dir[q].lift}
<1> USE DEF TypeOK, StepsTo, DiskUnchanged
<1>1. CASE Unlink(p)
  <2>1. opened[p] \in Procs /\ opened[p] # None /\ Published(opened[p])
      BY <1>1 DEF Unlink, OpenInv, OpenOf
  <2>2. staged' = staged /\ opened' = opened
      BY <1>1 DEF Unlink
  <2>3. ASSUME NEW f \in {"manifest", "lift"}, dir' = [dir EXCEPT ![opened[p]][f] = None]
        PROVE  \/ dir'[q] = dir[q]
               \/ /\ opened[p] = q
                  /\ dir'[q].manifest \in {None, dir[q].manifest}
                  /\ dir'[q].lift \in {None, dir[q].lift}
    <3>1. CASE opened[p] # q
        BY <2>3, <3>1
    <3>2. CASE opened[p] = q /\ f = "manifest"
        BY <2>3, <3>2 DEF Files
    <3>3. CASE opened[p] = q /\ f = "lift"
        BY <2>3, <3>3 DEF Files
    <3> QED
        BY <3>1, <3>2, <3>3
  <2> QED
      BY <1>1, <2>1, <2>2, <2>3 DEF Unlink
<1>2. CASE Stage(p) \/ WriteLift(p) \/ Cleanup(p)
    BY <1>2 DEF Stage, WriteLift, Cleanup
<1>3. CASE Exists(p) \/ RemoveDir(p) \/ Rename(p)
    BY <1>3 DEF Exists, RemoveDir, Rename
<1>4. CASE BuildKey(p) \/ ReadManifest(p) \/ ReadLift(p) \/ RunTools(p) \/ StoreFails(p) \/ Killed(p)
    BY <1>4 DEF BuildKey, ReadManifest, ReadLift, RunTools, StoreFails, Killed
<1> QED
    BY <1>1, <1>2, <1>3, <1>4 DEF Step

(* The owner alone fills its directory; a remover meets it published.      *)
LEMMA DirStep ==
    ASSUME TypeOK, KeyInv, DirInv, OpenInv, NEW p \in Procs, Step(p) \/ Killed(p)
    PROVE  DirInv'
<1> SUFFICES ASSUME NEW q \in Procs PROVE DirOf(q)'
    BY DEF DirInv
<1>0. DirOf(q) /\ KeyOf(q)
    BY DEF DirInv, KeyInv
<1>1. CASE q # p
  <2>1. /\ pc'[q] = pc[q] /\ key'[q] = key[q] /\ lift'[q] = lift[q] /\ Made(q)' = Made(q)
        /\ q \in staged' => q \in staged
      BY <1>1, Local, DirLocal DEF Made
  <2>2. CASE dir'[q] = dir[q]
      BY <1>0, <2>1, <2>2 DEF DirOf
  <2>3. CASE /\ Published(q)
             /\ dir'[q].manifest \in {None, dir[q].manifest}
             /\ dir'[q].lift \in {None, dir[q].lift}
      BY <1>0, <2>1, <2>3 DEF DirOf, Published, Early, Storing, Replacing
  <2> QED
      BY <1>1, <2>2, <2>3, DirLocal
<1>2. CASE q = p
  <2> USE <1>0, <1>2 DEF TypeOK, Goto, StepsTo, DiskUnchanged, Early, Storing, Replacing
  <2>1. ASSUME pc[p] \in Early, dir' = dir, staged' = staged, pc'[p] \in Early \cup {"done", "killed"}
        PROVE  DirOf(p)'
    <3>1. dir'[p] = NoFile /\ p \notin staged'
        BY <2>1 DEF DirOf
    <3>2. dir'[p].manifest = None /\ dir'[p].lift = None
        BY <3>1 DEF NoFile
    <3> QED
        BY <2>1, <3>1, <3>2 DEF DirOf
  <2>2. CASE BuildKey(p) \/ ReadManifest(p) \/ ReadLift(p)
    <3>1. pc[p] \in Early /\ dir' = dir /\ staged' = staged /\ pc'[p] \in Early \cup {"done"}
        BY <2>2 DEF BuildKey, ReadManifest, ReadLift
    <3> QED
        BY <2>1, <3>1
  <2>3. CASE RunTools(p)
    <3>1. pc[p] \in Early /\ dir' = dir /\ staged' = staged
        BY <2>3 DEF RunTools
    <3>2. CASE pc'[p] = "done"
        BY <2>1, <3>1, <3>2
    <3>3. CASE pc'[p] # "done"
      <4>1. pc'[p] = "stage" /\ lift'[p] = Lift(<<source[p], header>>) /\ ghost'[p].ran = header
          BY <2>3, <3>3 DEF RunTools
      <4>2. lift'[p] = Made(p)' /\ lift'[p] # None
          BY <4>1, ManifestType, NoneIsNoValue DEF Made
      <4>3. dir'[p] = NoFile /\ p \notin staged'
          BY <3>1 DEF DirOf
      <4>4. dir'[p].manifest = None /\ dir'[p].lift = None
          BY <4>3 DEF NoFile
      <4> QED
          BY <4>1, <4>2, <4>3, <4>4 DEF DirOf
    <3> QED
        BY <3>2, <3>3
  <2>4. ASSUME UNCHANGED <<key, lift, ghost>> PROVE Made(p)' = Made(p) /\ UNCHANGED <<key, lift>>
      BY <2>4 DEF Made
  <2>5. CASE Stage(p)
    <3>1. Made(p)' = Made(p) /\ UNCHANGED <<key, lift>>
        BY <2>4, <2>5 DEF Stage
    <3>2. dir'[p].manifest = key[p] /\ dir'[p].lift = dir[p].lift
      <4>1. dir' = [dir EXCEPT ![p].manifest = key[p]]
          BY <2>5 DEF Stage
      <4> QED
          BY <4>1 DEF Files
    <3>3. pc[p] = "stage" /\ pc'[p] = "write lift"
        BY <2>5 DEF Stage
    <3> QED
        BY <3>1, <3>2, <3>3 DEF DirOf
  <2>6. CASE WriteLift(p)
    <3>1. Made(p)' = Made(p) /\ UNCHANGED <<key, lift>>
        BY <2>4, <2>6 DEF WriteLift
    <3>2. dir'[p].manifest = dir[p].manifest /\ dir'[p].lift = lift[p]
      <4>1. dir' = [dir EXCEPT ![p].lift = lift[p]]
          BY <2>6 DEF WriteLift
      <4> QED
          BY <4>1 DEF Files
    <3>3. pc[p] = "write lift" /\ pc'[p] = "exists"
        BY <2>6 DEF WriteLift
    <3> QED
        BY <3>1, <3>2, <3>3 DEF DirOf
  <2>7. CASE Exists(p) \/ RemoveDir(p)
    <3>1. Made(p)' = Made(p) /\ UNCHANGED <<key, lift>>
        BY <2>4, <2>7 DEF Exists, RemoveDir
    <3>2. pc[p] \in Replacing /\ pc'[p] \in Replacing /\ dir' = dir /\ staged' = staged
        BY <2>7 DEF Exists, RemoveDir
    <3> QED
        BY <3>1, <3>2 DEF DirOf
  <2>8. CASE Unlink(p)
    <3>1. Made(p)' = Made(p) /\ UNCHANGED <<key, lift>>
        BY <2>4, <2>8 DEF Unlink
    <3>2. pc[p] = "unlink" /\ pc'[p] \in Replacing /\ staged' = staged
        BY <2>8 DEF Unlink
    <3>3. opened[p] \in Procs /\ opened[p] # p
        BY <3>2 DEF OpenInv, OpenOf, Published
    <3>4. dir'[p] = dir[p]
        BY <2>8, <3>3 DEF Unlink
    <3> QED
        BY <3>1, <3>2, <3>4 DEF DirOf
  <2>9. CASE Rename(p)
    <3>1. Made(p)' = Made(p) /\ UNCHANGED <<key, lift>>
        BY <2>4, <2>9 DEF Rename
    <3>2. pc'[p] = "done" /\ dir' = dir /\ p \notin staged'
        BY <2>9 DEF Rename
    <3> QED
        BY <3>1, <3>2 DEF DirOf
  <2>10. CASE Cleanup(p)
    <3>1. dir'[p].manifest = None /\ dir'[p].lift = None
        BY <2>10 DEF Cleanup, NoFile
    <3>2. pc'[p] = "done" /\ p \notin staged'
        BY <2>10 DEF Cleanup
    <3> QED
        BY <3>1, <3>2 DEF DirOf
  <2>11. CASE StoreFails(p) \/ Killed(p)
    <3>1. Made(p)' = Made(p) /\ UNCHANGED <<key, lift>>
        BY <2>4, <2>11 DEF StoreFails, Killed
    <3>2. pc'[p] \in {"cleanup", "leaked", "killed"} /\ dir' = dir /\ staged' = staged
        BY <2>11 DEF StoreFails, Killed
    <3> QED
        BY <3>1, <3>2 DEF DirOf
  <2> QED
      BY <2>2, <2>3, <2>5, <2>6, <2>7, <2>8, <2>9, <2>10, <2>11 DEF Step
<1> QED
    BY <1>1, <1>2

(* What a published directory's owner was keyed and ran on no longer       *)
(* changes.                                                                *)
LEMMA PublishedStays ==
    ASSUME TypeOK, NEW p \in Procs, Step(p) \/ Killed(p), NEW d \in Procs, Published(d)
    PROVE  Published(d)' /\ d # p /\ key'[d] = key[d] /\ ghost'[d] = ghost[d]
BY Local DEF Published, Ended

(* A remover opens what the entry's path leads to, under its own index.    *)
LEMMA OpenStep ==
    ASSUME TypeOK, KeyInv, EntryInv, OpenInv, NEW p \in Procs, Step(p) \/ Killed(p)
    PROVE  OpenInv'
<1> SUFFICES ASSUME NEW q \in Procs PROVE OpenOf(q)'
    BY DEF OpenInv
<1>0. OpenOf(q)
    BY DEF OpenInv
<1>1. ASSUME opened'[q] = opened[q], opened[q] # None
      PROVE  Published(opened[q])' /\ key'[q] # None /\ index(key'[opened[q]]) = index(key'[q])
  <2>1. Published(opened[q])' /\ key'[opened[q]] = key[opened[q]]
      BY <1>0, <1>1, PublishedStays DEF OpenOf, TypeOK
  <2>2. key'[q] = key[q]
      BY <1>0, <1>1, Local DEF OpenOf, Early
  <2> QED
      BY <1>0, <1>1, <2>1, <2>2 DEF OpenOf
<1>2. CASE q # p
  <2>1. opened'[q] = opened[q] /\ pc'[q] = pc[q]
      BY <1>2, Local
  <2> QED
      BY <1>0, <1>1, <2>1 DEF OpenOf
<1>3. CASE q = p
  <2> USE <1>0, <1>1, <1>3 DEF TypeOK, Goto, StepsTo, DiskUnchanged, Early
  <2>1. CASE BuildKey(p) \/ ReadManifest(p) \/ ReadLift(p) \/ RunTools(p)
    <3>1. pc[p] \in Early /\ opened'[p] = opened[p] /\ pc'[p] \in Early \cup {"stage", "done"}
        BY <2>1 DEF BuildKey, ReadManifest, ReadLift, RunTools
    <3> QED
        BY <3>1 DEF OpenOf
  <2>2. CASE Stage(p) \/ WriteLift(p)
    <3>1. /\ pc[p] \in {"stage", "write lift"} /\ opened'[p] = opened[p]
          /\ pc'[p] \in {"write lift", "exists"}
        BY <2>2 DEF Stage, WriteLift
    <3> QED
        BY <3>1 DEF OpenOf
  <2>3. CASE Exists(p)
    <3>1. CASE StepsTo(p, "exists", "rename") /\ UNCHANGED opened
        BY <3>1 DEF OpenOf
    <3>2. ASSUME StepsTo(p, "exists", "unlink"),
                 NEW e \in EntryDir(p), opened' = [opened EXCEPT ![p] = e]
          PROVE  OpenOf(p)'
      <4>1. pc[p] = "exists" /\ pc'[p] = "unlink" /\ key' = key /\ opened'[p] = e
          BY <3>2
      <4>2. /\ key[p] # None /\ index(key[p]) \in Indices
            /\ e \in Procs /\ entry[index(key[p])] = e /\ e # None
          BY <3>2, <4>1, KeyDir DEF KeyInv, KeyOf, Storing, Replacing
      <4>3. Published(e) /\ index(key[e]) = index(key[p])
          BY <4>2 DEF EntryInv, EntryOf
      <4>4. Published(e)'
          BY <4>2, <4>3, PublishedStays
      <4> QED
          BY <4>1, <4>2, <4>3, <4>4 DEF OpenOf
    <3> QED
        BY <2>3, <3>1, <3>2 DEF Exists
  <2>4. CASE Unlink(p)
    <3>1. opened'[p] = opened[p] /\ pc[p] = "unlink" /\ pc'[p] \in {"unlink", "rmdir"}
        BY <2>4 DEF Unlink
    <3> QED
        BY <3>1 DEF OpenOf
  <2>5. CASE RemoveDir(p)
      BY <2>5 DEF RemoveDir, OpenOf
  <2>6. CASE Rename(p) \/ Cleanup(p) \/ StoreFails(p) \/ Killed(p)
    <3>1. opened'[p] = opened[p] /\ pc'[p] \in {"done", "cleanup", "leaked", "killed"}
        BY <2>6 DEF Rename, Cleanup, StoreFails, Killed
    <3> QED
        BY <3>1 DEF OpenOf
  <2> QED
      BY <2>1, <2>2, <2>3, <2>4, <2>5, <2>6 DEF Step
<1> QED
    BY <1>2, <1>3

(* A rename publishes a whole directory; files leave an entry only through *)
(* a process that has opened it; who stops removing has removed the entry. *)
LEMMA EntryStep ==
    ASSUME TypeOK, KeyInv, DirInv, EntryInv, OpenInv, NEW p \in Procs, Step(p) \/ Killed(p)
    PROVE  EntryInv'
<1>0. TypeOK'
    BY TypeStep
<1> SUFFICES ASSUME NEW i \in Indices, NEW d \in Procs, entry'[i] = d
             PROVE  /\ Published(d)' /\ index(key'[d]) = i
                    /\ Whole(d)' \/ \E r \in Procs : opened'[r] = d
    BY <1>0 DEF EntryInv, EntryOf, TypeOK
<1>1. CASE entry[i] # d
  <2>1. Rename(p)
      BY <1>1, NoneIsNoValue DEF TypeOK, Step, BuildKey, ReadManifest, ReadLift, RunTools, Stage, WriteLift,
                  Exists, Unlink, RemoveDir, Cleanup, StoreFails, Killed, DiskUnchanged
  <2>2. pc[p] = "rename" /\ pc'[p] = "done" /\ key' = key /\ dir' = dir
      BY <2>1 DEF TypeOK, Rename, StepsTo, Goto
  <2>3. d = p /\ i = index(key[p])
      BY <1>1, <2>1 DEF TypeOK, Rename
  <2>4. key[p] # None /\ dir[p].manifest = key[p] /\ dir[p].lift # None
      BY <2>2 DEF KeyInv, KeyOf, DirInv, DirOf, Storing, Replacing
  <2> QED
      BY <2>2, <2>3, <2>4 DEF Published, Whole
<1>2. CASE entry[i] = d
  <2>1. d # None /\ Published(d) /\ index(key[d]) = i
      BY <1>2, NoneIsNoValue DEF EntryInv, EntryOf
  <2>2. Published(d)' /\ d # p /\ key'[d] = key[d]
      BY <2>1, PublishedStays
  <2>3. CASE Whole(d)
    <3>1. CASE dir'[d] = dir[d]
        BY <1>2, <2>1, <2>2, <2>3, <3>1 DEF Whole
    <3>2. CASE opened[p] = d /\ opened' = opened
        BY <1>2, <2>1, <2>2, <3>2
    <3> QED
        BY <2>1, <2>2, <3>1, <3>2, DirLocal
  <2>4. CASE ~Whole(d)
    <3>1. PICK r \in Procs : opened[r] = d
        BY <1>2, <2>1, <2>4 DEF EntryInv, EntryOf
    <3>2. opened'[r] = d
      <4>1. CASE r # p
          BY <3>1, <4>1, Local
      <4>2. CASE r = p
        <5>1. pc[p] \notin Early \cup {"stage", "write lift", "exists"}
            BY <2>1, <3>1, <4>2 DEF OpenInv, OpenOf
        <5>2. ~RemoveDir(p)
          <6>1. index(key[p]) = i
              BY <1>2, <2>1, <3>1, <4>2 DEF OpenInv, OpenOf
          <6> QED
              BY <2>1, <6>1 DEF RemoveDir, TypeOK
        <5>3. UNCHANGED opened
            BY <5>1, <5>2 DEF Early, Step, BuildKey, ReadManifest, ReadLift, RunTools, Stage,
               WriteLift, Exists, Unlink, Rename, Cleanup, StoreFails, Killed, StepsTo
        <5> QED
            BY <3>1, <4>2, <5>3
      <4> QED
          BY <4>1, <4>2
    <3> QED
        BY <1>2, <2>1, <2>2, <3>2
  <2> QED
      BY <2>3, <2>4
<1> QED
    BY <1>1, <1>2

(* Both reads of a lookup meet published directories, and the first one of *)
(* the reader's manifest.                                                  *)
LEMMA ReadStep ==
    ASSUME TypeOK, KeyInv, DirInv, EntryInv, ReadInv, NEW p \in Procs, Step(p) \/ Killed(p)
    PROVE  ReadInv'
<1> SUFFICES ASSUME NEW q \in Procs PROVE ReadOf(q)'
    BY DEF ReadInv
<1>0. ReadOf(q)
    BY DEF ReadInv
<1>1. ASSUME NEW d \in ghost[q].from
      PROVE  d \in Procs /\ Published(d)' /\ key'[d] = key[d]
    BY <1>0, PublishedStays DEF ReadOf, TypeOK
<1>2. CASE q # p
  <2>1. ghost'[q] = ghost[q] /\ pc'[q] = pc[q] /\ key'[q] = key[q]
      BY <1>2, Local
  <2> QED
      BY <1>0, <1>1, <2>1 DEF ReadOf
<1>3. CASE q = p
  <2> USE <1>3 DEF TypeOK, Goto, StepsTo, DiskUnchanged
  <2>1. ASSUME ghost'[p].from = ghost[p].from, pc'[p] # "lift"
        PROVE  ReadOf(p)'
      BY <1>1, <2>1 DEF ReadOf
  <2>2. ASSUME NEW e \in EntryDir(p), pc[p] \in {"manifest", "lift"}
        PROVE  /\ e \in Procs /\ Published(e)' /\ key'[e] = key[e]
               /\ dir[e].manifest = key[p] => key[e] = key[p]
    <3>1. key[p] # None /\ e \in Procs /\ index(key[p]) \in Indices /\ entry[index(key[p])] = e /\ e # None
        BY <2>2, KeyDir DEF KeyInv, KeyOf
    <3>2. Published(e)
        BY <3>1 DEF EntryInv, EntryOf
    <3>3. Published(e)' /\ key'[e] = key[e]
        BY <3>1, <3>2, PublishedStays
    <3>4. dir[e].manifest \in {None, key[e]}
        BY <3>1 DEF DirInv, DirOf
    <3> QED
        BY <3>1, <3>3, <3>4
  <2>3. CASE ReadManifest(p)
    <3>1. CASE Goto(p, "tools") /\ UNCHANGED ghost
        BY <2>1, <3>1
    <3>2. ASSUME NEW e \in EntryDir(p), dir[e].manifest = key[p],
                 ghost' = [ghost EXCEPT ![p].from = {e}]
          PROVE  ReadOf(p)'
      <4>1. ghost'[p].from = {e} /\ key' = key
          BY <2>3, <3>2 DEF ReadManifest
      <4>2. e \in Procs /\ Published(e)' /\ key[e] = key[p]
          BY <2>2, <2>3, <3>2 DEF ReadManifest
      <4> QED
          BY <4>1, <4>2 DEF ReadOf
    <3> QED
        BY <2>3, <3>1, <3>2 DEF ReadManifest
  <2>4. CASE ReadLift(p)
    <3>1. CASE Goto(p, "tools") /\ UNCHANGED ghost
        BY <2>1, <3>1
    <3>2. ASSUME NEW e \in EntryDir(p), Goto(p, "done"),
                 ghost' = [ghost EXCEPT ![p].from = @ \cup {e}, ![p].ran = header]
          PROVE  ReadOf(p)'
      <4>1. ghost'[p].from = ghost[p].from \cup {e} /\ pc'[p] # "lift"
          BY <3>2
      <4>2. Published(e)'
          BY <2>2, <2>4, <3>2 DEF ReadLift
      <4> QED
          BY <1>1, <4>1, <4>2 DEF ReadOf
    <3> QED
        BY <2>4, <3>1, <3>2 DEF ReadLift
  <2>5. CASE RunTools(p)
    <3>1. ghost' = [ghost EXCEPT ![p].ran = header] /\ pc'[p] # "lift"
        BY <2>5 DEF RunTools
    <3>2. ghost'[p].from = ghost[p].from
        BY <3>1
    <3> QED
        BY <2>1, <3>1, <3>2
  <2>6. CASE ~(ReadManifest(p) \/ ReadLift(p) \/ RunTools(p))
    <3>1. UNCHANGED ghost /\ pc'[p] # "lift"
        BY <2>6 DEF Step, BuildKey, Stage, WriteLift, Exists, Unlink, RemoveDir, Rename,
                    Cleanup, StoreFails, Killed
    <3> QED
        BY <2>1, <3>1
  <2> QED
      BY <2>3, <2>4, <2>5, <2>6
<1> QED
    BY <1>2, <1>3

(* The lift a hit takes was made by the tools of the entry's owner; if the *)
(* owner's manifest is the reader's, it is the wrong one only if the       *)
(* include files had changed under the owner's tools.                      *)
LEMMA WrongStep ==
    ASSUME TypeOK, KeyInv, DirInv, EntryInv, ReadInv, WrongHitHasCause,
           NEW p \in Procs, Step(p) \/ Killed(p)
    PROVE  WrongHitHasCause'
<1> SUFFICES ASSUME NEW q \in Procs PROVE WrongOf(q)'
    BY DEF WrongHitHasCause, WrongOf
<1>0. WrongOf(q) /\ ReadOf(q) /\ KeyOf(q)
    BY DEF WrongHitHasCause, WrongOf, ReadInv, KeyInv
<1>1. ASSUME NEW d \in ghost[q].from
      PROVE  d \in Procs /\ key'[d] = key[d] /\ ghost'[d] = ghost[d]
    BY <1>0, PublishedStays DEF ReadOf, TypeOK
<1>2. CASE q # p
  <2>1. /\ ghost'[q] = ghost[q] /\ key'[q] = key[q] /\ lift'[q] = lift[q]
        /\ outcome'[q] = outcome[q]
      BY <1>2, Local
  <2>2. Swapped(q) => Swapped(q)'
      BY <1>1, <2>1 DEF Swapped
  <2>3. ASSUME NEW d \in ghost[q].from, Drifted(d) PROVE Drifted(d)'
      BY <1>1, <2>3 DEF Drifted
  <2> QED
      BY <1>0, <2>1, <2>2, <2>3 DEF WrongOf
<1>3. CASE q = p
  <2> USE <1>3 DEF TypeOK, Goto, StepsTo
  <2>1. CASE outcome'[p] # "hit"
      BY <2>1 DEF WrongOf
  <2>2. CASE outcome'[p] = "hit"
    <3>1. outcome[p] # "hit"
        BY <1>0, Local DEF KeyOf, Ended
    <3>2. ReadLift(p)
        BY <2>2, <3>1 DEF Step, BuildKey, ReadManifest, RunTools, Stage, WriteLift, Exists,
           Unlink, RemoveDir, Rename, Cleanup, StoreFails, Killed
    <3>3. PICK e \in EntryDir(p) :
            /\ dir[e].lift # None
            /\ lift' = [lift EXCEPT ![p] = dir[e].lift]
            /\ ghost' = [ghost EXCEPT ![p].from = @ \cup {e}, ![p].ran = header]
        BY <2>2, <3>1, <3>2 DEF ReadLift
    <3>4. pc[p] = "lift" /\ key' = key
        BY <3>2 DEF ReadLift
    <3>5. PICK d \in Procs : ghost[p].from = {d} /\ key[d] = key[p]
        BY <1>0, <3>4 DEF ReadOf
    <3>6. /\ key[p] # None /\ e \in Procs /\ index(key[p]) \in Indices
          /\ entry[index(key[p])] = e /\ e # None
        BY <1>0, <3>3, <3>4, KeyDir DEF KeyOf
    <3>7. Published(e) /\ e # p /\ ghost'[e] = ghost[e]
        BY <3>6, PublishedStays DEF EntryInv, EntryOf
    <3>8. ghost'[p].from = {d, e}
        BY <3>3, <3>5
    <3>9. lift'[p] = Made(e)
        BY <3>3, <3>6 DEF DirInv, DirOf
    <3>10. CASE key[e] # key[d]
        BY <3>4, <3>8, <3>10 DEF WrongOf, Swapped
    <3>11. CASE key[e] = key[d]
      <4>1. key[p] = <<source[e], key[e][2]>>
          BY <3>5, <3>6, <3>7, <3>11 DEF KeyInv, KeyOf
      <4>2. ghost[e].ran = key[e][2] => lift'[p] = Lift(key[p])
          BY <3>9, <4>1 DEF Made
      <4>3. ghost[e].ran # key[e][2] => Drifted(e)'
          BY <3>4, <3>7 DEF Drifted
      <4> QED
          BY <3>4, <3>8, <4>2, <4>3 DEF WrongOf
    <3> QED
        BY <3>10, <3>11
  <2> QED
      BY <2>1, <2>2
<1> QED
    BY <1>2, <1>3

-----------------------------------------------------------------------------
(* Before any process has begun, there is nothing on disk.                 *)
LEMMA IndInit == Init => IndInv
<1> SUFFICES ASSUME Init PROVE IndInv
    OBVIOUS
<1> USE DEF Init
<1>1. TypeOK
    BY EditsBounded DEF TypeOK, Files, NoFile, Places
<1>2. KeyInv
    BY DEF KeyInv, KeyOf, Storing, Replacing
<1>3. DirInv
    BY DEF DirInv, DirOf, NoFile, Early, Storing, Replacing
<1>4. EntryInv
    BY DEF EntryInv, EntryOf
<1>5. OpenInv
    BY DEF OpenInv, OpenOf
<1>6. ReadInv
    BY DEF ReadInv, ReadOf
<1>7. WrongHitHasCause
    BY DEF WrongHitHasCause
<1> QED
    BY <1>1, <1>2, <1>3, <1>4, <1>5, <1>6, <1>7 DEF IndInv

(* An edit of the include files changes nothing that was read before it.   *)
LEMMA EditStep == IndInv /\ EditHeader => IndInv'
<1> SUFFICES ASSUME IndInv, EditHeader PROVE IndInv'
    OBVIOUS
<1> USE DEF IndInv, EditHeader
<1>1. TypeOK'
    BY EditsBounded DEF TypeOK
<1>2. KeyInv' /\ DirInv'
    BY DEF KeyInv, KeyOf, DirInv, DirOf, Made
<1>3. EntryInv' /\ OpenInv' /\ ReadInv'
    BY DEF EntryInv, EntryOf, Whole, OpenInv, OpenOf, ReadInv, ReadOf, Published
<1>4. WrongHitHasCause'
    BY DEF WrongHitHasCause, Swapped, Drifted
<1> QED
    BY <1>1, <1>2, <1>3, <1>4

(* Every step keeps the invariant.                                         *)
LEMMA IndStep == IndInv /\ [Next]_vars => IndInv'
<1> SUFFICES ASSUME IndInv, [Next]_vars PROVE IndInv'
    OBVIOUS
<1>1. ASSUME NEW p \in Procs, Step(p) \/ Killed(p) PROVE IndInv'
    BY <1>1, TypeStep, KeyStep, DirStep, EntryStep, OpenStep, ReadStep, WrongStep DEF IndInv
<1>2. CASE EditHeader
    BY <1>2, EditStep
<1>3. CASE UNCHANGED vars
  <2> USE <1>3 DEF vars, IndInv
  <2>1. TypeOK' /\ KeyInv' /\ DirInv'
      BY DEF TypeOK, KeyInv, KeyOf, DirInv, DirOf, Made
  <2>2. EntryInv' /\ OpenInv' /\ ReadInv'
      BY DEF EntryInv, EntryOf, Whole, OpenInv, OpenOf, ReadInv, ReadOf, Published
  <2>3. WrongHitHasCause'
      BY DEF WrongHitHasCause, Swapped, Drifted
  <2> QED
      BY <2>1, <2>2, <2>3
<1> QED
    BY <1>1, <1>2, <1>3 DEF Next, Finished

(* The inductive invariant holds throughout.                               *)
LEMMA IndInvariant == Spec => []IndInv
BY IndInit, IndStep, PTL DEF Spec

(***************************************************************************)
(* LiftCache::lookup answers a hit with the lift of the reader's own       *)
(* manifest, unless the include files changed between the storing          *)
(* process's key and its tools, or the reader's two reads met two          *)
(* manifests of one index.  No crash, failure or race of removals and      *)
(* renames is a third cause (lift_cache.rs:22-25).                         *)
(***************************************************************************)
THEOREM WrongHitsExplained == Spec => []WrongHitHasCause
<1>1. IndInv => WrongHitHasCause
    BY DEF IndInv
<1> QED
    BY <1>1, IndInvariant, PTL

(***************************************************************************)
(* LiftCache::store never exposes a half-written entry: one that lacks a   *)
(* file has been opened by a removal.  And a process that ends by itself   *)
(* leaves no staging directory behind (lift_cache.rs:267-302).             *)
(***************************************************************************)
THEOREM EntriesWhole == Spec => []TornOnlyByRemoval
<1>1. IndInv => TornOnlyByRemoval
  <2> SUFFICES ASSUME IndInv PROVE TornOnlyByRemoval
      OBVIOUS
  <2>1. ASSUME NEW i \in Indices, entry[i] # None
        PROVE  \/ None \notin {dir[entry[i]].manifest, dir[entry[i]].lift}
               \/ \E p \in Procs : opened[p] = entry[i]
      BY <2>1 DEF IndInv, EntryInv, EntryOf, Whole
  <2>2. ASSUME NEW p \in staged PROVE pc[p] # "done"
      BY <2>2 DEF IndInv, TypeOK, DirInv, DirOf
  <2> QED
      BY <2>1, <2>2 DEF IndInv, TornOnlyByRemoval
<1> QED
    BY <1>1, IndInvariant, PTL

-----------------------------------------------------------------------------
(* The context cache.                                                      *)

(* What get_or_realize makes of an accepted input.                         *)
OwnEntry(i) == [src |-> i, realized |-> Realization(i)]

MapInv ==
    \A k \in DOMAIN cache :
        /\ cache[k].src \in Inputs \ Rejected
        /\ cache[k] = OwnEntry(cache[k].src)
        /\ cache_key[cache[k].src] = k

ThreadInv ==
    \A t \in Threads :
        /\ at[t] # "idle" => input[t] \in Inputs
        /\ at[t] \in {"lock insert", "insert"} =>
             /\ input[t] \notin Rejected
             /\ answer[t] = [kind |-> "fresh", entry |-> OwnEntry(input[t])]

SizeInv == IsFiniteSet(DOMAIN cache) /\ Cardinality(DOMAIN cache) <= MAX_CACHE_SIZE

(* The mutex is held exactly in the two critical sections.                 *)
MutexInv == \A t \in Threads : lock = t <=> at[t] \in {"lookup", "insert"}

CacheInd == CacheTypeOK /\ MapInv /\ ThreadInv /\ SizeInv /\ AnswerIsOwn

-----------------------------------------------------------------------------
(* The entry of an input is an entry.                                      *)
LEMMA OwnEntryType ==
    ASSUME NEW i \in Inputs
    PROVE  OwnEntry(i) \in Entries
BY DEF OwnEntry, Entries, Realization

(* An answer without an entry is an answer.                                *)
LEMMA PlainAnswerType ==
    ASSUME NEW k \in {"none", "err"}
    PROVE  [kind |-> k] \in Answers
BY DEF Answers

(* A thread that notes an answer keeps the answers well typed.             *)
LEMMA AnswerType ==
    ASSUME CacheTypeOK, NEW t \in Threads, NEW a \in Answers, Answer(t, a)
    PROVE  answer' \in [Threads -> Answers]
BY DEF CacheTypeOK, Answer

(* An eviction leaves a finite part of the map, one short of the bound.    *)
LEMMA EvictLeavesRoom ==
    ASSUME SizeInv, NEW kept, Evict(kept)
    PROVE  /\ kept \subseteq DOMAIN cache
           /\ IsFiniteSet(kept)
           /\ Cardinality(kept) + 1 <= MAX_CACHE_SIZE
<1> USE CacheConstants
<1>1. Cardinality(DOMAIN cache) \in Nat
    BY FS_CardinalityType DEF SizeInv
<1>2. CASE Cardinality(DOMAIN cache) >= MAX_CACHE_SIZE
  <2>1. PICK k \in DOMAIN cache : kept = DOMAIN cache \ {k}
      BY <1>2 DEF Evict
  <2>2. IsFiniteSet(kept) /\ Cardinality(kept) = Cardinality(DOMAIN cache) - 1
      BY <2>1, FS_RemoveElement DEF SizeInv
  <2> QED
      BY <1>1, <2>1, <2>2 DEF SizeInv
<1>3. CASE ~(Cardinality(DOMAIN cache) >= MAX_CACHE_SIZE)
  <2>1. kept = DOMAIN cache
      BY <1>3 DEF Evict
  <2> QED
      BY <1>1, <1>3, <2>1 DEF SizeInv
<1> QED
    BY <1>2, <1>3

(* An insertion puts the thread's own entry under its slot and keeps, of    *)
(* the others, what it did not evict.                                      *)
LEMMA InsertEffect ==
    ASSUME CacheInd, NEW t \in Threads, Insert(t)
    PROVE  /\ input[t] \in Inputs \ Rejected
           /\ DOMAIN cache' \subseteq DOMAIN cache \cup {cache_key[input[t]]}
           /\ cache_key[input[t]] \in DOMAIN cache'
           /\ cache'[cache_key[input[t]]] = OwnEntry(input[t])
           /\ \A k \in DOMAIN cache' \ {cache_key[input[t]]} : cache'[k] = cache[k]
           /\ IsFiniteSet(DOMAIN cache')
           /\ Cardinality(DOMAIN cache') <= MAX_CACHE_SIZE
<1> DEFINE slot == cache_key[input[t]]
<1>1. PICK kept \in SUBSET DOMAIN cache :
        /\ Evict(kept)
        /\ cache' = [k \in kept \cup {slot} |->
                       IF k = slot THEN answer[t].entry ELSE cache[k]]
    BY DEF Insert
<1> HIDE DEF slot
<1>2. /\ input[t] \in Inputs \ Rejected
      /\ answer[t].entry = OwnEntry(input[t])
  <2>1. at[t] = "insert"
      BY DEF Insert
  <2>2. /\ input[t] \in Inputs \ Rejected
        /\ answer[t] = [kind |-> "fresh", entry |-> OwnEntry(input[t])]
      BY <2>1 DEF CacheInd, ThreadInv
  <2> QED
      BY <2>2
<1>3. IsFiniteSet(kept) /\ Cardinality(kept) + 1 <= MAX_CACHE_SIZE
    BY <1>1, EvictLeavesRoom DEF CacheInd
<1>4. DOMAIN cache' = kept \cup {slot}
    BY <1>1
<1>5. /\ IsFiniteSet(kept \cup {slot})
      /\ Cardinality(kept \cup {slot}) <= Cardinality(kept) + 1
    BY <1>3, FS_AddElement, FS_CardinalityType
<1>6. Cardinality(kept \cup {slot}) \in Nat /\ Cardinality(kept) \in Nat
    BY <1>3, <1>5, FS_CardinalityType
<1>7. Cardinality(DOMAIN cache') <= MAX_CACHE_SIZE
    BY <1>3, <1>4, <1>5, <1>6, CacheConstants
<1>8. cache'[slot] = OwnEntry(input[t])
    BY <1>1, <1>2
<1>9. \A k \in DOMAIN cache' \ {slot} : cache'[k] = cache[k]
    BY <1>1, <1>4
<1> QED
    BY <1>2, <1>4, <1>5, <1>7, <1>8, <1>9 DEF slot

-----------------------------------------------------------------------------
(* An empty map and idle threads.                                          *)
LEMMA CacheIndInit == CacheInit => CacheInd
<1> SUFFICES ASSUME CacheInit PROVE CacheInd
    OBVIOUS
<1> USE CacheConstants
<1>1. DOMAIN cache = {}
    BY DEF CacheInit
<1>2. CacheTypeOK
    BY <1>1 DEF CacheInit, CacheTypeOK, Stops, Answers
<1>3. MapInv
    BY <1>1 DEF MapInv
<1>4. ThreadInv
    BY DEF CacheInit, ThreadInv
<1>5. SizeInv
    BY <1>1, FS_EmptySet DEF SizeInv
<1>6. AnswerIsOwn
    BY DEF CacheInit, AnswerIsOwn
<1> QED
    BY <1>2, <1>3, <1>4, <1>5, <1>6 DEF CacheInd

(* Only a thread's own step moves it; only Insert touches the map.         *)
LEMMA CacheIndStep == CacheInd /\ [CacheNext]_cache_vars => CacheInd'
<1> SUFFICES ASSUME CacheInd, [CacheNext]_cache_vars PROVE CacheInd'
    OBVIOUS
<1> USE CacheConstants
<1>1. ASSUME NEW t \in Threads, NEW i \in Inputs, Begin(t, i)
      PROVE  CacheInd'
  <2> USE <1>1 DEF Begin, Resume
  <2>1. CacheTypeOK'
    <3>1. [kind |-> "none"] \in Answers
        BY PlainAnswerType
    <3>2. answer' \in [Threads -> Answers]
        BY <3>1, <1>1, AnswerType DEF CacheInd, Begin
    <3>3. at' \in [Threads -> Stops] /\ input' \in [Threads -> Inputs \cup {NoInput}]
        BY DEF CacheInd, CacheTypeOK, Stops
    <3>4. served' \in [Threads -> 0..Requests]
      <4>1. served[t] \in 0..Requests /\ served[t] < Requests
          BY DEF CacheInd, CacheTypeOK
      <4>2. served' = [served EXCEPT ![t] = served[t] + 1]
          BY DEF Begin
      <4>3. served[t] + 1 \in 0..Requests
          BY ONLY <4>1, CacheConstants
      <4> QED
          BY <4>2, <4>3 DEF CacheInd, CacheTypeOK
    <3> QED
        BY <3>2, <3>3, <3>4 DEF CacheInd, CacheTypeOK
  <2>2. MapInv' /\ SizeInv'
      BY DEF CacheInd, MapInv, SizeInv
  <2>3. ThreadInv'
      BY DEF CacheInd, CacheTypeOK, ThreadInv, Answer
  <2>4. AnswerIsOwn'
      BY DEF CacheInd, CacheTypeOK, AnswerIsOwn, Answer
  <2> QED
      BY <2>1, <2>2, <2>3, <2>4 DEF CacheInd
<1>2. ASSUME NEW t \in Threads, Lock(t)
      PROVE  CacheInd'
  <2> USE <1>2 DEF Lock, Resume
  <2>1. CacheTypeOK'
      BY DEF CacheInd, CacheTypeOK, Stops
  <2>2. MapInv' /\ SizeInv'
      BY DEF CacheInd, MapInv, SizeInv
  <2>3. ThreadInv'
      BY DEF CacheInd, CacheTypeOK, ThreadInv
  <2>4. AnswerIsOwn'
      BY DEF CacheInd, CacheTypeOK, AnswerIsOwn
  <2> QED
      BY <2>1, <2>2, <2>3, <2>4 DEF CacheInd
<1>3. ASSUME NEW t \in Threads, Lookup(t)
      PROVE  CacheInd'
  <2> USE <1>3 DEF Lookup, Resume
  <2>1. input[t] \in Inputs
      BY DEF CacheInd, ThreadInv
  <2>2. MapInv' /\ SizeInv'
      BY DEF CacheInd, MapInv, SizeInv
  <2>3. CASE Cached(input[t])
    <3> DEFINE e == cache[cache_key[input[t]]]
    <3>1. e = OwnEntry(input[t]) /\ input[t] \notin Rejected
        BY <2>3 DEF Cached, matches, CacheInd, MapInv
    <3>2. /\ answer' = [answer EXCEPT ![t] = [kind |-> "hit", entry |-> OwnEntry(input[t])]]
          /\ at' = [at EXCEPT ![t] = "idle"]
        BY <2>3, <3>1 DEF Answer
    <3> HIDE DEF e
    <3>3. [kind |-> "hit", entry |-> OwnEntry(input[t])] \in Answers
        BY <2>1, OwnEntryType DEF Answers
    <3>4. CacheTypeOK'
        BY <3>2, <3>3 DEF CacheInd, CacheTypeOK, Stops
    <3>5. ThreadInv'
        BY <3>2 DEF CacheInd, CacheTypeOK, ThreadInv
    <3>6. AnswerIsOwn'
        BY <3>1, <3>2 DEF CacheInd, CacheTypeOK, AnswerIsOwn, OwnEntry
    <3> QED
        BY <2>2, <3>4, <3>5, <3>6 DEF CacheInd
  <2>4. CASE ~Cached(input[t])
    <3>1. answer' = answer /\ at' = [at EXCEPT ![t] = "realize"]
        BY <2>4
    <3>2. CacheTypeOK'
        BY <3>1 DEF CacheInd, CacheTypeOK, Stops
    <3>3. ThreadInv'
        BY <2>1, <3>1 DEF CacheInd, CacheTypeOK, ThreadInv
    <3>4. AnswerIsOwn'
        BY <3>1 DEF CacheInd, CacheTypeOK, AnswerIsOwn
    <3> QED
        BY <2>2, <3>2, <3>3, <3>4 DEF CacheInd
  <2> QED
      BY <2>3, <2>4
<1>4. ASSUME NEW t \in Threads, Realize(t)
      PROVE  CacheInd'
  <2> USE <1>4 DEF Realize, Resume
  <2>1. input[t] \in Inputs
      BY DEF CacheInd, ThreadInv
  <2>2. MapInv' /\ SizeInv'
      BY DEF CacheInd, MapInv, SizeInv
  <2>3. CASE input[t] \in Rejected
    <3>1. CacheTypeOK'
      <4>1. [kind |-> "err"] \in Answers
          BY PlainAnswerType
      <4>2. answer' \in [Threads -> Answers]
          BY <2>3, <4>1, AnswerType DEF CacheInd
      <4> QED
          BY <2>3, <4>2 DEF CacheInd, CacheTypeOK, Stops
    <3>2. ThreadInv'
        BY <2>3 DEF CacheInd, CacheTypeOK, ThreadInv, Answer
    <3>3. AnswerIsOwn'
      <4>1. answer' = [answer EXCEPT ![t] = [kind |-> "err"]]
          BY <2>3 DEF Answer
      <4>2. answer'[t].kind = "err"
          BY <4>1 DEF CacheInd, CacheTypeOK
      <4>3. \A u \in Threads \ {t} : answer'[u] = answer[u] /\ at'[u] = at[u]
          BY <2>3, <4>1 DEF CacheInd, CacheTypeOK
      <4> QED
          BY <2>3, <4>2, <4>3 DEF CacheInd, AnswerIsOwn
    <3> QED
        BY <2>2, <3>1, <3>2, <3>3 DEF CacheInd
  <2>4. CASE input[t] \notin Rejected
    <3>1. /\ answer' = [answer EXCEPT ![t] = [kind |-> "fresh", entry |-> OwnEntry(input[t])]]
          /\ at' = [at EXCEPT ![t] = "lock insert"]
        BY <2>4 DEF OwnEntry, Answer
    <3>2. [kind |-> "fresh", entry |-> OwnEntry(input[t])] \in Answers
        BY <2>1, OwnEntryType DEF Answers
    <3>3. CacheTypeOK'
        BY <3>1, <3>2 DEF CacheInd, CacheTypeOK, Stops
    <3>4. ThreadInv'
        BY <2>1, <2>4, <3>1 DEF CacheInd, CacheTypeOK, ThreadInv
    <3>5. AnswerIsOwn'
        BY <3>1 DEF CacheInd, CacheTypeOK, AnswerIsOwn
    <3> QED
        BY <2>2, <3>3, <3>4, <3>5 DEF CacheInd
  <2> QED
      BY <2>3, <2>4
<1>5. ASSUME NEW t \in Threads, Insert(t)
      PROVE  CacheInd'
  <2> DEFINE slot == cache_key[input[t]]
  <2>1. /\ input[t] \in Inputs \ Rejected
        /\ DOMAIN cache' \subseteq DOMAIN cache \cup {slot}
        /\ cache'[slot] = OwnEntry(input[t])
        /\ \A k \in DOMAIN cache' \ {slot} : cache'[k] = cache[k]
        /\ IsFiniteSet(DOMAIN cache') /\ Cardinality(DOMAIN cache') <= MAX_CACHE_SIZE
      BY <1>5, InsertEffect
  <2>2. /\ at[t] = "insert" /\ at' = [at EXCEPT ![t] = "idle"] /\ lock' = Free
        /\ UNCHANGED <<input, answer, served>>
      BY <1>5 DEF Insert, Resume
  <2>3. SizeInv'
      BY <2>1 DEF SizeInv
  <2>4. MapInv'
    <3> SUFFICES ASSUME NEW k \in DOMAIN cache'
                 PROVE  /\ cache'[k].src \in Inputs \ Rejected
                        /\ cache'[k] = OwnEntry(cache'[k].src)
                        /\ cache_key[cache'[k].src] = k
        BY DEF MapInv
    <3>1. CASE k = slot
        BY <2>1, <3>1 DEF OwnEntry
    <3>2. CASE k # slot
      <4>1. k \in DOMAIN cache /\ cache'[k] = cache[k]
          BY <2>1, <3>2
      <4> QED
          BY <4>1 DEF CacheInd, MapInv
    <3> QED
        BY <3>1, <3>2
  <2>5. CacheTypeOK'
    <3>1. \A k \in DOMAIN cache' : k \in Keys /\ cache'[k] \in Entries
      <4> SUFFICES ASSUME NEW k \in DOMAIN cache'
                   PROVE  k \in Keys /\ cache'[k] \in Entries
          OBVIOUS
      <4>1. /\ cache'[k].src \in Inputs
            /\ cache'[k] = OwnEntry(cache'[k].src)
            /\ cache_key[cache'[k].src] = k
          BY <2>4 DEF MapInv
      <4> QED
          BY <4>1, OwnEntryType
    <3> QED
        BY <2>2, <3>1 DEF CacheInd, CacheTypeOK, Stops
  <2>6. ThreadInv'
      BY <2>2 DEF CacheInd, CacheTypeOK, ThreadInv
  <2>7. AnswerIsOwn'
    <3> SUFFICES ASSUME NEW u \in Threads, at'[u] = "idle", answer'[u].kind # "none"
                 PROVE  IF input'[u] \in Rejected THEN answer'[u].kind = "err"
                        ELSE /\ answer'[u].kind # "err"
                             /\ answer'[u].entry = [src |-> input'[u], realized |-> Realization(input'[u])]
        BY DEF AnswerIsOwn
    <3>1. CASE u = t
      <4>1. answer[t] = [kind |-> "fresh", entry |-> OwnEntry(input[t])]
          BY <2>2 DEF CacheInd, ThreadInv
      <4> QED
          BY <2>1, <2>2, <3>1, <4>1 DEF OwnEntry
    <3>2. CASE u # t
        BY <2>2, <3>2 DEF CacheInd, CacheTypeOK, AnswerIsOwn
    <3> QED
        BY <3>1, <3>2
  <2> QED
      BY <2>3, <2>4, <2>5, <2>6, <2>7 DEF CacheInd
<1>6. CASE UNCHANGED cache_vars
  <2> USE <1>6 DEF cache_vars
  <2>1. CacheTypeOK'
      BY DEF CacheInd, CacheTypeOK
  <2>2. MapInv' /\ SizeInv' /\ ThreadInv'
      BY DEF CacheInd, MapInv, SizeInv, ThreadInv
  <2>3. AnswerIsOwn'
      BY DEF CacheInd, AnswerIsOwn
  <2> QED
      BY <2>1, <2>2, <2>3 DEF CacheInd
<1> QED
    BY <1>1, <1>2, <1>3, <1>4, <1>5, <1>6 DEF CacheNext, ThreadStep, AllServed

(* Taking the free mutex and giving it back are the only changes of lock.  *)
LEMMA MutexStep == CacheTypeOK /\ MutexInv /\ [CacheNext]_cache_vars => MutexInv'
<1> SUFFICES ASSUME CacheTypeOK, MutexInv, [CacheNext]_cache_vars PROVE MutexInv'
    OBVIOUS
<1> USE NamesApart
<1>1. ASSUME NEW t \in Threads, NEW i \in Inputs, Begin(t, i) PROVE MutexInv'
    BY <1>1 DEF Begin, Resume, CacheTypeOK, MutexInv
<1>2. ASSUME NEW t \in Threads, Lock(t) PROVE MutexInv'
    BY <1>2 DEF Lock, Resume, CacheTypeOK, MutexInv
<1>3. ASSUME NEW t \in Threads, Lookup(t) PROVE MutexInv'
    BY <1>3 DEF Lookup, Resume, CacheTypeOK, MutexInv
<1>4. ASSUME NEW t \in Threads, Realize(t) PROVE MutexInv'
    BY <1>4 DEF Realize, Resume, CacheTypeOK, MutexInv
<1>5. ASSUME NEW t \in Threads, Insert(t) PROVE MutexInv'
    BY <1>5 DEF Insert, Resume, CacheTypeOK, MutexInv
<1>6. CASE UNCHANGED cache_vars
    BY <1>6 DEF cache_vars, MutexInv
<1> QED
    BY <1>1, <1>2, <1>3, <1>4, <1>5, <1>6 DEF CacheNext, ThreadStep, AllServed

(* The inductive invariant holds throughout.                               *)
LEMMA CacheInvariant == CacheSpec => []CacheInd
BY CacheIndInit, CacheIndStep, PTL DEF CacheSpec

(***************************************************************************)
(* get_or_realize answers a request with the realization of its own inputs *)
(* and with an error exactly if they are rejected, whatever the hash does  *)
(* and however lookups, evictions and insertions interleave (cache.rs:     *)
(* 31-34, 100-141).                                                        *)
(***************************************************************************)
THEOREM CacheAnswersOwn == CacheSpec => []AnswerIsOwn
<1>1. CacheInd => AnswerIsOwn
    BY DEF CacheInd
<1> QED
    BY <1>1, CacheInvariant, PTL

(***************************************************************************)
(* The map never exceeds MAX_CACHE_SIZE entries, with any number of        *)
(* threads that missed before any of them inserts (cache.rs:129-141).      *)
(***************************************************************************)
THEOREM CacheBounded == CacheSpec => []Bounded
<1>1. CacheInd => Bounded
    BY DEF CacheInd, SizeInv, Bounded
<1> QED
    BY <1>1, CacheInvariant, PTL

(***************************************************************************)
(* At most one thread is in a critical section of the cache, and a thread  *)
(* that parses or realizes holds no mutex (cache.rs:100-115, 129).         *)
(***************************************************************************)
THEOREM MutexExact == CacheSpec => []MutexInv
<1>1. CacheInit => MutexInv
    BY NamesApart DEF CacheInit, MutexInv
<1>2. CacheInd => CacheTypeOK
    BY DEF CacheInd
<1> QED
    BY <1>1, <1>2, CacheInvariant, MutexStep, PTL DEF CacheSpec
=============================================================================
