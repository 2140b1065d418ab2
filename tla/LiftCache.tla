------------------------------ MODULE LiftCache ------------------------------
(***************************************************************************)
(* The on-disk cache of SystemVerilog lifts shared by parallel processes:  *)
(* adapter/yosys/lift_cache.rs (lookup, store, collect_include_files) and  *)
(* its caller run_sv_flatten_btor2_with (adapter/yosys/mod.rs).            *)
(*                                                                         *)
(* An entry is a directory <index>/ with a manifest (the content of the    *)
(* key) and a lift (the tool outputs).  Every file system operation is a   *)
(* step of its own, may fail, and a process may be killed before any.      *)
(* A directory has an identity: a path is resolved at each operation, but  *)
(* remove_dir_all unlinks in the directory it opened.                      *)
(*                                                                         *)
(* A process lifts one source.  Its include files are one value, `header`, *)
(* which somebody else may edit.  The tools and the file system are        *)
(* external.                                                               *)
(***************************************************************************)
EXTENDS Naturals, FiniteSets

CONSTANTS
    Procs,      \* processes, each lifting once
    source,     \* the staged sources of each process
    Headers,    \* contents the include files may have
    index(_),   \* LiftCacheKey::new: the 64-bit hash of a manifest
    None,       \* no file, no directory, no key
    MaxEdits    \* bound: edits of the include files

ASSUME EditsBounded == MaxEdits \in Nat

Manifests == {<<source[p], h>> : p \in Procs, h \in Headers}
Indices   == {index(m) : m \in Manifests}

\* The tools' output for what they read: one value per manifest.
Lift(m) == <<"lift of", m>>
Lifts   == {Lift(m) : m \in Manifests}

\* An absence is no value.
ASSUME NoneApart == \A S \in {Procs, Manifests, Lifts, Headers} : None \notin S

VARIABLES
    header,   \* the include files on disk
    edits,    \* edits so far
    dir,      \* the files in the directory each process stages
    staged,   \* the processes whose directory is at its staging path
    entry,    \* index -> the process whose directory was renamed there
    pc,       \* where each process is
    key,      \* its manifest, None when the cache is bypassed
    opened,   \* the directory its remove_dir_all works on
    lift,     \* the lift it holds
    outcome,  \* "none", "hit", "miss", "bypassed", "error"
    ghost     \* history: the entries each process read, and the include files
              \* when its tools ran or its lookup hit

vars == <<header, edits, dir, staged, entry, pc, key, opened, lift, outcome, ghost>>

Files  == [manifest : Manifests \cup {None}, lift : Lifts \cup {None}]
NoFile == [manifest |-> None, lift |-> None]

Places == {"key", "manifest", "lift", "tools", "stage", "write lift",
           "exists", "unlink", "rmdir", "rename", "cleanup", "done", "killed", "leaked"}

TypeOK ==
    /\ header \in Headers /\ edits \in 0..MaxEdits
    /\ dir \in [Procs -> Files]
    /\ staged \subseteq Procs
    /\ entry \in [Indices -> Procs \cup {None}]
    /\ pc \in [Procs -> Places]
    /\ key \in [Procs -> Manifests \cup {None}]
    /\ opened \in [Procs -> Procs \cup {None}]
    /\ lift \in [Procs -> Lifts \cup {None}]
    /\ outcome \in [Procs -> {"none", "hit", "miss", "bypassed", "error"}]
    /\ ghost \in [Procs -> [from : SUBSET Procs, ran : Headers \cup {None}]]

Init ==
    /\ header \in Headers /\ edits = 0
    /\ dir = [p \in Procs |-> NoFile]
    /\ staged = {}
    /\ entry = [i \in Indices |-> None]
    /\ pc = [p \in Procs |-> "key"]
    /\ key = [p \in Procs |-> None]
    /\ opened = [p \in Procs |-> None]
    /\ lift = [p \in Procs |-> None]
    /\ outcome = [p \in Procs |-> "none"]
    /\ ghost = [p \in Procs |-> [from |-> {}, ran |-> None]]

Goto(p, place) == pc' = [pc EXCEPT ![p] = place]
DiskUnchanged  == UNCHANGED <<header, edits, dir, staged, entry>>

\* The directory the entry's path resolves to now: none or one.
EntryDir(p) == {entry[index(key[p])]} \ {None}
HasFiles(d) == dir[d] # NoFile

-----------------------------------------------------------------------------
(* run_sv_flatten_btor2_with.                                              *)

\* lift_cache_key reads the include files; a tree that cannot be read or is
\* over the caps bypasses the cache.
BuildKey(p) ==
    /\ pc[p] = "key"
    /\ \/ key' = [key EXCEPT ![p] = <<source[p], header>>] /\ Goto(p, "manifest")
       \/ UNCHANGED key /\ Goto(p, "tools")
    /\ DiskUnchanged /\ UNCHANGED <<opened, lift, outcome, ghost>>

\* lookup: the first read.  An absent file, an error or another manifest is a miss.
ReadManifest_index(p) ==
    /\ pc[p] = "manifest"
    /\ \/ \E d \in EntryDir(p) :
            /\ dir[d].manifest # None
            /\ ghost' = [ghost EXCEPT ![p].from = {d}]
            /\ Goto(p, "lift")
       \/ Goto(p, "tools") /\ UNCHANGED ghost
    /\ DiskUnchanged /\ UNCHANGED <<key, opened, lift, outcome>>

\* An entry without a manifest is taken to be one a peer is about to complete.
ReadManifest_wait(p) ==
    /\ pc[p] = "manifest"
    /\ \/ \E d \in EntryDir(p) :
            /\ dir[d].manifest = key[p]
            /\ ghost' = [ghost EXCEPT ![p].from = {d}]
            /\ Goto(p, "lift")
       \/ (\A d \in EntryDir(p) : dir[d].manifest # None) /\ Goto(p, "tools") /\ UNCHANGED ghost
    /\ DiskUnchanged /\ UNCHANGED <<key, opened, lift, outcome>>

ReadManifest(p) ==
    /\ pc[p] = "manifest"
    /\ \/ \E d \in EntryDir(p) :
            /\ dir[d].manifest = key[p]
            /\ ghost' = [ghost EXCEPT ![p].from = {d}]
            /\ Goto(p, "lift")
       \/ Goto(p, "tools") /\ UNCHANGED ghost
    /\ DiskUnchanged /\ UNCHANGED <<key, opened, lift, outcome>>

\* lookup: the second read resolves the path again.
ReadLift(p) ==
    /\ pc[p] = "lift"
    /\ \/ \E d \in EntryDir(p) :
            /\ dir[d].lift # None
            /\ lift' = [lift EXCEPT ![p] = dir[d].lift]
            /\ ghost' = [ghost EXCEPT ![p].from = @ \cup {d}, ![p].ran = header]
            /\ outcome' = [outcome EXCEPT ![p] = "hit"]
            /\ Goto(p, "done")
       \/ Goto(p, "tools") /\ UNCHANGED <<lift, outcome, ghost>>
    /\ DiskUnchanged /\ UNCHANGED <<key, opened>>

\* run_sv_flatten_btor2_concrete: the tools read the include files themselves;
\* a failed lift returns before anything is stored.
RunTools(p) ==
    /\ pc[p] = "tools"
    /\ ghost' = [ghost EXCEPT ![p].ran = header]
    /\ \/ /\ lift' = [lift EXCEPT ![p] = Lift(<<source[p], header>>)]
          /\ IF key[p] = None
             THEN outcome' = [outcome EXCEPT ![p] = "bypassed"] /\ Goto(p, "done")
             ELSE outcome' = [outcome EXCEPT ![p] = "miss"] /\ Goto(p, "stage")
       \/ /\ outcome' = [outcome EXCEPT ![p] = "error"] /\ Goto(p, "done")
          /\ UNCHANGED lift
    /\ DiskUnchanged /\ UNCHANGED <<key, opened>>

-----------------------------------------------------------------------------
(* LiftCache::store.  Any step may fail and goes on to the cleanup, whose  *)
(* own failure is ignored and leaves the staging directory behind.         *)

StoreFails(p) ==
    /\ \/ /\ pc[p] \in {"stage", "write lift", "exists",
                      "unlink", "rmdir", "rename"}
          /\ Goto(p, "cleanup")
       \/ pc[p] = "cleanup" /\ p \in staged /\ Goto(p, "leaked")
    /\ DiskUnchanged /\ UNCHANGED <<key, opened, lift, outcome, ghost>>

StepsTo(p, from, to) ==
    /\ pc[p] = from /\ Goto(p, to)
    /\ UNCHANGED <<header, edits, key, lift, outcome, ghost>>

\* create_dir_all and the manifest.  A failure between the two is no
\* different from one after: nobody else looks at this path.
Stage(p) ==
    /\ StepsTo(p, "stage", "write lift")
    /\ staged' = staged \cup {p}
    /\ dir' = [dir EXCEPT ![p].manifest = key[p]]
    /\ UNCHANGED <<entry, opened>>

\* The entry is published before its lift is written.
WriteLift_late(p) ==
    /\ StepsTo(p, "write lift", "exists")
    /\ UNCHANGED <<dir, staged, entry, opened>>

WriteLift(p) ==
    /\ StepsTo(p, "write lift", "exists")
    /\ dir' = [dir EXCEPT ![p].lift = lift[p]]
    /\ UNCHANGED <<staged, entry, opened>>

\* entry.exists(), then remove_dir_all opens what the path names at that time.
Exists(p) ==
    /\ \/ StepsTo(p, "exists", "rename") /\ EntryDir(p) = {} /\ UNCHANGED opened
       \/ /\ StepsTo(p, "exists", "unlink")
          /\ \E d \in EntryDir(p) : opened' = [opened EXCEPT ![p] = d]
    /\ UNCHANGED <<dir, staged, entry>>

\* One file, in any order; a peer that replaces the entry may do the same.
Unlink(p) ==
    /\ \/ /\ StepsTo(p, "unlink", "unlink")
          /\ \E f \in {"manifest", "lift"} :
               /\ dir[opened[p]][f] # None
               /\ dir' = [dir EXCEPT ![opened[p]][f] = None]
       \/ /\ StepsTo(p, "unlink", "rmdir")
          /\ ~HasFiles(opened[p])
          /\ UNCHANGED dir
    /\ UNCHANGED <<staged, entry, opened>>

\* rmdir by path: a directory that is not empty is an error, one that is gone
\* an error or, in newer std, none.
RemoveDir(p) ==
    /\ StepsTo(p, "rmdir", "rename")
    /\ \A d \in EntryDir(p) : ~HasFiles(d)
    /\ entry' = [entry EXCEPT ![index(key[p])] = None]
    /\ opened' = [opened EXCEPT ![p] = None]
    /\ UNCHANGED <<dir, staged>>

\* rename replaces an empty directory, and fails on any other.
Rename(p) ==
    /\ StepsTo(p, "rename", "done")
    /\ \A d \in EntryDir(p) : ~HasFiles(d)
    /\ staged' = staged \ {p}
    /\ entry' = [entry EXCEPT ![index(key[p])] = p]
    /\ UNCHANGED <<dir, opened>>

\* The error path removes what it staged.
Cleanup(p) ==
    /\ StepsTo(p, "cleanup", "done")
    /\ staged' = staged \ {p}
    /\ dir' = [dir EXCEPT ![p] = NoFile]
    /\ UNCHANGED <<entry, opened>>

-----------------------------------------------------------------------------
Ended(p) == pc[p] \in {"done", "killed", "leaked"}

\* The process is killed.
Killed(p) ==
    /\ ~Ended(p)
    /\ Goto(p, "killed")
    /\ DiskUnchanged /\ UNCHANGED <<key, opened, lift, outcome, ghost>>

\* Somebody edits an include file, or checks out another branch.
EditHeader ==
    /\ edits < MaxEdits
    /\ edits' = edits + 1
    /\ \E h \in Headers \ {header} : header' = h
    /\ UNCHANGED <<dir, staged, entry, pc, key, opened, lift, outcome, ghost>>

Step(p) ==
    \/ BuildKey(p) \/ ReadManifest(p) \/ ReadLift(p) \/ RunTools(p)
    \/ Stage(p) \/ WriteLift(p) \/ Exists(p)
    \/ Unlink(p) \/ RemoveDir(p) \/ Rename(p) \/ Cleanup(p) \/ StoreFails(p)

Finished == (\A p \in Procs : Ended(p)) /\ UNCHANGED vars

Next == (\E p \in Procs : Step(p) \/ Killed(p)) \/ EditHeader \/ Finished

\* A process that is not killed goes on: the tools run under a timeout.
Spec == Init /\ [][Next]_vars /\ \A p \in Procs : WF_vars(Step(p))

-----------------------------------------------------------------------------
\* The include files changed between p's key and p's tools.
Drifted(p) == ghost[p].ran # key[p][2]

\* p's two reads met two entries of different manifests under one index.
Swapped(p) == \E d, e \in ghost[p].from : key[d] # key[e]

(***************************************************************************)
(* A hit answers with the lift of the reader's own manifest, unless one of *)
(* two things happened: the include files were edited between the storing  *)
(* process's key and its tools, or two manifests share an index and one    *)
(* replaced the other between the two reads of the lookup.  No crash,      *)
(* failed operation or race of removals and renames does it                *)
(* (lift_cache.rs:22-25).                                                  *)
(***************************************************************************)
WrongHitHasCause ==
    \A p \in Procs : outcome[p] = "hit" /\ lift[p] # Lift(key[p]) =>
        Swapped(p) \/ \E d \in ghost[p].from : Drifted(d)

(***************************************************************************)
(* An entry a reader can see is whole, unless some process has begun to    *)
(* remove it: a publication never exposes a half-written entry             *)
(* (lift_cache.rs:267-269).  And a process that ends by itself leaves no   *)
(* staging directory, whatever failed, unless its removal failed too       *)
(* (lift_cache.rs:299-302).                                                *)
(***************************************************************************)
TornOnlyByRemoval ==
    /\ TypeOK
    /\ \A i \in Indices : entry[i] # None =>
        \/ None \notin {dir[entry[i]].manifest, dir[entry[i]].lift}
        \/ \E p \in Procs : opened[p] = entry[i]
    /\ \A p \in staged : pc[p] # "done"

(***************************************************************************)
(* Every lift ends, although the entry it looks up or replaces was left    *)
(* half removed by a process that was killed.                              *)
(***************************************************************************)
Terminates == \A p \in Procs : <>Ended(p)
=============================================================================
