---------------------------- MODULE MemberProcess ----------------------------
(***************************************************************************)
(* The life of the solver processes: run_with_timeout_cancellable,         *)
(* MemberGroup and the signal cleanup table member_group (adapter/mod.rs). *)
(*                                                                         *)
(* Several member threads each spawn one child as the leader of its own    *)
(* process group, register the group in a table of atomics, poll the child *)
(* until it exits, times out or is cancelled, join the two pipe readers    *)
(* and forget the group.  The child may be a launcher that forks a worker, *)
(* which holds the pipes open.  A terminating signal may arrive at any     *)
(* moment; its handler walks the table slot by slot while the other        *)
(* threads keep running.  The kernel may hand a freed pid to a stranger.   *)
(***************************************************************************)
EXTENDS Integers

CONSTANTS Members,        \* the member threads, one child each
          Pids,           \* the pids the kernel hands out
          Slots,          \* SLOTS: the length of the table
          Waiters,        \* the members whose launcher outlives its worker
          MaySignal       \* may a terminating signal arrive?

ASSUME ProcessAssumption ==
    /\ Slots \in Nat \ {0}
    /\ Waiters \subseteq Members /\ MaySignal \in BOOLEAN

NoPid == 0              \* an empty slot: AtomicI32 0
NoSlot == 0             \* MemberGroup.slot = None
NoSignal == 0           \* no handler is running
Dead == Slots + 2       \* the handler has re-raised: mununu is gone

ASSUME PidAssumption == Pids \subseteq Nat \ {0}

VARIABLES
    proc,     \* per pid: who has it
    worker,   \* per member: is a worker its child forked alive?
    pc,       \* per member: where run_with_timeout_cancellable is
    pid,      \* per member: its child
    slot,     \* per member: its slot, or the slot it is trying
    ended,    \* per member: how the poll loop ended
    LIVE,     \* the table
    signal,   \* the handler: NoSignal, the slot it is at, or Dead
    armed     \* history: the members registered when the signal arrived

vars == <<proc, worker, pc, pid, slot, ended, LIVE, signal, armed>>

Running == signal # Dead      \* mununu itself is alive

Init ==
    /\ proc = [p \in Pids |-> "free"]
    /\ worker = [m \in Members |-> FALSE]
    /\ pc = [m \in Members |-> "start"]
    /\ pid = [m \in Members |-> NoPid]
    /\ slot = [m \in Members |-> NoSlot]
    /\ ended = [m \in Members |-> "no"]
    /\ LIVE = [s \in 1..Slots |-> NoPid]
    /\ signal = NoSignal
    /\ armed = {}

-----------------------------------------------------------------------------
(* The kernel.  A pid is free when nobody has it and no process is left in *)
(* the group it names.                                                     *)
Allocatable(p) ==
    proc[p] = "free" /\ \A m \in Members : pid[m] = p => ~worker[m]

StrangerTakes(p) ==
    /\ Allocatable(p)
    /\ proc' = [proc EXCEPT ![p] = "stranger"]
    /\ UNCHANGED <<worker, pc, pid, slot, ended, LIVE, signal, armed>>

StrangerExits(p) ==
    /\ proc[p] = "stranger"
    /\ proc' = [proc EXCEPT ![p] = "free"]
    /\ UNCHANGED <<worker, pc, pid, slot, ended, LIVE, signal, armed>>

(* The member's child runs: after the spawn, before the reap.              *)
ChildLive(m) == pc[m] \in {"register", "poll", "kill"} /\ proc[pid[m]] = "live"

Forks(m) ==
    /\ ChildLive(m) /\ ~worker[m]
    /\ worker' = [worker EXCEPT ![m] = TRUE]
    /\ UNCHANGED <<proc, pc, pid, slot, ended, LIVE, signal, armed>>

LeaderExits(m) ==
    /\ ChildLive(m) /\ (m \in Waiters => ~worker[m])
    /\ proc' = [proc EXCEPT ![pid[m]] = "zombie"]
    /\ UNCHANGED <<worker, pc, pid, slot, ended, LIVE, signal, armed>>

WorkerExits(m) ==
    /\ worker[m]
    /\ worker' = [worker EXCEPT ![m] = FALSE]
    /\ UNCHANGED <<proc, pc, pid, slot, ended, LIVE, signal, armed>>

(* Mutant: kill(pid) in place of kill(-pgid).                              *)
Kill_leader(p) ==
    /\ proc' = [proc EXCEPT ![p] = CASE @ = "live" -> "zombie"
                                     [] @ = "stranger" -> "free"
                                     [] @ \in {"zombie", "free"} -> @]
    /\ UNCHANGED worker

(* kill(-pgid, SIGKILL): the leader turns zombie, the worker dies, and a   *)
(* stranger that leads a group of this id dies too.                        *)
Kill(p) ==
    /\ proc' = [proc EXCEPT ![p] = CASE @ = "live" -> "zombie"
                                     [] @ = "stranger" -> "free"
                                     [] @ \in {"zombie", "free"} -> @]
    /\ worker' = [m \in Members |-> worker[m] /\ pid[m] # p]

-----------------------------------------------------------------------------
(* spawn_member: spawn, then remember, which tries the slots in order with *)
(* compare_exchange and gives up past the last one.                        *)
SpawnFails(m) ==
    /\ Running /\ pc[m] = "start"
    /\ pc' = [pc EXCEPT ![m] = "returned"]
    /\ ended' = [ended EXCEPT ![m] = "error"]
    /\ UNCHANGED <<proc, worker, pid, slot, LIVE, signal, armed>>

Spawns(m) ==
    /\ Running /\ pc[m] = "start"
    /\ \E p \in Pids :
        /\ Allocatable(p)
        /\ proc' = [proc EXCEPT ![p] = "live"]
        /\ pid' = [pid EXCEPT ![m] = p]
    /\ pc' = [pc EXCEPT ![m] = "register"]
    /\ slot' = [slot EXCEPT ![m] = 1]
    /\ UNCHANGED <<worker, ended, LIVE, signal, armed>>

remember(m) ==
    /\ Running /\ pc[m] = "register"
    /\ \/ /\ slot[m] \in 1..Slots /\ LIVE[slot[m]] = NoPid
          /\ LIVE' = [LIVE EXCEPT ![slot[m]] = pid[m]]
          /\ pc' = [pc EXCEPT ![m] = "poll"]
          /\ UNCHANGED slot
       \/ /\ slot[m] \in 1..Slots /\ LIVE[slot[m]] # NoPid
          /\ slot' = [slot EXCEPT ![m] = @ + 1]
          /\ UNCHANGED <<LIVE, pc>>
       \/ /\ slot[m] = Slots + 1
          /\ slot' = [slot EXCEPT ![m] = NoSlot]
          /\ pc' = [pc EXCEPT ![m] = "poll"]
          /\ UNCHANGED LIVE
    /\ UNCHANGED <<proc, worker, pid, ended, signal, armed>>

(* try_wait reports the exit and thereby reaps the leader, and only it.    *)
SeesExit(m) ==
    /\ Running /\ pc[m] = "poll" /\ proc[pid[m]] = "zombie"
    /\ proc' = [proc EXCEPT ![pid[m]] = "free"]
    /\ pc' = [pc EXCEPT ![m] = "join"]
    /\ ended' = [ended EXCEPT ![m] = "exited"]
    /\ UNCHANGED <<worker, pid, slot, LIVE, signal, armed>>

(* try_wait fails (the child was reaped behind our back): an early return, *)
(* which drops the group.                                                  *)
WaitFails(m) ==
    /\ Running /\ pc[m] = "poll" /\ proc[pid[m]] = "zombie"
    /\ proc' = [proc EXCEPT ![pid[m]] = "free"]
    /\ pc' = [pc EXCEPT ![m] = "drop"]
    /\ ended' = [ended EXCEPT ![m] = "error"]
    /\ UNCHANGED <<worker, pid, slot, LIVE, signal, armed>>

(* Mutant: the reap comes before the kill.                                 *)
GivesUp_reaping(m) ==
    /\ Running /\ pc[m] = "poll" /\ proc[pid[m]] = "live"
    /\ proc' = [proc EXCEPT ![pid[m]] = "free"]
    /\ pc' = [pc EXCEPT ![m] = "kill"]
    /\ ended' = [ended EXCEPT ![m] = "killed"]
    /\ UNCHANGED <<worker, pid, slot, LIVE, signal, armed>>

(* Timeout, or cancelled past the grace: try_wait had seen it alive.       *)
GivesUp(m) ==
    /\ Running /\ pc[m] = "poll" /\ proc[pid[m]] = "live"
    /\ pc' = [pc EXCEPT ![m] = "kill"]
    /\ ended' = [ended EXCEPT ![m] = "killed"]
    /\ UNCHANGED <<proc, worker, pid, slot, LIVE, signal, armed>>

(* kill_and_reap: the group first, then the reap.                          *)
KillsGroup(m) ==
    /\ Running /\ pc[m] = "kill"
    /\ Kill(pid[m])
    /\ pc' = [pc EXCEPT ![m] = "reap"]
    /\ UNCHANGED <<pid, slot, ended, LIVE, signal, armed>>

Reaps(m) ==
    /\ Running /\ pc[m] = "reap" /\ proc[pid[m]] = "zombie"
    /\ proc' = [proc EXCEPT ![pid[m]] = "free"]
    /\ pc' = [pc EXCEPT ![m] = "join"]
    /\ UNCHANGED <<worker, pid, slot, ended, LIVE, signal, armed>>

(* The reader threads end when nobody holds the pipes any more.            *)
JoinsReaders(m) ==
    /\ Running /\ pc[m] = "join" /\ ~worker[m]
    /\ pc' = [pc EXCEPT ![m] = "drop"]
    /\ UNCHANGED <<proc, worker, pid, slot, ended, LIVE, signal, armed>>

(* Mutant: no Drop, so no forget.                                          *)
DropsGroup_leaking(m) ==
    /\ Running /\ pc[m] = "drop"
    /\ pc' = [pc EXCEPT ![m] = "returned"]
    /\ UNCHANGED <<proc, worker, pid, slot, ended, LIVE, signal, armed>>

(* The MemberGroup is dropped: forget.                                     *)
DropsGroup(m) ==
    /\ Running /\ pc[m] = "drop"
    /\ LIVE' = IF slot[m] = NoSlot THEN LIVE ELSE [LIVE EXCEPT ![slot[m]] = NoPid]
    /\ pc' = [pc EXCEPT ![m] = "returned"]
    /\ UNCHANGED <<proc, worker, pid, slot, ended, signal, armed>>

-----------------------------------------------------------------------------
(* The group is in the table: between remember and forget.                 *)
Registered(m) == pc[m] \in {"poll", "kill", "reap", "join", "drop"} /\ slot[m] # NoSlot

(* on_terminating_signal: one load and one kill per slot, then death.      *)
SignalArrives ==
    /\ MaySignal /\ signal = NoSignal
    /\ signal' = 1
    /\ armed' = {m \in Members : Registered(m)}
    /\ UNCHANGED <<proc, worker, pc, pid, slot, ended, LIVE>>

(* Mutant: the walk stops before the last slot.                            *)
HandlerKills_short ==
    /\ signal \in 1..Slots
    /\ IF signal = Slots \/ LIVE[signal] = NoPid
         THEN UNCHANGED <<proc, worker>>
         ELSE Kill(LIVE[signal])
    /\ signal' = signal + 1
    /\ UNCHANGED <<pc, pid, slot, ended, LIVE, armed>>

HandlerKills ==
    /\ signal \in 1..Slots
    /\ IF LIVE[signal] = NoPid THEN UNCHANGED <<proc, worker>>
                               ELSE Kill(LIVE[signal])
    /\ signal' = signal + 1
    /\ UNCHANGED <<pc, pid, slot, ended, LIVE, armed>>

HandlerReraises ==
    /\ signal = Slots + 1
    /\ signal' = Dead
    /\ UNCHANGED <<proc, worker, pc, pid, slot, ended, LIVE, armed>>

AllReturned == \A m \in Members : pc[m] = "returned"

Over == (AllReturned \/ ~Running) /\ UNCHANGED vars

Kernel ==
    \/ \E p \in Pids : StrangerTakes(p) \/ StrangerExits(p)
    \/ \E m \in Members : Forks(m) \/ LeaderExits(m) \/ WorkerExits(m)

MemberStep(m) ==
    \/ SpawnFails(m) \/ Spawns(m) \/ remember(m) \/ SeesExit(m) \/ WaitFails(m)
    \/ GivesUp(m) \/ KillsGroup(m) \/ Reaps(m) \/ JoinsReaders(m) \/ DropsGroup(m)

Handler == SignalArrives \/ HandlerKills \/ HandlerReraises

Next ==
    \/ Kernel
    \/ \E m \in Members : MemberStep(m)
    \/ Handler
    \/ Over

Spec == Init /\ [][Next]_vars

(* Member threads run, the timeout fires; no process need ever exit.       *)
FairSpec ==
    /\ Spec
    /\ \A m \in Members :
        WF_vars(remember(m) \/ SeesExit(m) \/ GivesUp(m) \/ KillsGroup(m)
                  \/ Reaps(m) \/ JoinsReaders(m) \/ DropsGroup(m))

-----------------------------------------------------------------------------
(* Type correctness of the kernel's, the members' and the table's state,   *)
(* checked with TableExact.                                                *)
TypeOK ==
    /\ proc \in [Pids -> {"free", "live", "zombie", "stranger"}]
    /\ worker \in [Members -> BOOLEAN]
    /\ pc \in [Members -> {"start", "register", "poll", "kill", "reap", "join",
                           "drop", "returned"}]
    /\ pid \in [Members -> Pids \cup {NoPid}]
    /\ slot \in [Members -> 0..(Slots + 1)]
    /\ ended \in [Members -> {"no", "exited", "killed", "error"}]
    /\ LIVE \in [1..Slots -> Pids \cup {NoPid}]
    /\ signal \in NoSignal..Dead
    /\ armed \in SUBSET Members

(* The table and the members agree: a registered member's slot holds its   *)
(* group until the member itself forgets it, no two members share a slot,  *)
(* and no slot keeps a group whose member is gone (a leak would exhaust    *)
(* the table and disable the signal cleanup).                              *)
TableExact ==
    /\ TypeOK
    /\ \A m \in Members : Registered(m) => LIVE[slot[m]] = pid[m]
    /\ \A m, n \in Members :
         m # n /\ Registered(m) /\ Registered(n) => slot[m] # slot[n]
    /\ \A s \in 1..Slots :
         LIVE[s] # NoPid => \E m \in Members : Registered(m) /\ slot[m] = s

(* "The group is killed before the reap, so its id cannot have been reused *)
(* by an unrelated process": a timeout or cancellation never kills a       *)
(* stranger.                                                               *)
KillHitsOwnGroup ==
    [][\A m \in Members : KillsGroup(m) => proc[pid[m]] # "stranger"]_vars

(* Killed groups are gone.  From a member's own kill on, no worker it      *)
(* forked is alive (mununu#875).  A group that was in the table when the   *)
(* signal arrived is dead, its leader and its worker, by the time the      *)
(* handler re-raises, whatever the member threads did to the table while   *)
(* the handler was walking it.                                             *)
KilledGroupsDie ==
    /\ \A m \in Members :
        ended[m] = "killed" /\ pc[m] \in {"reap", "join", "drop", "returned"} => ~worker[m]
    /\ signal > Slots =>
        \A m \in armed :
            /\ pc[m] \in {"poll", "kill"} => proc[pid[m]] # "live"
            /\ pc[m] \in {"poll", "kill", "reap", "join"} => ~worker[m]

Returns(m) == pc[m] = "poll" ~> (pc[m] = "returned" \/ ~Running)

(* A member thread whose child waits for the workers it forks always       *)
(* returns, though no solver need ever exit: the timeout kills the whole   *)
(* group, so the pipes close and the readers end.                          *)
MemberReturns == \A m \in Waiters : Returns(m)

(* "This caps the total run so a portfolio member cannot hang the whole    *)
(* decision": the same for every member, whatever its launcher does.       *)
EveryMemberReturns == \A m \in Members : Returns(m)
=============================================================================
