------------------------- MODULE MemberProcessProofs -------------------------
(***************************************************************************)
(* The solver processes of any number of members, with any table length,   *)
(* any supply of pids and a signal at any moment: the cleanup table is     *)
(* exact, a kill hits its own group, killed groups die.                    *)
(*                                                                         *)
(* Everything rests on who has a pid.  A child that is not reaped keeps    *)
(* its pid, as a live process or a zombie, so the kernel gives it neither  *)
(* to a stranger nor to another member (OwnInv).  The table follows the    *)
(* members because only the owner of a slot empties it (TableExact with    *)
(* SlotInv).  The handler's walk leaves every group it has passed dead:    *)
(* nothing a member does afterwards revives one (WalkInv).                 *)
(***************************************************************************)
EXTENDS MemberProcess, TLAPS

Holding == {"register", "poll", "kill", "reap"}         \* the child is not reaped
InTable == {"poll", "kill", "reap", "join", "drop"}

OwnOf(m) ==
    /\ pc[m] \in Holding \cup InTable => pid[m] \in Pids
    /\ pc[m] \in {"register", "poll", "kill"} => proc[pid[m]] \in {"live", "zombie"}
    /\ pc[m] = "reap" => proc[pid[m]] = "zombie"

Apart(m, n) == m # n /\ pc[m] \in Holding /\ pc[n] \in Holding => pid[m] # pid[n]

OwnInv == (\A m \in Members : OwnOf(m)) /\ (\A m, n \in Members : Apart(m, n))

SlotOf(m) ==
    /\ pc[m] = "register" => slot[m] \in 1..(Slots + 1)
    /\ pc[m] \in InTable => slot[m] \in 0..Slots

SlotInv == \A m \in Members : SlotOf(m)

(* No worker survives its member's own kill.                               *)
BuriedOf(m) ==
    ended[m] = "killed" /\ pc[m] \in {"reap", "join", "drop", "returned"} => ~worker[m]

BuriedInv == \A m \in Members : BuriedOf(m)

(* Nothing of m's group runs that m has not yet dealt with itself.         *)
Cleared(m) ==
    /\ pc[m] \in {"poll", "kill"} => proc[pid[m]] # "live"
    /\ pc[m] \in {"poll", "kill", "reap", "join"} => ~worker[m]

WalkOf(m) ==
    signal # NoSignal /\ m \in armed =>
        /\ pc[m] \in InTable \cup {"returned"} /\ slot[m] \in 1..Slots
        /\ slot[m] < signal => Cleared(m)

WalkInv == \A m \in Members : WalkOf(m)

IndInv == TableExact /\ OwnInv /\ SlotInv /\ BuriedInv /\ WalkInv

-----------------------------------------------------------------------------
(* A kill ends a group and touches no other; it revives nobody.            *)
LEMMA KillEffect ==
    ASSUME TypeOK, NEW p \in Pids, Kill(p)
    PROVE  /\ proc' \in [Pids -> {"free", "live", "zombie", "stranger"}]
           /\ worker' \in [Members -> BOOLEAN]
           /\ \A q \in Pids : q # p => proc'[q] = proc[q]
           /\ proc'[p] # "live"
           /\ proc[p] \in {"live", "zombie"} => proc'[p] = "zombie"
           /\ \A n \in Members : worker'[n] => worker[n]
           /\ \A n \in Members : pid[n] = p => ~worker'[n]
<1> DEFINE to == CASE proc[p] = "live" -> "zombie"
                   [] proc[p] = "stranger" -> "free"
                   [] proc[p] \in {"zombie", "free"} -> proc[p]
<1>1. proc' = [proc EXCEPT ![p] = to]
    BY DEF Kill
<1>2. /\ to \in {"free", "zombie"}
      /\ proc[p] \in {"live", "zombie"} => to = "zombie"
    BY DEF TypeOK
<1> HIDE DEF to
<1>3. worker' = [n \in Members |-> worker[n] /\ pid[n] # p]
    BY DEF Kill
<1>4. worker' \in [Members -> BOOLEAN]
    BY <1>3, Zenon
<1>5. \A n \in Members : worker'[n] <=> worker[n] /\ pid[n] # p
    BY <1>3, Zenon
<1> QED
    BY <1>1, <1>2, <1>4, <1>5 DEF TypeOK

(* A slot that is not empty holds a pid.                                   *)
LEMMA SlotHoldsPid ==
    ASSUME TypeOK, NEW s \in 1..Slots, LIVE[s] # NoPid
    PROVE  LIVE[s] \in Pids
BY DEF TypeOK

(* Zero is nobody's pid.                                                   *)
LEMMA NoPidIsNone == NoPid \notin Pids
BY PidAssumption DEF NoPid

(* Everything the kernel does leaves the members' own state alone.         *)
LEMMA KernelLocal ==
    ASSUME Kernel
    PROVE  UNCHANGED <<pc, pid, slot, ended, LIVE, signal, armed>>
BY DEF Kernel, StrangerTakes, StrangerExits, Forks, LeaderExits, WorkerExits

(* A member thread moves only itself.                                      *)
LEMMA MemberLocal ==
    ASSUME TypeOK, NEW m \in Members, MemberStep(m)
    PROVE  /\ \A n \in Members \ {m} : /\ pc'[n] = pc[n] /\ pid'[n] = pid[n]
                                       /\ slot'[n] = slot[n] /\ ended'[n] = ended[n]
           /\ UNCHANGED <<signal, armed>>
<1> USE DEF TypeOK
<1>1. CASE SpawnFails(m) \/ Spawns(m) \/ remember(m)
    BY <1>1 DEF SpawnFails, Spawns, remember
<1>2. CASE SeesExit(m) \/ WaitFails(m) \/ GivesUp(m) \/ KillsGroup(m) \/ Reaps(m)
           \/ JoinsReaders(m) \/ DropsGroup(m)
    BY <1>2 DEF SeesExit, WaitFails, GivesUp, KillsGroup, Reaps, JoinsReaders, DropsGroup
<1> QED
    BY <1>1, <1>2 DEF MemberStep

-----------------------------------------------------------------------------
(* Every step keeps the types.                                             *)
LEMMA TypeStep ==
    ASSUME TypeOK, OwnInv, SlotInv, [Next]_vars
    PROVE  TypeOK'
<1> USE ProcessAssumption
<1>1. ASSUME NEW p \in Pids, StrangerTakes(p) \/ StrangerExits(p) PROVE TypeOK'
    BY <1>1 DEF StrangerTakes, StrangerExits, TypeOK
<1>2. ASSUME NEW m \in Members, Forks(m) PROVE TypeOK'
  <2>1. worker' \in [Members -> BOOLEAN]
      BY <1>2, Zenon DEF Forks, TypeOK
  <2> QED
      BY <1>2, <2>1 DEF Forks, TypeOK
<1>3. ASSUME NEW m \in Members, LeaderExits(m) PROVE TypeOK'
    BY <1>3 DEF LeaderExits, ChildLive, TypeOK
<1>4. ASSUME NEW m \in Members, WorkerExits(m) PROVE TypeOK'
  <2>1. worker' \in [Members -> BOOLEAN]
      BY <1>4, Zenon DEF WorkerExits, TypeOK
  <2> QED
      BY <1>4, <2>1 DEF WorkerExits, TypeOK
<1>5. ASSUME NEW m \in Members, SpawnFails(m) \/ Spawns(m) PROVE TypeOK'
  <2>1. CASE SpawnFails(m)
      BY <2>1 DEF SpawnFails, TypeOK
  <2>2. CASE Spawns(m)
    <3>1. /\ proc' \in [Pids -> {"free", "live", "zombie", "stranger"}]
          /\ pid' \in [Members -> Pids \cup {NoPid}]
        BY <2>2 DEF Spawns, TypeOK
    <3>2. slot' \in [Members -> 0..(Slots + 1)]
      <4>1. 1 \in 0..(Slots + 1)
          OBVIOUS
      <4> QED
          BY <2>2, <4>1 DEF Spawns, TypeOK
    <3> QED
        BY <2>2, <3>1, <3>2 DEF Spawns, TypeOK
  <2> QED
      BY <1>5, <2>1, <2>2
<1>6. ASSUME NEW m \in Members, remember(m) PROVE TypeOK'
  <2> USE <1>6 DEF remember
  <2>1. LIVE' \in [1..Slots -> Pids \cup {NoPid}]
      BY DEF TypeOK
  <2>2. slot' \in [Members -> 0..(Slots + 1)]
    <3>1. slot[m] \in 1..Slots => slot[m] + 1 \in 0..(Slots + 1)
        BY ONLY ProcessAssumption
    <3>2. NoSlot \in 0..(Slots + 1)
        BY DEF NoSlot
    <3> QED
        BY <3>1, <3>2 DEF TypeOK
  <2>3. pc' \in [Members -> {"start", "register", "poll", "kill", "reap", "join", "drop", "returned"}]
      BY DEF TypeOK
  <2> QED
      BY <2>1, <2>2, <2>3 DEF TypeOK
<1>7. ASSUME NEW m \in Members, SeesExit(m) \/ WaitFails(m) \/ Reaps(m) PROVE TypeOK'
    BY <1>7 DEF SeesExit, WaitFails, Reaps, TypeOK
<1>8. ASSUME NEW m \in Members, GivesUp(m) \/ JoinsReaders(m) PROVE TypeOK'
    BY <1>8 DEF GivesUp, JoinsReaders, TypeOK
<1>9. ASSUME NEW m \in Members, KillsGroup(m) PROVE TypeOK'
  <2>1. pid[m] \in Pids
      BY <1>9 DEF KillsGroup, OwnInv, OwnOf, Holding
  <2>2. /\ proc' \in [Pids -> {"free", "live", "zombie", "stranger"}]
        /\ worker' \in [Members -> BOOLEAN]
      BY <1>9, <2>1, KillEffect DEF KillsGroup
  <2> QED
      BY <1>9, <2>2 DEF KillsGroup, TypeOK
<1>10. ASSUME NEW m \in Members, DropsGroup(m) PROVE TypeOK'
  <2>1. slot[m] \in 0..Slots
      BY <1>10 DEF DropsGroup, SlotInv, SlotOf, InTable
  <2>2. LIVE' \in [1..Slots -> Pids \cup {NoPid}]
      BY <1>10, <2>1 DEF DropsGroup, TypeOK, NoSlot
  <2> QED
      BY <1>10, <2>2 DEF DropsGroup, TypeOK
<1>11. CASE SignalArrives
    BY <1>11 DEF SignalArrives, TypeOK, NoSignal, Dead
<1>12. CASE HandlerKills
  <2>1. /\ proc' \in [Pids -> {"free", "live", "zombie", "stranger"}]
        /\ worker' \in [Members -> BOOLEAN]
    <3>1. CASE LIVE[signal] = NoPid
        BY <1>12, <3>1 DEF HandlerKills, TypeOK
    <3>2. CASE LIVE[signal] # NoPid
        BY <1>12, <3>2, SlotHoldsPid, KillEffect DEF HandlerKills
    <3> QED
        BY <3>1, <3>2
  <2>2. signal' \in NoSignal..Dead
      BY <1>12 DEF HandlerKills, NoSignal, Dead
  <2> QED
      BY <1>12, <2>1, <2>2 DEF HandlerKills, TypeOK
<1>13. CASE HandlerReraises
    BY <1>13 DEF HandlerReraises, TypeOK, NoSignal, Dead
<1>14. CASE UNCHANGED vars
    BY <1>14 DEF vars, TypeOK
<1> QED
    BY <1>1, <1>2, <1>3, <1>4, <1>5, <1>6, <1>7, <1>8, <1>9, <1>10, <1>11, <1>12, <1>13, <1>14
       DEF Next, Kernel, MemberStep, Handler, Over

(* The slot a member tries is in the table or just past it; the one it     *)
(* keeps is in the table or none.                                          *)
LEMMA SlotStep ==
    ASSUME TypeOK, SlotInv, [Next]_vars
    PROVE  SlotInv'
<1> USE ProcessAssumption DEF InTable
<1>1. ASSUME UNCHANGED <<pc, slot>> PROVE SlotInv'
    BY <1>1 DEF SlotInv, SlotOf
<1>2. ASSUME NEW m \in Members, MemberStep(m) PROVE SlotInv'
  <2>1. ASSUME NEW n \in Members \ {m} PROVE SlotOf(n)'
      BY <1>2, MemberLocal DEF SlotInv, SlotOf
  <2>2. SlotOf(m)'
    <3> USE DEF TypeOK, SlotOf
    <3>0. SlotOf(m)
        BY DEF SlotInv
    <3>1. CASE SpawnFails(m) \/ DropsGroup(m)
        BY <3>1 DEF SpawnFails, DropsGroup
    <3>2. CASE Spawns(m)
      <4>1. pc'[m] = "register" /\ slot'[m] = 1
          BY <3>2 DEF Spawns
      <4> QED
          BY <4>1
    <3>3. CASE remember(m)
      <4>1. CASE slot[m] \in 1..Slots /\ LIVE[slot[m]] = NoPid
          BY <3>3, <4>1 DEF remember
      <4>2. CASE slot[m] \in 1..Slots /\ LIVE[slot[m]] # NoPid
        <5>1. pc'[m] = "register" /\ slot'[m] = slot[m] + 1
            BY <3>3, <4>2 DEF remember
        <5> QED
            BY <4>2, <5>1
      <4>3. CASE slot[m] = Slots + 1
        <5>1. slot[m] \notin 1..Slots
            BY <4>3
        <5>2. pc'[m] = "poll" /\ slot'[m] = 0
            BY <3>3, <5>1 DEF remember, NoSlot
        <5> QED
            BY <5>2
      <4> QED
          BY <3>3, <4>1, <4>2, <4>3 DEF remember
    <3>4. CASE SeesExit(m) \/ WaitFails(m) \/ GivesUp(m) \/ KillsGroup(m) \/ Reaps(m) \/ JoinsReaders(m)
      <4>1. pc[m] \in InTable /\ pc'[m] \in InTable /\ slot' = slot
          BY <3>4 DEF SeesExit, WaitFails, GivesUp, KillsGroup, Reaps, JoinsReaders
      <4> QED
          BY <3>0, <4>1
    <3> QED
        BY <1>2, <3>1, <3>2, <3>3, <3>4 DEF MemberStep
  <2> QED
      BY <2>1, <2>2 DEF SlotInv
<1>3. CASE Kernel
    BY <1>1, <1>3, KernelLocal
<1>4. CASE Handler \/ UNCHANGED vars
    BY <1>1, <1>4 DEF Handler, SignalArrives, HandlerKills, HandlerReraises, vars
<1> QED
    BY <1>2, <1>3, <1>4 DEF Next, Over

(* A child that is not reaped keeps its pid from everybody else.           *)
LEMMA OwnStep ==
    ASSUME TypeOK, OwnInv, [Next]_vars
    PROVE  OwnInv'
<1> USE NoPidIsNone DEF Holding, InTable
<1>1. ASSUME UNCHANGED <<pc, pid>>,
             \A p \in Pids : /\ proc[p] \in {"live", "zombie"} => proc'[p] \in {"live", "zombie"}
                             /\ proc[p] = "zombie" => proc'[p] = "zombie"
      PROVE  OwnInv'
  <2>1. ASSUME NEW n \in Members PROVE OwnOf(n)'
    <3>1. OwnOf(n) /\ pc'[n] = pc[n] /\ pid'[n] = pid[n]
        BY <1>1 DEF OwnInv
    <3>2. pc[n] \in Holding => pid[n] \in Pids
        BY <3>1 DEF OwnOf
    <3>3. pc[n] \in Holding =>
            /\ proc[pid[n]] \in {"live", "zombie"} => proc'[pid[n]] \in {"live", "zombie"}
            /\ proc[pid[n]] = "zombie" => proc'[pid[n]] = "zombie"
        BY <1>1, <3>2
    <3> QED
        BY <3>1, <3>3 DEF OwnOf
  <2>2. ASSUME NEW n \in Members, NEW k \in Members PROVE Apart(n, k)'
      BY <1>1 DEF OwnInv, Apart
  <2> QED
      BY <2>1, <2>2 DEF OwnInv
<1>2. ASSUME NEW p \in Pids, StrangerTakes(p) \/ StrangerExits(p) PROVE OwnInv'
    BY <1>1, <1>2 DEF StrangerTakes, StrangerExits, Allocatable, TypeOK
<1>3. ASSUME NEW m \in Members, Forks(m) \/ WorkerExits(m) PROVE OwnInv'
    BY <1>1, <1>3 DEF Forks, WorkerExits
<1>4. ASSUME NEW m \in Members, LeaderExits(m) PROVE OwnInv'
  <2>1. pid[m] \in Pids /\ proc[pid[m]] = "live" /\ proc' = [proc EXCEPT ![pid[m]] = "zombie"]
      BY <1>4 DEF LeaderExits, ChildLive, OwnInv, OwnOf
  <2>2. UNCHANGED <<pc, pid>>
      BY <1>4 DEF LeaderExits
  <2>3. \A p \in Pids : /\ proc[p] \in {"live", "zombie"} => proc'[p] \in {"live", "zombie"}
                        /\ proc[p] = "zombie" => proc'[p] = "zombie"
      BY <2>1 DEF TypeOK
  <2> QED
      BY <1>1, <2>2, <2>3
<1>5. CASE Handler
  <2>1. CASE SignalArrives \/ HandlerReraises
      BY <1>1, <2>1 DEF SignalArrives, HandlerReraises
  <2>2. CASE HandlerKills
    <3>1. CASE LIVE[signal] = NoPid
        BY <1>1, <2>2, <3>1 DEF HandlerKills
    <3>2. CASE LIVE[signal] # NoPid
      <4>1. LIVE[signal] \in Pids /\ Kill(LIVE[signal]) /\ UNCHANGED <<pc, pid>>
          BY <2>2, <3>2, SlotHoldsPid DEF HandlerKills
      <4>2. \A p \in Pids : /\ proc[p] \in {"live", "zombie"} => proc'[p] \in {"live", "zombie"}
                            /\ proc[p] = "zombie" => proc'[p] = "zombie"
          BY <4>1, KillEffect
      <4> QED
          BY <1>1, <4>1, <4>2
    <3> QED
        BY <3>1, <3>2
  <2> QED
      BY <1>5, <2>1, <2>2 DEF Handler
<1>6. ASSUME NEW m \in Members, SpawnFails(m) \/ JoinsReaders(m) \/ DropsGroup(m) \/ GivesUp(m)
      PROVE  OwnInv'
  <2>1. /\ UNCHANGED <<proc, pid>>
        /\ \A n \in Members : pc'[n] = pc[n]
             \/ pc'[n] = "returned" \/ (pc[n] = "join" /\ pc'[n] = "drop")
             \/ (pc[n] = "poll" /\ pc'[n] = "kill")
      BY <1>6 DEF SpawnFails, JoinsReaders, DropsGroup, GivesUp, TypeOK
  <2> QED
      BY <2>1 DEF OwnInv, OwnOf, Apart
<1>7. ASSUME NEW m \in Members, remember(m) PROVE OwnInv'
  <2>1. /\ UNCHANGED <<proc, pid>>
        /\ \A n \in Members : pc'[n] = pc[n] \/ (pc[n] = "register" /\ pc'[n] = "poll")
      BY <1>7 DEF remember, TypeOK
  <2> QED
      BY <2>1 DEF OwnInv, OwnOf, Apart
<1>8. ASSUME NEW m \in Members, Spawns(m) PROVE OwnInv'
  <2>1. PICK p \in Pids : /\ proc[p] = "free"
                          /\ proc' = [proc EXCEPT ![p] = "live"]
                          /\ pid' = [pid EXCEPT ![m] = p]
      BY <1>8 DEF Spawns, Allocatable
  <2>2. pc' = [pc EXCEPT ![m] = "register"]
      BY <1>8 DEF Spawns
  <2>3. \A n \in Members : pc[n] \in Holding => pid[n] \in Pids /\ pid[n] # p
      BY <2>1 DEF OwnInv, OwnOf
  <2>4. ASSUME NEW n \in Members PROVE OwnOf(n)'
      BY <2>1, <2>2, <2>3 DEF OwnInv, OwnOf, TypeOK
  <2>5. ASSUME NEW n \in Members, NEW k \in Members PROVE Apart(n, k)'
      BY <2>1, <2>2, <2>3 DEF OwnInv, Apart, TypeOK
  <2> QED
      BY <2>4, <2>5 DEF OwnInv
<1>9. ASSUME NEW m \in Members, SeesExit(m) \/ WaitFails(m) \/ Reaps(m) PROVE OwnInv'
  <2>1. /\ pc[m] \in {"poll", "reap"} /\ pc'[m] \in {"join", "drop"} /\ pid' = pid
        /\ proc' = [proc EXCEPT ![pid[m]] = "free"]
        /\ \A n \in Members : n # m => pc'[n] = pc[n]
      BY <1>9 DEF SeesExit, WaitFails, Reaps, TypeOK
  <2>2. \A n \in Members : n # m /\ pc[n] \in Holding =>
            pid[n] \in Pids /\ pid[n] # pid[m] /\ proc'[pid[n]] = proc[pid[n]]
      BY <2>1 DEF OwnInv, OwnOf, Apart, TypeOK
  <2>3. ASSUME NEW n \in Members PROVE OwnOf(n)'
      BY <2>1, <2>2 DEF OwnInv, OwnOf
  <2>4. ASSUME NEW n \in Members, NEW k \in Members PROVE Apart(n, k)'
      BY <2>1 DEF OwnInv, Apart
  <2> QED
      BY <2>3, <2>4 DEF OwnInv
<1>10. ASSUME NEW m \in Members, KillsGroup(m) PROVE OwnInv'
  <2>1. /\ pc[m] = "kill" /\ pc'[m] = "reap" /\ pid' = pid /\ Kill(pid[m])
        /\ \A n \in Members : n # m => pc'[n] = pc[n]
      BY <1>10 DEF KillsGroup, TypeOK
  <2>2. pid[m] \in Pids /\ proc[pid[m]] \in {"live", "zombie"}
      BY <2>1 DEF OwnInv, OwnOf
  <2>3. /\ proc'[pid[m]] = "zombie"
        /\ \A q \in Pids : q # pid[m] => proc'[q] = proc[q]
      BY <2>1, <2>2, KillEffect
  <2>4. ASSUME NEW n \in Members PROVE OwnOf(n)'
      BY <2>1, <2>2, <2>3 DEF OwnInv, OwnOf
  <2>5. ASSUME NEW n \in Members, NEW k \in Members PROVE Apart(n, k)'
      BY <2>1 DEF OwnInv, Apart
  <2> QED
      BY <2>4, <2>5 DEF OwnInv
<1>11. CASE UNCHANGED vars
    BY <1>1, <1>11 DEF vars
<1> QED
    BY <1>2, <1>3, <1>4, <1>5, <1>6, <1>7, <1>8, <1>9, <1>10, <1>11
       DEF Next, Kernel, MemberStep, Over

(* Registered members and slots of the table correspond: a member fills    *)
(* only an empty slot and empties only its own.                            *)
LEMMA TableStep ==
    ASSUME TableExact, OwnInv, SlotInv, [Next]_vars
    PROVE  TableExact'
<1>0. TypeOK /\ TypeOK'
    BY TypeStep DEF TableExact
<1> USE NoPidIsNone
<1>1. ASSUME UNCHANGED <<pid, slot, LIVE>>,
             \A n \in Members : pc[n] \in InTable <=> pc'[n] \in InTable
      PROVE  TableExact'
  <2>1. \A n \in Members : Registered(n)' <=> Registered(n)
      BY <1>1 DEF Registered, InTable
  <2> QED
      BY <1>0, <1>1, <2>1 DEF TableExact
<1>2. CASE Kernel \/ Handler \/ UNCHANGED vars
  <2>1. UNCHANGED <<pc, pid, slot, LIVE>>
      BY <1>2, KernelLocal DEF Handler, SignalArrives, HandlerKills, HandlerReraises, vars
  <2> QED
      BY <1>1, <2>1
<1>3. ASSUME NEW m \in Members, SpawnFails(m) \/ SeesExit(m) \/ WaitFails(m) \/ GivesUp(m)
                                \/ KillsGroup(m) \/ Reaps(m) \/ JoinsReaders(m)
      PROVE  TableExact'
  <2>1. UNCHANGED <<pid, slot, LIVE>>
      BY <1>3 DEF SpawnFails, SeesExit, WaitFails, GivesUp, KillsGroup, Reaps, JoinsReaders
  <2>2. \A n \in Members : pc[n] \in InTable <=> pc'[n] \in InTable
      BY <1>0, <1>3 DEF SpawnFails, SeesExit, WaitFails, GivesUp, KillsGroup, Reaps, JoinsReaders,
                        TypeOK, InTable
  <2> QED
      BY <1>1, <2>1, <2>2
<1>4. ASSUME NEW m \in Members, Spawns(m) PROVE TableExact'
  <2>1. /\ ~Registered(m) /\ ~Registered(m)' /\ LIVE' = LIVE
        /\ \A n \in Members \ {m} : pc'[n] = pc[n] /\ pid'[n] = pid[n] /\ slot'[n] = slot[n]
      BY <1>0, <1>4 DEF Spawns, Registered, TypeOK
  <2>2. \A n \in Members \ {m} : Registered(n)' <=> Registered(n)
      BY <2>1 DEF Registered
  <2> QED
      BY <1>0, <2>1, <2>2 DEF TableExact
<1>5. ASSUME NEW m \in Members, remember(m) PROVE TableExact'
  <2>1. /\ ~Registered(m) /\ pid' = pid /\ pid[m] \in Pids
        /\ \A n \in Members \ {m} : pc'[n] = pc[n] /\ slot'[n] = slot[n]
      BY <1>0, <1>5 DEF remember, Registered, TypeOK, OwnInv, OwnOf, Holding
  <2>2. \A n \in Members \ {m} : Registered(n)' <=> Registered(n)
      BY <2>1 DEF Registered
  <2>3. \A n \in Members : Registered(n) => slot[n] \in 1..Slots /\ pid[n] \in Pids
      BY ProcessAssumption DEF Registered, SlotInv, SlotOf, OwnInv, OwnOf, InTable, NoSlot
  <2>4. CASE slot[m] \in 1..Slots /\ LIVE[slot[m]] = NoPid
    <3>1. /\ LIVE' = [LIVE EXCEPT ![slot[m]] = pid[m]] /\ slot' = slot /\ pc'[m] = "poll"
      <4>1. slot[m] # Slots + 1
          BY <2>4, ProcessAssumption
      <4> QED
          BY <1>0, <1>5, <2>4, <4>1 DEF remember, TypeOK
    <3>2. Registered(m)' /\ LIVE'[slot'[m]] = pid'[m]
        BY <1>0, <2>1, <2>4, <3>1 DEF Registered, TypeOK, NoSlot
    <3>3. \A n \in Members \ {m} : Registered(n) => slot[n] # slot[m] /\ LIVE'[slot[n]] = LIVE[slot[n]]
        BY <1>0, <2>3, <2>4, <3>1 DEF TableExact, TypeOK
    <3>4. \A n \in Members : Registered(n)' => LIVE'[slot'[n]] = pid'[n]
        BY <2>1, <2>2, <3>1, <3>2, <3>3 DEF TableExact
    <3>5. \A n, k \in Members : n # k /\ Registered(n)' /\ Registered(k)' => slot'[n] # slot'[k]
        BY <2>2, <3>1, <3>3 DEF TableExact
    <3>6. \A s \in 1..Slots : LIVE'[s] # NoPid => \E n \in Members : Registered(n)' /\ slot'[n] = s
      <4> SUFFICES ASSUME NEW s \in 1..Slots, LIVE'[s] # NoPid
                   PROVE  \E n \in Members : Registered(n)' /\ slot'[n] = s
          OBVIOUS
      <4>1. CASE s = slot[m]
          BY <3>1, <3>2, <4>1
      <4>2. CASE s # slot[m]
        <5>1. LIVE[s] # NoPid
            BY <1>0, <3>1, <4>2 DEF TypeOK
        <5>2. PICK n \in Members : Registered(n) /\ slot[n] = s
            BY <5>1 DEF TableExact
        <5> QED
            BY <2>2, <3>1, <4>2, <5>2
      <4> QED
          BY <4>1, <4>2
    <3> QED
        BY <1>0, <3>4, <3>5, <3>6 DEF TableExact
  <2>5. CASE ~(slot[m] \in 1..Slots /\ LIVE[slot[m]] = NoPid)
    <3>1. LIVE' = LIVE /\ ~Registered(m)'
        BY <1>0, <1>5, <2>5 DEF remember, TypeOK, Registered, NoSlot
    <3> QED
        BY <1>0, <2>1, <2>2, <3>1 DEF TableExact
  <2> QED
      BY <2>4, <2>5
<1>6. ASSUME NEW m \in Members, DropsGroup(m) PROVE TableExact'
  <2>1. /\ ~Registered(m)' /\ pid' = pid /\ slot' = slot /\ pc[m] = "drop"
        /\ \A n \in Members \ {m} : pc'[n] = pc[n]
      BY <1>0, <1>6 DEF DropsGroup, Registered, TypeOK
  <2>2. \A n \in Members \ {m} : Registered(n)' <=> Registered(n)
      BY <2>1 DEF Registered
  <2>3. \A n \in Members : Registered(n) => slot[n] \in 1..Slots
      BY ProcessAssumption DEF Registered, SlotInv, SlotOf, InTable, NoSlot
  <2>4. CASE slot[m] = NoSlot
    <3>1. LIVE' = LIVE /\ ~Registered(m)
        BY <1>6, <2>4 DEF DropsGroup, Registered
    <3> QED
        BY <1>0, <2>1, <2>2, <3>1 DEF TableExact
  <2>5. CASE slot[m] # NoSlot
    <3>1. LIVE' = [LIVE EXCEPT ![slot[m]] = NoPid] /\ Registered(m)
        BY <1>6, <2>1, <2>5 DEF DropsGroup, Registered
    <3>2. \A s \in 1..Slots : LIVE'[s] = IF s = slot[m] THEN NoPid ELSE LIVE[s]
        BY <1>0, <3>1 DEF TypeOK
    <3>3. \A n \in Members \ {m} : Registered(n) => slot[n] # slot[m] /\ LIVE'[slot[n]] = LIVE[slot[n]]
        BY <2>3, <3>1, <3>2 DEF TableExact
    <3>4. ASSUME NEW s \in 1..Slots, LIVE'[s] # NoPid
          PROVE  \E n \in Members : Registered(n)' /\ slot'[n] = s
      <4>1. s # slot[m] /\ LIVE[s] # NoPid
          BY <3>2, <3>4
      <4>2. PICK n \in Members : Registered(n) /\ slot[n] = s
          BY <4>1 DEF TableExact
      <4> QED
          BY <2>1, <2>2, <4>1, <4>2
    <3> QED
        BY <1>0, <2>1, <2>2, <3>3, <3>4 DEF TableExact
  <2> QED
      BY <2>4, <2>5
<1> QED
    BY <1>2, <1>3, <1>4, <1>5, <1>6 DEF Next, MemberStep, Over

(* Only a child that runs forks, and none runs after its member's kill.    *)
LEMMA BuriedStep ==
    ASSUME TypeOK, OwnInv, BuriedInv, [Next]_vars
    PROVE  BuriedInv'
<1> SUFFICES ASSUME NEW n \in Members PROVE BuriedOf(n)'
    BY DEF BuriedInv
<1>0. BuriedOf(n)
    BY DEF BuriedInv
<1>1. ASSUME UNCHANGED <<pc, ended>>, worker'[n] => worker[n] PROVE BuriedOf(n)'
    BY <1>0, <1>1 DEF BuriedOf
<1>2. ASSUME NEW p \in Pids, StrangerTakes(p) \/ StrangerExits(p) PROVE BuriedOf(n)'
    BY <1>1, <1>2 DEF StrangerTakes, StrangerExits
<1>3. ASSUME NEW m \in Members, Forks(m) PROVE BuriedOf(n)'
  <2>1. CASE n = m
      BY <1>3, <2>1 DEF Forks, ChildLive, BuriedOf
  <2>2. CASE n # m
      BY <1>1, <1>3, <2>2 DEF Forks, TypeOK
  <2> QED
      BY <2>1, <2>2
<1>4. ASSUME NEW m \in Members, LeaderExits(m) \/ WorkerExits(m) PROVE BuriedOf(n)'
    BY <1>1, <1>4 DEF LeaderExits, WorkerExits, TypeOK
<1>5. CASE Handler
  <2>1. UNCHANGED <<pc, ended>>
      BY <1>5 DEF Handler, SignalArrives, HandlerKills, HandlerReraises
  <2>2. worker'[n] => worker[n]
    <3>1. CASE worker' = worker
        BY <3>1
    <3>2. CASE HandlerKills /\ LIVE[signal] # NoPid
        BY <3>2, SlotHoldsPid, KillEffect DEF HandlerKills
    <3> QED
        BY <1>5, <3>1, <3>2 DEF Handler, SignalArrives, HandlerKills, HandlerReraises
  <2> QED
      BY <1>1, <2>1, <2>2
<1>6. ASSUME NEW m \in Members, MemberStep(m) PROVE BuriedOf(n)'
  <2>1. CASE KillsGroup(m)
    <3>1. pid[m] \in Pids
        BY <2>1 DEF KillsGroup, OwnInv, OwnOf, Holding
    <3>2. (worker'[n] => worker[n]) /\ (n = m => ~worker'[n])
        BY <2>1, <3>1, KillEffect DEF KillsGroup
    <3> QED
        BY <1>0, <1>6, <2>1, <3>2, MemberLocal DEF BuriedOf, KillsGroup
  <2>2. CASE ~KillsGroup(m)
    <3>1. worker' = worker
        BY <1>6, <2>2 DEF MemberStep, SpawnFails, Spawns, remember, SeesExit, WaitFails, GivesUp,
                          Reaps, JoinsReaders, DropsGroup
    <3>2. CASE n # m
        BY <1>0, <1>6, <3>1, <3>2, MemberLocal DEF BuriedOf
    <3>3. CASE n = m
      <4>1. \/ ended'[m] # "killed"
            \/ pc'[m] \notin {"reap", "join", "drop", "returned"}
            \/ ended'[m] = ended[m] /\ pc[m] \in {"reap", "join", "drop"}
          BY <1>6, <2>2 DEF MemberStep, SpawnFails, Spawns, remember, SeesExit, WaitFails, GivesUp,
                            Reaps, JoinsReaders, DropsGroup, TypeOK
      <4> QED
          BY <1>0, <3>1, <3>3, <4>1 DEF BuriedOf
    <3> QED
        BY <3>2, <3>3
  <2> QED
      BY <2>1, <2>2
<1>7. CASE UNCHANGED vars
    BY <1>1, <1>7 DEF vars
<1> QED
    BY <1>2, <1>3, <1>4, <1>5, <1>6, <1>7 DEF Next, Kernel, Over

(* What the handler has passed stays dead: a pid that is not reaped is not *)
(* given out again, and only a live child forks.                           *)
LEMMA ClearedStays ==
    ASSUME TypeOK, OwnInv, NEW n \in Members, pc[n] \in InTable \cup {"returned"}, Cleared(n),
           Kernel \/ Handler \/ (\E m \in Members : MemberStep(m))
    PROVE  Cleared(n)'
<1> USE DEF InTable
<1>1. ASSUME pc'[n] = pc[n], pid'[n] = pid[n], worker'[n] => worker[n],
             pc[n] \in {"poll", "kill"} /\ proc'[pid[n]] = "live" => proc[pid[n]] = "live"
      PROVE  Cleared(n)'
    BY <1>1 DEF Cleared
<1>2. pc[n] \in {"poll", "kill"} => pid[n] \in Pids /\ proc[pid[n]] = "zombie"
    BY DEF OwnInv, OwnOf, Cleared
<1>3. ASSUME NEW p \in Pids, StrangerTakes(p) \/ StrangerExits(p) PROVE Cleared(n)'
    BY <1>1, <1>2, <1>3 DEF StrangerTakes, StrangerExits, TypeOK
<1>4. ASSUME NEW m \in Members, Forks(m) PROVE Cleared(n)'
  <2>1. n # m
      BY <1>2, <1>4 DEF Forks, ChildLive
  <2> QED
      BY <1>1, <1>4, <2>1 DEF Forks, TypeOK
<1>5. ASSUME NEW m \in Members, LeaderExits(m) \/ WorkerExits(m) PROVE Cleared(n)'
    BY <1>1, <1>2, <1>5 DEF LeaderExits, WorkerExits, ChildLive, TypeOK
<1>6. CASE Handler
  <2>1. UNCHANGED <<pc, pid>>
      BY <1>6 DEF Handler, SignalArrives, HandlerKills, HandlerReraises
  <2>2. CASE UNCHANGED <<proc, worker>>
      BY <1>1, <2>1, <2>2
  <2>3. CASE HandlerKills /\ LIVE[signal] # NoPid
    <3>1. LIVE[signal] \in Pids /\ Kill(LIVE[signal])
        BY <2>3, SlotHoldsPid DEF HandlerKills
    <3>2. /\ worker'[n] => worker[n]
          /\ pc[n] \in {"poll", "kill"} /\ proc'[pid[n]] = "live" => proc[pid[n]] = "live"
        BY <1>2, <3>1, KillEffect
    <3> QED
        BY <1>1, <2>1, <3>2
  <2> QED
      BY <1>6, <2>2, <2>3 DEF Handler, SignalArrives, HandlerKills, HandlerReraises
<1>7. ASSUME NEW m \in Members, Spawns(m) PROVE Cleared(n)'
  <2>1. PICK p \in Pids : proc[p] = "free" /\ proc' = [proc EXCEPT ![p] = "live"]
      BY <1>7 DEF Spawns, Allocatable
  <2>2. n # m /\ worker' = worker
      BY <1>7 DEF Spawns
  <2>3. pc'[n] = pc[n] /\ pid'[n] = pid[n]
      BY <1>7, <2>2 DEF Spawns, TypeOK
  <2>4. pc[n] \in {"poll", "kill"} => proc'[pid[n]] = proc[pid[n]]
      BY <1>2, <2>1 DEF TypeOK
  <2> QED
      BY <1>1, <2>2, <2>3, <2>4
<1>8. ASSUME NEW m \in Members, SpawnFails(m) \/ remember(m) PROVE Cleared(n)'
    BY <1>1, <1>8 DEF SpawnFails, remember, TypeOK
<1>9. ASSUME NEW m \in Members, SeesExit(m) \/ WaitFails(m) \/ Reaps(m) PROVE Cleared(n)'
  <2>1. /\ worker' = worker /\ pid' = pid /\ proc' = [proc EXCEPT ![pid[m]] = "free"]
        /\ n # m => pc'[n] = pc[n]
        /\ n = m => pc'[n] \in {"join", "drop"} /\ pc[n] \in {"poll", "reap"}
      BY <1>9 DEF SeesExit, WaitFails, Reaps, TypeOK
  <2>2. pc[n] \in {"poll", "kill"} => proc'[pid[n]] # "live"
      BY <1>2, <2>1 DEF TypeOK
  <2> QED
      BY <2>1, <2>2 DEF Cleared
<1>10. ASSUME NEW m \in Members, GivesUp(m) \/ JoinsReaders(m) \/ DropsGroup(m) PROVE Cleared(n)'
  <2>1. /\ UNCHANGED <<worker, pid, proc>>
        /\ n # m => pc'[n] = pc[n]
        /\ n = m => pc'[n] \in {"drop", "returned"} \/ (pc[n] = "poll" /\ pc'[n] = "kill")
      BY <1>10 DEF GivesUp, JoinsReaders, DropsGroup, TypeOK
  <2> QED
      BY <2>1 DEF Cleared
<1>11. ASSUME NEW m \in Members, KillsGroup(m) PROVE Cleared(n)'
  <2>1. /\ pc[m] = "kill" /\ Kill(pid[m]) /\ pid' = pid
        /\ n # m => pc'[n] = pc[n]
        /\ n = m => pc'[n] = "reap"
      BY <1>11 DEF KillsGroup, TypeOK
  <2>2. pid[m] \in Pids
      BY <2>1 DEF OwnInv, OwnOf
  <2>3. /\ worker'[n] => worker[n]
        /\ n = m => ~worker'[n]
        /\ pc[n] \in {"poll", "kill"} /\ proc'[pid[n]] = "live" => proc[pid[n]] = "live"
      BY <1>2, <2>1, <2>2, KillEffect
  <2>4. CASE n = m
      BY <2>1, <2>3, <2>4 DEF Cleared
  <2>5. CASE n # m
      BY <1>1, <2>1, <2>3, <2>5
  <2> QED
      BY <2>4, <2>5
<1> QED
    BY <1>3, <1>4, <1>5, <1>6, <1>7, <1>8, <1>9, <1>10, <1>11 DEF Kernel, MemberStep

(* The handler passes a slot: its group is dead, or its member forgot it.  *)
LEMMA WalkStep ==
    ASSUME TableExact, OwnInv, SlotInv, WalkInv, [Next]_vars
    PROVE  WalkInv'
<1>0. TypeOK
    BY DEF TableExact
<1> USE ProcessAssumption
<1> SUFFICES ASSUME NEW n \in Members PROVE WalkOf(n)'
    BY DEF WalkInv
<1>1. WalkOf(n) /\ SlotOf(n)
    BY DEF WalkInv, SlotInv
<1>2. CASE Kernel
  <2>1. UNCHANGED <<pc, pid, slot, signal, armed>>
      BY <1>2, KernelLocal
  <2>2. signal # NoSignal /\ n \in armed /\ slot[n] < signal => Cleared(n)'
      BY <1>0, <1>1, <1>2, ClearedStays DEF WalkOf
  <2> QED
      BY <1>1, <2>1, <2>2 DEF WalkOf
<1>3. ASSUME NEW m \in Members, MemberStep(m) PROVE WalkOf(n)'
  <2>1. UNCHANGED <<signal, armed>>
      BY <1>0, <1>3, MemberLocal
  <2>2. signal # NoSignal /\ n \in armed /\ slot[n] < signal => Cleared(n)'
      BY <1>0, <1>1, <1>3, ClearedStays DEF WalkOf
  <2>3. pc[n] \in InTable \cup {"returned"} =>
          slot'[n] = slot[n] /\ pc'[n] \in InTable \cup {"returned"}
    <3>1. CASE n # m
        BY <1>0, <1>3, <3>1, MemberLocal
    <3>2. CASE n = m
        BY <1>0, <1>3, <3>2 DEF MemberStep, SpawnFails, Spawns, remember, SeesExit, WaitFails, GivesUp,
           KillsGroup, Reaps, JoinsReaders, DropsGroup, TypeOK, InTable
    <3> QED
        BY <3>1, <3>2
  <2> QED
      BY <1>1, <2>1, <2>2, <2>3 DEF WalkOf
<1>4. CASE SignalArrives
  <2>1. /\ UNCHANGED <<pc, slot>> /\ signal' = 1
        /\ n \in armed' => Registered(n)
      BY <1>4 DEF SignalArrives
  <2>2. Registered(n) => pc[n] \in InTable /\ slot[n] \in 1..Slots
      BY <1>1 DEF Registered, SlotOf, InTable, NoSlot
  <2>3. slot[n] \in 1..Slots => ~(slot[n] < 1)
      OBVIOUS
  <2> QED
      BY <2>1, <2>2, <2>3 DEF WalkOf
<1>5. CASE HandlerKills
  <2>1. /\ UNCHANGED <<pc, pid, slot, armed>> /\ signal' = signal + 1 /\ signal \in 1..Slots
        /\ signal # NoSignal
      BY <1>5 DEF HandlerKills, NoSignal
  <2> SUFFICES ASSUME n \in armed, slot[n] < signal + 1
               PROVE  Cleared(n)'
      BY <1>1, <2>1 DEF WalkOf
  <2>2. pc[n] \in InTable \cup {"returned"} /\ slot[n] \in 1..Slots
      BY <1>1, <2>1 DEF WalkOf
  <2>3. CASE slot[n] < signal
    <3>1. Cleared(n)
        BY <1>1, <2>1, <2>3 DEF WalkOf
    <3> QED
        BY <1>0, <1>5, <2>2, <3>1, ClearedStays DEF Handler
  <2>4. CASE slot[n] = signal
    <3>1. CASE pc[n] = "returned"
        BY <2>1, <3>1 DEF Cleared
    <3>2. CASE pc[n] # "returned"
      <4>1. Registered(n) /\ pid[n] \in Pids
          BY <2>2, <3>2 DEF Registered, InTable, NoSlot, OwnInv, OwnOf
      <4>2. LIVE[signal] = pid[n] /\ LIVE[signal] # NoPid
          BY <2>4, <4>1, NoPidIsNone DEF TableExact
      <4>3. Kill(pid[n])
          BY <1>5, <4>2 DEF HandlerKills
      <4>4. proc'[pid[n]] # "live" /\ ~worker'[n]
          BY <1>0, <4>1, <4>3, KillEffect
      <4> QED
          BY <2>1, <4>4 DEF Cleared
    <3> QED
        BY <3>1, <3>2
  <2> QED
      BY <2>1, <2>2, <2>3, <2>4
<1>6. CASE HandlerReraises
  <2>1. /\ UNCHANGED <<proc, worker, pc, pid, slot, armed>> /\ signal = Slots + 1
        /\ signal' = Slots + 2 /\ signal # NoSignal
      BY <1>6 DEF HandlerReraises, Dead, NoSignal
  <2>2. slot[n] \in 1..Slots => slot[n] < signal
      BY <2>1
  <2>3. Cleared(n)' <=> Cleared(n)
      BY <2>1 DEF Cleared
  <2> QED
      BY <1>1, <2>1, <2>2, <2>3 DEF WalkOf
<1>7. CASE UNCHANGED vars
  <2>1. UNCHANGED <<proc, worker, pc, pid, slot, signal, armed>>
      BY <1>7 DEF vars
  <2> QED
      BY <1>1, <2>1 DEF WalkOf, Cleared
<1> QED
    BY <1>2, <1>3, <1>4, <1>5, <1>6, <1>7 DEF Next, Handler, Over

-----------------------------------------------------------------------------
(* No child, an empty table, no signal.                                    *)
LEMMA IndInit == Init => IndInv
<1> SUFFICES ASSUME Init PROVE IndInv
    OBVIOUS
<1> USE ProcessAssumption DEF Init
<1>1. TypeOK
  <2>1. worker \in [Members -> BOOLEAN]
      BY Zenon
  <2>2. signal \in NoSignal..Dead
      BY DEF NoSignal, Dead
  <2>3. slot \in [Members -> 0..(Slots + 1)]
      BY DEF NoSlot
  <2> QED
      BY <2>1, <2>2, <2>3 DEF TypeOK
<1>2. TableExact
    BY <1>1 DEF TableExact, Registered
<1>3. OwnInv /\ SlotInv
    BY DEF OwnInv, OwnOf, Apart, SlotInv, SlotOf, Holding, InTable
<1>4. BuriedInv /\ WalkInv
    BY DEF BuriedInv, BuriedOf, WalkInv, WalkOf
<1> QED
    BY <1>2, <1>3, <1>4 DEF IndInv

(* Every step keeps the invariant.                                         *)
LEMMA IndStep == IndInv /\ [Next]_vars => IndInv'
<1> SUFFICES ASSUME IndInv, [Next]_vars PROVE IndInv'
    OBVIOUS
<1>1. TypeOK
    BY DEF IndInv, TableExact
<1> QED
    BY <1>1, TableStep, OwnStep, SlotStep, BuriedStep, WalkStep DEF IndInv

(* The inductive invariant holds throughout.                               *)
LEMMA IndInvariant == Spec => []IndInv
BY IndInit, IndStep, PTL DEF Spec

(***************************************************************************)
(* The signal cleanup table is exact (adapter/mod.rs, remember, forget):   *)
(* it holds every registered group and nothing else, for any number of     *)
(* members and slots.                                                      *)
(***************************************************************************)
THEOREM TableIsExact == Spec => []TableExact
<1>1. IndInv => TableExact
    BY DEF IndInv
<1> QED
    BY <1>1, IndInvariant, PTL

(***************************************************************************)
(* kill_and_reap never kills a stranger: at the kill the child has not     *)
(* been reaped, so its pid is still its own (adapter/mod.rs).              *)
(***************************************************************************)
THEOREM KillsOwnGroup == Spec => KillHitsOwnGroup
<1>1. IndInv /\ [Next]_vars
        => [\A m \in Members : KillsGroup(m) => proc[pid[m]] # "stranger"]_vars
  <2> SUFFICES ASSUME IndInv, NEW m \in Members, KillsGroup(m)
               PROVE  proc[pid[m]] # "stranger"
      OBVIOUS
  <2>1. pc[m] = "kill"
      BY DEF KillsGroup
  <2>2. proc[pid[m]] \in {"live", "zombie"}
      BY <2>1 DEF IndInv, OwnInv, OwnOf
  <2> QED
      BY <2>2
<1> QED
    BY <1>1, IndInvariant, PTL DEF Spec, KillHitsOwnGroup

(***************************************************************************)
(* From a member's own kill on, no worker of its child is alive            *)
(* (mununu#875); and when the handler re-raises, every group that was in   *)
(* the table as the signal arrived is dead, whatever the member threads    *)
(* did during the walk (on_terminating_signal).                            *)
(***************************************************************************)
THEOREM KilledGroupsGone == Spec => []KilledGroupsDie
<1>1. IndInv => KilledGroupsDie
  <2> SUFFICES ASSUME IndInv PROVE KilledGroupsDie
      OBVIOUS
  <2>1. ASSUME signal > Slots, NEW m \in armed
        PROVE  Cleared(m)
    <3>1. m \in Members /\ WalkOf(m)
        BY DEF IndInv, TableExact, TypeOK, WalkInv
    <3>2. signal \in Int /\ signal # NoSignal
        BY <2>1, ProcessAssumption DEF IndInv, TableExact, TypeOK, NoSignal, Dead
    <3>3. slot[m] \in 1..Slots => slot[m] < signal
        BY <2>1, <3>2, ProcessAssumption
    <3> QED
        BY <3>1, <3>2, <3>3 DEF WalkOf
  <2>2. \A m \in Members : BuriedOf(m)
      BY DEF IndInv, BuriedInv
  <2> QED
      BY <2>1, <2>2 DEF KilledGroupsDie, Cleared, BuriedOf
<1> QED
    BY <1>1, IndInvariant, PTL
=============================================================================
