--------------------------- MODULE VerifyRunProofs ---------------------------
(***************************************************************************)
(* What the budget arithmetic of adapter/run_budget.rs guarantees, and the *)
(* safety of a verification run: its verdicts, its budget and its          *)
(* breadcrumb, for every number of rows, every ladder and every design.    *)
(*                                                                         *)
(* None of the properties of the run is inductive.  IndInv adds where the  *)
(* actors may be, who may be active beside whom, what a thread's current   *)
(* budget is between two guards, and what the verdicts of a report that is *)
(* still being worked on have in common with the ones that ship.           *)
(***************************************************************************)
EXTENDS VerifyRun, FiniteSetTheorems, WellFoundedInduction, TLAPS

\* The fact about % that the clamp rests on.
LEMMA ModBounds ==
    ASSUME NEW x \in Nat
    PROVE  /\ x % Word \in 0..(Word - 1)
           /\ x % Word <= x
           /\ x < Word => x % Word = x
BY BudgetConstants, SMT

(***************************************************************************)
(* Budget::child: a nested budget never outlives the one it is a child of, *)
(* so a scope that honours its own budget honours every enclosing one.     *)
(***************************************************************************)
THEOREM ChildWithinParent ==
    ASSUME NEW outer \in Deadlines, NEW ms \in Nat \cup {None},
           NEW at \in Nat, NEW t \in Nat, expired(outer, t)
    PROVE  expired(child(outer, ms, at), t)
<1>1. CASE ms = None
    <2>1. child(outer, ms, at) = outer
        BY <1>1 DEF child
    <2>2. QED
        BY <2>1
<1>2. CASE ms # None
    <2>1. outer \in Nat /\ t >= outer
        BY DEF Deadlines, expired
    <2>2. child(outer, ms, at) = least(outer, at + ms)
        BY <1>2, <2>1, BudgetConstants DEF child
    <2>3. least(outer, at + ms) \in Nat /\ least(outer, at + ms) <= outer
        BY <1>2, <2>1, BudgetConstants DEF least
    <2>4. QED
        BY <2>1, <2>2, <2>3, BudgetConstants DEF expired
<1>3. QED
    BY <1>1, <1>2

(***************************************************************************)
(* clamp_query_ms: a solver query is always given between 1 ms and its own *)
(* default, and never more than what is left of the budget (1 ms when      *)
(* nothing is): never 0, which a solver reads as no limit at all.          *)
(***************************************************************************)
THEOREM ClampInRange ==
    ASSUME NEW default_ms \in 1..(Word - 1), NEW rem \in Nat
    PROVE  /\ clamp_query_ms(default_ms, rem) \in 1..default_ms
           /\ clamp_query_ms(default_ms, rem) <= greatest(rem, 1)
<1> DEFINE left == greatest(rem, 1)
<1>1. left \in Nat /\ left >= 1
    BY DEF greatest
<1>2. left % Word \in Nat /\ left % Word <= left
    BY <1>1, ModBounds, BudgetConstants
<1>3. clamp_query_ms(default_ms, rem) = greatest(least(default_ms, left % Word), 1)
    BY BudgetConstants DEF clamp_query_ms
<1> HIDE DEF left
<1>4. greatest(least(default_ms, left % Word), 1) \in 1..default_ms
    BY <1>2, BudgetConstants DEF greatest, least
<1>5. greatest(least(default_ms, left % Word), 1) <= left
    BY <1>1, <1>2, BudgetConstants DEF greatest, least
<1>6. QED
    BY <1>3, <1>4, <1>5 DEF left

(***************************************************************************)
(* `rem.max(1) as u32` is exact as long as less than 2^32 ms are left: the *)
(* query gets the smaller of its default and the remainder.  From there on *)
(* only ClampInRange holds, and the cast may cut the timeout short.        *)
(***************************************************************************)
THEOREM ClampExact ==
    ASSUME NEW default_ms \in 1..(Word - 1), NEW rem \in Nat, rem < Word
    PROVE  clamp_query_ms(default_ms, rem) = least(default_ms, greatest(rem, 1))
<1> DEFINE left == greatest(rem, 1)
<1>1. left \in Nat /\ left >= 1 /\ left < Word
    BY BudgetConstants DEF greatest
<1>2. left % Word = left
    BY <1>1, ModBounds
<1>3. clamp_query_ms(default_ms, rem) = greatest(least(default_ms, left % Word), 1)
    BY BudgetConstants DEF clamp_query_ms
<1> HIDE DEF left
<1>4. greatest(least(default_ms, left), 1) = least(default_ms, left)
    BY <1>1, BudgetConstants DEF greatest, least
<1>5. QED
    BY <1>2, <1>3, <1>4 DEF left

(***************************************************************************)
(* Both ways of choosing a query's timeout, clamp_query_ms (which only     *)
(* shrinks the default) and query_ms_up_to_remaining (which may grow it):  *)
(* a query started before the deadline and cut at its timeout ends by the  *)
(* deadline, whatever the cast or the saturation does to the remainder.    *)
(***************************************************************************)
THEOREM QueryWithinBudget ==
    ASSUME NEW default_ms \in 1..(Word - 1), NEW deadline \in Nat,
           NEW at \in Nat, ~expired(deadline, at)
    PROVE  LET rem == remaining_ms(deadline, at)
           IN  /\ at + clamp_query_ms(default_ms, rem) <= deadline
               /\ at + query_ms_up_to_remaining(default_ms, rem) <= deadline
               /\ query_ms_up_to_remaining(default_ms, rem) \in 1..(Word - 1)
<1> DEFINE rem == remaining_ms(deadline, at)
<1>1. deadline # Unbounded /\ at < deadline
    BY BudgetConstants DEF expired
<1>2. rem = deadline - at /\ rem \in Nat /\ rem >= 1
    BY <1>1 DEF remaining_ms, greatest
<1> HIDE DEF rem
<1>3. greatest(rem, 1) = rem
    BY <1>2 DEF greatest
<1>4. clamp_query_ms(default_ms, rem) \in Nat /\ clamp_query_ms(default_ms, rem) <= rem
    BY <1>2, <1>3, ClampInRange, BudgetConstants
<1>5. query_ms_up_to_remaining(default_ms, rem) = least(rem, Word - 1)
    BY <1>2, <1>3, BudgetConstants DEF query_ms_up_to_remaining
<1>6. least(rem, Word - 1) \in 1..(Word - 1) /\ least(rem, Word - 1) <= rem
    BY <1>2, BudgetConstants DEF least
<1>7. QED
    <2>1. at + clamp_query_ms(default_ms, rem) <= deadline
        BY <1>2, <1>4
    <2>2. at + query_ms_up_to_remaining(default_ms, rem) <= deadline
        BY <1>2, <1>5, <1>6, BudgetConstants
    <2>3. QED
        BY <1>5, <1>6, <2>1, <2>2 DEF rem

-----------------------------------------------------------------------------
(* The inductive invariant.                                                *)

\* What Init chooses and no step changes.
DesignOK ==
    /\ mode \in {"single", "sequential", "parallel"}
    /\ ladder \in Seq({"exact", "symbolic"}) /\ Len(ladder) >= 1
    /\ mode = "single" <=> Len(ladder) = 1
    /\ truth \in [Rows -> Definite]
    /\ lifted \in [Rows -> Definite]
    /\ class \in [Rows -> Classes]
    /\ cone \in [Rows -> SUBSET FreeParts]
    /\ \A r \in Rows : cone[r] = {} => lifted[r] = truth[r]
    /\ paired \in BOOLEAN /\ (paired => N >= 2)
    /\ unsound \subseteq Engines

\* A member's pass is under way.
Active == {"row", "engine", "replan", "rescue", "skips", "skip", "post"}

\* The planner has merged the members' reports.
Merged == {"replan", "rescue", "post", "record", "done"}

\* Who may be where.  Only the single engine re-plans its own report; the
\* planner moves on when no pass is under way; passes on one thread follow each
\* other.
ControlInv ==
    /\ pc[0] \in Merged \cup {"members", "failed"}
    /\ \A m \in Members : pc[m] \in Active \cup {"off", "done", "failed"}
    /\ mode = "single" => pc[0] = "members"
    /\ \A m \in Members : pc[m] \in {"replan", "rescue"} => mode = "single"
    /\ pc[0] # "members" => \A m \in Members : pc[m] \notin Active
    /\ mode # "parallel" => \A m, k \in Members : k < m /\ pc[m] # "off" => Ended(k)

\* An actor that works works on a row it may work on.
RowInv ==
    \A a \in Actors :
        /\ pc[a] \in Busy => pos[a] \in Rows
        /\ pc[a] = "rescue" => rep[a][pos[a]].out = "unknown"
        /\ pc[a] = "skip" => ladder[a] # "exact"

\* The budget of a pass is the run budget from the instant the pass began, with
\* nothing above it, and a thread without a pass has none.
BudgetInv ==
    /\ \A m \in Members : pc[m] \notin Active => began[m] = None
    /\ \A m \in Members : pc[m] \in Active =>
         /\ began[m] \in Nat
         /\ runDl[m] = child(Unbounded, run_budget_ms, began[m])
         /\ saved[m] = Unbounded
         /\ pc[m] \notin {"engine", "rescue"} => current[Thread(m)] = runDl[m]
    /\ \A t \in Actors :
         (\A m \in Members : Thread(m) = t => pc[m] \notin Active)
             /\ ~(t = 0 /\ pc[0] = "rescue")
         => current[t] = Unbounded

\* A verdict that is not the lifted model's comes from an unsound engine.
Honest(v, r) == Decided(v) /\ v.out # lifted[r] => v.by \in unsound

HonestInv == \A a \in Actors : \A r \in Rows : Honest(rep[a][r], r)

Settled(a) == pc[a] \in {"record", "done"}

\* A report that is returned has no violation of a row whose violations are
\* withheld.
WithheldInv ==
    \A a \in Actors : Settled(a) =>
        \A r \in Rows : rep[a][r].out = "violated" => ~Withholds(r)

\* What the planner's report has to do with the verdicts it was merged from: a
\* verdict that is not the re-plan's is that of every member that voted, and a row
\* that got votes is open only as an alarm, or, at the end, as a violation of the
\* re-plan's that is withheld.
Agreed(v, r) ==
    Decided(v) /\ v.by # "rescue" =>
        voted[r] = {v.out} /\ (v.out = "violated" => ~Withholds(r))

Alarm(v) == v.out = "unknown" /\ v.why \in {"contradiction", "self"}

Kept(v, r) ==
    Agreed(v, r) /\ (~Decided(v) /\ voted[r] # {} => Alarm(v))

KeptAtEnd(v, r) ==
    /\ Agreed(v, r)
    /\ ~Decided(v) /\ voted[r] # {} =>
         Alarm(v) \/ (v.out = "unknown" /\ v.by = "rescue" /\ v.why \in {"init", "leaf"})

VotedInv ==
    \A r \in Rows : /\ pc[0] = "members" => voted[r] = {}
                    /\ pc[0] \in {"replan", "rescue", "post"} => Kept(rep[0][r], r)
                    /\ pc[0] \in {"record", "done"} => KeptAtEnd(rep[0][r], r)

PairInv == \A a \in Actors : Settled(a) => ~PairContradicts(rep[a])

\* What is on file of the verdict v of row r that member m reached: all of it,
\* unless the skip rescue replaced it after the last record.
OnFile(m, v, r) ==
    v.out \in crumbs[r].all \/ (v.by = "exact" /\ ladder[m] # "exact")

CrumbInv ==
    /\ mode # "parallel" => \A m \in Members : pc[m] = "engine" =>
         \A r \in 1..(pos[m] - 1) :
             /\ rep[m][r].out \in crumbs[r].all
             /\ mode = "single" => crumbs[r].last = rep[m][r].out
    /\ mode = "sequential" => \A m \in Members : pc[m] \in {"skips", "skip", "post"} =>
         \A r \in Rows : OnFile(m, rep[m][r], r)
    /\ mode = "sequential" /\ pc[0] = "members" => \A m \in Oks :
         \A r \in Rows : rep[m][r].why # "self" /\ ~Withholds(r) => OnFile(m, rep[m][r], r)
    /\ pc[0] = "done" => \A r \in Rows : crumbs[r].last = rep[0][r].out

IndInv ==
    /\ DesignOK /\ TypeOK /\ ControlInv /\ RowInv /\ BudgetInv
    /\ HonestInv /\ WithheldInv /\ VotedInv /\ PairInv /\ CrumbInv

-----------------------------------------------------------------------------
(* Facts about the operators of the model.                                 *)

\* A non-empty set of numbers has a least element, and Min is in it.
LEMMA MinIn ==
    ASSUME NEW S \in SUBSET Nat, S # {}
    PROVE  Min(S) \in S
<1> DEFINE Less == {p \in Nat \X Nat : p[1] < p[2]}
<1>1. IsWellFoundedOn(Less, Nat)
    BY NatLessThanWellFounded DEF OpToRel
<1>2. \E x \in S : \A y \in S : x <= y
    <2>1. PICK x \in S : \A y \in S : ~(<<y, x>> \in Less)
        <3> HIDE DEF Less
        <3>1. QED
            BY <1>1, WFMin
    <2>2. \A y \in S : ~(y < x)
        BY <2>1
    <2>3. QED
        BY <2>2
<1>3. QED
    BY <1>2 DEF Min

\* Threads and actors.
LEMMA ActorFacts ==
    ASSUME DesignOK
    PROVE  /\ Len(ladder) \in Nat
           /\ Members \subseteq Actors /\ 0 \in Actors /\ 0 \notin Members
           /\ Members \subseteq Nat /\ Actors \subseteq Nat /\ 1 \in Members
           /\ \A a \in Actors : a # 0 => a \in Members
           /\ \A a \in Actors : Thread(a) \in Actors
           /\ \A m \in Members : ladder[m] \in {"exact", "symbolic"}
<1>1. Len(ladder) \in Nat /\ \A m \in 1..Len(ladder) : ladder[m] \in {"exact", "symbolic"}
    BY DEF DesignOK
<1>2. QED
    BY <1>1 DEF DesignOK, Members, Actors, Thread

Verdicts == [out : Outcomes, why : Reasons, by : Engines \cup {None}]
Reports  == [Rows -> Verdicts]

LEMMA VerdictIn ==
    ASSUME NEW o \in Outcomes, NEW w \in Reasons, NEW b \in Engines \cup {None}
    PROVE  /\ Verdict(o, w, b) \in Verdicts
           /\ Verdict(o, w, b).out = o
           /\ Verdict(o, w, b).why = w
           /\ Verdict(o, w, b).by = b
BY DEF Verdict, Verdicts

LEMMA AbstainIn ==
    ASSUME NEW w \in Reasons
    PROVE  /\ Abstain(w) \in Verdicts
           /\ Abstain(w).out = "unknown"
           /\ Abstain(w).why = w
           /\ ~Decided(Abstain(w))
<1>1. "unknown" \in Outcomes
    BY DEF Outcomes
<1>2. /\ Abstain(w) \in Verdicts
      /\ Abstain(w).out = "unknown"
      /\ Abstain(w).why = w
    BY <1>1, VerdictIn DEF Abstain
<1>3. QED
    BY <1>2 DEF Decided, Definite

LEMMA UnreportedIn ==
    /\ Unreported \in Reports
    /\ \A r \in Rows : Unreported[r].out = "unknown" /\ ~Decided(Unreported[r])
<1>1. "pending" \in Reasons
    BY DEF Reasons, Causes
<1>2. QED
    BY <1>1, AbstainIn DEF Unreported, Reports

\* The passes that withhold violations over free cones.
LEMMA WithholdFacts ==
    ASSUME DesignOK, NEW report \in Reports
    PROVE  /\ withhold(report) \in Reports
           /\ \A r \in Rows :
                \/ withhold(report)[r] = report[r]
                   /\ (report[r].out = "violated" => ~Withholds(r))
                \/ /\ report[r].out = "violated" /\ Withholds(r)
                   /\ withhold(report)[r].out = "unknown"
                   /\ withhold(report)[r].why \in {"init", "leaf"}
                   /\ withhold(report)[r].by = report[r].by
<1>1. ASSUME NEW r \in Rows
      PROVE  /\ withhold(report)[r] \in Verdicts
             /\ \/ withhold(report)[r] = report[r]
                   /\ (report[r].out = "violated" => ~Withholds(r))
                \/ /\ report[r].out = "violated" /\ Withholds(r)
                   /\ withhold(report)[r].out = "unknown"
                   /\ withhold(report)[r].why \in {"init", "leaf"}
                   /\ withhold(report)[r].by = report[r].by
    <2>1. report[r] \in Verdicts /\ report[r].by \in Engines \cup {None}
        BY <1>1 DEF Reports, Verdicts
    <2>2. CASE report[r].out = "violated" /\ Withholds(r)
        <3>1. withhold(report)[r] = Verdict("unknown", WithheldFor(r), report[r].by)
            BY <1>1, <2>2 DEF withhold
        <3>2. /\ WithheldFor(r) \in {"init", "leaf"} /\ WithheldFor(r) \in Reasons
              /\ "unknown" \in Outcomes
            BY DEF WithheldFor, Reasons, Causes, Outcomes
        <3>3. QED
            BY <2>1, <2>2, <3>1, <3>2, VerdictIn
    <2>3. CASE ~(report[r].out = "violated" /\ Withholds(r))
        BY <1>1, <2>1, <2>3 DEF withhold
    <2>4. QED
        BY <2>2, <2>3
<1>2. withhold(report) \in Reports
    BY <1>1 DEF withhold, Reports
<1>3. QED
    BY <1>1, <1>2

\* The consistency pass leaves a row alone or withdraws its verdict, and what it
\* returns does not contradict itself.
LEMMA FlagFacts ==
    ASSUME DesignOK, NEW report \in Reports
    PROVE  LET res == flag_self_contradictory_verdicts(report)
           IN  /\ res \in Reports
               /\ ~PairContradicts(res)
               /\ \A r \in Rows : \/ res[r] = report[r]
                                  \/ res[r].out = "unknown" /\ res[r].why = "self"
<1> DEFINE res == flag_self_contradictory_verdicts(report)
<1>1. CASE PairContradicts(report)
    <2>1. res = [r \in Rows |-> IF r \in {1, 2} THEN Verdict("unknown", "self", report[r].by)
                                ELSE report[r]]
        BY <1>1 DEF flag_self_contradictory_verdicts
    <2>2. ASSUME NEW r \in Rows
          PROVE  /\ res[r] \in Verdicts
                 /\ \/ res[r] = report[r]
                    \/ res[r].out = "unknown" /\ res[r].why = "self"
                 /\ r \in {1, 2} => res[r].out = "unknown"
        <3>1. report[r] \in Verdicts /\ report[r].by \in Engines \cup {None}
            BY <2>2 DEF Reports, Verdicts
        <3>2. "unknown" \in Outcomes /\ "self" \in Reasons
            BY DEF Outcomes, Reasons, Causes
        <3>3. res[r] = IF r \in {1, 2} THEN Verdict("unknown", "self", report[r].by) ELSE report[r]
            BY <2>1, <2>2
        <3>4. QED
            BY <3>1, <3>2, <3>3, VerdictIn
    <2>3. 1 \in Rows /\ 2 \in Rows
        BY <1>1, RunConstants DEF PairContradicts, DesignOK, Rows
    <2>4. ~PairContradicts(res)
        <3>1. res[1].out = "unknown"
            BY <2>2, <2>3
        <3>2. ~Decided(res[1])
            BY <3>1 DEF Decided, Definite
        <3> HIDE DEF res
        <3>3. QED
            BY <3>2 DEF PairContradicts
    <2>5. res \in Reports
        BY <2>1, <2>2 DEF Reports
    <2>6. QED
        BY <2>2, <2>4, <2>5
<1>2. CASE ~PairContradicts(report)
    <2>1. res = report
        BY <1>2 DEF flag_self_contradictory_verdicts
    <2>2. QED
        BY <1>2, <2>1
<1>3. QED
    BY <1>1, <1>2

\* The reasons of undecided rows come and go; nothing else does.
LEMMA ClassifiedFacts ==
    ASSUME NEW report \in Reports
    PROVE  /\ Classified(report) \in Reports
           /\ \A r \in Rows :
                /\ Classified(report)[r].out = report[r].out
                /\ Classified(report)[r].by = report[r].by
                /\ Classified(report)[r] # report[r] =>
                     report[r].out = "unknown" /\ report[r].why = None
<1>1. ASSUME NEW r \in Rows
      PROVE  /\ Classified(report)[r] \in Verdicts
             /\ Classified(report)[r].out = report[r].out
             /\ Classified(report)[r].by = report[r].by
             /\ Classified(report)[r] # report[r] =>
                  report[r].out = "unknown" /\ report[r].why = None
    <2>1. report[r] \in Verdicts
        BY <1>1 DEF Reports
    <2>2. Classified(report)[r] = IF report[r].out = "unknown" /\ report[r].why = None
                                  THEN [report[r] EXCEPT !.why = "shape"] ELSE report[r]
        BY <1>1 DEF Classified
    <2>3. QED
        BY <2>1, <2>2 DEF Verdicts, Reasons, Causes
<1>2. Classified(report) \in Reports
    BY <1>1 DEF Classified, Reports
<1>3. QED
    BY <1>1, <1>2

LEMMA UnshapedFacts ==
    ASSUME NEW report \in Reports
    PROVE  /\ Unshaped(report) \in Reports
           /\ \A r \in Rows :
                /\ Unshaped(report)[r].out = report[r].out
                /\ Unshaped(report)[r].by = report[r].by
                /\ Unshaped(report)[r] # report[r] =>
                     report[r].out = "unknown" /\ report[r].why = "shape"
<1>1. ASSUME NEW r \in Rows
      PROVE  /\ Unshaped(report)[r] \in Verdicts
             /\ Unshaped(report)[r].out = report[r].out
             /\ Unshaped(report)[r].by = report[r].by
             /\ Unshaped(report)[r] # report[r] =>
                  report[r].out = "unknown" /\ report[r].why = "shape"
    <2>1. report[r] \in Verdicts
        BY <1>1 DEF Reports
    <2>2. Unshaped(report)[r] = IF report[r].out = "unknown" /\ report[r].why = "shape"
                                THEN [report[r] EXCEPT !.why = None] ELSE report[r]
        BY <1>1 DEF Unshaped
    <2>3. QED
        BY <2>1, <2>2 DEF Verdicts, Reasons, Causes
<1>2. Unshaped(report) \in Reports
    BY <1>1 DEF Unshaped, Reports
<1>3. QED
    BY <1>1, <1>2

\* The definite verdicts of the members that returned a report.
Votes(r) == {m \in Oks : Decided(rep[m][r])}
Outs(r)  == {rep[m][r].out : m \in Votes(r)}

\* A set of definite verdicts has none, one or both of them, and Cardinality
\* tells these apart.
LEMMA OutsCount ==
    ASSUME NEW S \in SUBSET Definite
    PROVE  /\ S = Definite => Cardinality(S) # 1
           /\ S = {} => Cardinality(S) # 1
           /\ S # Definite /\ S # {} => Cardinality(S) = 1 /\ \E x \in Definite : S = {x}
<1>1. S = {} => Cardinality(S) = 0
    BY FS_EmptySet
<1>2. ASSUME S = Definite PROVE Cardinality(S) # 1
    <2>1. S = {"holds"} \cup {"violated"} /\ "violated" \notin {"holds"}
        BY <1>2 DEF Definite
    <2>2. IsFiniteSet({"holds"}) /\ Cardinality({"holds"}) = 1
        BY FS_Singleton
    <2>3. Cardinality({"holds"} \cup {"violated"}) = Cardinality({"holds"}) + 1
        BY <2>1, <2>2, FS_AddElement
    <2>4. QED
        BY <2>1, <2>2, <2>3
<1>3. ASSUME S # Definite, S # {}
      PROVE  Cardinality(S) = 1 /\ \E x \in Definite : S = {x}
    <2>1. PICK x \in Definite : S = {x}
        BY <1>3 DEF Definite
    <2>2. QED
        BY <2>1, FS_Singleton
<1>4. QED
    BY <1>1, <1>2, <1>3

\* merge_portfolio_reports on one row: no vote, an alarm, or the verdict of a
\* voter whom no other contradicts.
LEMMA MergeRowFacts ==
    ASSUME DesignOK, TypeOK, Oks # {}, NEW r \in Rows
    PROVE  /\ MergeRow(Oks, r) \in Verdicts
           /\ Outs(r) \subseteq Definite
           /\ \/ Outs(r) = {} /\ ~Decided(MergeRow(Oks, r))
              \/ Outs(r) = Definite /\ MergeRow(Oks, r) = Abstain("contradiction")
              \/ \E m \in Oks : /\ Outs(r) = {MergeRow(Oks, r).out}
                                /\ Decided(MergeRow(Oks, r))
                                /\ MergeRow(Oks, r).out = rep[m][r].out
                                /\ MergeRow(Oks, r).by = rep[m][r].by
<1>1. Oks \subseteq Members /\ Votes(r) \subseteq Oks /\ Oks \in SUBSET Nat
      /\ Votes(r) \in SUBSET Nat
    BY ActorFacts DEF Oks, Votes
<1>2. \A m \in Oks : rep[m][r] \in Verdicts
    BY <1>1, ActorFacts DEF TypeOK, Verdicts
<1>3. FirstOf(Oks) \in Oks
    BY <1>1, MinIn DEF FirstOf
<1>4. Outs(r) \subseteq Definite
    BY DEF Outs, Votes, Decided
<1>5. rep[FirstOf(Oks)][r] \in Verdicts /\ rep[FirstOf(Oks)][r].why \in Reasons
    BY <1>2, <1>3 DEF Verdicts
<1> DEFINE w == rep[FirstOf(Oks)][r].why
           u == IF \E m \in Oks : rep[m][r].out = "unknown" THEN "unknown" ELSE "skipped"
           first == rep[FirstOf(Votes(r))][r]
<1>6. MergeRow(Oks, r) =
        CASE Outs(r) = Definite -> Abstain("contradiction")
          [] Cardinality(Outs(r)) = 1 -> Verdict(first.out, w, first.by)
          [] OTHER -> Verdict(u, w, None)
    BY DEF MergeRow, Outs, Votes
<1> HIDE DEF w, u
<1>7. CASE Outs(r) = Definite
    <2>1. Cardinality(Outs(r)) # 1
        BY <1>4, <1>7, OutsCount
    <2> HIDE DEF first
    <2>2. MergeRow(Oks, r) = Abstain("contradiction")
        BY <1>6, <1>7, <2>1
    <2>3. "contradiction" \in Reasons
        BY DEF Reasons, Causes
    <2>4. QED
        BY <1>4, <1>7, <2>2, <2>3, AbstainIn
<1>8. CASE Outs(r) = {}
    <2>1. Cardinality(Outs(r)) # 1 /\ Outs(r) # Definite
        BY <1>8, OutsCount DEF Definite
    <2> HIDE DEF first
    <2>2. MergeRow(Oks, r) = Verdict(u, w, None)
        BY <1>6, <2>1
    <2>3. u \in Outcomes /\ u \notin Definite /\ w \in Reasons
        BY <1>5 DEF u, w, Outcomes, Definite
    <2>4. MergeRow(Oks, r) \in Verdicts /\ MergeRow(Oks, r).out = u
        BY <2>2, <2>3, VerdictIn
    <2>5. QED
        BY <1>4, <1>8, <2>3, <2>4 DEF Decided
<1>9. CASE Outs(r) # Definite /\ Outs(r) # {}
    <2>1. Cardinality(Outs(r)) = 1
        BY <1>4, <1>9, OutsCount
    <2>2. PICK x \in Definite : Outs(r) = {x}
        BY <1>4, <1>9, OutsCount
    <2>3. FirstOf(Votes(r)) \in Votes(r)
        <3>1. Votes(r) # {}
            BY <1>9 DEF Outs
        <3>2. QED
            BY <1>1, <3>1, MinIn DEF FirstOf
    <2>4. first \in Verdicts /\ first.out \in Outs(r)
        BY <1>1, <1>2, <2>3 DEF Outs
    <2>5. first.out = x /\ first.out \in Outcomes /\ first.by \in Engines \cup {None}
        BY <2>2, <2>4 DEF Verdicts
    <2>6. MergeRow(Oks, r) = Verdict(first.out, w, first.by)
        <3> HIDE DEF first
        <3>1. QED
            BY <1>6, <1>9, <2>1
    <2>7. w \in Reasons
        BY <1>5 DEF w
    <2>8. MergeRow(Oks, r) \in Verdicts /\ MergeRow(Oks, r).out = x
          /\ MergeRow(Oks, r).by = first.by
        <3> HIDE DEF first
        <3>1. QED
            BY <2>5, <2>6, <2>7, VerdictIn
    <2>9. Decided(MergeRow(Oks, r))
        BY <2>8 DEF Decided
    <2>10. QED
        BY <1>1, <1>4, <2>2, <2>3, <2>5, <2>8, <2>9
<1>10. QED
    BY <1>7, <1>8, <1>9

\* The merged report, its shape-derived reasons dropped: a decided row is the
\* undisputed verdict of a member, and a row that got votes stays open only as an
\* alarm.
MergedReport == Unshaped(merge_portfolio_reports)

LEMMA MergedFacts ==
    ASSUME DesignOK, TypeOK, Oks # {}
    PROVE  /\ merge_portfolio_reports \in Reports
           /\ MergedReport \in Reports
           /\ ~PairContradicts(MergedReport)
           /\ \A r \in Rows :
                /\ Decided(MergedReport[r]) =>
                     \E m \in Oks : /\ Outs(r) = {MergedReport[r].out}
                                    /\ MergedReport[r].out = rep[m][r].out
                                    /\ MergedReport[r].by = rep[m][r].by
                /\ ~Decided(MergedReport[r]) /\ Outs(r) # {} =>
                     /\ MergedReport[r].out = "unknown"
                     /\ MergedReport[r].why \in {"contradiction", "self"}
<1> DEFINE failed == \E m \in Members : pc[m] = "failed"
           raw == [r \in Rows |-> WithFailure(MergeRow(Oks, r), failed)]
           flagged == flag_self_contradictory_verdicts(raw)
<1>1. ASSUME NEW v \in Verdicts
      PROVE  /\ WithFailure(v, failed) \in Verdicts
             /\ WithFailure(v, failed).out = v.out
             /\ WithFailure(v, failed).by = v.by
             /\ v.why # None => WithFailure(v, failed) = v
    <2>1. "engine" \in Reasons
        BY DEF Reasons, Causes
    <2>2. WithFailure(v, failed) = v \/ (v.why = None /\ WithFailure(v, failed) = [v EXCEPT !.why = "engine"])
        BY DEF WithFailure
    <2>3. QED
        BY <1>1, <2>1, <2>2 DEF Verdicts
<1>2. raw \in Reports
    BY <1>1, MergeRowFacts DEF Reports
<1>3. merge_portfolio_reports = flagged
    BY DEF merge_portfolio_reports
<1>4. \A r \in Rows : raw[r] = WithFailure(MergeRow(Oks, r), failed)
    OBVIOUS
<1> HIDE DEF failed, raw
<1>5. /\ flagged \in Reports
      /\ ~PairContradicts(flagged)
      /\ \A r \in Rows : \/ flagged[r] = raw[r]
                         \/ flagged[r].out = "unknown" /\ flagged[r].why = "self"
    BY <1>2, FlagFacts
<1> HIDE DEF flagged
<1>6. /\ MergedReport \in Reports
      /\ \A r \in Rows :
           /\ MergedReport[r].out = flagged[r].out
           /\ MergedReport[r].by = flagged[r].by
           /\ MergedReport[r] # flagged[r] =>
                flagged[r].out = "unknown" /\ flagged[r].why = "shape"
    BY <1>3, <1>5, UnshapedFacts DEF MergedReport
<1>7. ~PairContradicts(MergedReport)
    <2>1. SUFFICES ASSUME PairContradicts(MergedReport) PROVE FALSE
        OBVIOUS
    <2>2. 1 \in Rows /\ 2 \in Rows
        BY <2>1, RunConstants DEF PairContradicts, DesignOK, Rows
    <2>3. \A r \in {1, 2} : MergedReport[r] = flagged[r]
        <3>1. \A r \in {1, 2} : MergedReport[r].out # "unknown"
            BY <2>1 DEF PairContradicts, Decided, Definite
        <3>2. QED
            BY <1>6, <2>2, <3>1
    <2>4. PairContradicts(flagged)
        BY <2>1, <2>3 DEF PairContradicts
    <2>5. QED
        BY <1>5, <2>4
<1>8. ASSUME NEW r \in Rows
      PROVE  /\ Decided(MergedReport[r]) =>
                  \E m \in Oks : /\ Outs(r) = {MergedReport[r].out}
                                 /\ MergedReport[r].out = rep[m][r].out
                                 /\ MergedReport[r].by = rep[m][r].by
             /\ ~Decided(MergedReport[r]) /\ Outs(r) # {} =>
                  /\ MergedReport[r].out = "unknown"
                  /\ MergedReport[r].why \in {"contradiction", "self"}
    <2> DEFINE v == MergeRow(Oks, r)
    <2>1. /\ v \in Verdicts
          /\ \/ Outs(r) = {} /\ ~Decided(v)
             \/ Outs(r) = Definite /\ v = Abstain("contradiction")
             \/ \E m \in Oks : /\ Outs(r) = {v.out}
                               /\ Decided(v)
                               /\ v.out = rep[m][r].out
                               /\ v.by = rep[m][r].by
        BY <1>8, MergeRowFacts
    <2> HIDE DEF v
    <2>2. /\ raw[r].out = v.out /\ raw[r].by = v.by
          /\ v.why # None => raw[r] = v
        BY <1>1, <1>4, <1>8, <2>1 DEF v
    <2>3. CASE flagged[r].out = "unknown" /\ flagged[r].why = "self"
        <3>1. MergedReport[r] = flagged[r]
            BY <1>6, <1>8, <2>3
        <3>2. ~Decided(MergedReport[r])
            BY <2>3, <3>1 DEF Decided, Definite
        <3>3. QED
            BY <2>3, <3>1, <3>2
    <2>4. CASE flagged[r] = raw[r]
        <3>1. MergedReport[r].out = v.out /\ MergedReport[r].by = v.by
            BY <1>6, <1>8, <2>2, <2>4
        <3>2. Decided(MergedReport[r]) <=> Decided(v)
            BY <3>1 DEF Decided
        <3>3. CASE Outs(r) = {} /\ ~Decided(v)
            BY <3>2, <3>3
        <3>4. CASE Outs(r) = Definite /\ v = Abstain("contradiction")
            <4>1. "contradiction" \in Reasons /\ "contradiction" # None
                BY DesignConstants DEF Reasons, Causes
            <4>2. v.why = "contradiction" /\ v.out = "unknown" /\ ~Decided(v)
                BY <3>4, <4>1, AbstainIn
            <4>3. raw[r] = v
                BY <2>2, <4>1, <4>2
            <4>4. MergedReport[r] = v
                BY <1>6, <1>8, <2>4, <4>2, <4>3
            <4>5. QED
                BY <4>2, <4>4
        <3>5. CASE \E m \in Oks : /\ Outs(r) = {v.out}
                                  /\ Decided(v)
                                  /\ v.out = rep[m][r].out
                                  /\ v.by = rep[m][r].by
            BY <3>1, <3>2, <3>5
        <3>6. QED
            BY <2>1, <3>3, <3>4, <3>5
    <2>5. QED
        BY <1>5, <1>8, <2>3, <2>4
<1>9. QED
    BY <1>3, <1>5, <1>6, <1>7, <1>8

-----------------------------------------------------------------------------
(* Types.                                                                  *)

Places == Busy \cup {"members", "off", "row", "replan", "skips", "post", "record", "done",
                     "failed"}
Crumbs == [all : SUBSET (Outcomes \cup {"garbled"}), last : Outcomes \cup {"garbled", None}]

LEMMA Typed ==
    /\ TypeOK => /\ now \in 0..MaxNow /\ now \in Nat
                 /\ current \in [Actors -> Deadlines]
                 /\ pc \in [Actors -> Places]
                 /\ pos \in [Actors -> 1..(N + 1)]
                 /\ rep \in [Actors -> Reports]
                 /\ runDl \in [Members -> Deadlines] /\ saved \in [Members -> Deadlines]
                 /\ stopped \in [Actors -> {"no", "time", "memory"}]
                 /\ crumbs \in [Rows -> Crumbs]
                 /\ began \in [Members -> 0..MaxNow \cup {None}]
    /\ TypeOK <=> /\ now \in 0..MaxNow
                  /\ current \in [Actors -> Deadlines]
                  /\ pc \in [Actors -> Places]
                  /\ pos \in [Actors -> 1..(N + 1)]
                  /\ rep \in [Actors -> Reports]
                  /\ runDl \in [Members -> Deadlines] /\ saved \in [Members -> Deadlines]
                  /\ stopped \in [Actors -> {"no", "time", "memory"}]
                  /\ skip_rows \subseteq Rows
                  /\ crumbs \in [Rows -> Crumbs]
                  /\ began \in [Members -> 0..MaxNow \cup {None}]
                  /\ voted \in [Rows -> SUBSET Definite]
BY RunConstants DEF TypeOK, Places, Crumbs, Reports, Verdicts

LEMMA TypedNext ==
    ASSUME DesignOK, TypeOK, UNCHANGED design,
           now' \in 0..MaxNow,
           current' \in [Actors -> Deadlines],
           pc' \in [Actors -> Places],
           pos' \in [Actors -> 1..(N + 1)],
           rep' \in [Actors -> Reports],
           runDl' \in [Members -> Deadlines], saved' \in [Members -> Deadlines],
           stopped' \in [Actors -> {"no", "time", "memory"}],
           skip_rows' \subseteq Rows,
           crumbs' \in [Rows -> Crumbs],
           began' \in [Members -> 0..MaxNow \cup {None}],
           voted' \in [Rows -> SUBSET Definite]
    PROVE  TypeOK'
<1>1. Actors' = Actors /\ Members' = Members
    BY DEF design, Actors, Members
<1>2. QED
    BY <1>1, Typed DEF TypeOK, Places, Crumbs, Reports, Verdicts

\* Budget::child returns a deadline.
LEMMA ChildIn ==
    ASSUME NEW outer \in Deadlines, NEW ms \in Nat \cup {None}, NEW at \in Nat
    PROVE  child(outer, ms, at) \in Deadlines
BY BudgetConstants DEF child, least, Deadlines

\* What the step abbreviations do to the variables.
LEMMA GotoTo ==
    ASSUME TypeOK, NEW a \in Actors, NEW p \in Places, Goto(a, p)
    PROVE  /\ pc' \in [Actors -> Places]
           /\ pc'[a] = p
           /\ \A b \in Actors : b # a => pc'[b] = pc[b]
BY Typed DEF Goto

LEMMA GotoRowTo ==
    ASSUME TypeOK, NEW a \in Actors, NEW p \in Places, NEW r \in 1..(N + 1), GotoRow(a, p, r)
    PROVE  /\ pc' \in [Actors -> Places]
           /\ pc'[a] = p
           /\ \A b \in Actors : b # a => pc'[b] = pc[b]
           /\ pos' \in [Actors -> 1..(N + 1)]
           /\ pos'[a] = r
           /\ \A b \in Actors : b # a => pos'[b] = pos[b]
BY Typed DEF GotoRow, Goto

LEMMA PutTo ==
    ASSUME TypeOK, NEW a \in Actors, NEW report \in Reports, Put(a, report)
    PROVE  /\ rep' \in [Actors -> Reports]
           /\ rep'[a] = report
           /\ \A b \in Actors : b # a => rep'[b] = rep[b]
BY Typed DEF Put

LEMMA PutRowTo ==
    ASSUME TypeOK, NEW a \in Actors, NEW r \in Rows, NEW v \in Verdicts, PutRow(a, r, v)
    PROVE  /\ rep' \in [Actors -> Reports]
           /\ \A b \in Actors : b # a => rep'[b] = rep[b]
           /\ rep'[a][r] = v
           /\ \A q \in Rows : q # r => rep'[a][q] = rep[a][q]
<1>1. rep \in [Actors -> Reports] /\ rep[a] \in [Rows -> Verdicts]
    BY Typed DEF Reports
<1>2. rep' = [rep EXCEPT ![a] = [rep[a] EXCEPT ![r] = v]]
    BY <1>1 DEF PutRow
<1>3. [rep[a] EXCEPT ![r] = v] \in [Rows -> Verdicts]
    BY <1>1
<1>4. QED
    BY <1>1, <1>2, <1>3 DEF Reports

LEMMA EnterTo ==
    ASSUME DesignOK, TypeOK, NEW a \in Actors, NEW dl \in Deadlines, Enter(a, dl)
    PROVE  /\ current' \in [Actors -> Deadlines]
           /\ current'[Thread(a)] = dl
           /\ \A t \in Actors : t # Thread(a) => current'[t] = current[t]
BY Typed, ActorFacts DEF Enter

LEMMA RecordTo ==
    ASSUME DesignOK, TypeOK, NEW a \in Actors, NEW rows \in SUBSET Rows, Record(a, rows)
    PROVE  /\ crumbs' \in [Rows -> Crumbs]
           /\ mode # "parallel" \/ a = 0 => \A r \in Rows :
                /\ crumbs[r].all \subseteq crumbs'[r].all
                /\ r \in rows => /\ rep[a][r].out \in crumbs'[r].all
                                 /\ crumbs'[r].last = rep[a][r].out
                /\ r \notin rows => crumbs'[r] = crumbs[r]
<1>1. ASSUME NEW r \in Rows
      PROVE  /\ crumbs'[r] \in Crumbs
             /\ mode # "parallel" \/ a = 0 =>
                /\ crumbs[r].all \subseteq crumbs'[r].all
                /\ r \in rows => /\ rep[a][r].out \in crumbs'[r].all
                                 /\ crumbs'[r].last = rep[a][r].out
                /\ r \notin rows => crumbs'[r] = crumbs[r]
    <2>1. rep[a][r].out \in Outcomes /\ crumbs[r] \in Crumbs
        BY <1>1, Typed DEF Reports, Verdicts
    <2>2. crumbs'[r] = IF mode = "parallel" /\ a # 0 THEN Garbled
                       ELSE IF r \in rows
                       THEN [all |-> crumbs[r].all \cup {rep[a][r].out},
                             last |-> rep[a][r].out]
                       ELSE crumbs[r]
        BY <1>1 DEF Record
    <2>3. CASE mode = "parallel" /\ a # 0
        BY <2>1, <2>2, <2>3 DEF Garbled, Crumbs
    <2>4. CASE ~(mode = "parallel" /\ a # 0)
        <3>1. r \in rows => crumbs'[r] = [all |-> crumbs[r].all \cup {rep[a][r].out},
                                          last |-> rep[a][r].out]
            BY <2>2, <2>4
        <3>2. r \notin rows => crumbs'[r] = crumbs[r]
            BY <2>2, <2>4
        <3>3. QED
            BY <2>1, <2>4, <3>1, <3>2 DEF Crumbs
    <2>5. QED
        BY <2>3, <2>4
<1>2. crumbs' \in [Rows -> Crumbs]
    BY <1>1 DEF Record
<1>3. QED
    BY <1>1, <1>2

\* The answers of the engines are verdicts.
LEMMA SaysIn ==
    ASSUME DesignOK, NEW e, NEW r \in Rows
    PROVE  /\ Says(e, r) \subseteq Definite
           /\ \A o \in Says(e, r) : o # lifted[r] => e \in unsound
BY DEF Says, DesignOK, Definite

LEMMA ExactIn ==
    ASSUME DesignOK, NEW r \in Rows, NEW v \in exact_outcomes(r)
    PROVE  v \in Verdicts /\ Honest(v, r)
<1>1. CASE v \in {Verdict(o, None, "exact") : o \in Says("exact", r)}
    <2>1. PICK o \in Says("exact", r) : v = Verdict(o, None, "exact")
        BY <1>1
    <2>2. o \in Outcomes /\ "exact" \in Engines /\ None \in Reasons
        BY SaysIn DEF Outcomes, Engines, Reasons
    <2>3. v \in Verdicts /\ v.out = o /\ v.by = "exact"
        BY <2>1, <2>2, VerdictIn
    <2>4. QED
        BY <2>3, SaysIn DEF Honest
<1>2. CASE v = Verdict("skipped", None, None) \/ v = Abstain("engine")
    <2>1. "skipped" \in Outcomes /\ None \in Reasons /\ "engine" \in Reasons
        BY DEF Outcomes, Reasons, Causes
    <2>2. v \in Verdicts /\ v.out \in {"skipped", "unknown"}
        BY <1>2, <2>1, VerdictIn, AbstainIn
    <2>3. QED
        BY <2>2 DEF Honest, Decided, Definite
<1>3. QED
    BY <1>1, <1>2 DEF exact_outcomes

LEMMA CubeIn ==
    ASSUME DesignOK, NEW m \in Members, NEW r \in Rows, NEW v \in cube_outcomes(m, r)
    PROVE  v \in Verdicts /\ Honest(v, r)
<1>1. CASE v \in {Verdict(o, None, ladder[m]) : o \in Says(ladder[m], r)}
    <2>1. PICK o \in Says(ladder[m], r) : v = Verdict(o, None, ladder[m])
        BY <1>1
    <2>2. o \in Outcomes /\ ladder[m] \in Engines /\ None \in Reasons
        BY SaysIn, ActorFacts DEF Outcomes, Engines, Reasons
    <2>3. v \in Verdicts /\ v.out = o /\ v.by = ladder[m]
        BY <2>1, <2>2, VerdictIn
    <2>4. QED
        BY <2>3, SaysIn DEF Honest
<1>2. CASE \/ v = Verdict("skipped", None, None) \/ v = Abstain("engine")
           \/ v = Abstain(IF Expired(m) THEN "budget" ELSE None)
    <2>1. "skipped" \in Outcomes /\ None \in Reasons /\ "engine" \in Reasons
          /\ (IF Expired(m) THEN "budget" ELSE None) \in Reasons
        BY DEF Outcomes, Reasons, Causes
    <2>2. v \in Verdicts /\ v.out \in {"skipped", "unknown"}
        BY <1>2, <2>1, VerdictIn, AbstainIn
    <2>3. QED
        BY <2>2 DEF Honest, Decided, Definite
<1>3. QED
    BY <1>1, <1>2 DEF cube_outcomes

\* A rescue decides the row, or leaves it unknown for the reason it had.
LEMMA RescueIn ==
    ASSUME DesignOK, NEW a \in Actors, NEW old \in Verdicts, NEW r \in Rows,
           NEW v \in RescueOutcomes(a, old, r)
    PROVE  /\ v \in Verdicts /\ Honest(v, r)
           /\ \/ Decided(v) /\ v.by = "rescue"
              \/ /\ v.out = "unknown"
                 /\ old.why # None => v.why = old.why \/ v.why = "contradiction"
<1>0. old.why \in Reasons /\ {"budget", "engine", "contradiction", None} \subseteq Reasons
    BY DEF Verdicts, Reasons, Causes
<1>1. CASE v \in {Verdict(o, old.why, "rescue") : o \in Says("rescue", r)}
    <2>1. PICK o \in Says("rescue", r) : v = Verdict(o, old.why, "rescue")
        BY <1>1
    <2>2. o \in Outcomes /\ o \in Definite /\ "rescue" \in Engines
        BY SaysIn DEF Outcomes, Engines
    <2>3. v \in Verdicts /\ v.out = o /\ v.by = "rescue"
        BY <1>0, <2>1, <2>2, VerdictIn
    <2>4. QED
        BY <2>2, <2>3, SaysIn DEF Honest, Decided
<1>2. CASE ~(v \in {Verdict(o, old.why, "rescue") : o \in Says("rescue", r)})
    <2>1. PICK w \in Reasons : v = Abstain(w) /\ (old.why # None => w \in {old.why, "contradiction"})
        <3>1. CASE v = Abstain("contradiction")
            BY <1>0, <3>1
        <3>2. CASE v \in {Abstain(IF old.why # None THEN old.why ELSE w) :
                            w \in IF Expired(a) THEN {"budget"} ELSE {"engine", None}}
            BY <1>0, <3>2
        <3>3. QED
            BY <1>2, <3>1, <3>2 DEF RescueOutcomes
    <2>2. v \in Verdicts /\ v.out = "unknown" /\ v.why = w
        BY <2>1, AbstainIn
    <2>3. QED
        BY <2>1, <2>2 DEF Honest, Decided, Definite
<1>3. QED
    BY <1>1, <1>2

\* The deadlines the guards enter.
LEMMA OuterIn ==
    ASSUME DesignOK, TypeOK, NEW a \in Actors
    PROVE  Outer(a) \in Deadlines
BY Typed, ActorFacts DEF Outer, Deadlines

LEMMA CurrentIn ==
    ASSUME DesignOK, TypeOK, NEW a \in Actors
    PROVE  current[Thread(a)] \in Deadlines
BY Typed, ActorFacts

-----------------------------------------------------------------------------
(* A step that moves one actor: what each part of the invariant needs.     *)

OnlyMoves(a, p) ==
    /\ UNCHANGED design
    /\ pc'[a] = p
    /\ \A b \in Actors : b # a => pc'[b] = pc[b] /\ pos'[b] = pos[b] /\ rep'[b] = rep[b]

LEMMA SameDesign ==
    ASSUME DesignOK, UNCHANGED design
    PROVE  /\ DesignOK'
           /\ Members' = Members /\ Actors' = Actors
           /\ \A a : Thread(a)' = Thread(a)
           /\ \A r : Withholds(r)' = Withholds(r)
<1>1. UNCHANGED <<mode, ladder, truth, lifted, class, cone, paired, unsound>>
    BY DEF design
<1>2. \A r : Withholds(r)' = Withholds(r)
    BY <1>1 DEF Withholds, unestablished_init, over_free_leaves
<1>3. QED
    BY <1>1, <1>2 DEF DesignOK, Members, Actors, Thread

\* On one thread at most one pass is under way.
LEMMA AloneOnThread ==
    ASSUME DesignOK, ControlInv, NEW m \in Members, NEW k \in Members, k # m,
           pc[m] \in Active, Thread(k) = Thread(m)
    PROVE  mode # "parallel" /\ pc[k] \notin Active
<1>1. mode # "parallel"
    BY DEF Thread
<1>2. m \in Nat /\ k \in Nat
    BY ActorFacts
<1>3. CASE k < m
    BY <1>1, <1>3 DEF ControlInv, Ended, Active
<1>4. CASE m < k
    BY <1>1, <1>4 DEF ControlInv, Ended, Active
<1>5. QED
    BY <1>1, <1>2, <1>3, <1>4

LEMMA MemberControl ==
    ASSUME DesignOK, ControlInv, NEW m \in Members, NEW p, OnlyMoves(m, p),
           pc[m] \in Active, p \in Active \cup {"done", "failed"},
           p \in {"replan", "rescue"} => mode = "single"
    PROVE  ControlInv'
<1>1. Members' = Members /\ mode' = mode
    BY SameDesign DEF OnlyMoves, design
<1>2. 0 \in Actors /\ m # 0 /\ Members \subseteq Actors
    BY ActorFacts
<1>3. pc'[0] = pc[0] /\ pc[0] = "members"
    BY <1>2 DEF OnlyMoves, ControlInv
<1>4. \A k \in Members : k # m => pc'[k] = pc[k]
    BY <1>2 DEF OnlyMoves
<1>5. pc'[m] = p
    BY DEF OnlyMoves
<1>6. \A k \in Members : pc'[k] \in Active \cup {"off", "done", "failed"}
    BY <1>4, <1>5 DEF ControlInv
<1>7. \A k \in Members : pc'[k] \in {"replan", "rescue"} => mode = "single"
    BY <1>4, <1>5 DEF ControlInv
<1>8. ASSUME mode # "parallel", NEW j \in Members, NEW k \in Members, k < j, pc'[j] # "off"
      PROVE  Ended(k)'
    <2>1. pc[j] # "off"
        BY <1>4, <1>8 DEF Active
    <2>2. Ended(k)
        BY <1>8, <2>1 DEF ControlInv
    <2>3. k # m
        BY <2>2 DEF Ended, Active
    <2>4. QED
        BY <1>4, <2>2, <2>3 DEF Ended
<1>9. QED
    BY <1>1, <1>3, <1>6, <1>7, <1>8 DEF ControlInv, Merged

LEMMA PlannerControl ==
    ASSUME DesignOK, ControlInv, NEW p, OnlyMoves(0, p), pc[0] \in Merged, p \in Merged
    PROVE  ControlInv'
<1>1. Members' = Members /\ mode' = mode
    BY SameDesign DEF OnlyMoves, design
<1>2. \A k \in Members : pc'[k] = pc[k]
    BY ActorFacts DEF OnlyMoves
<1>3. pc'[0] = p /\ pc[0] # "members"
    BY DEF OnlyMoves, Merged
<1>4. QED
    BY <1>1, <1>2, <1>3 DEF ControlInv, Ended

LEMMA MoveRow ==
    ASSUME DesignOK, RowInv, NEW a \in Actors, NEW p, OnlyMoves(a, p),
           p \in Busy => pos'[a] \in Rows,
           p = "rescue" => rep'[a][pos'[a]].out = "unknown",
           p = "skip" => ladder[a] # "exact"
    PROVE  RowInv'
<1>1. Actors' = Actors /\ ladder' = ladder
    BY SameDesign DEF OnlyMoves, design
<1>2. QED
    BY <1>1 DEF RowInv, OnlyMoves

\* A pass goes on: its guards are as they were, except while an engine works.
LEMMA MemberBudget ==
    ASSUME DesignOK, ControlInv, BudgetInv, NEW m \in Members, NEW p, OnlyMoves(m, p),
           pc[m] \in Active, p \in Active, UNCHANGED <<runDl, saved, began>>,
           p \notin {"engine", "rescue"} => current'[Thread(m)] = runDl[m],
           \A t \in Actors : t # Thread(m) => current'[t] = current[t]
    PROVE  BudgetInv'
<1>1. Members' = Members /\ Actors' = Actors /\ \A a : Thread(a)' = Thread(a)
    BY SameDesign DEF OnlyMoves
<1>2. 0 \in Actors /\ m # 0 /\ Members \subseteq Actors /\ \A a \in Actors : Thread(a) \in Actors
    BY ActorFacts
<1>3. pc'[0] = pc[0] /\ pc'[m] = p /\ \A k \in Members : k # m => pc'[k] = pc[k]
    BY <1>2 DEF OnlyMoves
<1>4. \A k \in Members : k # m /\ pc[k] \in Active => Thread(k) # Thread(m)
    BY AloneOnThread
<1>5. \A k \in Members : pc'[k] \notin Active => began'[k] = None
    BY <1>3 DEF BudgetInv
<1>6. ASSUME NEW k \in Members, pc'[k] \in Active
      PROVE  /\ began'[k] \in Nat
             /\ runDl'[k] = child(Unbounded, run_budget_ms, began'[k])
             /\ saved'[k] = Unbounded
             /\ pc'[k] \notin {"engine", "rescue"} => current'[Thread(k)] = runDl'[k]
    <2>1. CASE k = m
        BY <1>3, <2>1 DEF BudgetInv
    <2>2. CASE k # m
        BY <1>2, <1>3, <1>4, <1>6, <2>2 DEF BudgetInv
    <2>3. QED
        BY <2>1, <2>2
<1>7. ASSUME NEW t \in Actors, \A k \in Members : Thread(k) = t => pc'[k] \notin Active,
             ~(t = 0 /\ pc'[0] = "rescue")
      PROVE  current'[t] = Unbounded
    <2>1. t # Thread(m)
        BY <1>3, <1>7
    <2>2. \A k \in Members : Thread(k) = t => pc[k] \notin Active
        BY <1>3, <1>7, <2>1
    <2>3. current[t] = Unbounded
        BY <1>3, <1>7, <2>2 DEF BudgetInv
    <2>4. QED
        BY <2>1, <2>3
<1>8. QED
    BY <1>1, <1>5, <1>6, <1>7 DEF BudgetInv

\* A pass is over, and the thread has no budget again.
LEMMA LeaveBudget ==
    ASSUME DesignOK, TypeOK, ControlInv, BudgetInv, NEW m \in Members, NEW p, OnlyMoves(m, p),
           pc[m] \in Active, p \notin Active, Leave(m, p)
    PROVE  BudgetInv'
<1>1. Members' = Members /\ Actors' = Actors /\ \A a : Thread(a)' = Thread(a)
    BY SameDesign DEF OnlyMoves
<1>2. 0 \in Actors /\ m # 0 /\ Members \subseteq Actors /\ \A a \in Actors : Thread(a) \in Actors
    BY ActorFacts
<1>3. pc'[0] = pc[0] /\ pc'[m] = p /\ \A k \in Members : k # m => pc'[k] = pc[k]
    BY <1>2 DEF OnlyMoves
<1>4. \A k \in Members : k # m /\ pc[k] \in Active => Thread(k) # Thread(m)
    BY AloneOnThread
<1>5. /\ began'[m] = None
      /\ \A k \in Members : k # m => /\ began'[k] = began[k]
                                     /\ runDl'[k] = runDl[k] /\ saved'[k] = saved[k]
    BY Typed DEF Leave
<1>6. /\ current'[Thread(m)] = Unbounded
      /\ \A t \in Actors : t # Thread(m) => current'[t] = current[t]
    <2>1. saved[m] = Unbounded
        BY DEF BudgetInv
    <2>2. QED
        BY <1>2, <2>1, Typed DEF Leave, Enter
<1>7. ASSUME NEW k \in Members, pc'[k] \in Active
      PROVE  /\ began'[k] \in Nat
             /\ runDl'[k] = child(Unbounded, run_budget_ms, began'[k])
             /\ saved'[k] = Unbounded
             /\ pc'[k] \notin {"engine", "rescue"} => current'[Thread(k)] = runDl'[k]
    <2>1. k # m
        BY <1>3, <1>7
    <2>2. QED
        BY <1>2, <1>3, <1>4, <1>5, <1>6, <1>7, <2>1 DEF BudgetInv
<1>8. ASSUME NEW t \in Actors, \A k \in Members : Thread(k) = t => pc'[k] \notin Active,
             ~(t = 0 /\ pc'[0] = "rescue"), t # Thread(m)
      PROVE  current'[t] = Unbounded
    <2>1. \A k \in Members : Thread(k) = t => pc[k] \notin Active
        BY <1>3, <1>8
    <2>2. current[t] = Unbounded
        BY <1>3, <1>8, <2>1 DEF BudgetInv
    <2>3. QED
        BY <1>6, <1>8, <2>2
<1>9. \A k \in Members : pc'[k] \notin Active => began'[k] = None
    BY <1>3, <1>5 DEF BudgetInv
<1>10. QED
    BY <1>1, <1>6, <1>7, <1>8, <1>9 DEF BudgetInv

\* The planner works when no pass is under way.
LEMMA PlannerBudget ==
    ASSUME DesignOK, ControlInv, BudgetInv, NEW p, OnlyMoves(0, p), pc[0] \in Merged,
           UNCHANGED <<runDl, saved, began>>,
           p # "rescue" => current'[0] = Unbounded,
           \A t \in Actors : t # 0 => current'[t] = current[t]
    PROVE  BudgetInv'
<1>1. Members' = Members /\ Actors' = Actors /\ \A a : Thread(a)' = Thread(a)
    BY SameDesign DEF OnlyMoves
<1>2. pc'[0] = p /\ \A k \in Members : pc'[k] = pc[k] /\ pc[k] \notin Active
    BY ActorFacts DEF OnlyMoves, ControlInv, Merged
<1>3. \A k \in Members : began'[k] = None
    BY <1>2 DEF BudgetInv
<1>4. ASSUME NEW t \in Actors, ~(t = 0 /\ pc'[0] = "rescue")
      PROVE  current'[t] = Unbounded
    BY <1>2, <1>4 DEF BudgetInv
<1>5. QED
    BY <1>1, <1>2, <1>3, <1>4 DEF BudgetInv

\* The verdicts: an actor goes to p, with the report it has now.
DataInv == HonestInv /\ WithheldInv /\ VotedInv /\ PairInv

LEMMA MoveData ==
    ASSUME DesignOK, DataInv, NEW a \in Actors, NEW p, OnlyMoves(a, p), UNCHANGED voted,
           \A r \in Rows : Honest(rep'[a][r], r),
           p \in {"record", "done"} =>
             /\ ~PairContradicts(rep'[a])
             /\ \A r \in Rows : rep'[a][r].out = "violated" => ~Withholds(r),
           a = 0 =>
             /\ p # "members"
             /\ p \in {"replan", "rescue", "post"} => \A r \in Rows : Kept(rep'[a][r], r)
             /\ p \in {"record", "done"} => \A r \in Rows : KeptAtEnd(rep'[a][r], r)
    PROVE  DataInv'
<1>1. /\ Actors' = Actors /\ lifted' = lifted /\ unsound' = unsound /\ paired' = paired
      /\ \A r : Withholds(r)' = Withholds(r)
    BY SameDesign DEF OnlyMoves, design
<1>2. pc'[a] = p /\ \A b \in Actors : b # a => pc'[b] = pc[b] /\ rep'[b] = rep[b]
    BY DEF OnlyMoves
<1>3. 0 \in Actors
    BY ActorFacts
<1>4. HonestInv'
    <2>1. ASSUME NEW b \in Actors, NEW r \in Rows
          PROVE  Honest(rep'[b][r], r)
        BY <1>2, <2>1 DEF DataInv, HonestInv
    <2>2. QED
        BY <1>1, <2>1 DEF HonestInv, Honest, Decided
<1>5. WithheldInv'
    BY <1>1, <1>2 DEF DataInv, WithheldInv, Settled
<1>6. PairInv'
    <2>1. ASSUME NEW b \in Actors, pc'[b] \in {"record", "done"}
          PROVE  ~PairContradicts(rep'[b])
        BY <1>2, <2>1 DEF DataInv, PairInv, Settled
    <2>2. QED
        BY <1>1, <2>1 DEF PairInv, Settled, PairContradicts, Decided
<1>7. VotedInv'
    <2>1. CASE a = 0
        <3>1. \A r \in Rows :
                /\ pc'[0] \in {"replan", "rescue", "post"} => Kept(rep'[0][r], r)
                /\ pc'[0] \in {"record", "done"} => KeptAtEnd(rep'[0][r], r)
            BY <1>2, <2>1
        <3>2. pc'[0] # "members"
            BY <1>2, <2>1
        <3>3. QED
            BY <1>1, <3>1, <3>2 DEF VotedInv, Kept, KeptAtEnd, Agreed, Alarm, Decided
    <2>2. CASE a # 0
        <3>1. pc'[0] = pc[0] /\ rep'[0] = rep[0]
            BY <1>2, <1>3, <2>2
        <3>2. QED
            BY <1>1, <3>1 DEF DataInv, VotedInv, Kept, KeptAtEnd, Agreed, Alarm, Decided
    <2>3. QED
        BY <2>1, <2>2
<1>8. QED
    BY <1>4, <1>5, <1>6, <1>7 DEF DataInv

\* The breadcrumb: a pass goes on, or ends, and the file only grows.
LEMMA MemberCrumbs ==
    ASSUME DesignOK, TypeOK, ControlInv, CrumbInv, NEW m \in Members, NEW p, OnlyMoves(m, p),
           pc[m] \in Active,
           mode # "parallel" => \A r \in Rows : crumbs[r].all \subseteq crumbs'[r].all,
           mode # "parallel" /\ p = "engine" => \A r \in 1..(pos'[m] - 1) :
             /\ rep'[m][r].out \in crumbs'[r].all
             /\ mode = "single" => crumbs'[r].last = rep'[m][r].out,
           mode = "sequential" /\ p \in {"skips", "skip", "post"} => \A r \in Rows :
             rep'[m][r].out \in crumbs'[r].all \/ (rep'[m][r].by = "exact" /\ ladder[m] # "exact"),
           mode = "sequential" /\ p = "done" => \A r \in Rows :
             rep'[m][r].why # "self" /\ ~Withholds(r) =>
               rep'[m][r].out \in crumbs'[r].all \/ (rep'[m][r].by = "exact" /\ ladder[m] # "exact")
    PROVE  CrumbInv'
<1>1. /\ Members' = Members /\ mode' = mode /\ ladder' = ladder
      /\ \A r : Withholds(r)' = Withholds(r)
    BY SameDesign DEF OnlyMoves, design
<1>2. 0 \in Actors /\ m # 0 /\ Members \subseteq Actors
    BY ActorFacts
<1>3. /\ pc'[0] = "members" /\ pc[0] = "members" /\ pc'[m] = p
      /\ \A k \in Members : k # m => pc'[k] = pc[k] /\ pos'[k] = pos[k] /\ rep'[k] = rep[k]
    BY <1>2 DEF OnlyMoves, ControlInv
<1>4. mode # "parallel" => \A k \in Members : k # m => pc'[k] \notin Active
    BY <1>3, AloneOnThread DEF Thread
<1>5. ASSUME mode # "parallel", NEW k \in Members, pc'[k] = "engine"
      PROVE  \A r \in 1..(pos'[k] - 1) :
               /\ rep'[k][r].out \in crumbs'[r].all
               /\ mode = "single" => crumbs'[r].last = rep'[k][r].out
    <2>1. k = m
        BY <1>4, <1>5 DEF Active
    <2>2. QED
        BY <1>3, <1>5, <2>1
<1>6. ASSUME mode = "sequential", NEW k \in Members, pc'[k] \in {"skips", "skip", "post"},
             NEW r \in Rows
      PROVE  OnFile(k, rep[k][r], r)'
    <2>1. k = m
        BY <1>4, <1>6 DEF Active
    <2>2. QED
        BY <1>1, <1>3, <1>6, <2>1 DEF OnFile
<1>7. ASSUME mode = "sequential", NEW k \in Members, pc'[k] = "done", NEW r \in Rows,
             rep'[k][r].why # "self", ~Withholds(r)
      PROVE  OnFile(k, rep[k][r], r)'
    <2>1. CASE k = m
        BY <1>1, <1>3, <1>7, <2>1 DEF OnFile
    <2>2. CASE k # m
        <3>1. k \in Oks /\ rep'[k] = rep[k]
            BY <1>3, <1>7, <2>2 DEF Oks
        <3>2. OnFile(k, rep[k][r], r)
            BY <1>3, <1>7, <3>1 DEF CrumbInv
        <3>3. crumbs[r].all \subseteq crumbs'[r].all
            BY <1>7
        <3>4. QED
            BY <1>1, <3>1, <3>2, <3>3 DEF OnFile
    <2>3. QED
        BY <2>1, <2>2
<1>8. QED
    <2>1. \A k \in Oks' : k \in Members /\ pc'[k] = "done"
        BY <1>1 DEF Oks
    <2>2. QED
        BY <1>1, <1>3, <1>5, <1>6, <1>7, <2>1 DEF CrumbInv

LEMMA PlannerCrumbs ==
    ASSUME DesignOK, ControlInv, CrumbInv, NEW p, OnlyMoves(0, p), pc[0] \in Merged,
           p # "members",
           p = "done" => \A r \in Rows : crumbs'[r].last = rep'[0][r].out
    PROVE  CrumbInv'
<1>1. Members' = Members /\ mode' = mode
    BY SameDesign DEF OnlyMoves, design
<1>2. pc'[0] = p /\ \A k \in Members : pc'[k] \notin Active
    BY ActorFacts DEF OnlyMoves, ControlInv, Merged
<1>3. QED
    BY <1>1, <1>2 DEF CrumbInv, Active

-----------------------------------------------------------------------------
(* Every step of a member preserves the invariant.                         *)

LEMMA StartMemberStep ==
    ASSUME IndInv, NEW m \in Members, StartMember(m)
    PROVE  IndInv'
<1> USE DEF IndInv
<1>1. UNCHANGED design /\ pc[m] = "off" /\ pc[0] = "members" /\ UNCHANGED <<rep, voted>>
    BY DEF StartMember
<1>2. 0 \in Actors /\ m # 0 /\ m \in Actors /\ Members \subseteq Actors /\ Members \subseteq Nat
      /\ \A a \in Actors : Thread(a) \in Actors
    BY ActorFacts
<1>3. /\ pc' \in [Actors -> Places] /\ pc'[m] = "row"
      /\ pos' \in [Actors -> 1..(N + 1)] /\ pos'[m] = 1
      /\ \A b \in Actors : b # m => pc'[b] = pc[b] /\ pos'[b] = pos[b]
    <2>1. "row" \in Places /\ 1 \in 1..(N + 1)
        BY RunConstants DEF Places
    <2>2. QED
        BY <1>2, <2>1, GotoRowTo DEF StartMember
<1>4. OnlyMoves(m, "row")
    BY <1>1, <1>3 DEF OnlyMoves
<1>5. \A k \in Members : k # m /\ Thread(k) = Thread(m) => pc[k] \notin Active
    <2>1. ASSUME NEW k \in Members, k # m, Thread(k) = Thread(m)
          PROVE  pc[k] \notin Active
        <3>1. mode # "parallel"
            BY <2>1 DEF Thread
        <3>2. CASE k < m
            <4>1. k \in 1..(m - 1)
                BY <1>2, <3>2 DEF Members
            <4>2. QED
                BY <3>1, <4>1 DEF StartMember, Ended, Active
        <3>3. CASE m < k
            BY <1>1, <3>1, <3>3 DEF ControlInv, Ended, Active
        <3>4. QED
            BY <1>2, <2>1, <3>2, <3>3
    <2>2. QED
        BY <2>1
<1>6. current[Thread(m)] = Unbounded
    <2>1. \A k \in Members : Thread(k) = Thread(m) => pc[k] \notin Active
        BY <1>1, <1>5 DEF Active
    <2>2. QED
        BY <1>1, <1>2, <2>1 DEF BudgetInv
<1>7. /\ saved' \in [Members -> Deadlines] /\ saved'[m] = Unbounded
      /\ runDl' \in [Members -> Deadlines]
      /\ runDl'[m] = child(Unbounded, run_budget_ms, now)
      /\ began' \in [Members -> 0..MaxNow \cup {None}] /\ began'[m] = now
      /\ \A k \in Members : k # m => /\ saved'[k] = saved[k] /\ runDl'[k] = runDl[k]
                                     /\ began'[k] = began[k]
    <2>1. Unbounded \in Deadlines /\ now \in Nat /\ run_budget_ms \in Nat \cup {None}
        BY Typed, RunConstants DEF Deadlines
    <2>2. child(Unbounded, run_budget_ms, now) \in Deadlines
        BY <2>1, ChildIn
    <2>3. QED
        BY <1>6, <2>1, <2>2, Typed DEF StartMember
<1>8. /\ current' \in [Actors -> Deadlines] /\ current'[Thread(m)] = runDl'[m]
      /\ \A t \in Actors : t # Thread(m) => current'[t] = current[t]
    <2>1. runDl'[m] \in Deadlines
        BY <1>7
    <2>2. QED
        BY <1>2, <2>1, EnterTo DEF StartMember
<1>9. crumbs' \in [Rows -> Crumbs] /\ (m # 1 => crumbs' = crumbs)
    <2>1. [all |-> {}, last |-> None] \in Crumbs
        BY DEF Crumbs
    <2>2. QED
        BY <2>1, Typed DEF StartMember
<1>10. TypeOK'
    <2>1. skip_rows' \subseteq Rows
        BY DEF StartMember, decided_rows, TypeOK
    <2>2. now' \in 0..MaxNow /\ stopped' \in [Actors -> {"no", "time", "memory"}]
          /\ voted' \in [Rows -> SUBSET Definite] /\ rep' \in [Actors -> Reports]
        BY Typed DEF StartMember
    <2>3. QED
        BY <1>1, <1>3, <1>7, <1>8, <1>9, <2>1, <2>2, TypedNext
<1>11. ControlInv'
    <2>1. Members' = Members /\ mode' = mode
        BY <1>1, SameDesign DEF design
    <2>2. pc'[0] = "members" /\ \A k \in Members : k # m => pc'[k] = pc[k]
        BY <1>1, <1>2, <1>3
    <2>3. ASSUME mode # "parallel", NEW j \in Members, NEW k \in Members, k < j, pc'[j] # "off"
          PROVE  Ended(k)'
        <3>1. Ended(k) /\ k # m
            <4>1. CASE j = m
                <5>1. k \in 1..(m - 1)
                    BY <1>2, <2>3, <4>1 DEF Members
                <5>2. QED
                    BY <1>1, <2>3, <5>1 DEF StartMember, Ended
            <4>2. CASE j # m
                <5>1. Ended(k)
                    BY <2>2, <2>3, <4>2 DEF ControlInv
                <5>2. QED
                    BY <1>1, <5>1 DEF Ended
            <4>3. QED
                BY <4>1, <4>2
        <3>2. QED
            BY <2>2, <3>1 DEF Ended
    <2>4. \A k \in Members : /\ pc'[k] \in Active \cup {"off", "done", "failed"}
                             /\ pc'[k] \in {"replan", "rescue"} => mode = "single"
        BY <1>3, <2>2 DEF ControlInv, Active
    <2>5. QED
        BY <2>1, <2>2, <2>3, <2>4 DEF ControlInv
<1>12. RowInv'
    BY <1>2, <1>4, MoveRow DEF Busy
<1>13. BudgetInv'
    <2>1. Members' = Members /\ Actors' = Actors /\ \A a : Thread(a)' = Thread(a)
        BY <1>1, SameDesign
    <2>2. pc'[0] = "members" /\ \A k \in Members : k # m => pc'[k] = pc[k]
        BY <1>1, <1>2, <1>3
    <2>3. \A k \in Members : pc'[k] \notin Active => began'[k] = None
        BY <1>3, <1>7, <2>2 DEF BudgetInv, Active
    <2>4. ASSUME NEW k \in Members, pc'[k] \in Active
          PROVE  /\ began'[k] \in Nat
                 /\ runDl'[k] = child(Unbounded, run_budget_ms, began'[k])
                 /\ saved'[k] = Unbounded
                 /\ pc'[k] \notin {"engine", "rescue"} => current'[Thread(k)] = runDl'[k]
        <3>1. CASE k = m
            BY <1>7, <1>8, <3>1, Typed
        <3>2. CASE k # m
            <4>1. Thread(k) # Thread(m)
                BY <1>5, <2>2, <2>4, <3>2
            <4>2. QED
                BY <1>2, <1>7, <1>8, <2>2, <2>4, <3>2, <4>1 DEF BudgetInv
        <3>3. QED
            BY <3>1, <3>2
    <2>5. ASSUME NEW t \in Actors, \A k \in Members : Thread(k) = t => pc'[k] \notin Active
          PROVE  current'[t] = Unbounded
        <3>1. t # Thread(m)
            BY <1>3, <2>5 DEF Active
        <3>2. \A k \in Members : Thread(k) = t => pc[k] \notin Active
            BY <2>2, <2>5, <3>1
        <3>3. QED
            BY <1>1, <1>8, <3>1, <3>2 DEF BudgetInv
    <2>6. QED
        BY <2>1, <2>3, <2>4, <2>5 DEF BudgetInv
<1>14. DataInv'
    <2>1. \A r \in Rows : Honest(rep'[m][r], r)
        BY <1>1, <1>2 DEF HonestInv
    <2>2. QED
        BY <1>1, <1>2, <1>4, <2>1, MoveData DEF DataInv
<1>15. CrumbInv'
    <2>1. /\ Members' = Members /\ mode' = mode /\ ladder' = ladder
          /\ \A r : Withholds(r)' = Withholds(r)
        BY <1>1, SameDesign DEF design
    <2>2. pc'[0] = "members" /\ \A k \in Members : k # m => pc'[k] = pc[k]
        BY <1>1, <1>2, <1>3
    <2>3. mode # "parallel" => \A k \in Members : pc'[k] \in Active => k = m
        BY <1>5, <2>2 DEF Thread
    <2>4. mode # "parallel" => \A k \in Members : pc'[k] = "done" => m # 1
        <3>1. ASSUME mode # "parallel", NEW k \in Members, pc'[k] = "done", m = 1
              PROVE  FALSE
            <4>1. k # m /\ pc[k] = "done"
                BY <1>3, <2>2, <3>1
            <4>2. 1 < k
                BY <3>1, <4>1 DEF Members
            <4>3. Ended(1)
                BY <3>1, <4>1, <4>2 DEF ControlInv
            <4>4. QED
                BY <1>1, <3>1, <4>3 DEF Ended
        <3>2. QED
            BY <3>1
    <2>5. ASSUME mode = "sequential", NEW k \in Members, pc'[k] = "done", NEW r \in Rows,
                 rep'[k][r].why # "self", ~Withholds(r)
          PROVE  OnFile(k, rep[k][r], r)'
        <3>1. k \in Oks /\ crumbs' = crumbs
            BY <1>3, <1>9, <2>2, <2>4, <2>5 DEF Oks
        <3>2. OnFile(k, rep[k][r], r)
            BY <1>1, <2>5, <3>1 DEF CrumbInv
        <3>3. QED
            BY <1>1, <2>1, <3>1, <3>2 DEF OnFile
    <2>6. \A k \in Oks' : k \in Members /\ pc'[k] = "done"
        BY <2>1 DEF Oks
    <2>7. QED
        BY <1>3, <2>1, <2>2, <2>3, <2>5, <2>6 DEF CrumbInv, Active
<1>16. QED
    BY <1>1, <1>10, <1>11, <1>12, <1>13, <1>14, <1>15, SameDesign DEF DataInv

\* A pass goes on to another place.
LEMMA MemberGoesOn ==
    ASSUME IndInv, NEW m \in Members, NEW p \in Active, OnlyMoves(m, p), TypeOK',
           pc[m] \in Active, UNCHANGED <<runDl, saved, history>>,
           p \in {"replan", "rescue"} => mode = "single",
           p \in Busy => pos'[m] \in Rows,
           p = "rescue" => rep'[m][pos'[m]].out = "unknown",
           p = "skip" => ladder[m] # "exact",
           p \notin {"engine", "rescue"} => current'[Thread(m)] = runDl[m],
           \A t \in Actors : t # Thread(m) => current'[t] = current[t],
           \A r \in Rows : Honest(rep'[m][r], r),
           mode # "parallel" => \A r \in Rows : crumbs[r].all \subseteq crumbs'[r].all,
           mode # "parallel" /\ p = "engine" => \A r \in 1..(pos'[m] - 1) :
             /\ rep'[m][r].out \in crumbs'[r].all
             /\ mode = "single" => crumbs'[r].last = rep'[m][r].out,
           mode = "sequential" /\ p \in {"skips", "skip", "post"} => \A r \in Rows :
             rep'[m][r].out \in crumbs'[r].all \/ (rep'[m][r].by = "exact" /\ ladder[m] # "exact")
    PROVE  IndInv'
<1> USE DEF IndInv
<1>1. m \in Actors /\ m # 0 /\ p \notin {"record", "done", "failed"}
    BY ActorFacts DEF Active
<1>2. UNCHANGED design /\ UNCHANGED <<runDl, saved, began, voted>>
    BY DEF OnlyMoves, history
<1>3. ControlInv'
    BY MemberControl
<1>4. RowInv'
    BY <1>1, MoveRow
<1>5. BudgetInv'
    BY <1>2, MemberBudget
<1>6. DataInv'
    BY <1>1, <1>2, MoveData DEF DataInv
<1>7. CrumbInv'
    BY <1>1, MemberCrumbs
<1>8. QED
    BY <1>2, <1>3, <1>4, <1>5, <1>6, <1>7, SameDesign DEF DataInv

\* A pass ends: with a report, or without one.
LEMMA MemberEnds ==
    ASSUME IndInv, NEW m \in Members, NEW p \in {"done", "failed"}, OnlyMoves(m, p), TypeOK',
           pc[m] \in Active, Leave(m, p), UNCHANGED <<crumbs, voted>>,
           \A r \in Rows : Honest(rep'[m][r], r),
           p = "done" =>
             /\ ~PairContradicts(rep'[m])
             /\ \A r \in Rows : rep'[m][r].out = "violated" => ~Withholds(r),
           mode = "sequential" /\ p = "done" => \A r \in Rows :
             rep'[m][r].why # "self" /\ ~Withholds(r) =>
               rep'[m][r].out \in crumbs[r].all \/ (rep'[m][r].by = "exact" /\ ladder[m] # "exact")
    PROVE  IndInv'
<1> USE DEF IndInv
<1>1. m \in Actors /\ m # 0 /\ p \notin Active /\ p \notin Busy
    BY ActorFacts DEF Active, Busy
<1>2. UNCHANGED design
    BY DEF OnlyMoves
<1>3. ControlInv'
    BY MemberControl
<1>4. RowInv'
    BY <1>1, MoveRow DEF Busy
<1>5. BudgetInv'
    BY <1>1, LeaveBudget
<1>6. DataInv'
    BY <1>1, MoveData DEF DataInv
<1>7. CrumbInv'
    BY <1>1, MemberCrumbs DEF Busy
<1>8. QED
    BY <1>2, <1>3, <1>4, <1>5, <1>6, <1>7, SameDesign DEF DataInv

\* Between two rows the thread is under the run budget of the pass.
LEMMA UnderRunBudget ==
    ASSUME IndInv, NEW m \in Members, pc[m] \in Active \ {"engine", "rescue"}
    PROVE  current[Thread(m)] = runDl[m]
BY DEF IndInv, BudgetInv

\* What a record leaves on file.
LEMMA PendingTo ==
    ASSUME IndInv, NEW m \in Members, RecordPending(m)
    PROVE  /\ crumbs' \in [Rows -> Crumbs]
           /\ mode # "parallel" =>
                /\ \A r \in Rows : crumbs[r].all \subseteq crumbs'[r].all
                /\ \A r \in 1..(pos[m] - 1) : /\ rep[m][r].out \in crumbs'[r].all
                                              /\ crumbs'[r].last = rep[m][r].out
<1>1. m \in Actors /\ pos[m] \in 1..(N + 1)
    BY ActorFacts, Typed DEF IndInv
<1>2. 1..(pos[m] - 1) \in SUBSET Rows
    BY <1>1, RunConstants DEF Rows
<1>3. Record(m, 1..(pos[m] - 1))
    BY DEF RecordPending
<1> DEFINE rows == 1..(pos[m] - 1)
<1>4. rows \in SUBSET Rows /\ Record(m, rows)
    BY <1>2, <1>3
<1> HIDE DEF rows
<1>5. /\ crumbs' \in [Rows -> Crumbs]
      /\ mode # "parallel" \/ m = 0 => \A r \in Rows :
           /\ crumbs[r].all \subseteq crumbs'[r].all
           /\ r \in rows => /\ rep[m][r].out \in crumbs'[r].all
                            /\ crumbs'[r].last = rep[m][r].out
    BY <1>1, <1>4, RecordTo DEF IndInv
<1>6. QED
    BY <1>4, <1>5 DEF rows

LEMMA AtRowIn ==
    ASSUME IndInv, NEW m \in Members, AtRow(m)
    PROVE  m \in Actors /\ pos[m] \in Rows
<1>1. m \in Actors
    BY ActorFacts DEF IndInv
<1>2. pos[m] \in 1..(N + 1)
    BY <1>1, Typed DEF IndInv
<1>3. QED
    BY <1>1, <1>2, RunConstants DEF AtRow, Rows

LEMMA AbstainRowStep ==
    ASSUME IndInv, NEW m \in Members, AbstainRow(m)
    PROVE  IndInv'
<1> USE DEF IndInv
<1>1. /\ UNCHANGED <<design, now, current, runDl, saved, skip_rows, history>>
      /\ pc[m] = "row" /\ RecordPending(m)
    BY DEF AbstainRow, AtRow
<1>2. m \in Actors /\ pos[m] \in Rows
    <2>1. AtRow(m)
        BY DEF AbstainRow
    <2>2. QED
        BY <2>1, AtRowIn
<1>3. PICK hit \in {"no", "time", "memory"} :
        /\ stopped' = [stopped EXCEPT ![m] = hit]
        /\ PutRow(m, pos[m], Abstain(IF pos[m] \in skip_rows THEN "not attempted"
                                     ELSE IF hit = "time" THEN "budget" ELSE "memory"))
    BY DEF AbstainRow
<1> DEFINE w == IF pos[m] \in skip_rows THEN "not attempted"
                ELSE IF hit = "time" THEN "budget" ELSE "memory"
<1>4. Abstain(w) \in Verdicts /\ ~Decided(Abstain(w)) /\ PutRow(m, pos[m], Abstain(w))
    <2>1. w \in Reasons
        BY DEF Reasons, Causes
    <2>2. QED
        BY <1>3, <2>1, AbstainIn
<1> HIDE DEF w
<1>5. /\ rep' \in [Actors -> Reports]
      /\ \A b \in Actors : b # m => rep'[b] = rep[b]
      /\ rep'[m][pos[m]] = Abstain(w)
      /\ \A q \in Rows : q # pos[m] => rep'[m][q] = rep[m][q]
    BY <1>2, <1>4, PutRowTo
<1>6. /\ pc' \in [Actors -> Places] /\ pc'[m] = "row"
      /\ pos' \in [Actors -> 1..(N + 1)]
      /\ \A b \in Actors : b # m => pc'[b] = pc[b] /\ pos'[b] = pos[b]
    <2>1. "row" \in Places /\ pos[m] + 1 \in 1..(N + 1)
        BY <1>2, RunConstants DEF Places, Rows
    <2>2. QED
        BY <1>2, <2>1, GotoRowTo DEF AbstainRow
<1>7. OnlyMoves(m, "row")
    BY <1>1, <1>5, <1>6 DEF OnlyMoves
<1>8. /\ crumbs' \in [Rows -> Crumbs]
      /\ mode # "parallel" => \A r \in Rows : crumbs[r].all \subseteq crumbs'[r].all
    BY <1>1, PendingTo
<1>9. TypeOK'
    <2>1. stopped' \in [Actors -> {"no", "time", "memory"}]
        BY <1>2, <1>3, Typed
    <2>2. /\ now' \in 0..MaxNow /\ current' \in [Actors -> Deadlines]
          /\ runDl' \in [Members -> Deadlines] /\ saved' \in [Members -> Deadlines]
          /\ skip_rows' \subseteq Rows /\ began' \in [Members -> 0..MaxNow \cup {None}]
          /\ voted' \in [Rows -> SUBSET Definite]
        BY <1>1, Typed DEF history
    <2>3. QED
        BY <1>1, <1>5, <1>6, <1>8, <2>1, <2>2, TypedNext
<1>10. \A r \in Rows : Honest(rep'[m][r], r)
    BY <1>2, <1>4, <1>5 DEF HonestInv, Honest
<1>11. current'[Thread(m)] = runDl[m] /\ \A t \in Actors : t # Thread(m) => current'[t] = current[t]
    BY <1>1, UnderRunBudget DEF Active
<1>12. QED
    BY <1>1, <1>7, <1>8, <1>9, <1>10, <1>11, MemberGoesOn DEF Active, Busy

LEMMA BeginRowStep ==
    ASSUME IndInv, NEW m \in Members, BeginRow(m)
    PROVE  IndInv'
<1> USE DEF IndInv
<1>1. /\ UNCHANGED <<design, now, pos, rep, runDl, saved, stopped, skip_rows, history>>
      /\ AtRow(m) /\ pc[m] = "row" /\ RecordPending(m)
    BY DEF BeginRow, AtRow
<1>2. m \in Actors /\ pos[m] \in Rows
    BY <1>1, AtRowIn
<1>3. pc' \in [Actors -> Places] /\ pc'[m] = "engine" /\ \A b \in Actors : b # m => pc'[b] = pc[b]
    <2>1. "engine" \in Places
        BY DEF Places, Busy
    <2>2. QED
        BY <1>2, <2>1, GotoTo DEF BeginRow
<1>4. OnlyMoves(m, "engine")
    BY <1>1, <1>3 DEF OnlyMoves
<1>5. /\ current' \in [Actors -> Deadlines]
      /\ \A t \in Actors : t # Thread(m) => current'[t] = current[t]
    <2>1. runDl[m] \in Deadlines /\ property_budget_ms \in Nat \cup {None} /\ now \in Nat
        BY Typed, RunConstants
    <2>2. child(runDl[m], property_budget_ms, now) \in Deadlines
        BY <2>1, ChildIn
    <2>3. QED
        BY <1>2, <2>2, EnterTo DEF BeginRow
<1>6. /\ crumbs' \in [Rows -> Crumbs]
      /\ mode # "parallel" =>
           /\ \A r \in Rows : crumbs[r].all \subseteq crumbs'[r].all
           /\ \A r \in 1..(pos[m] - 1) : /\ rep[m][r].out \in crumbs'[r].all
                                         /\ crumbs'[r].last = rep[m][r].out
    BY <1>1, PendingTo
<1>7. TypeOK'
    <2>1. /\ now' \in 0..MaxNow /\ rep' \in [Actors -> Reports]
          /\ runDl' \in [Members -> Deadlines] /\ saved' \in [Members -> Deadlines]
          /\ skip_rows' \subseteq Rows /\ began' \in [Members -> 0..MaxNow \cup {None}]
          /\ voted' \in [Rows -> SUBSET Definite] /\ pos' \in [Actors -> 1..(N + 1)]
          /\ stopped' \in [Actors -> {"no", "time", "memory"}]
        BY <1>1, Typed DEF history
    <2>2. QED
        BY <1>1, <1>3, <1>5, <1>6, <2>1, TypedNext
<1>8. \A r \in Rows : Honest(rep'[m][r], r)
    BY <1>1, <1>2 DEF HonestInv
<1>9. QED
    BY <1>1, <1>2, <1>4, <1>5, <1>6, <1>7, <1>8, MemberGoesOn DEF Active, Busy

LEMMA EndRowStep ==
    ASSUME IndInv, NEW m \in Members, EndRow(m)
    PROVE  IndInv'
<1> USE DEF IndInv
<1>1. /\ UNCHANGED <<design, now, runDl, saved, skip_rows, crumbs, history>>
      /\ pc[m] = "engine"
    BY DEF EndRow
<1>2. m \in Actors /\ pos[m] \in Rows
    BY <1>1, ActorFacts DEF RowInv, Busy
<1>3. PICK v \in IF ladder[m] = "exact" THEN exact_outcomes(pos[m]) ELSE cube_outcomes(m, pos[m]) :
        /\ PutRow(m, pos[m], v)
        /\ stopped' = [stopped EXCEPT ![m] = IF stop_run(m, v) THEN "time" ELSE @]
    BY DEF EndRow
<1>4. v \in Verdicts /\ Honest(v, pos[m])
    BY <1>2, ExactIn, CubeIn
<1>5. /\ rep' \in [Actors -> Reports]
      /\ \A b \in Actors : b # m => rep'[b] = rep[b]
      /\ rep'[m][pos[m]] = v
      /\ \A q \in Rows : q # pos[m] => rep'[m][q] = rep[m][q]
    BY <1>2, <1>3, <1>4, PutRowTo
<1>6. /\ pc' \in [Actors -> Places] /\ pc'[m] = "row"
      /\ pos' \in [Actors -> 1..(N + 1)]
      /\ \A b \in Actors : b # m => pc'[b] = pc[b] /\ pos'[b] = pos[b]
    <2>1. "row" \in Places /\ pos[m] + 1 \in 1..(N + 1)
        BY <1>2, RunConstants DEF Places, Rows
    <2>2. QED
        BY <1>2, <2>1, GotoRowTo DEF EndRow
<1>7. OnlyMoves(m, "row")
    BY <1>1, <1>5, <1>6 DEF OnlyMoves
<1>8. /\ current' \in [Actors -> Deadlines] /\ current'[Thread(m)] = runDl[m]
      /\ \A t \in Actors : t # Thread(m) => current'[t] = current[t]
    <2>1. runDl[m] \in Deadlines
        BY Typed
    <2>2. QED
        BY <1>2, <2>1, EnterTo DEF EndRow
<1>9. TypeOK'
    <2>1. stopped' \in [Actors -> {"no", "time", "memory"}]
        BY <1>2, <1>3, Typed
    <2>2. /\ now' \in 0..MaxNow /\ crumbs' \in [Rows -> Crumbs]
          /\ runDl' \in [Members -> Deadlines] /\ saved' \in [Members -> Deadlines]
          /\ skip_rows' \subseteq Rows /\ began' \in [Members -> 0..MaxNow \cup {None}]
          /\ voted' \in [Rows -> SUBSET Definite]
        BY <1>1, Typed DEF history
    <2>3. QED
        BY <1>1, <1>5, <1>6, <1>8, <2>1, <2>2, TypedNext
<1>10. \A r \in Rows : Honest(rep'[m][r], r)
    BY <1>2, <1>4, <1>5 DEF HonestInv
<1>11. QED
    BY <1>1, <1>7, <1>8, <1>9, <1>10, MemberGoesOn DEF Active, Busy

LEMMA EndRowsStep ==
    ASSUME IndInv, NEW m \in Members, EndRows(m)
    PROVE  IndInv'
<1> USE DEF IndInv
<1> DEFINE p == IF mode = "single" THEN "replan" ELSE "skips"
<1>1. /\ UNCHANGED <<design, now, current, rep, runDl, saved, stopped, skip_rows, history>>
      /\ pc[m] = "row" /\ pos[m] > N /\ RecordPending(m) /\ GotoRow(m, p, 1)
    BY DEF EndRows
<1>2. m \in Actors /\ pos[m] \in 1..(N + 1)
    BY ActorFacts, Typed
<1>3. 1..(pos[m] - 1) = Rows
    BY <1>1, <1>2, RunConstants DEF Rows
<1>4. p \in Places /\ p \in Active \ {"engine", "rescue"} /\ (p = "replan" => mode = "single")
      /\ p \notin Busy
    BY DEF Places, Active, Busy
<1> HIDE DEF p
<1>5. /\ pc' \in [Actors -> Places] /\ pc'[m] = p
      /\ pos' \in [Actors -> 1..(N + 1)]
      /\ \A b \in Actors : b # m => pc'[b] = pc[b] /\ pos'[b] = pos[b]
    <2>1. 1 \in 1..(N + 1)
        BY RunConstants
    <2>2. QED
        BY <1>1, <1>2, <1>4, <2>1, GotoRowTo
<1>6. OnlyMoves(m, p)
    BY <1>1, <1>5 DEF OnlyMoves
<1>7. /\ crumbs' \in [Rows -> Crumbs]
      /\ mode # "parallel" =>
           /\ \A r \in Rows : crumbs[r].all \subseteq crumbs'[r].all
           /\ \A r \in Rows : rep[m][r].out \in crumbs'[r].all
    BY <1>1, <1>3, PendingTo
<1>8. TypeOK'
    <2>1. /\ now' \in 0..MaxNow /\ rep' \in [Actors -> Reports] /\ current' \in [Actors -> Deadlines]
          /\ runDl' \in [Members -> Deadlines] /\ saved' \in [Members -> Deadlines]
          /\ skip_rows' \subseteq Rows /\ began' \in [Members -> 0..MaxNow \cup {None}]
          /\ voted' \in [Rows -> SUBSET Definite]
          /\ stopped' \in [Actors -> {"no", "time", "memory"}]
        BY <1>1, Typed DEF history
    <2>2. QED
        BY <1>1, <1>5, <1>7, <2>1, TypedNext
<1>9. \A r \in Rows : Honest(rep'[m][r], r)
    BY <1>1, <1>2 DEF HonestInv
<1>10. current'[Thread(m)] = runDl[m] /\ \A t \in Actors : t # Thread(m) => current'[t] = current[t]
    BY <1>1, UnderRunBudget DEF Active
<1>11. QED
    BY <1>1, <1>4, <1>6, <1>7, <1>8, <1>9, <1>10, MemberGoesOn DEF Active, Busy

\* What Leave does to the types.
LEMMA LeaveTo ==
    ASSUME DesignOK, TypeOK, NEW m \in Members, NEW p \in Places, Leave(m, p)
    PROVE  /\ pc' \in [Actors -> Places] /\ pc'[m] = p
           /\ pos' \in [Actors -> 1..(N + 1)]
           /\ \A b \in Actors : b # m => pc'[b] = pc[b] /\ pos'[b] = pos[b]
           /\ current' \in [Actors -> Deadlines]
           /\ runDl' \in [Members -> Deadlines] /\ saved' \in [Members -> Deadlines]
           /\ stopped' \in [Actors -> {"no", "time", "memory"}]
           /\ began' \in [Members -> 0..MaxNow \cup {None}]
           /\ stopped'[m] = "no"
<1>1. m \in Actors /\ 1 \in 1..(N + 1) /\ saved[m] \in Deadlines /\ Unbounded \in Deadlines
    BY ActorFacts, Typed, RunConstants DEF Deadlines
<1>2. current' \in [Actors -> Deadlines]
    BY <1>1, EnterTo DEF Leave
<1>3. /\ pc' \in [Actors -> Places] /\ pc'[m] = p
      /\ pos' \in [Actors -> 1..(N + 1)]
      /\ \A b \in Actors : b # m => pc'[b] = pc[b] /\ pos'[b] = pos[b]
    BY <1>1, GotoRowTo DEF Leave
<1>4. QED
    BY <1>1, <1>2, <1>3, Typed DEF Leave

LEMMA MemberFailsStep ==
    ASSUME IndInv, NEW m \in Members, MemberFails(m)
    PROVE  IndInv'
<1> USE DEF IndInv
<1>1. /\ UNCHANGED <<design, now, skip_rows, crumbs, voted>> /\ pc[m] \in Active
      /\ Leave(m, "failed") /\ Put(m, Unreported)
    BY DEF MemberFails, Active
<1>2. m \in Actors /\ "failed" \in Places
    BY ActorFacts DEF Places
<1>3. rep' \in [Actors -> Reports] /\ rep'[m] = Unreported /\ \A b \in Actors : b # m => rep'[b] = rep[b]
    BY <1>1, <1>2, PutTo, UnreportedIn
<1>4. OnlyMoves(m, "failed")
    BY <1>1, <1>2, <1>3, LeaveTo DEF OnlyMoves
<1>5. TypeOK'
    <2>1. now' \in 0..MaxNow /\ skip_rows' \subseteq Rows /\ crumbs' \in [Rows -> Crumbs]
          /\ voted' \in [Rows -> SUBSET Definite]
        BY <1>1, Typed
    <2>2. QED
        BY <1>1, <1>2, <1>3, <2>1, LeaveTo, TypedNext
<1>6. \A r \in Rows : Honest(rep'[m][r], r)
    BY <1>3, UnreportedIn DEF Honest
<1>7. QED
    BY <1>1, <1>4, <1>5, <1>6, MemberEnds

\* A step of a pass that changes no verdict, no deadline and no record.
LEMMA MemberStrolls ==
    ASSUME IndInv, NEW m \in Members, NEW p \in Active \ {"engine", "rescue", "replan"},
           pc[m] \in Active \ {"engine", "rescue"},
           UNCHANGED <<design, now, current, rep, runDl, saved, skip_rows, crumbs, history>>,
           pc' \in [Actors -> Places], pc'[m] = p,
           pos' \in [Actors -> 1..(N + 1)],
           \A b \in Actors : b # m => pc'[b] = pc[b] /\ pos'[b] = pos[b],
           stopped' \in [Actors -> {"no", "time", "memory"}],
           p = "skip" => ladder[m] # "exact" /\ pos'[m] \in Rows,
           mode = "sequential" /\ p \in {"skips", "skip", "post"} =>
             pc[m] \in {"skips", "skip", "post"}
    PROVE  IndInv'
<1> USE DEF IndInv
<1>1. m \in Actors /\ UNCHANGED design
    BY ActorFacts
<1>2. OnlyMoves(m, p)
    BY DEF OnlyMoves
<1>3. TypeOK'
    <2>1. /\ now' \in 0..MaxNow /\ rep' \in [Actors -> Reports] /\ current' \in [Actors -> Deadlines]
          /\ runDl' \in [Members -> Deadlines] /\ saved' \in [Members -> Deadlines]
          /\ skip_rows' \subseteq Rows /\ began' \in [Members -> 0..MaxNow \cup {None}]
          /\ voted' \in [Rows -> SUBSET Definite] /\ crumbs' \in [Rows -> Crumbs]
        BY Typed DEF history
    <2>2. QED
        BY <1>1, <2>1, TypedNext
<1>4. \A r \in Rows : Honest(rep'[m][r], r)
    BY <1>1 DEF HonestInv
<1>5. current'[Thread(m)] = runDl[m] /\ \A t \in Actors : t # Thread(m) => current'[t] = current[t]
    BY UnderRunBudget
<1>6. mode = "sequential" /\ p \in {"skips", "skip", "post"} => \A r \in Rows :
        rep'[m][r].out \in crumbs'[r].all \/ (rep'[m][r].by = "exact" /\ ladder[m] # "exact")
    BY DEF CrumbInv, OnFile
<1>7. p \in Active /\ pc[m] \in Active /\ p \notin {"engine", "rescue", "replan"}
      /\ (p \in Busy => p = "skip") /\ UNCHANGED <<runDl, saved, history>>
    BY DEF Busy
<1>8. \A r \in Rows : crumbs[r].all \subseteq crumbs'[r].all
    OBVIOUS
<1>9. QED
    BY <1>2, <1>3, <1>4, <1>5, <1>6, <1>7, <1>8, MemberGoesOn

LEMMA StopSkipsStep ==
    ASSUME IndInv, NEW m \in Members, StopSkips(m)
    PROVE  IndInv'
<1>1. m \in Actors /\ "skips" \in Places /\ N + 1 \in 1..(N + 1)
      /\ "skips" \in Active \ {"engine", "rescue", "replan"}
    BY ActorFacts, RunConstants DEF IndInv, Places, Active
<1>2. /\ UNCHANGED <<design, now, current, rep, runDl, saved, skip_rows, crumbs, history>>
      /\ pc[m] = "skips" /\ GotoRow(m, "skips", N + 1)
    BY DEF StopSkips
<1>3. stopped' \in [Actors -> {"no", "time", "memory"}]
    BY <1>1, Typed DEF StopSkips, IndInv
<1>4. /\ pc' \in [Actors -> Places] /\ pc'[m] = "skips"
      /\ pos' \in [Actors -> 1..(N + 1)]
      /\ \A b \in Actors : b # m => pc'[b] = pc[b] /\ pos'[b] = pos[b]
    BY <1>1, <1>2, GotoRowTo DEF IndInv
<1>5. QED
    BY <1>1, <1>2, <1>3, <1>4, MemberStrolls

LEMMA BeginSkipStep ==
    ASSUME IndInv, NEW m \in Members, BeginSkip(m)
    PROVE  IndInv'
<1> DEFINE r == Min(Skips(m, pos[m]))
<1>1. /\ UNCHANGED <<design, now, current, rep, runDl, saved, stopped, skip_rows, crumbs, history>>
      /\ pc[m] = "skips" /\ GotoRow(m, "skip", r) /\ Skips(m, pos[m]) # {}
    BY DEF BeginSkip
<1>2. m \in Actors /\ "skip" \in Places /\ pos[m] \in 1..(N + 1)
      /\ "skip" \in Active \ {"engine", "rescue", "replan"}
      /\ "skips" \in Active \ {"engine", "rescue"}
    BY ActorFacts, Typed DEF IndInv, Places, Active, Busy
<1>3. Skips(m, pos[m]) \in SUBSET Rows /\ ladder[m] # "exact"
    BY <1>1, <1>2, RunConstants DEF Skips, Rows
<1>4. r \in Rows
    <2>1. Rows \in SUBSET Nat
        BY RunConstants DEF Rows
    <2>2. QED
        BY <1>1, <1>3, <2>1, MinIn
<1> HIDE DEF r
<1>5. /\ pc' \in [Actors -> Places] /\ pc'[m] = "skip"
      /\ pos' \in [Actors -> 1..(N + 1)] /\ pos'[m] = r
      /\ \A b \in Actors : b # m => pc'[b] = pc[b] /\ pos'[b] = pos[b]
    <2>1. r \in 1..(N + 1)
        BY <1>4, RunConstants DEF Rows
    <2>2. QED
        BY <1>1, <1>2, <2>1, GotoRowTo DEF IndInv
<1>6. stopped' \in [Actors -> {"no", "time", "memory"}]
    BY <1>1, Typed DEF IndInv
<1>7. QED
    BY <1>1, <1>2, <1>3, <1>4, <1>5, <1>6, MemberStrolls

LEMMA EndSkipsStep ==
    ASSUME IndInv, NEW m \in Members, EndSkips(m)
    PROVE  IndInv'
<1>1. m \in Actors /\ "post" \in Places /\ "post" \in Active \ {"engine", "rescue", "replan"}
      /\ "skips" \in Active \ {"engine", "rescue"}
    BY ActorFacts DEF IndInv, Places, Active
<1>2. /\ UNCHANGED <<design, now, current, pos, rep, runDl, saved, stopped, skip_rows, crumbs,
                     history>>
      /\ pc[m] = "skips" /\ Goto(m, "post")
    BY DEF EndSkips
<1>3. pc' \in [Actors -> Places] /\ pc'[m] = "post" /\ \A b \in Actors : b # m => pc'[b] = pc[b]
    BY <1>1, <1>2, GotoTo DEF IndInv
<1>4. pos' \in [Actors -> 1..(N + 1)] /\ stopped' \in [Actors -> {"no", "time", "memory"}]
    BY <1>2, Typed DEF IndInv
<1>5. QED
    BY <1>1, <1>2, <1>3, <1>4, MemberStrolls

LEMMA EndSkipStep ==
    ASSUME IndInv, NEW m \in Members, EndSkip(m)
    PROVE  IndInv'
<1> USE DEF IndInv
<1>1. /\ UNCHANGED <<design, now, current, runDl, saved, stopped, skip_rows, crumbs, history>>
      /\ pc[m] = "skip" /\ GotoRow(m, "skips", pos[m] + 1)
    BY DEF EndSkip
<1>2. m \in Actors /\ pos[m] \in Rows /\ ladder[m] # "exact"
    BY <1>1, ActorFacts DEF RowInv, Busy
<1>3. /\ pc' \in [Actors -> Places] /\ pc'[m] = "skips"
      /\ pos' \in [Actors -> 1..(N + 1)]
      /\ \A b \in Actors : b # m => pc'[b] = pc[b] /\ pos'[b] = pos[b]
    <2>1. "skips" \in Places /\ pos[m] + 1 \in 1..(N + 1)
        BY <1>2, RunConstants DEF Places, Rows
    <2>2. QED
        BY <1>1, <1>2, <2>1, GotoRowTo
<1>4. /\ rep' \in [Actors -> Reports]
      /\ \A b \in Actors : b # m => rep'[b] = rep[b]
      /\ \A q \in Rows : \/ rep'[m][q] = rep[m][q]
                         \/ Honest(rep'[m][q], q) /\ rep'[m][q].by = "exact"
    <2>1. CASE UNCHANGED rep
        BY <2>1, Typed
    <2>2. CASE \E o \in Says("exact", pos[m]) : PutRow(m, pos[m], Verdict(o, None, "exact"))
        <3>1. PICK o \in Says("exact", pos[m]) : PutRow(m, pos[m], Verdict(o, None, "exact"))
            BY <2>2
        <3> DEFINE v == Verdict(o, None, "exact")
        <3>2. o \in Outcomes /\ None \in Reasons /\ "exact" \in Engines
            BY <1>2, SaysIn DEF Outcomes, Reasons, Engines
        <3>3. v \in Verdicts /\ v.out = o /\ v.by = "exact"
            BY <3>2, VerdictIn
        <3>4. Honest(v, pos[m])
            BY <1>2, <3>3, SaysIn DEF Honest
        <3>5. PutRow(m, pos[m], v)
            BY <3>1
        <3> HIDE DEF v
        <3>6. /\ rep' \in [Actors -> Reports]
              /\ \A b \in Actors : b # m => rep'[b] = rep[b]
              /\ rep'[m][pos[m]] = v
              /\ \A q \in Rows : q # pos[m] => rep'[m][q] = rep[m][q]
            BY <1>2, <3>3, <3>5, PutRowTo
        <3>7. QED
            BY <3>3, <3>4, <3>6
    <2>3. QED
        BY <2>1, <2>2 DEF EndSkip
<1>5. OnlyMoves(m, "skips")
    BY <1>1, <1>3, <1>4 DEF OnlyMoves
<1>6. TypeOK'
    <2>1. /\ now' \in 0..MaxNow /\ current' \in [Actors -> Deadlines]
          /\ runDl' \in [Members -> Deadlines] /\ saved' \in [Members -> Deadlines]
          /\ skip_rows' \subseteq Rows /\ began' \in [Members -> 0..MaxNow \cup {None}]
          /\ voted' \in [Rows -> SUBSET Definite] /\ crumbs' \in [Rows -> Crumbs]
          /\ stopped' \in [Actors -> {"no", "time", "memory"}]
        BY <1>1, Typed DEF history
    <2>2. QED
        BY <1>1, <1>3, <1>4, <2>1, TypedNext
<1>7. \A r \in Rows : Honest(rep'[m][r], r)
    BY <1>2, <1>4 DEF HonestInv
<1>8. current'[Thread(m)] = runDl[m] /\ \A t \in Actors : t # Thread(m) => current'[t] = current[t]
    BY <1>1, UnderRunBudget DEF Active
<1>9. mode = "sequential" => \A r \in Rows :
        rep'[m][r].out \in crumbs'[r].all \/ (rep'[m][r].by = "exact" /\ ladder[m] # "exact")
    BY <1>1, <1>2, <1>4 DEF CrumbInv, OnFile
<1>10. "skips" \in Active /\ pc[m] \in Active /\ "skips" \notin Busy
       /\ \A r \in Rows : crumbs[r].all \subseteq crumbs'[r].all
    BY <1>1 DEF Active, Busy
<1>11. QED
    BY <1>1, <1>5, <1>6, <1>7, <1>8, <1>9, <1>10, MemberGoesOn

\* What the post-passes leave of a report: no violation over a free cone, no pair
\* of verdicts that cannot both be right, and the other verdicts.
LEMMA PostFacts ==
    ASSUME DesignOK, NEW report \in Reports
    PROVE  LET res == flag_self_contradictory_verdicts(withhold(report))
           IN  /\ res \in Reports
               /\ ~PairContradicts(res)
               /\ \A r \in Rows :
                    \/ res[r] = report[r] /\ (report[r].out = "violated" => ~Withholds(r))
                    \/ res[r].out = "unknown" /\ res[r].why = "self"
                    \/ /\ report[r].out = "violated" /\ Withholds(r)
                       /\ res[r].out = "unknown" /\ res[r].why \in {"init", "leaf"}
                       /\ res[r].by = report[r].by
<1> DEFINE mid == withhold(report)
           res == flag_self_contradictory_verdicts(mid)
<1>1. /\ mid \in Reports
      /\ \A r \in Rows :
           \/ mid[r] = report[r] /\ (report[r].out = "violated" => ~Withholds(r))
           \/ /\ report[r].out = "violated" /\ Withholds(r)
              /\ mid[r].out = "unknown" /\ mid[r].why \in {"init", "leaf"} /\ mid[r].by = report[r].by
    BY WithholdFacts
<1> HIDE DEF mid
<1>2. /\ res \in Reports
      /\ ~PairContradicts(res)
      /\ \A r \in Rows : \/ res[r] = mid[r]
                         \/ res[r].out = "unknown" /\ res[r].why = "self"
    BY <1>1, FlagFacts
<1> HIDE DEF res
<1>3. /\ res \in Reports
      /\ ~PairContradicts(res)
      /\ \A r \in Rows :
           \/ res[r] = report[r] /\ (report[r].out = "violated" => ~Withholds(r))
           \/ res[r].out = "unknown" /\ res[r].why = "self"
           \/ /\ report[r].out = "violated" /\ Withholds(r)
              /\ res[r].out = "unknown" /\ res[r].why \in {"init", "leaf"} /\ res[r].by = report[r].by
    BY <1>1, <1>2
<1>4. QED
    BY <1>3 DEF res, mid

LEMMA EndMemberStep ==
    ASSUME IndInv, NEW m \in Members, EndMember(m)
    PROVE  IndInv'
<1> USE DEF IndInv
<1> DEFINE res == flag_self_contradictory_verdicts(withhold(rep[m]))
<1>1. /\ UNCHANGED <<design, now, skip_rows, crumbs, voted>> /\ pc[m] = "post"
      /\ Leave(m, "done") /\ Put(m, res)
    BY DEF EndMember
<1>2. m \in Actors /\ "done" \in Places /\ rep[m] \in Reports
    BY ActorFacts, Typed DEF Places
<1>3. /\ res \in Reports
      /\ ~PairContradicts(res)
      /\ \A r \in Rows :
           \/ res[r] = rep[m][r] /\ (rep[m][r].out = "violated" => ~Withholds(r))
           \/ res[r].out = "unknown" /\ res[r].why = "self"
           \/ Withholds(r) /\ res[r].out = "unknown"
    BY <1>2, PostFacts
<1> HIDE DEF res
<1>4. rep' \in [Actors -> Reports] /\ rep'[m] = res /\ \A b \in Actors : b # m => rep'[b] = rep[b]
    BY <1>1, <1>2, <1>3, PutTo
<1>5. OnlyMoves(m, "done")
    BY <1>1, <1>2, <1>4, LeaveTo DEF OnlyMoves
<1>6. TypeOK'
    <2>1. now' \in 0..MaxNow /\ skip_rows' \subseteq Rows /\ crumbs' \in [Rows -> Crumbs]
          /\ voted' \in [Rows -> SUBSET Definite]
        BY <1>1, Typed
    <2>2. QED
        BY <1>1, <1>2, <1>4, <2>1, LeaveTo, TypedNext
<1>7. \A r \in Rows : Honest(rep'[m][r], r)
    <2>1. \A r \in Rows : res[r] = rep[m][r] \/ res[r].out = "unknown"
        BY <1>3
    <2>2. QED
        BY <1>2, <1>4, <2>1 DEF HonestInv, Honest, Decided, Definite
<1>8. /\ ~PairContradicts(rep'[m])
      /\ \A r \in Rows : rep'[m][r].out = "violated" => ~Withholds(r)
    BY <1>3, <1>4
<1>9. mode = "sequential" => \A r \in Rows :
        rep'[m][r].why # "self" /\ ~Withholds(r) =>
          rep'[m][r].out \in crumbs[r].all \/ (rep'[m][r].by = "exact" /\ ladder[m] # "exact")
    <2>1. ASSUME mode = "sequential", NEW r \in Rows, res[r].why # "self", ~Withholds(r)
          PROVE  OnFile(m, res[r], r)
        <3>1. res[r] = rep[m][r]
            BY <1>3, <2>1
        <3>2. QED
            BY <1>1, <2>1, <3>1 DEF CrumbInv
    <2>2. QED
        BY <1>4, <2>1 DEF OnFile
<1>10. pc[m] \in Active
    BY <1>1 DEF Active
<1>11. QED
    BY <1>1, <1>5, <1>6, <1>7, <1>8, <1>9, <1>10, MemberEnds

-----------------------------------------------------------------------------
(* Every step of the re-plan and of the planner preserves the invariant.   *)

LEMMA PlannerGoesOn ==
    ASSUME IndInv, NEW p \in Merged, OnlyMoves(0, p), TypeOK', pc[0] \in Merged,
           UNCHANGED <<runDl, saved, history>>,
           p = "rescue" => pos'[0] \in Rows /\ rep'[0][pos'[0]].out = "unknown",
           p # "rescue" => current'[0] = Unbounded,
           \A t \in Actors : t # 0 => current'[t] = current[t],
           \A r \in Rows : Honest(rep'[0][r], r),
           p \in {"record", "done"} =>
             /\ ~PairContradicts(rep'[0])
             /\ \A r \in Rows : rep'[0][r].out = "violated" => ~Withholds(r),
           p \in {"replan", "rescue", "post"} => \A r \in Rows : Kept(rep'[0][r], r),
           p \in {"record", "done"} => \A r \in Rows : KeptAtEnd(rep'[0][r], r),
           p = "done" => \A r \in Rows : crumbs'[r].last = rep'[0][r].out
    PROVE  IndInv'
<1> USE DEF IndInv
<1>1. 0 \in Actors /\ p # "members" /\ (p \in Busy => p = "rescue") /\ p # "skip"
    BY ActorFacts DEF Merged, Busy
<1>2. UNCHANGED design /\ UNCHANGED <<runDl, saved, began, voted>>
    BY DEF OnlyMoves, history
<1>3. ControlInv'
    BY PlannerControl
<1>4. RowInv'
    BY <1>1, MoveRow
<1>5. BudgetInv'
    BY <1>2, PlannerBudget
<1>6. DataInv'
    BY <1>1, <1>2, MoveData DEF DataInv
<1>7. CrumbInv'
    BY <1>1, PlannerCrumbs
<1>8. QED
    BY <1>2, <1>3, <1>4, <1>5, <1>6, <1>7, SameDesign DEF DataInv

\* While the planner holds a merged report and no engine works for it, its thread
\* has no budget, and every row is as the merge and the re-plan left it.
LEMMA PlannerFacts ==
    ASSUME IndInv, pc[0] \in Merged
    PROVE  /\ pc[0] # "rescue" => current[0] = Unbounded
           /\ \A r \in Rows : /\ rep[0][r] \in Verdicts
                              /\ Honest(rep[0][r], r)
                              /\ ~Settled(0) => Kept(rep[0][r], r)
                              /\ Settled(0) => KeptAtEnd(rep[0][r], r)
<1>1. 0 \in Actors /\ \A m \in Members : pc[m] \notin Active
    BY ActorFacts DEF IndInv, ControlInv, Merged
<1>2. pc[0] # "rescue" => current[0] = Unbounded
    BY <1>1 DEF IndInv, BudgetInv
<1>3. \A r \in Rows : rep[0][r] \in Verdicts
    BY <1>1, Typed DEF IndInv, Reports
<1>4. QED
    BY <1>1, <1>2, <1>3 DEF IndInv, HonestInv, VotedInv, Settled, Merged

\* The actors that re-plan: the single engine, or the planner.
LEMMA ReplanActor ==
    ASSUME IndInv, NEW a \in Actors, pc[a] \in {"replan", "rescue"}
    PROVE  /\ a = 0 \/ (a \in Members /\ mode = "single")
           /\ Thread(a) = 0
           /\ a = 0 => pc[0] \in Merged /\ ~Settled(0)
BY ActorFacts DEF IndInv, ControlInv, Thread, Merged, Settled

LEMMA StopReplanStep ==
    ASSUME IndInv, NEW a \in Actors, StopReplan(a)
    PROVE  IndInv'
<1> USE DEF IndInv
<1>1. /\ UNCHANGED <<design, now, current, rep, runDl, saved, skip_rows, crumbs, history>>
      /\ pc[a] = "replan" /\ GotoRow(a, "replan", N + 1)
    BY DEF StopReplan
<1>2. stopped' \in [Actors -> {"no", "time", "memory"}]
    BY Typed DEF StopReplan
<1>3. /\ pc' \in [Actors -> Places] /\ pc'[a] = "replan"
      /\ pos' \in [Actors -> 1..(N + 1)]
      /\ \A b \in Actors : b # a => pc'[b] = pc[b] /\ pos'[b] = pos[b]
    <2>1. "replan" \in Places /\ N + 1 \in 1..(N + 1)
        BY RunConstants DEF Places
    <2>2. QED
        BY <1>1, <2>1, GotoRowTo
<1>4. OnlyMoves(a, "replan")
    BY <1>1, <1>3 DEF OnlyMoves
<1>5. TypeOK'
    <2>1. /\ now' \in 0..MaxNow /\ rep' \in [Actors -> Reports] /\ current' \in [Actors -> Deadlines]
          /\ runDl' \in [Members -> Deadlines] /\ saved' \in [Members -> Deadlines]
          /\ skip_rows' \subseteq Rows /\ began' \in [Members -> 0..MaxNow \cup {None}]
          /\ voted' \in [Rows -> SUBSET Definite] /\ crumbs' \in [Rows -> Crumbs]
        BY <1>1, Typed DEF history
    <2>2. QED
        BY <1>1, <1>2, <1>3, <2>1, TypedNext
<1>6. CASE a = 0
    <2>1. pc[0] \in Merged /\ ~Settled(0) /\ pc[0] # "rescue"
        BY <1>1, <1>6, ReplanActor
    <2>2. /\ current'[0] = Unbounded
          /\ \A r \in Rows : Honest(rep'[0][r], r) /\ Kept(rep'[0][r], r)
        BY <1>1, <2>1, PlannerFacts
    <2>3. "replan" \in Merged
        BY DEF Merged
    <2>4. QED
        BY <1>1, <1>4, <1>5, <1>6, <2>1, <2>2, <2>3, PlannerGoesOn
<1>7. CASE a # 0
    <2>1. a \in Members /\ mode = "single"
        BY <1>1, <1>7, ReplanActor
    <2>2. \A r \in Rows : Honest(rep'[a][r], r)
        BY <1>1 DEF HonestInv
    <2>3. current'[Thread(a)] = runDl[a] /\ \A t \in Actors : t # Thread(a) => current'[t] = current[t]
        BY <1>1, <2>1, UnderRunBudget DEF Active
    <2>4. "replan" \in Active /\ "replan" \notin Busy /\ pc[a] \in Active
          /\ \A r \in Rows : crumbs[r].all \subseteq crumbs'[r].all
        BY <1>1 DEF Active, Busy
    <2>5. QED
        BY <1>1, <1>4, <1>5, <2>1, <2>2, <2>3, <2>4, MemberGoesOn
<1>8. QED
    BY <1>6, <1>7

LEMMA BeginRescueStep ==
    ASSUME IndInv, NEW a \in Actors, BeginRescue(a)
    PROVE  IndInv'
<1> USE DEF IndInv
<1> DEFINE r == Min(Open(a, pos[a]))
<1>1. /\ UNCHANGED <<design, now, rep, runDl, saved, stopped, skip_rows, crumbs, history>>
      /\ pc[a] = "replan" /\ GotoRow(a, "rescue", r) /\ Open(a, pos[a]) # {}
      /\ Enter(a, child(current[Thread(a)], property_budget_ms, now))
    BY DEF BeginRescue
<1>2. r \in Rows /\ rep[a][r].out = "unknown"
    <2>1. pos[a] \in 1..(N + 1)
        BY Typed
    <2>2. Open(a, pos[a]) \in SUBSET Rows /\ Rows \in SUBSET Nat
        <3>1. Open(a, pos[a]) \subseteq pos[a]..N
            BY DEF Open
        <3>2. QED
            BY <2>1, <3>1, RunConstants DEF Rows
    <2>3. r \in Open(a, pos[a])
        BY <1>1, <2>2, MinIn
    <2>4. QED
        BY <2>2, <2>3 DEF Open
<1> HIDE DEF r
<1>3. /\ pc' \in [Actors -> Places] /\ pc'[a] = "rescue"
      /\ pos' \in [Actors -> 1..(N + 1)] /\ pos'[a] = r
      /\ \A b \in Actors : b # a => pc'[b] = pc[b] /\ pos'[b] = pos[b]
    <2>1. "rescue" \in Places /\ r \in 1..(N + 1)
        BY <1>2, RunConstants DEF Places, Busy, Rows
    <2>2. QED
        BY <1>1, <2>1, GotoRowTo
<1>4. OnlyMoves(a, "rescue")
    BY <1>1, <1>3 DEF OnlyMoves
<1>5. /\ current' \in [Actors -> Deadlines]
      /\ \A t \in Actors : t # Thread(a) => current'[t] = current[t]
    <2>1. current[Thread(a)] \in Deadlines /\ property_budget_ms \in Nat \cup {None} /\ now \in Nat
        BY CurrentIn, Typed, RunConstants
    <2>2. child(current[Thread(a)], property_budget_ms, now) \in Deadlines
        BY <2>1, ChildIn
    <2>3. QED
        BY <1>1, <2>2, EnterTo
<1>6. TypeOK'
    <2>1. /\ now' \in 0..MaxNow /\ rep' \in [Actors -> Reports]
          /\ runDl' \in [Members -> Deadlines] /\ saved' \in [Members -> Deadlines]
          /\ skip_rows' \subseteq Rows /\ began' \in [Members -> 0..MaxNow \cup {None}]
          /\ voted' \in [Rows -> SUBSET Definite] /\ crumbs' \in [Rows -> Crumbs]
          /\ stopped' \in [Actors -> {"no", "time", "memory"}]
        BY <1>1, Typed DEF history
    <2>2. QED
        BY <1>1, <1>3, <1>5, <2>1, TypedNext
<1>7. Thread(a) = 0
    BY <1>1, ReplanActor
<1>8. CASE a = 0
    <2>1. pc[0] \in Merged /\ ~Settled(0)
        BY <1>1, <1>8, ReplanActor
    <2>2. \A q \in Rows : Honest(rep'[0][q], q) /\ Kept(rep'[0][q], q)
        BY <1>1, <2>1, PlannerFacts
    <2>3. "rescue" \in Merged /\ pos'[0] \in Rows /\ rep'[0][pos'[0]].out = "unknown"
        BY <1>1, <1>2, <1>3, <1>8 DEF Merged
    <2>4. QED
        BY <1>1, <1>4, <1>5, <1>6, <1>7, <1>8, <2>1, <2>2, <2>3, PlannerGoesOn
<1>9. CASE a # 0
    <2>1. a \in Members /\ mode = "single"
        BY <1>1, <1>9, ReplanActor
    <2>2. \A q \in Rows : Honest(rep'[a][q], q)
        BY <1>1 DEF HonestInv
    <2>3. "rescue" \in Active /\ pc[a] \in Active
          /\ \A q \in Rows : crumbs[q].all \subseteq crumbs'[q].all
        BY <1>1 DEF Active
    <2>4. pos'[a] \in Rows /\ rep'[a][pos'[a]].out = "unknown"
        BY <1>1, <1>2, <1>3
    <2>5. QED
        BY <1>1, <1>4, <1>5, <1>6, <2>1, <2>2, <2>3, <2>4, MemberGoesOn
<1>10. QED
    BY <1>8, <1>9

LEMMA EndRescueStep ==
    ASSUME IndInv, NEW a \in Actors, EndRescue(a)
    PROVE  IndInv'
<1> USE DEF IndInv
<1>1. /\ UNCHANGED <<design, now, runDl, saved, stopped, skip_rows, crumbs, history>>
      /\ pc[a] = "rescue" /\ GotoRow(a, "replan", pos[a] + 1) /\ Enter(a, Outer(a))
    BY DEF EndRescue
<1>2. pos[a] \in Rows /\ rep[a][pos[a]].out = "unknown"
    BY <1>1 DEF RowInv, Busy
<1>3. rep[a][pos[a]] \in Verdicts
    BY <1>2, Typed DEF Reports
<1>4. PICK v \in RescueOutcomes(a, rep[a][pos[a]], pos[a]) : PutRow(a, pos[a], v)
    BY DEF EndRescue
<1>5. /\ v \in Verdicts /\ Honest(v, pos[a])
      /\ \/ Decided(v) /\ v.by = "rescue"
         \/ /\ v.out = "unknown"
            /\ rep[a][pos[a]].why # None => v.why = rep[a][pos[a]].why \/ v.why = "contradiction"
    BY <1>2, <1>3, <1>4, RescueIn
<1>6. /\ rep' \in [Actors -> Reports]
      /\ \A b \in Actors : b # a => rep'[b] = rep[b]
      /\ rep'[a][pos[a]] = v
      /\ \A q \in Rows : q # pos[a] => rep'[a][q] = rep[a][q]
    BY <1>2, <1>4, <1>5, PutRowTo
<1>7. /\ pc' \in [Actors -> Places] /\ pc'[a] = "replan"
      /\ pos' \in [Actors -> 1..(N + 1)]
      /\ \A b \in Actors : b # a => pc'[b] = pc[b] /\ pos'[b] = pos[b]
    <2>1. "replan" \in Places /\ pos[a] + 1 \in 1..(N + 1)
        BY <1>2, RunConstants DEF Places, Rows
    <2>2. QED
        BY <1>1, <2>1, GotoRowTo
<1>8. OnlyMoves(a, "replan")
    BY <1>1, <1>6, <1>7 DEF OnlyMoves
<1>9. /\ current' \in [Actors -> Deadlines] /\ current'[Thread(a)] = Outer(a)
      /\ \A t \in Actors : t # Thread(a) => current'[t] = current[t]
    BY <1>1, OuterIn, EnterTo
<1>10. TypeOK'
    <2>1. /\ now' \in 0..MaxNow
          /\ runDl' \in [Members -> Deadlines] /\ saved' \in [Members -> Deadlines]
          /\ skip_rows' \subseteq Rows /\ began' \in [Members -> 0..MaxNow \cup {None}]
          /\ voted' \in [Rows -> SUBSET Definite] /\ crumbs' \in [Rows -> Crumbs]
          /\ stopped' \in [Actors -> {"no", "time", "memory"}]
        BY <1>1, Typed DEF history
    <2>2. QED
        BY <1>1, <1>6, <1>7, <1>9, <2>1, TypedNext
<1>11. \A r \in Rows : Honest(rep'[a][r], r)
    BY <1>2, <1>5, <1>6 DEF HonestInv
<1>12. Thread(a) = 0
    BY <1>1, ReplanActor
<1>13. CASE a = 0
    <2>1. pc[0] \in Merged /\ ~Settled(0)
        BY <1>1, <1>13, ReplanActor
    <2>2. ASSUME NEW r \in Rows PROVE Kept(rep'[0][r], r)
        <3>1. Kept(rep[0][r], r)
            BY <2>1, <2>2, PlannerFacts
        <3>2. CASE r # pos[0]
            BY <1>6, <1>13, <2>2, <3>1, <3>2
        <3>3. CASE r = pos[0]
            <4>1. rep'[0][r] = v
                BY <1>6, <1>13, <3>3
            <4>2. CASE Decided(v) /\ v.by = "rescue"
                BY <4>1, <4>2 DEF Kept, Agreed, Alarm
            <4>3. CASE /\ v.out = "unknown"
                       /\ rep[0][r].why # None => v.why = rep[0][r].why \/ v.why = "contradiction"
                <5>1. ~Decided(v)
                    BY <4>3 DEF Decided, Definite
                <5>2. ~Decided(rep[0][r])
                    BY <1>2, <1>13, <3>3 DEF Decided, Definite
                <5>3. "self" # None /\ "contradiction" # None
                    BY DesignConstants DEF Causes
                <5>4. voted[r] # {} => v.why \in {"contradiction", "self"}
                    BY <3>1, <4>3, <5>2, <5>3 DEF Kept, Agreed, Alarm
                <5>5. QED
                    BY <4>1, <4>3, <5>1, <5>4 DEF Kept, Agreed, Alarm
            <4>4. QED
                BY <1>5, <1>13, <3>3, <4>2, <4>3
        <3>4. QED
            BY <3>2, <3>3
    <2>3. "replan" \in Merged /\ current'[0] = Unbounded
        BY <1>9, <1>12, <1>13 DEF Merged, Outer
    <2>4. QED
        BY <1>1, <1>8, <1>9, <1>10, <1>11, <1>12, <1>13, <2>1, <2>2, <2>3, PlannerGoesOn
<1>14. CASE a # 0
    <2>1. a \in Members /\ mode = "single"
        BY <1>1, <1>14, ReplanActor
    <2>2. "replan" \in Active /\ "replan" \notin Busy /\ pc[a] \in Active
          /\ \A r \in Rows : crumbs[r].all \subseteq crumbs'[r].all
        BY <1>1 DEF Active, Busy
    <2>3. current'[Thread(a)] = runDl[a]
        BY <1>9, <1>14 DEF Outer
    <2>4. QED
        BY <1>1, <1>8, <1>9, <1>10, <1>11, <2>1, <2>2, <2>3, MemberGoesOn
<1>15. QED
    BY <1>13, <1>14

LEMMA EndReplanStep ==
    ASSUME IndInv, NEW a \in Actors, EndReplan(a)
    PROVE  IndInv'
<1> USE DEF IndInv
<1> DEFINE p == IF a = 0 THEN "post" ELSE "skips"
           moved == {r \in Rows : rep[a][r].by = "rescue"}
<1>1. /\ UNCHANGED <<design, now, current, runDl, saved, stopped, skip_rows, history>>
      /\ pc[a] = "replan" /\ GotoRow(a, p, 1) /\ Put(a, Classified(rep[a])) /\ Record(a, moved)
    BY DEF EndReplan
<1>2. rep[a] \in Reports
    BY Typed
<1>3. /\ Classified(rep[a]) \in Reports
      /\ \A r \in Rows :
           /\ Classified(rep[a])[r].out = rep[a][r].out
           /\ Classified(rep[a])[r].by = rep[a][r].by
           /\ Classified(rep[a])[r] # rep[a][r] =>
                rep[a][r].out = "unknown" /\ rep[a][r].why = None
    BY <1>2, ClassifiedFacts
<1>4. rep' \in [Actors -> Reports] /\ rep'[a] = Classified(rep[a])
      /\ \A b \in Actors : b # a => rep'[b] = rep[b]
    BY <1>1, <1>3, PutTo
<1>5. p \in Places /\ p \notin Busy /\ (a # 0 => p = "skips") /\ (a = 0 => p = "post")
    BY DEF Places, Busy
<1>6. moved \in SUBSET Rows
    OBVIOUS
<1> HIDE DEF p, moved
<1>7. /\ pc' \in [Actors -> Places] /\ pc'[a] = p
      /\ pos' \in [Actors -> 1..(N + 1)]
      /\ \A b \in Actors : b # a => pc'[b] = pc[b] /\ pos'[b] = pos[b]
    <2>1. 1 \in 1..(N + 1)
        BY RunConstants
    <2>2. QED
        BY <1>1, <1>5, <2>1, GotoRowTo
<1>8. OnlyMoves(a, p)
    BY <1>1, <1>4, <1>7 DEF OnlyMoves
<1>9. /\ crumbs' \in [Rows -> Crumbs]
      /\ mode # "parallel" \/ a = 0 => \A r \in Rows : crumbs[r].all \subseteq crumbs'[r].all
    BY <1>1, <1>6, RecordTo
<1>10. TypeOK'
    <2>1. /\ now' \in 0..MaxNow /\ current' \in [Actors -> Deadlines]
          /\ runDl' \in [Members -> Deadlines] /\ saved' \in [Members -> Deadlines]
          /\ skip_rows' \subseteq Rows /\ began' \in [Members -> 0..MaxNow \cup {None}]
          /\ voted' \in [Rows -> SUBSET Definite]
          /\ stopped' \in [Actors -> {"no", "time", "memory"}]
        BY <1>1, Typed DEF history
    <2>2. QED
        BY <1>1, <1>4, <1>7, <1>9, <2>1, TypedNext
<1>11. \A r \in Rows : Honest(rep'[a][r], r)
    BY <1>3, <1>4 DEF HonestInv, Honest, Decided
<1>12. CASE a = 0
    <2>1. pc[0] \in Merged /\ ~Settled(0) /\ pc[0] # "rescue"
        BY <1>1, <1>12, ReplanActor
    <2>2. ASSUME NEW r \in Rows PROVE Kept(rep'[0][r], r)
        <3>1. Kept(rep[0][r], r)
            BY <2>1, <2>2, PlannerFacts
        <3>2. "self" # None /\ "contradiction" # None
            BY DesignConstants DEF Causes
        <3>3. /\ rep'[0][r].out = rep[0][r].out
              /\ rep'[0][r].by = rep[0][r].by
              /\ rep'[0][r] # rep[0][r] => rep[0][r].why = None
            BY <1>3, <1>4, <1>12, <2>2
        <3>4. Alarm(rep[0][r]) => Alarm(rep'[0][r])
            BY <3>2, <3>3 DEF Alarm
        <3>5. QED
            BY <3>1, <3>3, <3>4 DEF Kept, Agreed, Decided
    <2>3. p = "post" /\ "post" \in Merged /\ current'[0] = Unbounded
        BY <1>1, <1>5, <1>12, <2>1, PlannerFacts DEF Merged
    <2>4. QED
        BY <1>1, <1>8, <1>10, <1>11, <1>12, <2>1, <2>2, <2>3, PlannerGoesOn
<1>13. CASE a # 0
    <2>1. a \in Members /\ mode = "single" /\ p = "skips"
        BY <1>1, <1>5, <1>13, ReplanActor
    <2>2. p \in Active /\ pc[a] \in Active \ {"engine", "rescue"} /\ pc[a] \in Active
        BY <1>1, <2>1 DEF Active
    <2>3. current'[Thread(a)] = runDl[a] /\ \A t \in Actors : t # Thread(a) => current'[t] = current[t]
        BY <1>1, <2>1, <2>2, UnderRunBudget
    <2>4. QED
        BY <1>1, <1>5, <1>8, <1>9, <1>10, <1>11, <2>1, <2>2, <2>3, MemberGoesOn
<1>14. QED
    BY <1>12, <1>13

\* The merged verdicts and what the members voted.
LEMMA MergeData ==
    ASSUME IndInv, Oks # {},
           NEW votes, votes = [r \in Rows |-> {rep[m][r].out : m \in Oks} \cap Definite]
    PROVE  \A r \in Rows :
             /\ votes[r] = Outs(r)
             /\ Honest(MergedReport[r], r)
             /\ MergedReport[r].out = "violated" => ~Withholds(r)
<1>1. ASSUME NEW r \in Rows
      PROVE  /\ votes[r] = Outs(r)
             /\ Honest(MergedReport[r], r)
             /\ MergedReport[r].out = "violated" => ~Withholds(r)
    <2>1. votes[r] = Outs(r)
        BY <1>1 DEF Outs, Votes, Decided
    <2>2. CASE Decided(MergedReport[r])
        <3>1. PICK m \in Oks : /\ MergedReport[r].out = rep[m][r].out
                               /\ MergedReport[r].by = rep[m][r].by
            BY <1>1, <2>2, MergedFacts DEF IndInv
        <3>2. m \in Actors /\ Settled(m)
            BY <3>1, ActorFacts DEF IndInv, Oks, Settled
        <3>3. Honest(rep[m][r], r) /\ (rep[m][r].out = "violated" => ~Withholds(r))
            BY <1>1, <3>2 DEF IndInv, HonestInv, WithheldInv
        <3>4. QED
            BY <2>1, <3>1, <3>3 DEF Honest, Decided
    <2>3. CASE ~Decided(MergedReport[r])
        <3>1. MergedReport[r].out # "violated"
            BY <2>3 DEF Decided, Definite
        <3>2. QED
            BY <2>1, <2>3, <3>1 DEF Honest
    <2>4. QED
        BY <2>2, <2>3
<1>2. QED
    BY <1>1

LEMMA MergeStep ==
    ASSUME IndInv, Merge
    PROVE  IndInv'
<1> USE DEF IndInv
<1>1. /\ UNCHANGED <<design, now, current, pos, runDl, saved, stopped, crumbs, began>>
      /\ UNCHANGED design
      /\ mode # "single" /\ pc[0] = "members" /\ skip_rows' = {}
    BY DEF Merge
<1>2. \A m \in Members : pc[m] \notin Active
    BY DEF Merge, Ended, Active
<1>3. /\ 0 \in Actors /\ 0 \notin Members /\ Members \subseteq Actors
      /\ \A a \in Actors : a # 0 => a \in Members
    BY ActorFacts
<1>4. PICK p \in {"failed", "record", "replan"} : Goto(0, p) /\ (p = "failed" <=> Oks = {})
    BY DEF Merge
<1>5. pc' \in [Actors -> Places] /\ pc'[0] = p /\ \A b \in Actors : b # 0 => pc'[b] = pc[b]
    <2>1. p \in Places
        BY DEF Places
    <2>2. QED
        BY <1>3, <1>4, <2>1, GotoTo
<1>6. /\ Members' = Members /\ Actors' = Actors /\ mode' = mode /\ ladder' = ladder
      /\ lifted' = lifted /\ unsound' = unsound /\ paired' = paired
      /\ \A r : Withholds(r)' = Withholds(r)
      /\ DesignOK' /\ \A a : Thread(a)' = Thread(a)
    BY <1>1, SameDesign DEF design
<1>7. Oks = {} => UNCHANGED <<rep, voted>>
    BY DEF Merge
<1>8. Oks # {} => /\ rep' = [a \in Actors |-> IF a = 0 THEN MergedReport ELSE Unreported]
                  /\ voted' = [r \in Rows |-> {rep[m][r].out : m \in Oks} \cap Definite]
    BY DEF Merge, MergedReport
<1>9. rep' \in [Actors -> Reports] /\ voted' \in [Rows -> SUBSET Definite]
    <2>1. CASE Oks = {}
        BY <1>7, <2>1, Typed
    <2>2. CASE Oks # {}
        BY <1>8, <2>2, MergedFacts, UnreportedIn
    <2>3. QED
        BY <2>1, <2>2
<1>10. TypeOK'
    <2>1. /\ now' \in 0..MaxNow /\ current' \in [Actors -> Deadlines]
          /\ runDl' \in [Members -> Deadlines] /\ saved' \in [Members -> Deadlines]
          /\ skip_rows' \subseteq Rows /\ began' \in [Members -> 0..MaxNow \cup {None}]
          /\ crumbs' \in [Rows -> Crumbs] /\ pos' \in [Actors -> 1..(N + 1)]
          /\ stopped' \in [Actors -> {"no", "time", "memory"}]
        BY <1>1, Typed
    <2>2. QED
        BY <1>1, <1>5, <1>9, <2>1, TypedNext
<1>11. \A k \in Members : pc'[k] = pc[k]
    BY <1>3, <1>5
<1>12. ControlInv'
    BY <1>1, <1>2, <1>4, <1>5, <1>6, <1>11 DEF ControlInv, Merged, Ended
<1>13. RowInv'
    <2>1. \A a \in Actors : pc'[a] \notin Busy
        BY <1>2, <1>3, <1>4, <1>5, <1>11 DEF Busy, Active
    <2>2. QED
        BY <1>6, <2>1 DEF RowInv, Busy
<1>14. BudgetInv'
    <2>1. \A t \in Actors : current[t] = Unbounded
        BY <1>1, <1>2 DEF BudgetInv
    <2>2. QED
        BY <1>1, <1>2, <1>6, <1>11, <2>1 DEF BudgetInv
<1>15. DataInv'
    <2>1. CASE Oks = {}
        <3>1. p = "failed" /\ UNCHANGED <<rep, voted>>
            BY <1>4, <1>7, <2>1
        <3>2. OnlyMoves(0, "failed")
            BY <1>1, <1>5, <3>1 DEF OnlyMoves
        <3>3. \A r \in Rows : Honest(rep'[0][r], r)
            BY <1>3, <3>1 DEF HonestInv
        <3>4. QED
            BY <1>3, <3>1, <3>2, <3>3, MoveData DEF DataInv
    <2>2. CASE Oks # {}
        <3>1. p \in {"record", "replan"} /\ rep'[0] = MergedReport
              /\ \A m \in Members : rep'[m] = Unreported
            BY <1>3, <1>4, <1>8, <2>2
        <3>2. \A r \in Rows : /\ voted'[r] = Outs(r)
                              /\ Honest(MergedReport[r], r)
                              /\ MergedReport[r].out = "violated" => ~Withholds(r)
            BY <1>8, <2>2, MergeData
        <3>3. HonestInv'
            <4>1. \A a \in Actors : \A r \in Rows : Honest(rep'[a][r], r)
                BY <1>3, <3>1, <3>2, UnreportedIn DEF Honest
            <4>2. QED
                BY <1>6, <4>1 DEF HonestInv, Honest, Decided
        <3>4. WithheldInv'
            <4>1. \A a \in Actors : \A r \in Rows : rep'[a][r].out = "violated" => ~Withholds(r)
                BY <1>3, <3>1, <3>2, UnreportedIn
            <4>2. QED
                BY <1>6, <4>1 DEF WithheldInv
        <3>5. PairInv'
            <4>1. ~PairContradicts(MergedReport)
                BY <2>2, MergedFacts
            <4>2. ~PairContradicts(Unreported)
                <5>1. 1 \in Rows
                    BY RunConstants DEF Rows
                <5>2. QED
                    BY <5>1, UnreportedIn DEF PairContradicts
            <4>3. \A a \in Actors : ~PairContradicts(rep'[a])
                BY <1>3, <3>1, <4>1, <4>2
            <4>4. QED
                BY <1>6, <4>3 DEF PairInv, PairContradicts, Decided
        <3>6. VotedInv'
            <4>1. ASSUME NEW r \in Rows
                  PROVE  /\ Decided(rep'[0][r]) =>
                              /\ voted'[r] = {rep'[0][r].out}
                              /\ rep'[0][r].out = "violated" => ~Withholds(r)
                         /\ ~Decided(rep'[0][r]) /\ voted'[r] # {} => Alarm(rep'[0][r])
                BY <2>2, <3>1, <3>2, <4>1, MergedFacts DEF Alarm
            <4>2. pc'[0] # "members"
                BY <1>4, <1>5
            <4>3. QED
                BY <1>6, <4>1, <4>2 DEF VotedInv, Kept, KeptAtEnd, Agreed, Alarm, Decided
        <3>7. QED
            BY <3>3, <3>4, <3>5, <3>6 DEF DataInv
    <2>3. QED
        BY <2>1, <2>2
<1>16. CrumbInv'
    BY <1>2, <1>4, <1>5, <1>6, <1>11 DEF CrumbInv, Active
<1>17. QED
    BY <1>6, <1>10, <1>12, <1>13, <1>14, <1>15, <1>16 DEF DataInv

LEMMA EndPlannerStep ==
    ASSUME IndInv, EndPlanner
    PROVE  IndInv'
<1> USE DEF IndInv
<1> DEFINE res == flag_self_contradictory_verdicts(withhold(rep[0]))
<1>1. /\ UNCHANGED <<design, now, current, pos, runDl, saved, stopped, skip_rows, crumbs, history>>
      /\ pc[0] = "post" /\ Goto(0, "record") /\ Put(0, res)
    BY DEF EndPlanner, PostMerged
<1>2. 0 \in Actors /\ rep[0] \in Reports
    BY ActorFacts, Typed
<1>3. /\ res \in Reports
      /\ ~PairContradicts(res)
      /\ \A r \in Rows :
           \/ res[r] = rep[0][r] /\ (rep[0][r].out = "violated" => ~Withholds(r))
           \/ res[r].out = "unknown" /\ res[r].why = "self"
           \/ /\ rep[0][r].out = "violated" /\ Withholds(r)
              /\ res[r].out = "unknown" /\ res[r].why \in {"init", "leaf"} /\ res[r].by = rep[0][r].by
    BY <1>2, PostFacts
<1> HIDE DEF res
<1>4. rep' \in [Actors -> Reports] /\ rep'[0] = res /\ \A b \in Actors : b # 0 => rep'[b] = rep[b]
    BY <1>1, <1>2, <1>3, PutTo
<1>5. pc' \in [Actors -> Places] /\ pc'[0] = "record" /\ \A b \in Actors : b # 0 => pc'[b] = pc[b]
    <2>1. "record" \in Places
        BY DEF Places
    <2>2. QED
        BY <1>1, <1>2, <2>1, GotoTo
<1>6. OnlyMoves(0, "record")
    BY <1>1, <1>4, <1>5 DEF OnlyMoves
<1>7. TypeOK'
    <2>1. /\ now' \in 0..MaxNow /\ current' \in [Actors -> Deadlines]
          /\ runDl' \in [Members -> Deadlines] /\ saved' \in [Members -> Deadlines]
          /\ skip_rows' \subseteq Rows /\ began' \in [Members -> 0..MaxNow \cup {None}]
          /\ crumbs' \in [Rows -> Crumbs] /\ pos' \in [Actors -> 1..(N + 1)]
          /\ stopped' \in [Actors -> {"no", "time", "memory"}]
          /\ voted' \in [Rows -> SUBSET Definite]
        BY <1>1, Typed DEF history
    <2>2. QED
        BY <1>1, <1>4, <1>5, <2>1, TypedNext
<1>8. pc[0] \in Merged /\ ~Settled(0) /\ pc[0] # "rescue" /\ "record" \in Merged
    BY <1>1 DEF Merged, Settled
<1>9. ASSUME NEW r \in Rows
      PROVE  Honest(rep'[0][r], r) /\ KeptAtEnd(rep'[0][r], r)
    <2>1. Honest(rep[0][r], r) /\ Kept(rep[0][r], r)
        BY <1>8, <1>9, PlannerFacts
    <2>2. rep'[0][r] = res[r]
        BY <1>4
    <2>3. CASE res[r] = rep[0][r]
        BY <2>1, <2>2, <2>3 DEF Kept, KeptAtEnd
    <2>4. CASE res[r].out = "unknown" /\ res[r].why = "self"
        <3>1. ~Decided(res[r]) /\ Alarm(res[r])
            BY <2>4 DEF Decided, Definite, Alarm
        <3>2. QED
            BY <2>2, <3>1 DEF KeptAtEnd, Agreed, Honest
    <2>5. CASE /\ rep[0][r].out = "violated" /\ Withholds(r)
               /\ res[r].out = "unknown" /\ res[r].why \in {"init", "leaf"} /\ res[r].by = rep[0][r].by
        <3>1. ~Decided(res[r]) /\ Decided(rep[0][r])
            BY <2>5 DEF Decided, Definite
        <3>2. rep[0][r].by = "rescue"
            BY <2>1, <2>5, <3>1 DEF Kept, Agreed
        <3>3. QED
            BY <2>2, <2>5, <3>1, <3>2 DEF KeptAtEnd, Agreed, Honest
    <2>6. QED
        BY <1>3, <1>9, <2>3, <2>4, <2>5
<1>10. /\ ~PairContradicts(rep'[0])
       /\ \A r \in Rows : rep'[0][r].out = "violated" => ~Withholds(r)
    BY <1>3, <1>4
<1>11. current'[0] = Unbounded
    BY <1>1, <1>8, PlannerFacts
<1>12. QED
    BY <1>1, <1>6, <1>7, <1>8, <1>9, <1>10, <1>11, PlannerGoesOn

LEMMA ShipStep ==
    ASSUME IndInv, Ship
    PROVE  IndInv'
<1> USE DEF IndInv
<1>1. /\ UNCHANGED <<design, now, current, pos, rep, runDl, saved, stopped, skip_rows, history>>
      /\ pc[0] = "record" /\ Goto(0, "done") /\ Record(0, Rows)
    BY DEF Ship, record_merged_breadcrumb
<1>2. 0 \in Actors
    BY ActorFacts
<1>3. pc' \in [Actors -> Places] /\ pc'[0] = "done" /\ \A b \in Actors : b # 0 => pc'[b] = pc[b]
    <2>1. "done" \in Places
        BY DEF Places
    <2>2. QED
        BY <1>1, <1>2, <2>1, GotoTo
<1>4. OnlyMoves(0, "done")
    BY <1>1, <1>3 DEF OnlyMoves
<1>5. crumbs' \in [Rows -> Crumbs] /\ \A r \in Rows : crumbs'[r].last = rep'[0][r].out
    BY <1>1, <1>2, RecordTo
<1>6. TypeOK'
    <2>1. /\ now' \in 0..MaxNow /\ current' \in [Actors -> Deadlines]
          /\ runDl' \in [Members -> Deadlines] /\ saved' \in [Members -> Deadlines]
          /\ skip_rows' \subseteq Rows /\ began' \in [Members -> 0..MaxNow \cup {None}]
          /\ rep' \in [Actors -> Reports] /\ pos' \in [Actors -> 1..(N + 1)]
          /\ stopped' \in [Actors -> {"no", "time", "memory"}]
          /\ voted' \in [Rows -> SUBSET Definite]
        BY <1>1, Typed DEF history
    <2>2. QED
        BY <1>1, <1>3, <1>5, <2>1, TypedNext
<1>7. pc[0] \in Merged /\ Settled(0) /\ pc[0] # "rescue" /\ "done" \in Merged
    BY <1>1 DEF Merged, Settled
<1>8. \A r \in Rows : Honest(rep'[0][r], r) /\ KeptAtEnd(rep'[0][r], r)
    BY <1>1, <1>7, PlannerFacts
<1>9. /\ ~PairContradicts(rep'[0])
      /\ \A r \in Rows : rep'[0][r].out = "violated" => ~Withholds(r)
    BY <1>1, <1>2, <1>7 DEF PairInv, WithheldInv
<1>10. current'[0] = Unbounded
    BY <1>1, <1>7, PlannerFacts
<1>11. QED
    BY <1>1, <1>4, <1>5, <1>6, <1>7, <1>8, <1>9, <1>10, PlannerGoesOn

-----------------------------------------------------------------------------
(* The theorems.                                                           *)

\* Nothing the invariant speaks of changes, the clock perhaps.
LEMMA ClockStep ==
    ASSUME IndInv, now' \in 0..MaxNow,
           UNCHANGED <<design, current, pc, pos, rep, runDl, saved, stopped, skip_rows, crumbs,
                       history>>
    PROVE  IndInv'
<1> USE DEF IndInv
<1>1. /\ UNCHANGED <<mode, ladder, truth, lifted, class, cone, paired, unsound>> /\ UNCHANGED <<began, voted>>
      /\ UNCHANGED <<current, pc, pos, rep, runDl, saved, stopped, skip_rows, crumbs>>
    BY DEF design, history
<1>2. /\ DesignOK' /\ Members' = Members /\ Actors' = Actors /\ \A a : Thread(a)' = Thread(a)
      /\ \A r : Withholds(r)' = Withholds(r)
    BY SameDesign
<1>3. TypeOK'
    BY <1>1, <1>2 DEF TypeOK
<1>4. ControlInv'
    BY <1>1, <1>2 DEF ControlInv, Ended
<1>5. RowInv'
    BY <1>1, <1>2 DEF RowInv
<1>6. BudgetInv'
    BY <1>1, <1>2 DEF BudgetInv
<1>7. HonestInv'
    BY <1>1, <1>2 DEF HonestInv, Honest, Decided
<1>8. WithheldInv'
    BY <1>1, <1>2 DEF WithheldInv, Settled
<1>9. VotedInv'
    BY <1>1, <1>2 DEF VotedInv, Kept, KeptAtEnd, Agreed, Alarm, Decided
<1>10. PairInv'
    BY <1>1, <1>2 DEF PairInv, PairContradicts, Settled, Decided
<1>11. CrumbInv'
    BY <1>1, <1>2 DEF CrumbInv, OnFile, Oks
<1>12. QED
    BY <1>2, <1>3, <1>4, <1>5, <1>6, <1>7, <1>8, <1>9, <1>10, <1>11

LEMMA InitInv ==
    ASSUME Init
    PROVE  IndInv
<1>1. DesignOK
    <2>1. ladder \in Ladders /\ ladder \in Seq({"exact", "symbolic"}) /\ ladder # <<>>
        BY DesignConstants DEF Init
    <2>2. Len(ladder) \in Nat /\ Len(ladder) >= 1
        BY <2>1
    <2>3. PICK d \in Designs : /\ truth = d.truth /\ lifted = d.lifted
                               /\ class = d.class /\ cone = d.cone
                               /\ paired = d.paired /\ unsound = d.unsound
        BY DEF Init
    <2>4. /\ truth \in [Rows -> Definite] /\ lifted \in [Rows -> Definite]
          /\ class \in [Rows -> Classes] /\ cone \in [Rows -> SUBSET FreeParts]
          /\ \A r \in Rows : cone[r] = {} => lifted[r] = truth[r]
          /\ paired \in BOOLEAN /\ (paired => N >= 2) /\ unsound \subseteq Engines
        <3>1. d \in [truth : [Rows -> Definite], lifted : [Rows -> Definite],
                     class : [Rows -> Classes], cone : [Rows -> SUBSET FreeParts],
                     paired : BOOLEAN, unsound : SUBSET Engines]
            BY DesignConstants
        <3>2. /\ d.paired => N >= 2
              /\ \A r \in Rows : d.cone[r] = {} => d.lifted[r] = d.truth[r]
            BY DesignConstants
        <3>3. QED
            BY <2>3, <3>1, <3>2
    <2>5. mode \in {"single", "sequential", "parallel"} /\ (mode = "single" <=> Len(ladder) = 1)
        BY <2>2 DEF Init
    <2>6. QED
        BY <2>1, <2>2, <2>4, <2>5 DEF DesignOK
<1>2. 0 \in Actors /\ 0 \notin Members /\ Members \subseteq Actors
      /\ \A a \in Actors : a # 0 => a \in Members
    BY <1>1, ActorFacts
<1>3. /\ pc[0] = "members" /\ \A m \in Members : pc[m] = "off"
      /\ rep = [a \in Actors |-> Unreported]
      /\ \A t \in Actors : current[t] = Unbounded
      /\ \A m \in Members : began[m] = None
      /\ \A r \in Rows : voted[r] = {}
    BY <1>2 DEF Init
<1>4. TypeOK
    <2>1. /\ now \in 0..MaxNow /\ pos \in [Actors -> 1..(N + 1)] /\ pc \in [Actors -> Places]
        BY RunConstants DEF Init, Places
    <2>2. rep \in [Actors -> Reports]
        BY <1>3, UnreportedIn
    <2>3. /\ current \in [Actors -> Deadlines]
          /\ runDl \in [Members -> Deadlines] /\ saved \in [Members -> Deadlines]
        BY DEF Init, Deadlines
    <2>4. crumbs \in [Rows -> Crumbs]
        BY DEF Init, Crumbs
    <2>5. /\ stopped \in [Actors -> {"no", "time", "memory"}] /\ skip_rows \subseteq Rows
          /\ began \in [Members -> 0..MaxNow \cup {None}] /\ voted \in [Rows -> SUBSET Definite]
        BY DEF Init
    <2>6. QED
        BY <2>1, <2>2, <2>3, <2>4, <2>5, Typed
<1>5. ControlInv
    BY <1>3 DEF ControlInv
<1>6. RowInv
    <2>1. \A a \in Actors : pc[a] \in {"members", "off"}
        BY <1>2, <1>3
    <2>2. QED
        BY <2>1 DEF RowInv, Busy
<1>7. BudgetInv
    BY <1>3 DEF BudgetInv, Active
<1>8. DataInv
    <2>1. \A a \in Actors : ~Settled(a)
        BY <1>2, <1>3 DEF Settled
    <2>2. HonestInv
        BY <1>3, UnreportedIn DEF HonestInv, Honest
    <2>3. VotedInv
        BY <1>3 DEF VotedInv
    <2>4. QED
        BY <2>1, <2>2, <2>3 DEF DataInv, WithheldInv, PairInv
<1>9. CrumbInv
    BY <1>3 DEF CrumbInv, Oks
<1>10. QED
    BY <1>1, <1>4, <1>5, <1>6, <1>7, <1>8, <1>9 DEF IndInv, DataInv

LEMMA NextInv ==
    ASSUME IndInv, [Next]_vars
    PROVE  IndInv'
<1>1. ASSUME NEW m \in Members, StartMember(m) PROVE IndInv'
    BY <1>1, StartMemberStep
<1>2. ASSUME NEW m \in Members, AbstainRow(m) PROVE IndInv'
    BY <1>2, AbstainRowStep
<1>3. ASSUME NEW m \in Members, BeginRow(m) PROVE IndInv'
    BY <1>3, BeginRowStep
<1>4. ASSUME NEW m \in Members, EndRow(m) PROVE IndInv'
    BY <1>4, EndRowStep
<1>5. ASSUME NEW m \in Members, EndRows(m) PROVE IndInv'
    BY <1>5, EndRowsStep
<1>6. ASSUME NEW m \in Members, MemberFails(m) PROVE IndInv'
    BY <1>6, MemberFailsStep
<1>7. ASSUME NEW m \in Members, StopSkips(m) PROVE IndInv'
    BY <1>7, StopSkipsStep
<1>8. ASSUME NEW m \in Members, BeginSkip(m) PROVE IndInv'
    BY <1>8, BeginSkipStep
<1>9. ASSUME NEW m \in Members, EndSkip(m) PROVE IndInv'
    BY <1>9, EndSkipStep
<1>10. ASSUME NEW m \in Members, EndSkips(m) PROVE IndInv'
    BY <1>10, EndSkipsStep
<1>11. ASSUME NEW m \in Members, EndMember(m) PROVE IndInv'
    BY <1>11, EndMemberStep
<1>12. ASSUME NEW a \in Actors, StopReplan(a) PROVE IndInv'
    BY <1>12, StopReplanStep
<1>13. ASSUME NEW a \in Actors, BeginRescue(a) PROVE IndInv'
    BY <1>13, BeginRescueStep
<1>14. ASSUME NEW a \in Actors, EndRescue(a) PROVE IndInv'
    BY <1>14, EndRescueStep
<1>15. ASSUME NEW a \in Actors, EndReplan(a) PROVE IndInv'
    BY <1>15, EndReplanStep
<1>16. CASE Merge
    BY <1>16, MergeStep
<1>17. CASE EndPlanner
    BY <1>17, EndPlannerStep
<1>18. CASE Ship
    BY <1>18, ShipStep
<1>19. CASE Tick
    <2>1. now \in 0..MaxNow
        BY Typed DEF IndInv
    <2>2. now' \in 0..MaxNow
        BY <1>19, <2>1, RunConstants DEF Tick
    <2>3. QED
        BY <1>19, <2>2, ClockStep DEF Tick
<1>20. CASE UNCHANGED vars
    <2>1. now' \in 0..MaxNow
        BY <1>20, Typed DEF IndInv, vars
    <2>2. QED
        BY <1>20, <2>1, ClockStep DEF vars
<1>21. QED
    BY <1>1, <1>2, <1>3, <1>4, <1>5, <1>6, <1>7, <1>8, <1>9, <1>10, <1>11, <1>12, <1>13, <1>14,
       <1>15, <1>16, <1>17, <1>18, <1>19, <1>20 DEF Next, Finished

LEMMA RunInvariant == Spec => []IndInv
<1>1. Init => IndInv
    BY InitInv
<1>2. IndInv /\ [Next]_vars => IndInv'
    BY NextInv
<1>3. QED
    BY <1>1, <1>2, PTL DEF Spec

\* The report that ships when the run is over is a settled one.
LEMMA ShippedIsSettled ==
    ASSUME IndInv, pc[Shipper] = "done"
    PROVE  /\ Shipper \in Actors /\ Settled(Shipper)
           /\ mode # "single" => Shipper = 0 /\ pc[0] = "done"
           /\ mode = "single" => \A r \in Rows : voted[r] = {}
<1>1. 0 \in Actors /\ 1 \in Actors
    BY ActorFacts DEF IndInv
<1>2. QED
    BY <1>1 DEF Shipper, Settled, IndInv, ControlInv, VotedInv

(***************************************************************************)
(* For every number of rows, every ladder, in every mode, whatever the     *)
(* budgets cut short and whichever members fail, a wrong verdict that      *)
(* ships is credited to an unsound engine, or it is the lifted model's and *)
(* rests on a free part of the cone that the withholding passes let        *)
(* through (a HOLDS, a Reachability row, a deliberate cut, the start of a  *)
(* row that is not Safety or Mixed); and a member that knew better was     *)
(* never outvoted.                                                         *)
(***************************************************************************)
THEOREM ReportIsSound == Spec => []SoundReport
<1>1. ASSUME IndInv PROVE SoundReport
    <2>1. TypeOK
        BY <1>1 DEF IndInv
    <2>2. ASSUME pc[Shipper] = "done", NEW r \in Rows, Decided(Shipped[r]), Shipped[r].out # truth[r]
          PROVE  /\ \/ Shipped[r].by \in unsound
                    \/ Shipped[r].out = lifted[r] /\ LetThrough(r, Shipped[r].out)
                 /\ Shipped[r].by # "rescue" => truth[r] \notin voted[r]
        <3>1. Shipper \in Actors /\ Settled(Shipper)
            BY <1>1, <2>2, ShippedIsSettled
        <3>2. ASSUME Shipped[r].by \notin unsound
              PROVE  Shipped[r].out = lifted[r] /\ LetThrough(r, Shipped[r].out)
            <4>1. /\ Shipped[r].out = lifted[r] /\ Shipped[r].out \in Definite
                  /\ Shipped[r].out = "violated" => ~Withholds(r)
                BY <1>1, <2>2, <3>1, <3>2
                DEF IndInv, HonestInv, Honest, WithheldInv, Shipped, Decided
            <4>2. /\ cone[r] \in SUBSET {"undriven", "uninit", "cut"} /\ cone[r] # {}
                  /\ class[r] \in Classes
                BY <1>1, <2>2, <4>1 DEF IndInv, DesignOK, FreeParts
            <4>3. CASE Shipped[r].out = "holds"
                BY <4>1, <4>2, <4>3 DEF LetThrough
            <4>4. CASE Shipped[r].out = "violated" /\ cone[r] # {"cut"} /\ class[r] # "Reachability"
                <5>1. "undriven" \notin cone[r]
                    BY <4>1, <4>4 DEF Withholds, over_free_leaves
                <5>2. "uninit" \in cone[r]
                    BY <4>2, <4>4, <5>1
                <5>3. class[r] \notin {"Safety", "Mixed"}
                    BY <4>1, <4>4, <5>2 DEF Withholds, unestablished_init
                <5>4. QED
                    BY <4>1, <4>2, <4>4, <5>1, <5>3 DEF LetThrough, Classes
            <4>5. QED
                BY <4>1, <4>2, <4>3, <4>4 DEF LetThrough, Definite
        <3>3. ASSUME Shipped[r].by # "rescue" PROVE truth[r] \notin voted[r]
            <4>1. CASE mode = "single"
                BY <1>1, <2>2, <4>1, ShippedIsSettled
            <4>2. CASE mode # "single"
                <5>1. Shipper = 0 /\ pc[0] = "done"
                    BY <1>1, <2>2, <4>2, ShippedIsSettled
                <5>2. KeptAtEnd(rep[0][r], r)
                    BY <1>1, <2>2, <5>1 DEF IndInv, VotedInv
                <5>3. voted[r] = {Shipped[r].out}
                    BY <2>2, <3>3, <5>1, <5>2 DEF KeptAtEnd, Agreed, Shipped
                <5>4. QED
                    BY <2>2, <5>3
            <4>3. QED
                BY <4>1, <4>2
        <3>4. QED
            BY <3>2, <3>3
    <2>3. QED
        BY <2>1, <2>2 DEF SoundReport
<1>2. QED
    BY <1>1, RunInvariant, PTL

(***************************************************************************)
(* No verdict a member reported is lost on the way to the report that      *)
(* ships, except to a contradiction, whatever the other members skipped,   *)
(* ran out of or failed at.                                                *)
(***************************************************************************)
THEOREM VerdictsShip == Spec => []DecidedRowsShip
<1>1. ASSUME IndInv PROVE DecidedRowsShip
    <2>1. SUFFICES ASSUME pc[Shipper] = "done", NEW r \in Rows, ~Decided(Shipped[r]), voted[r] # {}
                   PROVE  \/ Shipped[r].why \in {"contradiction", "self"}
                          \/ Shipped[r].by = "rescue" /\ Shipped[r].why \in {"init", "leaf"}
        BY DEF DecidedRowsShip
    <2>2. Shipper = 0 /\ pc[0] = "done"
        BY <1>1, <2>1, ShippedIsSettled
    <2>3. KeptAtEnd(rep[0][r], r)
        BY <1>1, <2>1, <2>2 DEF IndInv, VotedInv
    <2>4. QED
        BY <2>1, <2>2, <2>3 DEF KeptAtEnd, Alarm, Shipped
<1>2. QED
    BY <1>1, RunInvariant, PTL

(***************************************************************************)
(* The consistency pass misses no pair of contradictory verdicts but those *)
(* of which one carries a stale reason.                                    *)
(***************************************************************************)
THEOREM PairsAreConsistent == Spec => []PairOnlyStale
<1>1. ASSUME IndInv PROVE PairOnlyStale
    <2>1. SUFFICES ASSUME pc[Shipper] = "done", PairShips
                   PROVE  Stale(Shipped[1]) \/ Stale(Shipped[2])
        BY DEF PairOnlyStale
    <2>2. ~PairContradicts(rep[Shipper])
        BY <1>1, <2>1, ShippedIsSettled DEF IndInv, PairInv
    <2>3. Decided(Shipped[1]) /\ Decided(Shipped[2]) /\ paired /\ Shipped[1].out = Shipped[2].out
        BY <2>1 DEF PairShips, Decided
    <2>4. QED
        BY <2>2, <2>3 DEF PairContradicts, Stale, Shipped
<1>2. QED
    BY <1>1, RunInvariant, PTL

(***************************************************************************)
(* The breadcrumb is true: while an engine works, what its pass and the    *)
(* passes before it decided is on file, and a portfolio that ended leaves  *)
(* the verdicts that ship as the last records.                             *)
(***************************************************************************)
THEOREM BreadcrumbSurvives == Spec => []BreadcrumbTrue
<1>1. ASSUME IndInv PROVE BreadcrumbTrue
    <2>1. ASSUME mode # "parallel", NEW m \in Members, pc[m] = "engine"
          PROVE  /\ \A r \in 1..(pos[m] - 1) :
                      /\ rep[m][r].out \in crumbs[r].all
                      /\ mode = "single" => crumbs[r].last = rep[m][r].out
                 /\ \A k \in Oks : \A r \in Rows : rep[k][r].why # "self" /\ ~Withholds(r) =>
                      \/ rep[k][r].out \in crumbs[r].all
                      \/ rep[k][r].by = "exact" /\ ladder[k] # "exact"
        <3>1. \A r \in 1..(pos[m] - 1) :
                /\ rep[m][r].out \in crumbs[r].all
                /\ mode = "single" => crumbs[r].last = rep[m][r].out
            BY <1>1, <2>1 DEF IndInv, CrumbInv
        <3>2. pc[0] = "members"
            BY <1>1, <2>1 DEF IndInv, ControlInv, Active
        <3>3. CASE mode = "sequential"
            BY <1>1, <3>1, <3>2, <3>3 DEF IndInv, CrumbInv, OnFile
        <3>4. CASE mode = "single"
            <4>1. Members = {m}
                <5>1. Len(ladder) = 1
                    BY <1>1, <3>4 DEF IndInv, DesignOK
                <5>2. QED
                    BY <2>1, <5>1 DEF Members
            <4>2. Oks = {}
                BY <2>1, <4>1 DEF Oks
            <4>3. QED
                BY <3>1, <4>2
        <3>5. QED
            BY <1>1, <2>1, <3>3, <3>4 DEF IndInv, DesignOK
    <2>2. ASSUME pc[0] = "done", NEW r \in Rows
          PROVE  crumbs[r].last = Shipped[r].out
        <3>1. Shipper = 0
            BY <1>1, <2>2 DEF IndInv, ControlInv, Shipper
        <3>2. QED
            BY <1>1, <2>2, <3>1 DEF IndInv, CrumbInv, Shipped
    <2>3. QED
        BY <2>1, <2>2 DEF BreadcrumbTrue
<1>2. QED
    BY <1>1, RunInvariant, PTL

\* The steps that neither start work for member m nor stop its pass for lack of
\* time.
Calm(m) ==
    /\ pc'[m] \in Busy => pc[m] \in Busy
    /\ stopped'[m] = "time" => stopped[m] = "time"

LEMMA WithinBudget ==
    ASSUME IndInv, [Next]_vars, NEW m \in Members, began[m] # None
    PROVE  /\ pc'[m] \in Busy /\ pc[m] \notin Busy => ~RunOver(m)
           /\ stopped[m] # "time" /\ stopped'[m] = "time" => RunOver(m)
<1> USE DEF IndInv
<1>1. /\ pc[m] \in Active
      /\ runDl[m] = child(Unbounded, run_budget_ms, began[m])
    BY DEF BudgetInv
<1>2. m \in Actors /\ m # 0 /\ pc \in [Actors -> Places]
      /\ stopped \in [Actors -> {"no", "time", "memory"}]
    BY ActorFacts, Typed
<1>3. RunOver(m) <=> expired(runDl[m], now)
    BY <1>1 DEF RunOver
<1>4. pc[m] \notin {"engine", "rescue"} => (Expired(m) <=> RunOver(m))
    <2>1. pc[m] \notin {"engine", "rescue"} => current[Thread(m)] = runDl[m]
        BY <1>1 DEF BudgetInv
    <2>2. QED
        BY <1>3, <2>1 DEF Expired
<1>5. SUFFICES ASSUME ~Calm(m)
               PROVE  /\ pc'[m] \in Busy /\ pc[m] \notin Busy => ~RunOver(m)
                      /\ stopped[m] # "time" /\ stopped'[m] = "time" => RunOver(m)
    BY DEF Calm
<1>6. ASSUME NEW k \in Members, k \in Actors,
             StartMember(k) \/ EndRows(k) \/ MemberFails(k) \/ EndSkip(k) \/ EndSkips(k)
             \/ EndMember(k)
      PROVE  FALSE
    <2>1. CASE StartMember(k)
        BY <1>2, <1>5, <1>6, <2>1 DEF StartMember, GotoRow, Goto, Calm, Busy
    <2>2. CASE EndRows(k)
        BY <1>2, <1>5, <1>6, <2>2 DEF EndRows, GotoRow, Goto, Calm, Busy
    <2>3. CASE MemberFails(k)
        BY <1>2, <1>5, <1>6, <2>3 DEF MemberFails, Leave, GotoRow, Goto, Calm, Busy
    <2>4. CASE EndSkip(k)
        BY <1>2, <1>5, <1>6, <2>4 DEF EndSkip, GotoRow, Goto, Calm, Busy
    <2>5. CASE EndSkips(k)
        BY <1>2, <1>5, <1>6, <2>5 DEF EndSkips, Goto, Calm, Busy
    <2>6. CASE EndMember(k)
        BY <1>2, <1>5, <1>6, <2>6 DEF EndMember, Leave, GotoRow, Goto, Calm, Busy
    <2>7. QED
        BY <1>6, <2>1, <2>2, <2>3, <2>4, <2>5, <2>6
<1>7. ASSUME NEW k \in Members, k \in Actors, AbstainRow(k)
      PROVE  pc'[m] \notin Busy /\ (stopped[m] # "time" /\ stopped'[m] = "time" => RunOver(m))
    <2>1. pc' = [pc EXCEPT ![k] = "row"] /\ pc[k] = "row"
        BY <1>7 DEF AbstainRow, AtRow, GotoRow, Goto
    <2>2. pc'[m] \in Busy => pc[m] \in Busy
        BY <1>2, <2>1 DEF Busy
    <2>3. PICK hit \in {"no", "time", "memory"} :
            /\ IF pos[k] \in skip_rows THEN hit = stopped[k]
               ELSE /\ hit # "no"
                    /\ stopped[k] # "no" => hit = stopped[k]
                    /\ stopped[k] = "no" /\ hit = "time" => expired(runDl[k], now)
            /\ stopped' = [stopped EXCEPT ![k] = hit]
        BY <1>7 DEF AbstainRow
    <2>4. stopped[m] # "time" /\ stopped'[m] = "time" => k = m /\ expired(runDl[m], now)
        BY <1>2, <2>3
    <2>5. CASE k = m
        BY <1>2, <1>3, <2>1, <2>4, <2>5 DEF Busy
    <2>6. CASE k # m
        BY <1>2, <1>5, <2>1, <2>2, <2>4, <2>6 DEF Calm
    <2>7. QED
        BY <2>5, <2>6
<1>8. ASSUME NEW k \in Members, k \in Actors, EndRow(k)
      PROVE  pc'[m] \notin Busy /\ (stopped[m] # "time" /\ stopped'[m] = "time" => RunOver(m))
    <2>1. pc' = [pc EXCEPT ![k] = "row"] /\ pc[k] = "engine"
        BY <1>8 DEF EndRow, GotoRow, Goto
    <2>2. pc'[m] \in Busy => pc[m] \in Busy
        BY <1>2, <2>1 DEF Busy
    <2>3. PICK v : stopped' = [stopped EXCEPT ![k] = IF stop_run(k, v) THEN "time" ELSE @]
        BY <1>8 DEF EndRow
    <2>4. stopped[m] # "time" /\ stopped'[m] = "time" => k = m /\ expired(runDl[m], now)
        BY <1>2, <2>3 DEF stop_run
    <2>5. CASE k = m
        BY <1>2, <1>3, <2>1, <2>4, <2>5 DEF Busy
    <2>6. CASE k # m
        BY <1>2, <1>5, <2>1, <2>2, <2>4, <2>6 DEF Calm
    <2>7. QED
        BY <2>5, <2>6
<1>9. ASSUME NEW k \in Members, k \in Actors, BeginRow(k)
      PROVE  k = m /\ ~RunOver(m) /\ UNCHANGED stopped
    <2>1. k = m
        BY <1>2, <1>5, <1>9 DEF BeginRow, Goto, Calm
    <2>2. QED
        BY <1>3, <1>9, <2>1 DEF BeginRow
<1>10. ASSUME NEW k \in Members, k \in Actors, BeginSkip(k)
       PROVE  k = m /\ ~RunOver(m) /\ UNCHANGED stopped
    <2>1. k = m
        BY <1>2, <1>5, <1>10 DEF BeginSkip, GotoRow, Goto, Calm
    <2>2. pc[m] = "skips" /\ ~Expired(m) /\ UNCHANGED stopped
        BY <1>10, <2>1 DEF BeginSkip
    <2>3. QED
        BY <1>4, <2>1, <2>2
<1>11. ASSUME NEW k \in Actors, BeginRescue(k)
       PROVE  k = m /\ ~RunOver(m) /\ UNCHANGED stopped
    <2>1. k = m
        BY <1>2, <1>5, <1>11 DEF BeginRescue, GotoRow, Goto, Calm
    <2>2. pc[m] = "replan" /\ ~Expired(m) /\ UNCHANGED stopped
        BY <1>11, <2>1 DEF BeginRescue
    <2>3. QED
        BY <1>4, <2>1, <2>2
<1>12. ASSUME NEW k \in Actors, StopSkips(k) \/ StopReplan(k)
       PROVE  k = m /\ pc'[m] \notin Busy /\ (stopped'[m] = "time" => RunOver(m))
    <2>1. PICK hit \in {"time", "memory"} : (hit = "time" => Expired(k))
                                            /\ stopped' = [stopped EXCEPT ![k] = hit]
        BY <1>12 DEF StopSkips, StopReplan
    <2>2. pc[k] \in {"skips", "replan"} /\ pc' = [pc EXCEPT ![k] = pc[k]]
        BY <1>12 DEF StopSkips, StopReplan, GotoRow, Goto
    <2>3. k = m
        BY <1>2, <1>5, <2>1, <2>2 DEF Calm
    <2>4. QED
        BY <1>2, <1>4, <2>1, <2>2, <2>3 DEF Busy
<1>13. ASSUME NEW k \in Actors, EndRescue(k) \/ EndReplan(k)
       PROVE  FALSE
    <2>1. pc'[m] \in Busy => pc[m] \in Busy
        BY <1>2, <1>13 DEF EndRescue, EndReplan, GotoRow, Goto, Busy
    <2>2. UNCHANGED stopped
        BY <1>13 DEF EndRescue, EndReplan
    <2>3. QED
        BY <1>5, <2>1, <2>2 DEF Calm
<1>14. ASSUME Merge \/ EndPlanner \/ Ship PROVE FALSE
    <2>1. pc'[m] = pc[m]
        BY <1>2, <1>14 DEF Merge, EndPlanner, Ship, Goto
    <2>2. UNCHANGED stopped
        BY <1>14 DEF Merge, EndPlanner, Ship
    <2>3. QED
        BY <1>5, <2>1, <2>2 DEF Calm
<1>15. ASSUME Tick \/ UNCHANGED vars PROVE FALSE
    BY <1>5, <1>15 DEF Tick, vars, Calm
<1>16. Members \subseteq Actors
    BY ActorFacts
<1>17. CASE \E k \in Members :
              \/ StartMember(k) \/ AbstainRow(k) \/ BeginRow(k) \/ EndRow(k) \/ EndRows(k)
              \/ MemberFails(k) \/ StopSkips(k) \/ BeginSkip(k) \/ EndSkip(k) \/ EndSkips(k)
              \/ EndMember(k)
    BY <1>6, <1>7, <1>8, <1>9, <1>10, <1>12, <1>16, <1>17
<1>18. CASE \E k \in Actors :
              StopReplan(k) \/ BeginRescue(k) \/ EndRescue(k) \/ EndReplan(k)
    BY <1>11, <1>12, <1>13, <1>18
<1>19. QED
    BY <1>14, <1>15, <1>17, <1>18 DEF Next, Finished

(***************************************************************************)
(* A pass honours its run budget and no other: it starts no work after the *)
(* budget is over, and gives up for lack of time only after it is, in      *)
(* every mode and for every pair of budgets.                               *)
(***************************************************************************)
THEOREM RunBudgetExact == Spec => BudgetExact
<1>1. IndInv /\ [Next]_vars =>
        [\A m \in Members : began[m] # None =>
            /\ pc'[m] \in Busy /\ pc[m] \notin Busy => ~RunOver(m)
            /\ stopped[m] # "time" /\ stopped'[m] = "time" => RunOver(m)]_vars
    BY WithinBudget
<1>2. QED
    BY <1>1, RunInvariant, PTL DEF Spec, BudgetExact
=============================================================================
