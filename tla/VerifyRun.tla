------------------------------ MODULE VerifyRun ------------------------------
(***************************************************************************)
(* One run of `sv verify-auto`: the property loop of verify_auto_impl, its *)
(* budgets and breadcrumb, the re-plan of undecided rows, the post-passes  *)
(* on verdicts, and the planner's portfolio of engines with its merge      *)
(* (adapter/slang/verify_auto.rs, planner/mod.rs, adapter/run_budget.rs,   *)
(* adapter/partial_json.rs).                                               *)
(*                                                                         *)
(* An engine is an oracle: it answers what is so on the lifted model,      *)
(* abstains, or, if it is in `unsound`, answers anything.  Where the cone  *)
(* of a row has free parts the lifted model has more behaviours than the   *)
(* design, so the two may differ, either way: an AG may be violated and an *)
(* EF may hold on the model alone.                                         *)
(*                                                                         *)
(* Actor 0 is the planner, actor m the m-th engine of the ladder.  Each    *)
(* thread has a current budget; members of the sequential portfolio and    *)
(* the single engine run on the planner's thread.  A SIGKILL runs no code, *)
(* so what must survive one is an invariant over the file.                 *)
(***************************************************************************)
EXTENDS RunBudget, FiniteSets, Sequences, FiniteSetsExt

CONSTANTS
    N,              \* properties (rows) of the run
    Ladders,        \* engine orders the planner may choose
    run_budget_ms,  \* MUNUNU_VERIFY_BUDGET_MS
    property_budget_ms,
    Designs,        \* the designs: what is true of each row and which engines err
    MaxNow          \* bound: the last instant

ASSUME RunConstants ==
    /\ N \in Nat \ {0}
    /\ MaxNow \in Nat
    /\ {run_budget_ms, property_budget_ms} \subseteq Nat \cup {None}

Rows    == 1..N
Definite == {"holds", "violated"}
Outcomes == Definite \cup {"unknown", "skipped"}
Engines  == {"exact", "symbolic", "rescue"}

\* property_class: read off the fixpoints of the formula, not off its modalities.
Classes == {"Propositional", "Safety", "Reachability", "Liveness", "Mixed"}

\* What may be free in a row's cone: a net nobody drives, the start value of a
\* register whose reset is pinned inactive, a cut that was asked for.
FreeParts == {"undriven", "uninit", "cut"}

\* The reasons of a verdict that abstains (bottom_reason).
Causes  == {"pending", "not attempted", "budget", "memory", "engine", "shape",
            "contradiction", "self", "leaf", "init"}
Reasons == Causes \cup {None}

\* A plan names at least one engine; a pair of rows needs two.
ASSUME DesignConstants ==
    /\ None \notin Causes
    /\ Ladders \subseteq Seq({"exact", "symbolic"}) \ {<<>>}
    /\ Designs \subseteq [truth : [Rows -> Definite], lifted : [Rows -> Definite],
                         class : [Rows -> Classes], cone : [Rows -> SUBSET FreeParts],
                         paired : BOOLEAN, unsound : SUBSET Engines]
    /\ \A d \in Designs :
         /\ d.paired => N >= 2
         /\ \A r \in Rows : d.cone[r] = {} => d.lifted[r] = d.truth[r]

VARIABLES
    mode,      \* "single", "sequential" or "parallel"
    ladder,    \* the engines in the order of the plan
    truth,     \* what is true of each row on the design
    lifted,    \* what is true of it on the lifted model
    class,     \* its property class
    cone,      \* the free parts of its cone
    paired,    \* rows 1 and 2 are AG p and EF !p: exactly one of them holds
    unsound,   \* engines that may answer wrongly
    now,       \* the clock
    current,   \* thread -> the deadline of its current budget
    pc, pos,   \* actor -> place, row
    rep,       \* actor -> its report, a function from rows to verdicts
    runDl,     \* member -> the deadline of its run budget
    saved,     \* member -> the budget its run guard restores
    stopped,   \* actor -> which budget stopped it: "no", "time" or "memory"
    skip_rows, \* rows the current sequential member leaves alone
    crumbs,    \* row -> the outcomes on file, and the last of them
    began,     \* history: member -> when it entered its run budget
    voted      \* history: row -> the definite verdicts the members reported

design  == <<mode, ladder, truth, lifted, class, cone, paired, unsound>>
history == <<began, voted>>
vars    == <<design, now, current, pc, pos, rep, runDl, saved, stopped, skip_rows,
             crumbs, history>>

Members   == 1..Len(ladder)
Actors    == 0..Len(ladder)
Thread(a) == IF mode = "parallel" THEN a ELSE 0

\* PropertyVerdict: outcome, bottom_reason and decided_by.
Verdict(o, w, b) == [out |-> o, why |-> w, by |-> b]
Abstain(w)       == Verdict("unknown", w, None)
Unreported       == [r \in Rows |-> Abstain("pending")]

Decided(v) == v.out \in Definite

Init ==
    /\ ladder \in Ladders
    /\ mode \in IF Len(ladder) = 1 THEN {"single"} ELSE {"sequential", "parallel"}
    /\ \E d \in Designs : /\ truth = d.truth /\ lifted = d.lifted
                          /\ class = d.class /\ cone = d.cone
                          /\ paired = d.paired /\ unsound = d.unsound
    /\ now = 0
    /\ current = [t \in Actors |-> Unbounded]
    /\ pc = [a \in Actors |-> IF a = 0 THEN "members" ELSE "off"]
    /\ pos = [a \in Actors |-> 1]
    /\ rep = [a \in Actors |-> Unreported]
    /\ runDl = [a \in Members |-> Unbounded]
    /\ saved = [a \in Members |-> Unbounded]
    /\ stopped = [a \in Actors |-> "no"]
    /\ skip_rows = {}
    /\ crumbs = [r \in Rows |-> [all |-> {}, last |-> None]]
    /\ began = [a \in Members |-> None]
    /\ voted = [r \in Rows |-> {}]

Goto(a, place)    == pc' = [pc EXCEPT ![a] = place]
GotoRow(a, place, r) == Goto(a, place) /\ pos' = [pos EXCEPT ![a] = r]
Put(a, report)    == rep' = [rep EXCEPT ![a] = report]
PutRow(a, r, v)   == rep' = [rep EXCEPT ![a][r] = v]
Enter(a, dl)      == current' = [current EXCEPT ![Thread(a)] = dl]
Expired(a)        == expired(current[Thread(a)], now)

-----------------------------------------------------------------------------
(* The breadcrumb (partial_json.rs).  A record is on disk when its step    *)
(* ends.  In the parallel portfolio member 1 opens the file without        *)
(* O_APPEND beside the others' handles, so any record may be overwritten:  *)
(* "garbled" until the planner's own records.                              *)

Garbled == [all |-> {"garbled"}, last |-> "garbled"]

Record(a, rows) ==
    crumbs' = [r \in Rows |->
        IF mode = "parallel" /\ a # 0 THEN Garbled
        ELSE IF r \in rows
        THEN [all |-> crumbs[r].all \cup {rep[a][r].out}, last |-> rep[a][r].out]
        ELSE crumbs[r]]

\* record_pending at the top of an iteration: every row before this one.
RecordPending_after(a) == Record(a, 1..(pos[a] - 2))
RecordPending(a) == Record(a, 1..(pos[a] - 1))

-----------------------------------------------------------------------------
(* Merging the members' reports (merge_portfolio_reports).                 *)

FirstOf(S) == Min(S)

\* flag_self_contradictory_verdicts: rows with a reason are left alone.
PairContradicts(report) ==
    /\ paired
    /\ \A r \in {1, 2} : Decided(report[r]) /\ report[r].why = None
    /\ report[1].out = report[2].out

flag_self_contradictory_verdicts(report) ==
    IF PairContradicts(report)
    THEN [r \in Rows |-> IF r \in {1, 2}
                         THEN Verdict("unknown", "self", report[r].by) ELSE report[r]]
    ELSE report

\* One row: an alarm, the first definite verdict, or the better abstention.  The
\* reason is that of the base report, the first one.
MergeRow_unanimous(oks, r) ==
    LET outs == {rep[m][r].out : m \in oks}
        base == rep[FirstOf(oks)][r]
    IN IF Cardinality(outs) = 1 THEN base ELSE Abstain(base.why)

MergeRow(oks, r) ==
    LET votes == {m \in oks : Decided(rep[m][r])}
        base  == rep[FirstOf(oks)][r]
    IN CASE {rep[m][r].out : m \in votes} = Definite -> Abstain("contradiction")
         [] Cardinality({rep[m][r].out : m \in votes}) = 1 ->
              Verdict(rep[FirstOf(votes)][r].out, base.why, rep[FirstOf(votes)][r].by)
         [] OTHER -> Verdict(IF \E m \in oks : rep[m][r].out = "unknown"
                             THEN "unknown" ELSE "skipped", base.why, None)

\* attach_engine_failure_reason.
WithFailure(v, failed) ==
    IF failed /\ ~Decided(v) /\ v.why = None THEN [v EXCEPT !.why = "engine"] ELSE v

Ended(m) == pc[m] \in {"done", "failed"}
Oks      == {m \in Members : pc[m] = "done"}

merge_portfolio_reports ==
    flag_self_contradictory_verdicts(
        [r \in Rows |-> WithFailure(MergeRow(Oks, r), \E m \in Members : pc[m] = "failed")])

decided_rows(report) == {r \in Rows : Decided(report[r])}

\* The sequential portfolio stops as soon as the merge so far leaves no row open.
EarlyExit == Oks # {} /\ decided_rows(merge_portfolio_reports) = Rows

-----------------------------------------------------------------------------
(* verify_auto_impl, the property loop.                                    *)

\* The run budget is a child of the current one and is entered; the first
\* member truncates the breadcrumb.
StartMember(m) ==
    /\ pc[m] = "off" /\ pc[0] = "members"
    /\ mode # "parallel" => \A k \in 1..(m - 1) : Ended(k)
    /\ mode = "sequential" => ~EarlyExit
    /\ skip_rows' = IF mode = "sequential" /\ Oks # {}
                    THEN decided_rows(merge_portfolio_reports) ELSE skip_rows
    /\ saved' = [saved EXCEPT ![m] = current[Thread(m)]]
    /\ runDl' = [runDl EXCEPT ![m] = child(current[Thread(m)], run_budget_ms, now)]
    /\ Enter(m, runDl'[m])
    /\ began' = [began EXCEPT ![m] = now]
    /\ crumbs' = IF m = 1 THEN [r \in Rows |-> [all |-> {}, last |-> None]] ELSE crumbs
    /\ GotoRow(m, "row", 1)
    /\ UNCHANGED <<design, now, rep, stopped, voted>>

AtRow(m) == pc[m] = "row" /\ pos[m] <= N

\* A row that is not attempted: an earlier member decided it, a budget stopped
\* the run, or one does now.
AbstainRow(m) ==
    /\ AtRow(m)
    /\ RecordPending(m)
    /\ \E hit \in {"no", "time", "memory"} :
         /\ IF pos[m] \in skip_rows THEN hit = stopped[m]
            ELSE /\ hit # "no"
                 /\ stopped[m] # "no" => hit = stopped[m]
                 /\ stopped[m] = "no" /\ hit = "time" => expired(runDl[m], now)
         /\ stopped' = [stopped EXCEPT ![m] = hit]
         /\ PutRow(m, pos[m], Abstain(IF pos[m] \in skip_rows THEN "not attempted"
                                     ELSE IF hit = "time" THEN "budget" ELSE "memory"))
    /\ GotoRow(m, "row", pos[m] + 1)
    /\ UNCHANGED <<design, now, current, runDl, saved, skip_rows, history>>

\* The engine starts under the per-property budget, a child of the run budget.
BeginRow(m) ==
    /\ AtRow(m) /\ pos[m] \notin skip_rows
    /\ stopped[m] = "no" /\ ~expired(runDl[m], now)
    /\ RecordPending(m)
    /\ Enter(m, child(runDl[m], property_budget_ms, now))
    /\ Goto(m, "engine")
    /\ UNCHANGED <<design, now, pos, rep, runDl, saved, stopped, skip_rows, history>>

\* The definite answers engine e may give on row r.
Says(e, r) == {lifted[r]} \cup (IF e \in unsound THEN Definite ELSE {})

\* The exact branch: an error of the ladder, budget stops included, is a skip; an
\* isolated child that died is an unknown.
exact_outcomes(r) ==
    {Verdict(o, None, "exact") : o \in Says("exact", r)}
    \cup {Verdict("skipped", None, None), Abstain("engine")}

\* cube_outcome: an unknown is attributed to the clock if the row's budget is over.
cube_outcomes(m, r) ==
    {Verdict(o, None, ladder[m]) : o \in Says(ladder[m], r)}
    \cup {Verdict("skipped", None, None), Abstain("engine"),
          Abstain(IF Expired(m) THEN "budget" ELSE None)}

stop_run_row(m, v) == v.why = "budget"
stop_run(m, v) == v.why = "budget" /\ expired(runDl[m], now)

\* The row's guard is dropped.
EndRow(m) ==
    /\ pc[m] = "engine"
    /\ \E v \in IF ladder[m] = "exact" THEN exact_outcomes(pos[m])
                ELSE cube_outcomes(m, pos[m]) :
         /\ PutRow(m, pos[m], v)
         /\ stopped' = [stopped EXCEPT ![m] = IF stop_run(m, v) THEN "time" ELSE @]
    /\ Enter(m, runDl[m])
    /\ GotoRow(m, "row", pos[m] + 1)
    /\ UNCHANGED <<design, now, runDl, saved, skip_rows, crumbs, history>>

\* After the last row: the last record, then the re-plan unless it is deferred.
EndRows(m) ==
    /\ pc[m] = "row" /\ pos[m] > N
    /\ RecordPending(m)
    /\ GotoRow(m, IF mode = "single" THEN "replan" ELSE "skips", 1)
    /\ UNCHANGED <<design, now, current, rep, runDl, saved, stopped, skip_rows, history>>

\* A pass is over: its run guard restores the budget it found, its locals are gone.
Leave(m, place) ==
    /\ GotoRow(m, place, 1)
    /\ Enter(m, saved[m])
    /\ runDl' = [runDl EXCEPT ![m] = Unbounded]
    /\ saved' = [saved EXCEPT ![m] = Unbounded]
    /\ stopped' = [stopped EXCEPT ![m] = "no"]
    /\ began' = [began EXCEPT ![m] = None]

\* verify_auto_impl returns an error, or the thread of a parallel member panics.
MemberFails(m) ==
    /\ pc[m] \in {"row", "engine", "skip"}
    /\ Leave(m, "failed")
    /\ Put(m, Unreported)
    /\ UNCHANGED <<design, now, skip_rows, crumbs, voted>>

-----------------------------------------------------------------------------
(* The re-plan (escalate_bottom) on the report of actor a: the single      *)
(* engine's own, or the planner's merged one.                              *)

\* Rows that are still unknown, except a violation withheld over a free leaf
\* and a row nobody was to attempt.
Open(a, from) ==
    {r \in from..N : rep[a][r].out = "unknown"
                     /\ rep[a][r].why \notin {"leaf", "not attempted"}}

StopReplan(a) ==
    /\ pc[a] = "replan" /\ Open(a, pos[a]) # {}
    /\ \E hit \in {"time", "memory"} :
         /\ hit = "time" => Expired(a)
         /\ stopped' = [stopped EXCEPT ![a] = hit]
    /\ GotoRow(a, "replan", N + 1)
    /\ UNCHANGED <<design, now, current, rep, runDl, saved, skip_rows, crumbs, history>>

\* The row runs under a child of the current budget.
BeginRescue(a) ==
    /\ pc[a] = "replan" /\ Open(a, pos[a]) # {} /\ ~Expired(a)
    /\ Enter(a, child(current[Thread(a)], property_budget_ms, now))
    /\ GotoRow(a, "rescue", Min(Open(a, pos[a])))
    /\ UNCHANGED <<design, now, rep, runDl, saved, stopped, skip_rows, crumbs, history>>

\* A decided row keeps the reason it had; an undecided one gets a reason if it
\* has none; members that contradict each other replace it.
RescueOutcomes(a, v, r) ==
    {Verdict(o, v.why, "rescue") : o \in Says("rescue", r)}
    \cup {Abstain(IF v.why # None THEN v.why ELSE w) :
            w \in IF Expired(a) THEN {"budget"} ELSE {"engine", None}}
    \cup (IF "rescue" \in unsound THEN {Abstain("contradiction")} ELSE {})

\* What the thread's budget is again when the row's guard is dropped.
Outer(a) == IF a = 0 THEN Unbounded ELSE runDl[a]

EndRescue(a) ==
    /\ pc[a] = "rescue"
    /\ \E v \in RescueOutcomes(a, rep[a][pos[a]], pos[a]) : PutRow(a, pos[a], v)
    /\ Enter(a, Outer(a))
    /\ GotoRow(a, "replan", pos[a] + 1)
    /\ UNCHANGED <<design, now, runDl, saved, stopped, skip_rows, crumbs, history>>

\* classify_bottom_reason for what is left, and a record for every row that moved.
Classified(report) ==
    [r \in Rows |-> IF report[r].out = "unknown" /\ report[r].why = None
                    THEN [report[r] EXCEPT !.why = "shape"] ELSE report[r]]

EndReplan(a) ==
    /\ pc[a] = "replan" /\ Open(a, pos[a]) = {}
    /\ Record(a, {r \in Rows : rep[a][r].by = "rescue"})
    /\ Put(a, Classified(rep[a]))
    /\ GotoRow(a, IF a = 0 THEN "post" ELSE "skips", 1)
    /\ UNCHANGED <<design, now, current, runDl, saved, stopped, skip_rows, history>>

-----------------------------------------------------------------------------
(* rescue_skipped_via_exact: rows a cube engine skipped get the exact one. *)

Skips(m, from) ==
    {r \in from..N : ladder[m] # "exact" /\ rep[m][r].out = "skipped"}

StopSkips(m) ==
    /\ pc[m] = "skips" /\ Skips(m, pos[m]) # {}
    /\ \E hit \in {"time", "memory"} :
         /\ hit = "time" => Expired(m)
         /\ stopped' = [stopped EXCEPT ![m] = hit]
    /\ GotoRow(m, "skips", N + 1)
    /\ UNCHANGED <<design, now, current, rep, runDl, saved, skip_rows, crumbs, history>>

BeginSkip(m) ==
    /\ pc[m] = "skips" /\ Skips(m, pos[m]) # {} /\ ~Expired(m)
    /\ GotoRow(m, "skip", Min(Skips(m, pos[m])))
    /\ UNCHANGED <<design, now, current, rep, runDl, saved, stopped, skip_rows, crumbs, history>>

EndSkip(m) ==
    /\ pc[m] = "skip"
    /\ \/ \E o \in Says("exact", pos[m]) : PutRow(m, pos[m], Verdict(o, None, "exact"))
       \/ UNCHANGED rep
    /\ GotoRow(m, "skips", pos[m] + 1)
    /\ UNCHANGED <<design, now, current, runDl, saved, stopped, skip_rows, crumbs, history>>

EndSkips(m) ==
    /\ pc[m] = "skips" /\ Skips(m, pos[m]) = {}
    /\ Goto(m, "post")
    /\ UNCHANGED <<design, now, current, pos, rep, runDl, saved, stopped, skip_rows, crumbs,
                   history>>

-----------------------------------------------------------------------------
(* The post-passes and the end of the run.                                 *)

\* The rows whose violation downgrade_violated_on_unestablished_init takes back,
\* and those whose violation withhold_violated_over_free_leaves does.  A HOLDS and
\* a violation over a deliberate cut stay.
unestablished_init(r) == "uninit" \in cone[r] /\ class[r] \in {"Safety", "Mixed"}
over_free_leaves(r)   == "undriven" \in cone[r] /\ class[r] # "Reachability"

Withholds(r) == unestablished_init(r) \/ over_free_leaves(r)

\* The first pass leaves the second no violation.
WithheldFor(r) == IF unestablished_init(r) THEN "init" ELSE "leaf"

withhold_none(report) == report
withhold(report) ==
    [r \in Rows |-> IF report[r].out = "violated" /\ Withholds(r)
                    THEN Verdict("unknown", WithheldFor(r), report[r].by) ELSE report[r]]

\* A member returns its report.
EndMember(m) ==
    /\ pc[m] = "post"
    /\ Put(m, flag_self_contradictory_verdicts(withhold(rep[m])))
    /\ Leave(m, "done")
    /\ UNCHANGED <<design, now, skip_rows, crumbs, voted>>

\* The planner merges when the members are over, and re-plans unless every row is
\* decided.  A member's shape-derived reason is derived again.
Unshaped(report) ==
    [r \in Rows |-> IF report[r].out = "unknown" /\ report[r].why = "shape"
                    THEN [report[r] EXCEPT !.why = None] ELSE report[r]]

Merge ==
    /\ mode # "single" /\ pc[0] = "members"
    /\ \/ \A m \in Members : Ended(m)
       \/ mode = "sequential" /\ EarlyExit /\ \A m \in Members : pc[m] = "off" \/ Ended(m)
    /\ IF Oks = {} THEN Goto(0, "failed") /\ UNCHANGED <<rep, voted>>
       ELSE /\ rep' = [a \in Actors |-> IF a = 0 THEN Unshaped(merge_portfolio_reports)
                                        ELSE Unreported]
            /\ voted' = [r \in Rows |-> {rep[m][r].out : m \in Oks} \cap Definite]
            /\ Goto(0, IF decided_rows(rep'[0]) = Rows THEN "record" ELSE "replan")
    /\ skip_rows' = {}
    /\ UNCHANGED <<design, now, current, pos, runDl, saved, stopped, crumbs, began>>

\* replan_merged's passes on the merged verdicts.
PostMerged_unflagged(report) == withhold(report)
PostMerged(report) == flag_self_contradictory_verdicts(withhold(report))

EndPlanner ==
    /\ pc[0] = "post"
    /\ Put(0, PostMerged(rep[0]))
    /\ Goto(0, "record")
    /\ UNCHANGED <<design, now, current, pos, runDl, saved, stopped, skip_rows, crumbs, history>>

record_merged_breadcrumb == Record(0, Rows)

Ship ==
    /\ pc[0] = "record"
    /\ record_merged_breadcrumb
    /\ Goto(0, "done")
    /\ UNCHANGED <<design, now, current, pos, rep, runDl, saved, stopped, skip_rows, history>>

Shipper == IF mode = "single" THEN 1 ELSE 0
Over    == Ended(Shipper)

Tick ==
    /\ now < MaxNow /\ ~Over /\ pc[1] # "off"
    /\ now' = now + 1
    /\ UNCHANGED <<design, current, pc, pos, rep, runDl, saved, stopped, skip_rows, crumbs,
                   history>>

\* An engine works on a row.
Busy == {"engine", "rescue", "skip"}

Finished == Over /\ UNCHANGED vars

Next ==
    \/ \E m \in Members :
         \/ StartMember(m) \/ AbstainRow(m) \/ BeginRow(m) \/ EndRow(m) \/ EndRows(m)
         \/ MemberFails(m) \/ StopSkips(m) \/ BeginSkip(m) \/ EndSkip(m) \/ EndSkips(m)
         \/ EndMember(m)
    \/ \E a \in Actors :
         StopReplan(a) \/ BeginRescue(a) \/ EndRescue(a) \/ EndReplan(a)
    \/ Merge \/ EndPlanner \/ Ship \/ Tick \/ Finished

Spec == Init /\ [][Next]_vars

-----------------------------------------------------------------------------
Shipped == rep[Shipper]

\* Type correctness, checked with SoundReport.
TypeOK ==
    /\ now \in 0..MaxNow
    /\ current \in [Actors -> Deadlines]
    /\ pc \in [Actors -> Busy \cup {"members", "off", "row", "replan", "skips", "post",
                                    "record", "done", "failed"}]
    /\ pos \in [Actors -> 1..(N + 1)]
    /\ rep \in [Actors -> [Rows -> [out : Outcomes, why : Reasons,
                                   by : Engines \cup {None}]]]
    /\ runDl \in [Members -> Deadlines] /\ saved \in [Members -> Deadlines]
    /\ stopped \in [Actors -> {"no", "time", "memory"}]
    /\ skip_rows \subseteq Rows
    /\ crumbs \in [Rows -> [all : SUBSET (Outcomes \cup {"garbled"}),
                            last : Outcomes \cup {"garbled", None}]]
    /\ began \in [Members -> 0..MaxNow \cup {None}]
    /\ voted \in [Rows -> SUBSET Definite]

\* The verdicts over a free cone that no pass takes back although the design may
\* be different: every HOLDS (that of an EF may rest on the free part alone), the
\* violation of a row of least fixpoints only, a violation over nothing but
\* deliberate cuts, and, over unestablished registers, a violation of a row that
\* is not Safety or Mixed.
LetThrough(r, o) ==
    /\ cone[r] # {}
    /\ \/ o = "holds"
       \/ class[r] = "Reachability"
       \/ cone[r] = {"cut"}
       \/ "undriven" \notin cone[r] /\ class[r] \in {"Propositional", "Liveness"}

(***************************************************************************)
(* A wrong verdict that ships is credited to an unsound engine, or it is   *)
(* what the lifted model says and one of those let through; and no member  *)
(* that had the row right was overruled by a vote.  So the violation of an *)
(* AG over an undriven net or an unestablished register never ships on a   *)
(* sound engine's word, whatever the order of the engines, the rows        *)
(* skipped, the merge, the re-plan and the order of the passes             *)
(* (verify_auto.rs:4462-4470, 1898-2038).                                  *)
(***************************************************************************)
SoundReport ==
    /\ TypeOK
    /\ Over /\ pc[Shipper] = "done" => \A r \in Rows :
         LET v == Shipped[r]
         IN Decided(v) /\ v.out # truth[r] =>
              /\ v.by \in unsound \/ (v.out = lifted[r] /\ LetThrough(r, v.out))
              /\ v.by # "rescue" => truth[r] \notin voted[r]

(***************************************************************************)
(* No verdict is lost: a row that some member's report decided ships       *)
(* undecided only because engines or rows contradict each other, or, after *)
(* they did, because the re-plan's answer was a violation over a free cone *)
(* and is withheld; another member's budget or failure, the rows it was    *)
(* told to skip and the row's place in the ladder never undo it            *)
(* (verify_auto.rs:4470-4665, 4678-4735; planner/mod.rs:322-428).          *)
(***************************************************************************)
DecidedRowsShip ==
    Over /\ pc[Shipper] = "done" => \A r \in Rows :
        ~Decided(Shipped[r]) /\ voted[r] # {} =>
            \/ Shipped[r].why \in {"contradiction", "self"}
            \/ Shipped[r].by = "rescue" /\ Shipped[r].why \in {"init", "leaf"}

\* The run budget of the pass under way, counted from its start, is over.
RunOver(m) == expired(child(Unbounded, run_budget_ms, began[m]), now)

(***************************************************************************)
(* The run budget of a pass is exact: no engine starts on a row once it is *)
(* over, the re-plan's and the skip rescue's attempts included, and rows   *)
(* are withheld for lack of time only once it is over, never because the   *)
(* budget of a single row ran out or an outer budget was left in force     *)
(* (verify_auto.rs:6648-6660, 4131-4136; run_budget.rs:131-140).           *)
(***************************************************************************)
BudgetExact ==
    [][\A m \in Members : began[m] # None =>
        /\ pc'[m] \in Busy /\ pc[m] \notin Busy => ~RunOver(m)
        /\ stopped[m] # "time" /\ stopped'[m] = "time" => RunOver(m)]_vars

(***************************************************************************)
(* The breadcrumb survives a kill: while an engine works on a row, every   *)
(* verdict its pass reached before is on file, as the last record if one   *)
(* engine runs; and the last records of a portfolio that ended are the     *)
(* verdicts that ship (partial_json.rs:10-24, 158-160; env-vars.md:90).    *)
(***************************************************************************)
BreadcrumbTrue ==
    /\ mode # "parallel" => \A m \in Members : pc[m] = "engine" =>
         /\ \A r \in 1..(pos[m] - 1) :
              /\ rep[m][r].out \in crumbs[r].all
              /\ mode = "single" => crumbs[r].last = rep[m][r].out
         /\ \A k \in Oks : \A r \in Rows : rep[k][r].why # "self" /\ ~Withholds(r) =>
              \/ rep[k][r].out \in crumbs[r].all
              \/ rep[k][r].by = "exact" /\ ladder[k] # "exact"
    /\ pc[0] = "done" => \A r \in Rows : crumbs[r].last = Shipped[r].out

\* A definite verdict that still carries the reason of an abstention.
Stale(v) == Decided(v) /\ v.why # None

\* The shipped verdicts of AG p and EF !p cannot both be right.
PairShips == paired /\ Decided(Shipped[1]) /\ Shipped[1].out = Shipped[2].out

(***************************************************************************)
(* Two verdicts that cannot both be right ship only if one of them carries *)
(* the stale reason of an abstention: the consistency pass runs last in    *)
(* every path and misses no other pair (verify_auto.rs:1589-1648).         *)
(***************************************************************************)
PairOnlyStale ==
    Over /\ pc[Shipper] = "done" /\ PairShips => Stale(Shipped[1]) \/ Stale(Shipped[2])

(***************************************************************************)
(* The claim of docs/env-vars.md:97: the budget is that of the whole run,  *)
(* and once it is spent the re-plan passes stop.  Whatever works on a row  *)
(* on the planner's own thread has a deadline within the budget.           *)
(***************************************************************************)
RunBudgetBoundsRun ==
    \A a \in Actors : pc[a] \in Busy /\ Thread(a) = 0 =>
        current[Thread(a)] # Unbounded /\ current[Thread(a)] <= run_budget_ms
=============================================================================
