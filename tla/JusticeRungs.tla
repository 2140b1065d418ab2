---------------------------- MODULE JusticeRungs ----------------------------
(***************************************************************************)
(* The justice engine: one call of verify_justice_with                     *)
(* (adapter/justice.rs), which decides the justice sets of a design one    *)
(* after the other.  A set is asked of the exact rung (the three-stage     *)
(* exact_ladder of btor2/symbolic_bitblast.rs), of the l2s rung (a monitor *)
(* handed to the scoped reachability portfolio, seen here through          *)
(* ReachPromise), or of both: in sequence on the calling thread, or raced  *)
(* on two scoped threads, the loser cancelled and joined.                  *)
(***************************************************************************)
EXTENDS ReachOutcome, Sequences, FiniteSets, Integers

CONSTANTS NSets,    \* number of justice lines
          Members,  \* the engines of the reachability portfolio
          Unsound,  \* members that may answer wrongly
          Panics    \* rungs that may panic

ASSUME JusticeAssumption ==
    /\ NSets \in Nat \ {0}
    /\ "l2s" \notin Members /\ "exact" \notin Members

Rungs == {"exact", "l2s"}
Decisions == {"holds", "violated"}

(* rung and parallel_rungs of JusticeOptions.                              *)
Policies == {"exact", "l2s", "sequential", "parallel"}

VARIABLES
    truth,      \* per justice set: what it is
    policy,     \* JusticeOptions
    budgeted,   \* is budget_ms given?
    pc,         \* the calling thread
    set,        \* the justice set it is at
    verdict, decidedBy,          \* the locals of that set
    notes,      \* the rungs whose abstention it notes
    results,    \* what was pushed for the sets before it
    rung,       \* per rung: where it is
    answer,     \* per rung: what it came to in this set
    outcome,    \* what the portfolio returned to the l2s rung
    timed,      \* does the running ladder have a budget?
    out,        \* is that budget used up?
    spent,      \* is the budget of this set used up?
    cancel, channel, pending,    \* what the race shares
    live        \* LIVE_RUNGS

inputs  == <<truth, policy, budgeted>>
locals  == <<set, verdict, decidedBy, notes, results>>
ladder  == <<timed, out, spent>>
race    == <<cancel, channel, pending>>
vars    == <<inputs, pc, locals, rung, answer, outcome, ladder, race, live>>

(* A lasso is a reachable `bad` of the monitor.                            *)
MonitorTruth == IF truth[set] = "violated" THEN "reachable" ELSE "unreachable"
Portfolio == INSTANCE ReachPromise
               WITH Engines <- Members, truth <- MonitorTruth

Asked == IF policy \in Rungs THEN {policy} ELSE Rungs

Init ==
    /\ truth \in [1..NSets -> Decisions]
    /\ policy \in Policies
    /\ budgeted \in BOOLEAN
    /\ pc = "set" /\ set = 1
    /\ verdict = "unknown" /\ decidedBy = {} /\ notes = {} /\ results = <<>>
    /\ rung = [r \in Rungs |-> "idle"]
    /\ answer = [r \in Rungs |-> "none"]
    /\ outcome = Pending
    /\ timed = FALSE /\ out = FALSE /\ spent = FALSE
    /\ cancel = FALSE /\ channel = <<>> /\ pending = 0
    /\ live = 0

-----------------------------------------------------------------------------
(* One justice set begins: fresh locals, a fresh clock, a fresh flag.      *)
FirstStop == IF policy = "parallel" THEN "race"
             ELSE IF policy = "l2s" THEN "l2s" ELSE "exact"

(* Mutant: the verdict and its deciders are declared outside the loop.     *)
FreshLocals_stale == notes' = {} /\ UNCHANGED <<verdict, decidedBy>>

FreshLocals == verdict' = "unknown" /\ decidedBy' = {} /\ notes' = {}

(* Mutant: one cancel flag for the whole call.                             *)
FreshRace_flag == channel' = <<>> /\ pending' = 2 /\ UNCHANGED cancel

FreshRace == cancel' = FALSE /\ channel' = <<>> /\ pending' = 2

BeginSet ==
    /\ pc = "set"
    /\ FreshLocals /\ FreshRace
    /\ answer' = [r \in Rungs |-> "none"] /\ outcome' = Pending
    /\ timed' = (budgeted \/ policy = "sequential")
    /\ spent' = FALSE /\ out' = FALSE
    /\ rung' = [r \in Rungs |-> CASE policy = "parallel" -> "spawned"
                                  [] policy # "parallel" /\ r = FirstStop -> "start"
                                  [] policy # "parallel" /\ r # FirstStop -> "idle"]
    /\ pc' = FirstStop
    /\ UNCHANGED <<inputs, set, results, live>>

(* The clocks: the set's budget, and the 30 s slice of the first leg of    *)
(* the sequential policy.                                                  *)
BudgetPasses ==
    /\ pc \notin {"set", "returned", "unwound"} /\ budgeted /\ ~spent
    /\ spent' = TRUE /\ out' = TRUE
    /\ UNCHANGED <<inputs, pc, locals, rung, answer, outcome, timed, race, live>>

SlicePasses ==
    /\ pc = "exact" /\ policy = "sequential" /\ ~out
    /\ out' = TRUE
    /\ UNCHANGED <<inputs, pc, locals, rung, answer, outcome, timed, spent, race, live>>

-----------------------------------------------------------------------------
(* The rungs.  A racing rung is counted from its closure's first line.     *)
RungGuard_enter(r) ==
    /\ rung[r] = "spawned"
    /\ rung' = [rung EXCEPT ![r] = "start"]
    /\ live' = live + 1
    /\ UNCHANGED <<inputs, pc, locals, answer, outcome, ladder, race>>

Settles(r, a) ==
    /\ rung' = [rung EXCEPT ![r] = "settled"]
    /\ answer' = [answer EXCEPT ![r] = a]

(* ExactSession::prepare: a bit cap, a refused atom, an arena overflow are *)
(* errors (the cap ladder is off in this engine's options).  It polls      *)
(* neither the clock nor the flag.                                         *)
Prepare ==
    /\ rung["exact"] = "start"
    /\ \/ Settles("exact", "abstained")
       \/ rung' = [rung EXCEPT !["exact"] = "stage1"] /\ UNCHANGED answer
    /\ UNCHANGED <<inputs, pc, locals, outcome, ladder, race, live>>

Stages == {"stage1", "stage2", "stage3"}

(* How an attempt may end: with the verdict, with an abstention worth a    *)
(* retry (deadline, arena, iterations), with a final one, or cancelled.    *)
AttemptEnds == {truth[set], "retry", "final"} \cup (IF cancel THEN {"cancelled"} ELSE {})

Abstention(end) == IF end = "cancelled" THEN "cancelled" ELSE "abstained"

(* exact_ladder: stage 1 goes on only from a retryable abstention, stage 2 *)
(* from any, both only while the ladder's budget lasts.                    *)
StageEnds(s) ==
    /\ rung["exact"] = s
    /\ \E end \in AttemptEnds :
         LET goesOn == /\ end \notin Decisions /\ ~out
                       /\ \/ s = "stage1" /\ end = "retry"
                          \/ s = "stage2"
             next == IF s = "stage1" THEN "stage2" ELSE "stage3"
         IN  \/ goesOn /\ rung' = [rung EXCEPT !["exact"] = next] /\ UNCHANGED answer
             \/ ~goesOn /\ end \in Decisions /\ Settles("exact", end)
             \/ ~goesOn /\ end \notin Decisions /\ Settles("exact", Abstention(end))
    /\ UNCHANGED <<inputs, pc, locals, outcome, ladder, race, live>>

(* Mutant: stage 3 gets no deadline, although the ladder has a budget.     *)
Interrupted_stage3(s) == s \in {"stage1", "stage2"} \/ cancel

(* The attempt must end soon: stages 1 and 2 always have a deadline, stage *)
(* 3 has what is left of the ladder's budget, if any; every iteration      *)
(* polls the deadline and the flag.                                        *)
Interrupted(s) == s \in {"stage1", "stage2"} \/ (timed /\ out) \/ cancel

LivenessVerdict(v) ==
    CASE v = "unreachable" -> "holds"
      [] v = "reachable" -> "violated"
      [] v \in {"unknown", "contradiction"} -> "abstained"

(* The portfolio returns; a cancelled one may have decided nothing.        *)
PortfolioReturns ==
    /\ rung["l2s"] = "start"
    /\ UNCHANGED <<inputs, pc, locals, ladder, race, live>>
    /\ Portfolio!Return
    /\ Settles("l2s", LivenessVerdict(outcome'.verdict))

(* The fair-cycle monitor could not be built or parsed back.               *)
NoMonitor ==
    /\ rung["l2s"] = "start"
    /\ Settles("l2s", "abstained")
    /\ UNCHANGED <<inputs, pc, locals, outcome, ladder, race, live>>

By(r) == IF r = "exact" THEN {"exact"}
         ELSE {"l2s"} \cup (IF answer[r] = "holds" THEN outcome.unreachable_by
                                                   ELSE outcome.reachable_by)

-----------------------------------------------------------------------------
(* The race.                                                               *)
Send(r) ==
    /\ policy = "parallel" /\ rung[r] = "settled"
    /\ rung' = [rung EXCEPT ![r] = "sent"]
    /\ channel' = Append(channel, r)
    /\ UNCHANGED <<inputs, pc, locals, answer, outcome, ladder, cancel, pending, live>>

RungGuard_drop(r) == live' = live - 1

(* The closure is over: the guard, then the sender, are dropped.  A panic  *)
(* held in the portfolio's scope gets there only when the forwarder sees   *)
(* the race's flag (ReachPortfolio!PanicEnds).                             *)
RungEnds(r) ==
    /\ policy = "parallel"
    /\ rung[r] \in {"sent", "panicking"} \/ (rung[r] = "held" /\ cancel)
    /\ rung' = [rung EXCEPT ![r] = "ended"]
    /\ RungGuard_drop(r)
    /\ UNCHANGED <<inputs, pc, locals, answer, outcome, ladder, race>>

(* Where a racing rung's panic takes its thread.  If it starts on the      *)
(* l2s rung's own thread inside the portfolio (its exact engine), it skips *)
(* `finished`, and the forwarder, which every racing portfolio has, holds  *)
(* the scope, and with it the thread, the guard and the sender.            *)
PanicLeads(r) == {"panicking"} \cup (IF r = "l2s" THEN {"held"} ELSE {})

(* A panic ends a racing rung's thread, at once or when it is let go; on   *)
(* the calling thread it unwinds the whole call.                           *)
RungPanics(r) ==
    /\ r \in Panics /\ rung[r] \in {"start"} \cup Stages
    /\ answer' = [answer EXCEPT ![r] = "panicked"]
    /\ \/ /\ policy = "parallel"
          /\ \E place \in PanicLeads(r) : rung' = [rung EXCEPT ![r] = place]
          /\ UNCHANGED pc
       \/ /\ policy # "parallel"
          /\ rung' = [rung EXCEPT ![r] = "ended"] /\ pc' = "unwound"
    /\ UNCHANGED <<inputs, locals, outcome, ladder, race, live>>

(* Meanwhile the forwarder of the held portfolio polls the flag.           *)
ForwarderPolls ==
    /\ rung["l2s"] = "held" /\ ~cancel
    /\ UNCHANGED vars

Receive ==
    /\ pc = "race" /\ channel # <<>>
    /\ LET r == Head(channel)
           decides == answer[r] \in Decisions
       IN  /\ verdict' = IF decides THEN answer[r] ELSE verdict
           /\ decidedBy' = IF decides THEN By(r) ELSE decidedBy
           /\ notes' = IF decides THEN notes ELSE notes \cup {r}
           /\ pc' = IF decides \/ pending = 1 THEN "cancel" ELSE "race"
    /\ channel' = Tail(channel)
    /\ pending' = pending - 1
    /\ UNCHANGED <<inputs, set, results, rung, answer, outcome, ladder, cancel, live>>

SendersGone == \A r \in Rungs : rung[r] = "ended"

(* Mutant: a failed recv is tried again.                                   *)
Disconnected_spins ==
    /\ pc = "race" /\ channel = <<>> /\ SendersGone
    /\ UNCHANGED vars

(* recv fails: no report is left and every sender was dropped.             *)
Disconnected ==
    /\ pc = "race" /\ channel = <<>> /\ SendersGone
    /\ pc' = "cancel"
    /\ UNCHANGED <<inputs, locals, rung, answer, outcome, ladder, race, live>>

(* Mutant: the flag is stored after the joins.                             *)
CancelRungs_late ==
    /\ pc = "cancel"
    /\ pc' = "join"
    /\ UNCHANGED <<inputs, locals, rung, answer, outcome, ladder, race, live>>

CancelRungs ==
    /\ pc = "cancel"
    /\ cancel' = TRUE
    /\ pc' = "join"
    /\ UNCHANGED <<inputs, locals, rung, answer, outcome, ladder, channel, pending, live>>

(* Mutant: the rungs run detached (mununu#689).                            *)
JoinRungs_detached ==
    /\ pc = "join"
    /\ pc' = "push"
    /\ UNCHANGED <<inputs, locals, rung, answer, outcome, ladder, race, live>>

(* Both joins; a panicked rung's payload is dropped.                       *)
JoinRungs ==
    /\ pc = "join" /\ \A r \in Rungs : rung[r] = "ended"
    /\ pc' = "push"
    /\ UNCHANGED <<inputs, locals, rung, answer, outcome, ladder, race, live>>

-----------------------------------------------------------------------------
(* The calling thread's own rungs: exact, l2s, and exact once more.        *)
Take(r) ==
    /\ rung[r] = "settled" /\ policy # "parallel"
    /\ IF answer[r] \in Decisions
         THEN verdict' = answer[r] /\ decidedBy' = By(r) /\ UNCHANGED notes
         ELSE notes' = notes \cup {r} /\ UNCHANGED <<verdict, decidedBy>>

TakeExact ==
    /\ pc = "exact" /\ Take("exact")
    /\ IF policy = "sequential" /\ verdict' = "unknown"
         THEN rung' = [exact |-> "ended", l2s |-> "start"] /\ pc' = "l2s"
         ELSE rung' = [rung EXCEPT !["exact"] = "ended"] /\ pc' = "push"
    /\ UNCHANGED <<inputs, set, results, answer, outcome, ladder, race, live>>

TakeL2s ==
    /\ pc = "l2s" /\ Take("l2s")
    /\ IF policy = "sequential" /\ verdict' = "unknown" /\ ~spent
         THEN /\ rung' = [exact |-> "start", l2s |-> "ended"]
              /\ pc' = "remainder" /\ timed' = budgeted /\ out' = FALSE
         ELSE /\ rung' = [rung EXCEPT !["l2s"] = "ended"]
              /\ pc' = "push" /\ UNCHANGED <<timed, out>>
    /\ UNCHANGED <<inputs, set, results, answer, outcome, spent, race, live>>

TakeRemainder ==
    /\ pc = "remainder" /\ Take("exact")
    /\ rung' = [rung EXCEPT !["exact"] = "ended"]
    /\ pc' = "push"
    /\ UNCHANGED <<inputs, set, results, answer, outcome, ladder, race, live>>

PushResult ==
    /\ pc = "push"
    /\ results' = Append(results, [verdict |-> verdict, decided_by |-> decidedBy,
                                   notes |-> notes])
    /\ IF set < NSets THEN set' = set + 1 /\ pc' = "set"
                      ELSE pc' = "returned" /\ UNCHANGED set
    /\ UNCHANGED <<inputs, verdict, decidedBy, notes, rung, answer, outcome,
                   ladder, race, live>>

Over == pc \in {"returned", "unwound"} /\ UNCHANGED vars

Caller ==
    \/ BeginSet \/ Receive \/ Disconnected \/ CancelRungs \/ JoinRungs
    \/ TakeExact \/ TakeL2s \/ TakeRemainder \/ PushResult

Closure(r) == RungGuard_enter(r) \/ Send(r) \/ RungEnds(r)

Next ==
    \/ Caller \/ BudgetPasses \/ SlicePasses
    \/ \E r \in Rungs : Closure(r) \/ RungPanics(r)
    \/ Prepare \/ \E s \in Stages : StageEnds(s)
    \/ PortfolioReturns \/ NoMonitor
    \/ ForwarderPolls \/ Over

Spec == Init /\ [][Next]_vars

(* Threads run, the transition relation is built within its arena, the     *)
(* clocks tick, an interrupted attempt ends, and so does a cancelled       *)
(* portfolio (ReachPortfolio!PromptStop), a panicked one included.  An     *)
(* attempt without a deadline and a portfolio that nobody cancels need not *)
(* end.                                                                    *)
FairSpec ==
    /\ Spec /\ WF_vars(Caller)
    /\ \A r \in Rungs : WF_vars(Closure(r))
    /\ WF_vars(Prepare) /\ WF_vars(BudgetPasses) /\ WF_vars(SlicePasses)
    /\ \A s \in Stages : WF_vars(Interrupted(s) /\ StageEnds(s))
    /\ WF_vars(cancel /\ (PortfolioReturns \/ NoMonitor))

(* The engines' own limits: iterations and arena nodes for an attempt, the *)
(* member timeouts for a portfolio (ReachPortfolio!Terminates).            *)
EngineLimits ==
    /\ WF_vars(StageEnds("stage3"))
    /\ WF_vars(PortfolioReturns \/ NoMonitor)

-----------------------------------------------------------------------------
(* Type correctness, checked with NothingLeftRunning; LIVE_RUNGS is an     *)
(* unsigned counter that never wraps.                                      *)
TypeOK ==
    /\ truth \in [1..NSets -> Decisions] /\ policy \in Policies
    /\ pc \in {"set", "race", "cancel", "join", "exact", "l2s", "remainder",
               "push", "returned", "unwound"}
    /\ set \in 1..NSets
    /\ verdict \in Decisions \cup {"unknown"}
    /\ decidedBy \in SUBSET (Rungs \cup Members) /\ notes \in SUBSET Rungs
    /\ results \in Seq([verdict : Decisions \cup {"unknown"},
                        decided_by : SUBSET (Rungs \cup Members),
                        notes : SUBSET Rungs])
    /\ Len(results) <= NSets
    /\ rung \in [Rungs -> {"idle", "spawned", "start", "settled", "sent",
                           "panicking", "held", "ended"} \cup Stages]
    /\ answer \in [Rungs -> Decisions \cup
                     {"none", "abstained", "cancelled", "panicked"}]
    /\ {budgeted, timed, out, spent, cancel} \subseteq BOOLEAN
    /\ channel \in Seq(Rungs) /\ Len(channel) <= 2
    /\ pending \in 0..2 /\ live \in 0..2

(* Every pushed verdict is true of its own justice set, unless the only    *)
(* engines behind it are unsound members of the portfolio: no answer of an *)
(* earlier set, of a cancelled rung or of an alarm ever becomes a verdict. *)
SoundJustice ==
    \A i \in 1..Len(results) :
        LET res == results[i]
        IN  res.verdict \in Decisions /\ res.verdict # truth[i] =>
                /\ "l2s" \in res.decided_by
                /\ res.decided_by \cap Members # {}
                /\ res.decided_by \cap Members \subseteq Unsound

(* `Unknown` = every rung abstained: each rung the policy asks came to its *)
(* own end without an answer, never because the race had been called off,  *)
(* and each that did not panic is in the notes.                            *)
UnknownForCause ==
    pc = "push" /\ verdict = "unknown" =>
        \A r \in Asked :
            \/ answer[r] = "abstained" /\ r \in notes
            \/ answer[r] = "panicked"

(* mununu#689, "returned means nothing left running": between two sets and *)
(* after the call no rung runs and LIVE_RUNGS is zero.                     *)
NothingLeftRunning ==
    /\ TypeOK
    /\ pc \in {"set", "push", "returned", "unwound"} =>
        live = 0 /\ \A r \in Rungs : rung[r] \in {"idle", "ended"}

(* The race ends with its first decision: the loser is cancelled, whatever *)
(* it would still have to do, and the set's result is pushed.              *)
DecidedReturns == \A i \in 1..NSets :
    (policy = "parallel" /\ set = i /\ pc = "cancel") ~> Len(results) >= i

(* A budget bounds the exact policy although no fixpoint ever converges.   *)
BudgetEnds == (policy = "exact" /\ budgeted) => <>(pc \in {"returned", "unwound"})

(* Everyone waits: the exact rung is over without a decision, the caller   *)
(* waits in recv for the l2s rung's sender (justice.rs:385), and that      *)
(* rung, whose portfolio panicked, waits for the flag the caller stores    *)
(* after its recv loop (justice.rs:400).                                   *)
WaitingOnHeldPanic ==
    /\ policy = "parallel" /\ pc = "race" /\ channel = <<>> /\ ~cancel
    /\ rung["exact"] = "ended" /\ answer["exact"] \in {"abstained", "panicked"}
    /\ rung["l2s"] = "held"

(* With the engines' own limits every policy ends, although a rung may die *)
(* without reporting: recv fails once both senders are gone.  The one      *)
(* exception is the race in which the l2s rung's panic is held by its      *)
(* portfolio and the exact rung decides nothing; such a race never ends,   *)
(* with or without a budget.                                               *)
Terminates == EngineLimits => <>(pc \in {"returned", "unwound"} \/ WaitingOnHeldPanic)
=============================================================================
