--------------------------- MODULE ReachPortfolio ---------------------------
(***************************************************************************)
(* The scoped reachability portfolio: one call of                          *)
(* decide_reach_portfolio_cancellable (adapter/reach_portfolio.rs).        *)
(*                                                                         *)
(* Six engines decide the same design at once.  "exact" runs on the        *)
(* calling thread and cannot be interrupted; "native" and "interp" run on  *)
(* threads of their own and poll the shared flag `decided`; each of        *)
(* Children (btormc, pono and rIC3 in the code) has a thread that drives a *)
(* solver process and polls `decided` too.  A definite answer sets         *)
(* `decided`, after which the members still running get a short grace.  A  *)
(* forwarder thread copies the caller's cancel flag, or the expiry of the  *)
(* run budget, into `decided`.  The call returns when the scope has joined *)
(* every thread.                                                           *)
(*                                                                         *)
(* Wall-clock time is abstracted to the order of events: a timeout, the    *)
(* end of a grace period and the expiry of the budget are actions that may *)
(* happen at any moment they are armed.                                    *)
(***************************************************************************)
EXTENDS ReachOutcome, Integers, FiniteSets

CONSTANTS Children,  \* the subprocess members
          Bads,      \* the `bad` lines a design may have
          Unsound,   \* engines that may answer wrongly (none, or the alarm's target)
          MayPanic   \* whether the exact engine may panic on the calling thread

ASSUME PortfolioAssumption ==
    /\ Children \cap {"exact", "native", "interp"} = {}
    /\ IsFiniteSet(Bads)
    /\ MayPanic \in BOOLEAN

InProcess == {"native", "interp"}
Engines == {"exact"} \cup InProcess \cup Children

VARIABLES
    bads,       \* the bad lines of the design; never changes
    reach,      \* the reachable ones among them; never changes
    cancelArg,  \* did the caller pass a cancel flag?
    bounded,    \* does the thread's run budget have a deadline?
    cancel,     \* the caller's cancel flag
    expired,    \* has the run budget expired?
    main,       \* the calling thread
    th,         \* per engine: where its thread (for exact: its part of main) is
    vote,       \* per engine: what its closure evaluates to
    child,      \* per child member: its process
    says,       \* per child member: what an exited process printed
    seen,       \* per child member: cancel_seen.is_some()
    decided,    \* the shared AtomicBool every cancellable member polls
    finished,   \* the AtomicBool that stops the forwarder
    forwarder,  \* the forwarder thread
    refused,    \* the members whose refusal was recorded
    outcome     \* what the call returned

design == <<bads, reach, cancelArg, bounded>>
vars == <<bads, reach, cancelArg, bounded, cancel, expired, main, th, vote,
          child, says, seen, decided, finished, forwarder, refused, outcome>>

Truth == TruthOf(reach)

(* Mutant: the forwarder polls the caller's flag only.                     *)
StopRequested_flag == cancelArg /\ cancel

StopRequested == (cancelArg /\ cancel) \/ expired

-----------------------------------------------------------------------------
(* The state before the call: every kind of caller and every design.       *)
Init ==
    /\ bads \in (SUBSET Bads) \ {{}}
    /\ reach \in SUBSET bads
    /\ cancelArg \in BOOLEAN
    /\ bounded \in BOOLEAN
    /\ cancel = FALSE
    /\ expired = FALSE
    /\ main = "entry"
    /\ th = [e \in Engines |-> "unborn"]
    /\ vote = [e \in Engines |-> "none"]
    /\ child = [c \in Children |-> "none"]
    /\ says = [c \in Children |-> "nothing"]
    /\ seen = [c \in Children |-> FALSE]
    /\ decided = FALSE
    /\ finished = FALSE
    /\ forwarder = "off"
    /\ refused = {}
    /\ outcome = Pending

(* The caller, and the clock, act at any time before the call returns.     *)
RequestCancel ==
    /\ main \notin {"returned", "unwound"}
    /\ cancelArg /\ ~cancel
    /\ cancel' = TRUE
    /\ UNCHANGED <<design, expired, main, th, vote, child, says, seen, decided,
                   finished, forwarder, refused, outcome>>

BudgetExpires ==
    /\ main \notin {"returned", "unwound"}
    /\ bounded /\ ~expired
    /\ expired' = TRUE
    /\ UNCHANGED <<design, cancel, main, th, vote, child, says, seen, decided,
                   finished, forwarder, refused, outcome>>

(* A budget that has already expired decides nothing and spawns nobody.    *)
EnterExpired ==
    /\ main = "entry" /\ expired
    /\ main' = "returned"
    /\ outcome' = from_sets({}, {})
    /\ UNCHANGED <<design, cancel, expired, th, vote, child, says, seen,
                   decided, finished, forwarder, refused>>

(* Mutant: no forwarder for a caller that only has a budget.               *)
NeedsForwarder_flag == cancelArg

(* A forwarder is spawned iff there is something to forward.               *)
NeedsForwarder == cancelArg \/ bounded

EnterScope ==
    /\ main = "entry" /\ ~expired
    /\ main' = "scope"
    /\ th' = [e \in Engines |-> "run"]
    /\ forwarder' = IF NeedsForwarder THEN "run" ELSE "off"
    /\ UNCHANGED <<design, cancel, expired, vote, child, says, seen, decided,
                   finished, refused, outcome>>

-----------------------------------------------------------------------------
(* The forwarder.  Its test of `finished` and its test of the stop reasons *)
(* are separate loads, so it may still store `decided` after the members   *)
(* were joined: ForwardStop therefore does not require ~finished.          *)
ForwardStop ==
    /\ forwarder = "run" /\ StopRequested
    /\ decided' = TRUE
    /\ forwarder' = "done"
    /\ UNCHANGED <<design, cancel, expired, main, th, vote, child, says, seen,
                   finished, refused, outcome>>

ForwardEnd ==
    /\ forwarder = "run" /\ finished
    /\ forwarder' = "done"
    /\ UNCHANGED <<design, cancel, expired, main, th, vote, child, says, seen,
                   decided, finished, refused, outcome>>

-----------------------------------------------------------------------------
(* An engine's call comes back with v; its closure has not reported yet.   *)
Settle(e, v) ==
    /\ th' = [th EXCEPT ![e] = "settled"]
    /\ vote' = [vote EXCEPT ![e] = v]

DefiniteOf(e) == IF e \in Unsound THEN Definite ELSE {Truth}

(* run_exact: a Boolean or a refusal, never a plain abstention.            *)
ExactReturns ==
    /\ th["exact"] = "run"
    /\ \E v \in DefiniteOf("exact") \cup {"refused"} : Settle("exact", v)
    /\ UNCHANGED <<design, cancel, expired, main, child, says, seen, decided,
                   finished, forwarder, refused, outcome>>

(* A panic of the exact engine unwinds the closure of thread::scope.       *)
ExactPanics ==
    /\ MayPanic
    /\ th["exact"] = "run"
    /\ th' = [th EXCEPT !["exact"] = "done"]
    /\ main' = "unwinding"
    /\ UNCHANGED <<design, cancel, expired, vote, child, says, seen, decided,
                   finished, forwarder, refused, outcome>>

(* run_native and run_interp.  Interpolation abstains where native refuses.*)
InProcessAnswers(m) ==
    /\ th[m] = "run"
    /\ \E v \in DefiniteOf(m) \cup (IF m = "native" THEN {"refused"} ELSE {}) :
           Settle(m, v)
    /\ UNCHANGED <<design, cancel, expired, main, child, says, seen, decided,
                   finished, forwarder, refused, outcome>>

(* Its own timeout, its depth cap, or a panic that join() turns into None. *)
InProcessGivesUp(m) ==
    /\ th[m] = "run"
    /\ Settle(m, "none")
    /\ UNCHANGED <<design, cancel, expired, main, child, says, seen, decided,
                   finished, forwarder, refused, outcome>>

(* It polls `decided` and abandons its search.                             *)
InProcessBails(m) ==
    /\ th[m] = "run" /\ decided
    /\ Settle(m, "none")
    /\ UNCHANGED <<design, cancel, expired, main, child, says, seen, decided,
                   finished, forwarder, refused, outcome>>

-----------------------------------------------------------------------------
(* A child member.  The binary is absent or cannot be spawned: a refusal.  *)
ChildUnavailable(c) ==
    /\ th[c] = "run" /\ child[c] = "none"
    /\ Settle(c, "refused")
    /\ UNCHANGED <<design, cancel, expired, main, child, says, seen, decided,
                   finished, forwarder, refused, outcome>>

ChildSpawns(c) ==
    /\ th[c] = "run" /\ child[c] = "none"
    /\ child' = [child EXCEPT ![c] = "live"]
    /\ UNCHANGED <<design, cancel, expired, main, th, vote, says, seen, decided,
                   finished, forwarder, refused, outcome>>

(* What a solver process can print about a design with several bad lines:  *)
(* "sat" when one is reachable, "unsat" as soon as ONE is proved           *)
(* unreachable, or nothing.  "!" marks an exit status that is not a clean  *)
(* one; after "sat" the status is not looked at.                           *)
Prints(c) ==
    {"nothing", "nothing!"}
      \cup (IF reach # {} \/ c \in Unsound THEN {"sat"} ELSE {})
      \cup (IF reach # bads \/ c \in Unsound THEN {"unsat", "unsat!"} ELSE {})

ChildExits(c) ==
    /\ child[c] = "live"
    /\ child' = [child EXCEPT ![c] = "exited"]
    /\ \E p \in Prints(c) : says' = [says EXCEPT ![c] = p]
    /\ UNCHANGED <<design, cancel, expired, main, th, vote, seen, decided,
                   finished, forwarder, refused, outcome>>

(* Mutant: one proved bad line is taken for all of them.                   *)
ReadOutput_partial(p) ==
    CASE p = "sat" -> "reachable"
      [] p \in {"unsat", "unsat!"} -> "unreachable"
      [] p = "nothing!" -> "refused"
      [] p = "nothing" -> "none"

(* The wrappers' reading of that output: a partial proof is no verdict,    *)
(* and no verdict with a failing exit status is a refusal.                 *)
PartialProof(p) == p \in {"unsat", "unsat!"} /\ Cardinality(bads) > 1

ReadOutput(p) ==
    CASE p = "sat" -> "reachable"
      [] p \in {"unsat", "unsat!"} /\ ~PartialProof(p) -> "unreachable"
      [] p = "nothing!" \/ (p = "unsat!" /\ PartialProof(p)) -> "refused"
      [] p = "nothing" \/ (p = "unsat" /\ PartialProof(p)) -> "none"

(* try_wait reports the exit: the process is reaped and its output parsed. *)
PollExited(c) ==
    /\ th[c] = "run" /\ child[c] = "exited"
    /\ child' = [child EXCEPT ![c] = "reaped"]
    /\ Settle(c, ReadOutput(says[c]))
    /\ says' = [says EXCEPT ![c] = "nothing"]
    /\ UNCHANGED <<design, cancel, expired, main, seen, decided, finished,
                   forwarder, refused, outcome>>

(* The poll loop first sees the flag and starts the grace period.          *)
PollSeesCancel(c) ==
    /\ th[c] = "run" /\ child[c] = "live"
    /\ decided /\ ~seen[c]
    /\ seen' = [seen EXCEPT ![c] = TRUE]
    /\ UNCHANGED <<design, cancel, expired, main, th, vote, child, says,
                   decided, finished, forwarder, refused, outcome>>

(* Mutant: the kill without the reap leaves a zombie.                      *)
Kill_unreaped(c) ==
    /\ child' = [child EXCEPT ![c] = "exited"]
    /\ Settle(c, "none")

(* kill_and_reap, then an abstention: whatever was printed is not read.    *)
Kill(c) ==
    /\ child' = [child EXCEPT ![c] = "reaped"]
    /\ Settle(c, "none")

(* MEMBER_CANCEL_GRACE has elapsed since the flag was first seen.          *)
KillCancelled(c) ==
    /\ th[c] = "run" /\ child[c] = "live"
    /\ decided /\ seen[c]
    /\ Kill(c)
    /\ UNCHANGED <<design, cancel, expired, main, says, seen, decided, finished,
                   forwarder, refused, outcome>>

KillTimedOut(c) ==
    /\ th[c] = "run" /\ child[c] = "live"
    /\ Kill(c)
    /\ UNCHANGED <<design, cancel, expired, main, says, seen, decided, finished,
                   forwarder, refused, outcome>>

-----------------------------------------------------------------------------
(* Mutant: any answer, an abstention too, stops the others.                *)
SetsDecided_any(e) == e # "interp"

(* Which closures store `decided`, on a definite answer: every member's    *)
(* but interpolation's, whose closure is the bare run_interp call.         *)
SetsDecided(e) == vote[e] \in Definite /\ e # "interp"

(* Mutant: an abstention is listed as a refusal.                           *)
note_refusal_none(e) ==
    IF vote[e] \in {"refused", "none"} THEN refused \cup {e} ELSE refused

(* settle: an Err is recorded, an Ok is not.                               *)
note_refusal(e) == IF vote[e] = "refused" THEN refused \cup {e} ELSE refused

(* settle, the store to `decided`, and the end of the closure (for exact:  *)
(* of this part of main).                                                  *)
Report(e) ==
    /\ th[e] = "settled"
    /\ th' = [th EXCEPT ![e] = "done"]
    /\ refused' = note_refusal(e)
    /\ decided' = (decided \/ SetsDecided(e))
    /\ UNCHANGED <<design, cancel, expired, main, vote, child, says, seen,
                   finished, forwarder, outcome>>

(* Mutant: the store that stops the forwarder is forgotten.                *)
JoinMembers_silent ==
    /\ main = "scope"
    /\ \A e \in Engines : th[e] = "done"
    /\ main' = "joined"
    /\ UNCHANGED <<design, cancel, expired, th, vote, child, says, seen,
                   decided, finished, forwarder, refused, outcome>>

(* exact has reported and every join has returned.                         *)
JoinMembers ==
    /\ main = "scope"
    /\ \A e \in Engines : th[e] = "done"
    /\ main' = "joined"
    /\ finished' = TRUE
    /\ UNCHANGED <<design, cancel, expired, th, vote, child, says, seen,
                   decided, forwarder, refused, outcome>>

(* Mutant: the two lists change places.                                    *)
collect_swapped == from_sets({e \in Engines : vote[e] = "unreachable"},
                             {e \in Engines : vote[e] = "reachable"})

(* collect: the joined votes, merged.                                      *)
collect == from_sets({e \in Engines : vote[e] = "reachable"},
                     {e \in Engines : vote[e] = "unreachable"})

(* thread::scope ends when the forwarder has ended too; then the merge.    *)
LeaveScope ==
    /\ main = "joined" /\ forwarder # "run"
    /\ main' = "returned"
    /\ outcome' = collect
    /\ UNCHANGED <<design, cancel, expired, th, vote, child, says, seen,
                   decided, finished, forwarder, refused>>

(* Mutant: detached threads instead of scoped ones.                        *)
LeaveUnwinding_detached ==
    /\ main = "unwinding"
    /\ main' = "unwound"
    /\ UNCHANGED <<design, cancel, expired, th, vote, child, says, seen,
                   decided, finished, forwarder, refused, outcome>>

(* Unwinding, thread::scope still waits for every thread it spawned; the   *)
(* store to `finished` was skipped.                                        *)
LeaveUnwinding ==
    /\ main = "unwinding" /\ forwarder # "run"
    /\ \A e \in Engines : th[e] = "done"
    /\ main' = "unwound"
    /\ UNCHANGED <<design, cancel, expired, th, vote, child, says, seen,
                   decided, finished, forwarder, refused, outcome>>

(* The call is over; it stays over.                                        *)
Over == main \in {"returned", "unwound"} /\ UNCHANGED vars

InProcessStep(m) == InProcessAnswers(m) \/ InProcessGivesUp(m) \/ InProcessBails(m)

ChildStep(c) ==
    \/ ChildUnavailable(c) \/ ChildSpawns(c) \/ ChildExits(c) \/ PollExited(c)
    \/ PollSeesCancel(c) \/ KillCancelled(c) \/ KillTimedOut(c)

MainStep == EnterExpired \/ EnterScope \/ JoinMembers \/ LeaveScope \/ LeaveUnwinding

Next ==
    \/ RequestCancel \/ BudgetExpires
    \/ MainStep \/ ForwardStop \/ ForwardEnd
    \/ ExactReturns \/ ExactPanics
    \/ \E m \in InProcess : InProcessStep(m)
    \/ \E c \in Children : ChildStep(c)
    \/ \E e \in Engines : Report(e)
    \/ Over

Spec == Init /\ [][Next]_vars

-----------------------------------------------------------------------------
(* Fairness.  Scheduling: every thread of the scope keeps being run by the *)
(* operating system, its poll loops wake up, a grace period ends, a spawn  *)
(* attempt returns, and the exact engine ends on its own (node and         *)
(* iteration budgets).  It does not say that a solver ever answers or that *)
(* a member's own timeout fires.                                           *)
Scheduling ==
    /\ WF_vars(MainStep)
    /\ WF_vars(ForwardStop \/ ForwardEnd)
    /\ WF_vars(ExactReturns \/ ExactPanics)
    /\ \A m \in InProcess : WF_vars(InProcessBails(m))
    /\ \A c \in Children :
        /\ WF_vars(ChildUnavailable(c) \/ ChildSpawns(c))
        /\ WF_vars(PollExited(c))
        /\ WF_vars(PollSeesCancel(c))
        /\ WF_vars(KillCancelled(c))
    /\ \A e \in Engines : WF_vars(Report(e))

(* The members' own bounds: every member_timeouts value is finite.         *)
MemberTimeouts ==
    /\ \A m \in InProcess : WF_vars(InProcessGivesUp(m))
    /\ \A c \in Children : WF_vars(KillTimedOut(c))

(* The clock: a budget's deadline comes.                                   *)
ClockTicks == WF_vars(BudgetExpires)

FairSpec == Spec /\ Scheduling

-----------------------------------------------------------------------------
(* Type correctness of the flags, threads, processes and votes.            *)
TypeOK ==
    /\ bads \in SUBSET Bads /\ reach \in SUBSET Bads
    /\ cancelArg \in BOOLEAN /\ bounded \in BOOLEAN
    /\ cancel \in BOOLEAN /\ expired \in BOOLEAN
    /\ main \in {"entry", "scope", "joined", "returned", "unwinding", "unwound"}
    /\ th \in [Engines -> {"unborn", "run", "settled", "done"}]
    /\ vote \in [Engines -> Votes]
    /\ child \in [Children -> {"none", "live", "exited", "reaped"}]
    /\ says \in [Children -> {"sat", "unsat", "unsat!", "nothing", "nothing!"}]
    /\ seen \in [Children -> BOOLEAN]
    /\ decided \in BOOLEAN /\ finished \in BOOLEAN
    /\ forwarder \in {"off", "run", "done"}
    /\ refused \in SUBSET Engines
    /\ outcome \in {Pending} \cup
         [verdict : Verdicts, reachable_by : SUBSET Engines,
          unreachable_by : SUBSET Engines]

Voters == {e \in Engines : vote[e] \in Definite}

(* A definite verdict of decide_reach_portfolio_cancellable is the truth   *)
(* about the design unless every engine that answered is unsound, and the  *)
(* contradiction alarm rings only when an unsound engine did answer: no    *)
(* order of kills, partial proofs on several bad lines, cancellations or   *)
(* late answers turns sound members into a wrong or contradictory outcome. *)
SoundVerdict ==
    main = "returned" =>
      /\ outcome.verdict \in Definite \ {Truth}
           => Voters # {} /\ Voters \subseteq Unsound
      /\ outcome.verdict = "contradiction" => Voters \cap Unsound # {}

(* The portfolio never cancels itself into an `unknown`: if a child's      *)
(* thread saw `decided` and the merged verdict is still unknown, the       *)
(* caller's flag or the budget asked for the stop.                         *)
UnknownForCause ==
    main = "returned" /\ outcome.verdict = "unknown" /\ (\E c \in Children : seen[c])
      => StopRequested

(* "Must not return while it still runs" (mununu#689): after the call, by  *)
(* return or by unwinding, no member thread, no forwarder and no live or   *)
(* unreaped solver process is left behind.                                 *)
NothingLeftRunning ==
    main \in {"returned", "unwound"} =>
      /\ \A e \in Engines : th[e] \in {"unborn", "done"}
      /\ \A c \in Children : child[c] \notin {"live", "exited"}
      /\ forwarder # "run"

(* Every refusal is reported and only refusals are (mununu#734): a         *)
(* cancelled, timed-out or undecided member is not among them.             *)
RefusalsReported ==
    main = "returned" => refused = {e \in Engines : vote[e] = "refused"}

(* The call implements ReachPromise: one return, built from the votes of   *)
(* engines that each voted once, truthfully if sound.                      *)
Promise == INSTANCE ReachPromise WITH truth <- Truth
ImplementsPromise == Promise!PromiseSpec

Unwinds == main \in {"unwinding", "unwound"}

(* Once `decided` is set, the caller cancels, or the budget runs out, the  *)
(* call returns without waiting for any solver to answer or for any        *)
(* member's own timeout: the wall is the grace, and the exact engine,      *)
(* which may panic instead of ending.                                      *)
PromptStop == (decided \/ StopRequested) ~> (main = "returned" \/ Unwinds)

(* The call returns, or its exact engine panics, when the members' own     *)
(* bounds hold: nobody need decide and nobody need cancel.                 *)
Terminates == MemberTimeouts => <>(main = "returned" \/ Unwinds)

(* A stop request also ends a call whose exact engine panicked on the      *)
(* calling thread, which skips the store that stops the forwarder; without *)
(* a request, only a budget's deadline is left to do so.                   *)
PanicEnds ==
    /\ StopRequested /\ main = "unwinding" ~> main = "unwound"
    /\ ClockTicks => (bounded /\ main = "unwinding" ~> main = "unwound")
=============================================================================
