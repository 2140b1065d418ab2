# Formal models of mununu's verification engines

mununu is a verification and synthesis tool for reactive systems. Its answers come from engines
that race: several algorithms, some in threads and some in solver processes, decide the same
question, and the first definite answer cancels the others. Around them a driver spreads budgets over
the properties of a design, merges the engines' reports and repairs them in several passes, and
caches shared by threads and processes save the expensive steps. This directory holds TLA+ models of
that machinery and of the three-valued evaluator behind one of the engines, the TLC configurations
that check them and TLAPS proofs about them. Paths below are relative to
`src/crates/mununu-core/src/`.

## 1. The system

| Component | State it keeps | Operations | Interacts with |
|---|---|---|---|
| Reach portfolio, scoped driver (`adapter/reach_portfolio.rs`) | flags `decided`, `finished`; refusal list; six member results | enter, forward cancel/budget, member settles, report, join, merge | engines, solver wrappers, run budget |
| Reach portfolio, owned-only driver (same file) | `decided`, channel, refusal list, report count, deadline, grace | spawn detached members, store, send, receive, return | native, interpolation, deep-cex and exact engines |
| Native BMC / k-induction (`adapter/btor2/native_bmc.rs`) | depth, two solver stacks, `QueryGate` | check, interrupt, extend, finish | z3, watchdog thread, `decided` |
| Solver processes (`adapter/mod.rs`) | child process group, slot table `LIVE`, poll loop | spawn, register, poll, kill and reap, join readers, forget, signal handler | kernel, btormc / pono / rIC3 |
| Run budget (`adapter/run_budget.rs`) | thread-local budget, deadline, cancel flag | enter, child, expired, clamp | every engine |
| Justice engine (`adapter/justice.rs`) | two rungs, channel, cancel flag | race or sequence the rungs, join | scoped portfolio, exact ladder |
| Interpolation engine (`adapter/btor2/native_interp.rs`) | over-approximated reach set, suffix schedule | strengthen, widen suffix | cvc5, z3 |
| KMTS lifting (`adapter/btor2/kmts_lift.rs`) | worker pool, visited set | dispatch cubes, collect images | z3 workers |
| API cache (`api/cache.rs`) | map of realized contexts | lookup, realize, insert, evict | request handlers |
| Lift cache (`adapter/yosys/lift_cache.rs`) | a directory of entries shared by processes | key, look up, store, replace | yosys, slang, other processes |
| CLTS, composition (`clts/`, `composition/`) | transition systems | synchronous, asynchronous, superset product, hide, minimize | evaluator |
| Mu-calculus evaluator (`mu_calculus/evaluator.rs`, `trit.rs`) | fixpoint environments, must and may bits | modal images, fixpoints | lifting, refinement loop |
| Three-valued parity game (`mu_calculus/parity_game_3v*.rs`) | game, winners, failure subgame | build, solve twice, extract | evaluator, refinement loop |
| Parity games, GR(1) synthesis (`mu_calculus/parity_game.rs`, `gr1*.rs`) | games, strategies | attract, solve, extract | composition |
| Verify driver and planner (`adapter/slang/verify_auto.rs`, `planner/`, `adapter/partial_json.rs`) | report, skip rows, budgets per thread, breadcrumb file | property loop, re-plan, post-passes, portfolio, merge | everything above |
| Rescue ladders, codesign orchestrator (`adapter/*_rescue.rs`, `adapter/recoverability.rs`, `verify/`) | none beyond a call | build monitors, try engines in order | portfolios, driver |
| Front ends (DSL, LTL, TLSF, SystemVerilog, ... parsers; API; MCP; CLI) | none beyond a request | parse, render | everything above |

What is hard here: members answer, time out, are cancelled and are killed in any order, on three
kinds of carrier (the calling thread, threads, processes); an interrupted solver answers nonsense;
a solver may prove only one of several properties; detached threads outlive the call that started
them; process groups, pids and a signal handler meet in a lock-free table; budgets nest per thread
while the report they bound is produced by several; a report is rewritten by six passes; a cache
entry is replaced while another process reads it; an abstraction has three kinds of transition, each
with its own reading in each of two passes. A unit test runs one of those orders. What makes each component correct:

* portfolio: the merged verdict is true, a disagreement is an alarm and never a guess, an unknown
  has a cause outside the portfolio, nothing outlives the scoped call, a stop request is honoured
  promptly, refusals are reported exactly;
* native engine: no verdict from an interrupted check, the shallowest counterexample, a cancelled
  query ends;
* processes: a kill takes the whole group and nothing else, the table neither leaks nor loses a
  group, every member thread returns;
* verify driver: a verdict that ships is some engine's and true if the engine is, no decided row is
  lost, budgets stop what they should and nothing else, what was decided survives a kill;
* caches: an answer belongs to the request's own inputs, whatever was evicted, replaced, half removed
  or half written meanwhile, and nobody waits for another's work;
* evaluator: a definite verdict on an abstraction holds in every system it stands for, and an Unknown
  one tells the refinement loop where to look.

## 2. Modules

| Module | Models | Notes |
|---|---|---|
| `ReachOutcome` | `ReachVerdict`, `ReachOutcome::from_sets` | shared by the three below |
| `ReachPromise` | what any portfolio promises its caller | abstract specification |
| `ReachPortfolio` | `decide_reach_portfolio_cancellable` and the solver wrappers | refines `ReachPromise` |
| `OwnedPortfolio` | `decide_reach_owned_only` | refines `ReachPromise` |
| `NativeLadder` | `decide_bad_safety_cancellable`, `QueryGate`, the ladder | the `native` member, opened up |
| `MemberProcess` | `run_with_timeout_cancellable`, `MemberGroup`, `member_group` | a `Children` member, opened up |
| `JusticeRungs` | `verify_justice_with`, `exact_ladder`, the l2s rung | a caller of the portfolio, built on `ReachPromise` |
| `RunBudget` | the arithmetic of `run_budget.rs` | operators |
| `VerifyRun` | `verify_auto_impl`, the planner's `execute`, `merge_portfolio_reports`, the breadcrumb | on top of `RunBudget` |
| `LiftCache` | `LiftCache::lookup`, `store` and their caller | processes and a file system |
| `ContextCache` | `get_or_realize` | threads and a mutex |
| `Kmts` | `evaluate_tri` and its reference semantics | operators |
| `Game3v` | `evaluate_3v_game` | on top of `Kmts` |
| `MC...` | instances for TLC | families of designs, systems and formulas |
| `...Proofs` | theorems about the module each is named after, `VerifyRunProofs` about `RunBudget` too, `Game3vProofs` about `Kmts`, `CacheProofs` about both caches | section 5 |

### ReachPortfolio
One behaviour is one call. `main` is the calling thread (`entry`, `scope`, `joined`, `returned`, or
`unwinding`/`unwound` after a panic). `th[e]` is the thread of engine `e`, for `exact` the part of
the calling thread that runs it; `settled` is the moment between the engine's return and the end of
its closure, in which `settle` records a refusal and the closure stores `decided` (`Report`).
`child[c]` is the process of a subprocess member (`live`, `exited` but not reaped, `reaped`), and
`says[c]` what an exited process printed with its exit status. `PollExited`, `PollSeesCancel`,
`KillCancelled` and `KillTimedOut` are the branches of the poll loop of
`run_with_timeout_cancellable`; `ReadOutput` is the three wrappers' parsing: `unsat` of a design
with several `bad` lines is a partial proof and no verdict, and no verdict with a bad exit status is
a refusal. What a solver may print is external (`Prints`): it may stop after one `bad` line.
`ForwardStop`/`ForwardEnd` are the forwarder thread; it tests `finished` and the stop reasons in two
loads, so it may store `decided` after the members were joined. `Unsound` is the set of engines
whose answers are not assumed right: with `Unsound = {}` the model says what the protocol adds, with
a non-empty set what the contradiction alarm catches.

### OwnedPortfolio
Members run on detached threads: `run`, `settled` (the engine returned, a refusal is recorded),
`stored` (`decided` set), `ended` (report sent, or panicked). `channel` is the mpsc queue. The two
loops of the collector are `WaitReceives`/`WaitEnds` and `GraceReceives`/`GraceEnds`; `late` and
`graceOver` are its two clocks. The default build is modelled; with the `boolector` feature another
engine takes the place of `cex` under the same protocol.

### NativeLadder
A frame is an element of `States`; a design is `[init, trans, bad, ok]`, `ok` being the BTOR2
constraints. `baseFront` and `stepFront` stand for the two z3 assertion stacks: the frames their
paths can end in, so the query is satisfiable iff that set meets `bad`; the properties speak of the paths
themselves (`IsPath`, `EndsIn`), so that the fronts are not measured by themselves. `GateEnter`, `Z3Returns` and
`GateLeave` are `QueryGate::check` cut at its two critical sections; `WatchFires` is
`interrupt_if_in_query`. After an interrupt z3 may answer anything (`Z3Answers`), which is what
mununu#878 observed. A design without `bad` lines, or one the encoder rejects, is refused before the
first state of the model; that refusal is an action of `ReachPortfolio`.

### MemberProcess
`proc[p]` says who has pid `p` (`live` and `zombie`: one of mununu's children; `stranger`: some other
process that leads a group of that id). A child may fork a `worker` into its group, which keeps the
pipes open. `remember` tries the slots one compare_exchange at a time, so members race for a slot;
the handler walks the table one slot per step while members go on. `Waiters` are the members whose
launcher outlives its worker.

### JusticeRungs
One behaviour is one call of `verify_justice_with` on a design with `NSets` justice lines. `rung[r]`
is a rung, on its own scoped thread under the parallel policy and on the calling thread otherwise;
`Prepare` and `StageEnds` are `exact_ladder` (three attempts under one budget, the second and third
only while it lasts), `PortfolioReturns` is the `Return` of `ReachPromise` with `truth` read as "the
monitor's `bad` is reachable". The calling thread's `pc` is `race`, `cancel`, `join` under the
parallel policy and `exact`, `l2s`, `remainder` under the sequential one; `push` is the end of a set.
`notes` holds the rungs whose abstention is noted, `live` is `LIVE_RUNGS`. The budget and the 30 s
slice are events. The exact rung is taken to be sound; a panic inside the ladder is caught there, so
only the l2s rung panics in the checked instance. Where its panic leads depends on where it starts
(`PanicLeads`): in the rung's own code it ends the thread; inside the portfolio's exact engine, which runs
on the rung's thread, it skips `finished`, and the rung is `held` with its sender in the portfolio's scope
while the forwarder polls (`ForwarderPolls`) for the race's `cancel`.

### VerifyRun
One behaviour is one `sv verify-auto` run of `N` rows. Actor 0 is the planner, actor `m` the m-th
engine of the ladder; in the sequential portfolio and with a single engine they share thread 0, whose
`current` budget each `enter` replaces and each guard's drop restores. `row`, `engine` are the property
loop (`AbstainRow`, `BeginRow`, `EndRow`), `replan`, `rescue` are `escalate_bottom` on the single
engine's or the merged report, `skips`, `skip` are `rescue_skipped_via_exact`, `post` the passes on
verdicts; `Merge` is `merge_portfolio_reports` with the sequential early exit. An engine is an oracle
(`Says`): it answers what is so on the lifted model (`lifted`), abstains, or answers anything if it is in
`unsound`. `truth` is what is so on the design; the two may differ, in either direction, on a row whose
`cone` has free parts: an undriven net, a register without an established start value, a deliberate cut.
`withhold` is `downgrade_violated_on_unestablished_init` followed by `withhold_violated_over_free_leaves`,
which go by the row's property class and take back violations only. A reason (`why`) is kept beside the outcome
because passes test it. `crumbs` is what a reader of the breadcrumb finds after a kill; a SIGKILL runs
no code, so surviving one is an invariant. The memory guard may stop a row at any time. `only_rows`,
the fault posture, vacuity marks, witnesses and notes change no outcome of the rows modelled here.

### LiftCache
Processes lift one source each. `dir[p]` is the directory `p` stages, which `Rename` makes the entry
of an index; a directory keeps its identity, because `remove_dir_all` unlinks in the directory it
opened while `rename` and the two reads of `lookup` resolve the path anew. Every file-system operation
is a step that may fail (`StoreFails`) or never happen (`Killed`). `index` is the 64-bit hash.
`EditHeader` changes the include files, which the key and the tools read separately.

### ContextCache
Threads run `get_or_realize`: `lock lookup`, `lookup`, `realize` (without the mutex), `lock insert`,
`insert`. The names of the specification (`CacheSpec`, `CacheNext`, `at`, ...) are apart from `LiftCache`'s
because one module proves about both. Eviction takes an arbitrary entry, as the iteration order of the map does. `Rejected` inputs
fail to realize, `Endless` ones never finish.

### Kmts and Game3v
`Kmts` is `evaluate_tri` on a modal transition system whose transitions are sharp, may-only or
hyper-must with several targets: the two filtered passes of the plain modalities, `modal_trit_core` of
the controllability modalities, Kleene's connectives on must and may bits, fixpoints by iteration. The
two recursions of the code are recursive functions, over the nodes of a formula (whose operands come
before them in the arena, `IsArena`) and over the values an iteration passes through, so that they can
be reasoned about; nothing bounds the iteration, as nothing does in the code. `IsFormula` is what the
theory asks of a formula, that a variable occurs under an even number of negations of its fixpoint;
`IsSystem` what the lift asserts of its result, that every target of a hyper-must is also a may-successor. The
reference is the two-valued semantics (fixpoints as meets of pre-fixpoints) on every concretisation:
every choice of may-only transitions, of at least one target of each hyper-must, and of the unknown
labels. `Game3v` runs the evaluator and, when a state is Unknown, builds the parity game of the
formula, solves it with and without the may-only moves by Zielonka's recursion with leaf propagation,
and extracts the failure subgame.

### How they fit
`ReachPortfolio`'s subprocess member is `MemberProcess` seen from the portfolio (spawn, poll, kill,
reap), its `native` member is `NativeLadder` (true verdict, or abstention, and a prompt end after
`decided`): `VerdictTrue` and `CancelHonoured` are what `ReachPortfolio` assumes of a sound
in-process engine in `DefiniteOf` and `InProcessBails`; `KilledGroupsDie` and `MemberReturns` are what
it assumes of `Kill` and `PollExited`. Both drivers implement `ReachPromise`, which is what a caller
(the justice engine, the rescue ladders) may rely on: `JusticeRungs` relies on nothing else, and its
fairness for a cancelled portfolio is `ReachPortfolio`'s `PromptStop`, its `EngineLimits` that module's
`Terminates`. The portfolios and the exact ladder are the `exact` and `rescue` oracles of `VerifyRun`;
`Game3v`'s evaluator is its `symbolic` one: `SoundVerdict`, `SoundJustice` and `VerdictsTransfer` are what
`Says` assumes of a sound engine. `RunBudget`'s `child` and `expired` are the budgets of `VerifyRun`, whose
expiry is the event `BudgetExpires` of the portfolios.

## 3. Runs

| Run | Instance | Checks |
|---|---|---|
| `portfolio` | 1 child, 2 bad lines of which none, one or all are reachable, unsound native, exact may panic | `SoundVerdict`, `UnknownForCause`, `NothingLeftRunning`, `RefusalsReported`, `ImplementsPromise`; liveness `PromptStop`, `Terminates`, `PanicEnds` |
| `native` | all transition systems of 3 frames into frames 2 and 3, depth cap 2 | `VerdictTrue`, `DepthsExhausted`, `InterruptOnlyInCheck`; liveness `CancelHonoured` |
| `owned` | the four members, unsound interpolation, two may panic | `ImplementsPromise`, `NothingMissed`; liveness `NeverBlocked`, `DecidedReturns` |
| `member` | 2 members, 2 pids, a table of 1 slot, a signal | `TableExact`, `KilledGroupsDie`, `KillHitsOwnGroup`; liveness `MemberReturns` |
| `member_launcher` | 1 member whose launcher exits first | violation of `EveryMemberReturns` |
| `justice` | 2 justice sets, every policy, with or without a budget, an unsound portfolio member, an l2s rung that may panic, outside or inside its portfolio | `SoundJustice`, `UnknownForCause`, `NothingLeftRunning`; liveness `DecidedReturns`, `BudgetEnds`, `Terminates` |
| `verify` | 2 rows; exact, symbolic, and both in either order, sequential and parallel; run budget 2, row budget 1; rows of four classes with spurious and real violations over each kind of free part, a complementary pair (firm, and over one undriven net, where AG p is spuriously violated and EF !p spuriously holds), one unsound engine at a time | `SoundReport`, `DecidedRowsShip`, `BreadcrumbTrue`, `PairOnlyStale`, `BudgetExact` |
| `verify_budget` | the same | violation of `RunBudgetBoundsRun` |
| `lift_cache` | 3 processes on 2 sources, every index colliding, 1 edit | `WrongHitHasCause`, `TornOnlyByRemoval`; liveness `Terminates` |
| `context_cache` | 2 threads, 3 requests each, 6 inputs on 4 keys, room for 2 entries | `AnswerIsOwn`, `Bounded`; liveness `Answered` |
| `kmts` | 2 states, every mix of transitions, 21 formulas, negations of modalities among them | `VerdictsTransfer`, `GameAgrees`, `CulpritsListed` |
| `kmts_preservation` | the same systems, boxes and diamonds | violation of `Preservation` |

The type invariants are conjuncts of one property of their run (`NothingMissed`, `TableExact`,
`NothingLeftRunning`, `SoundReport`, `TornOnlyByRemoval`, `Bounded`) or proved (section 5).

**Bounds.** A child and three in-process engines are enough for one to be killed while another answers
late, two `bad` lines for a partial proof. Three frames separate
"reachable in two steps", "inductive only from depth 1" and "not k-inductive". One slot for two
members makes the table full, two pids make reuse by a stranger possible. Two justice sets let what
one set leaves behind reach the next. Two rows are a pair to contradict each other and a row that is
decided while the other is not; a clock of two ticks lets a row budget run out with and without the run
budget. The third process of `lift_cache` reads while two replace each other. Two entries and three
live keys make eviction happen with a colliding pair in the cache. Two states and two-target
hyper-musts are the smallest systems in which principal, any and every target differ. The proofs lift
these bounds for the safety properties of every module but the two about the parity game.

**Fairness.** `Scheduling` (ReachPortfolio): threads of the scope keep being run, poll loops wake up,
a grace of 250 ms ends, a spawn returns, and the exact engine ends (its node and iteration budgets).
It does not say that a solver answers, nor that a member's own timeout fires: those are
`MemberTimeouts` (every value of `member_timeouts` is finite) and `ClockTicks`, which appear as
hypotheses of the properties that need them. `CancelSpec` (NativeLadder): both threads run and z3
returns from a check it was told to abandon. `FairSpec` (OwnedPortfolio): threads run, engines need
not return; the deadline and the grace are hypotheses, one at a time. `FairSpec` (MemberProcess):
member threads run and their timeout fires; no process need ever exit. `FairSpec` (JusticeRungs):
threads run, clocks tick, preparing a session ends within its arena, an attempt past its deadline or
told to stop ends at its next poll (a step between polls is one BDD operation, bounded by the arena),
a cancelled portfolio returns, a panicked one included, which otherwise ends only then; that an attempt without a deadline or an undisturbed portfolio ends is
the hypothesis `EngineLimits`. `Spec` (LiftCache): a process that is not killed goes on, since its tools
run under a timeout. `CacheSpec` (ContextCache): a thread that can run goes on; std's mutex is not fair, but
holders release it after a few map operations and the requests are finitely many. `VerifyRun` and
`Game3v` state no liveness: the first is a bounded sequence of engine calls, each of which is another
module's termination, the second runs to its end by construction.

Every property has a mutant, an operator named `<definition>_<what is wrong>` just before the
definition it mutates; with it in place TLC finds the property violated.

## 4. Where code and comments disagree

* `member_launcher`: the timeout "caps the total run", but after the direct child has exited the
  reader joins are unbounded; a forked worker that keeps the pipes holds the member thread, and with
  it the scoped portfolio. With launchers that wait (`member`) the cap holds.
* `verify_budget`: the "whole-run wall-clock budget" is entered by `verify_auto_impl`, that is once per
  portfolio member; sequential members each get a whole one, and the re-plan of the merged report
  runs after the last guard is dropped, under none. Within one member the budget is exact
  (`BudgetExact`).
* `kmts_preservation`: definite verdicts are said to transfer for the entire mu-calculus; a box over a
  hyper-must with two targets is False when the principal target (or one of them) fails, although the
  design may take the other. `VerdictsTransfer` shows that this reading, and that of may-only controllable
  transitions below, are the only ones, and `PreservationOnPlain` that the claim holds away from them.

Seen while modelling and not given a run of their own:

* The comment on `decided` (`reach_portfolio.rs:423`) says any member's definite verdict sets it; the
  scoped driver's interpolation member (527) does not. `ReachPortfolio` models it so; verdicts are
  unaffected, the wall clock is not.
* The signal handler "kills every live member group" (`adapter/mod.rs:707`) but for a child between
  `spawn` and `register` and one registered in a slot the handler has passed.
* The lift cache's key "cannot drift" from what runs (`yosys/mod.rs:603`): it can in the include files,
  which the tools read later; and a collision between the two reads of a lookup is not detected.
  `WrongHitHasCause` names both and shows there is no third cause.
* The consistency pass skips a row that carries a `bottom_reason` as already withheld
  (`verify_auto.rs:1602`); a row decided by the re-plan keeps its reason, so a contradictory pair can ship.
  `PairOnlyStale` shows this is the only way.
* "A budget stop is `Unknown`, never `Skipped`" (`verify_auto.rs:4131`) holds of the cube engine; the exact
  branch maps every refusal of its ladder to `Skipped` (7100-7105).
* In the parallel portfolio the first member opens the breadcrumb truncating and without `O_APPEND`
  (`partial_json.rs:108`) beside appending handles.
* `modal_trit_core` lets a controllable transition that may be absent count as a choice
  (`evaluator.rs:966`), so `False` (controller) or `True` (environment) need not transfer where all of
  them may be absent.
* Variables are said to appear "only under an even number of negations" (`docs/design/kmts-theory.md:176`);
  nothing in the builder, the parser or the evaluator checks it, and the loop of `eval_fixpoint_generic`
  (`evaluator.rs:2884`) has no bound: on `mu X. !X` it would not end. `IterationsConverge` shows that under
  the restriction it always does.
* The parity game gives outer fixpoints the lower priority (`parity_game_3v_build.rs:299`) under a
  max-parity solver (`parity_game_3v_solve.rs`), so with alternation its winners differ from the
  evaluator's; negation does not swap the players; and `solve_3v`'s definite winners
  (`parity_game_3v_solve3v.rs:95`) need not transfer where diamonds and boxes mix, since dropping may-only
  moves weakens one player in one and the other in the other. The verdicts come from the evaluator;
  only the choice of transitions to refine is affected. `GameAgrees` is therefore stated for formulas
  with one kind of modality and of fixpoint.
* The failure subgame is said to be non-empty and to name the transitions behind an Unknown
  (`parity_game_3v.rs:15-20`, `parity_game_3v_subgame.rs:55-58`). Its list is empty where no may-only
  transition makes a difference alone, as with two that stand in for each other; it does name every one
  that does (`CulpritsListed`).
* "A panicking rung abstains" (`justice.rs:401-402`) is not so of a panic of the portfolio's exact engine on the
  l2s rung's thread. It skips `finished.store` (`reach_portfolio.rs:543`), the forwarder (446-454) keeps the
  scope, the thread and the sender until `cancel`, and the caller stores `cancel` (`justice.rs:400`) only after
  its recv loop (385). If the exact rung decides nothing, caller and rung wait for each other for ever; the
  set's budget, which is the exact rung's alone, does not end it. `Terminates` names this state
  (`WaitingOnHeldPanic`) and shows there is no other in which a call hangs.
* Over an undriven net "a HOLDS transfers, a refutation is only a may-trace" (`verify_auto.rs:1986-1988`): of
  universal rows. EF !p may hold on the free net alone, and ships as HOLDS although the violation of AG p
  over the same net is withheld. Which row counts as existential is read off its fixpoints
  (`property_class`), so a universal row with least fixpoints only (an AF) is `Reachability` and its
  violation is not withheld either; over unestablished registers neither is that of a `Liveness` row
  (1960). `SoundReport` lists these (`LetThrough`) and shows that no other verdict of the lifted model ships
  where the design says otherwise.
* In the justice engine `budget_ms` is documented as the budget of the whole set, but the l2s rung is
  given none and the sequential policy starts it after the budget is spent, which is why `BudgetEnds`
  speaks of the exact policy; and the module comment of `justice.rs` says the two rungs cross-check each
  other where both answer, while the race reads only the first definite report.

## 5. Proofs

Every safety property of the runs but the two about the parity game is a theorem: it holds for every value of
the constants that satisfies the named assumptions, which TLC evaluates on the instances. No property is
inductive alone; each module proves one inductive invariant `IndInv`, one lemma per conjunct (`...Step`)
with one step per action, and reads the properties off it. What the invariants add is the argument:

**ReachPortfolio** (`TypeCorrect`, `Soundness`, `NoSelfInflictedUnknown`, `CleanReturn`,
`RefusalAccounting`, `Refinement`; assumption `PortfolioAssumption`). A member that has not settled
has not voted, and owns no unreaped process once settled (`MembersInv`); a sound engine's vote is the
truth, and an honest process's output is right about some `bad` line (`HonestInv`); `decided` has a
cause (`CauseInv`); the refusal list is that of the closures that ended (`RefusedInv`); and what the
place of the calling thread says about everyone else (`MainInv`). `SingleBad` is the arithmetic behind
the multi-property rule: with one line, a proof of one is a proof of all.

**OwnedPortfolio** (`CollectorMissesNothing`, `OwnedRefinement`; `OwnedAssumption`). Threads outlive the
call, so what has to be kept is where a verdict is: a definite vote of an ended thread is in the
channel or among the counted reports while the collector waits (`ChanInv`), each report is sent once,
and there are never more reports than ended threads. That is why counting to four without a definite
report means that nobody decided (`MainInv`). `decided` has a definite vote behind it (`VoteInv`).

**NativeLadder** (`TypeCorrect`, `Soundness`, `DepthsSearched`, `InterruptConfined`;
`LadderAssumption`). A result that will be read is right or unknown unless an interrupt was recorded
(`GateInv`); the base front holds only reachable frames, and every reachable frame is in the frames
cleared so far or beyond the front (`FrontInv`); the base front is exactly what the paths of `k` steps
end in (`DepthInv`, with the lemma `PathGrows`); an unknown has a cause (`CauseInv`). `StepUnsat` is
the soundness of k-induction: a step front without bad frames makes the cleared frames closed.

**MemberProcess** (`TableIsExact`, `KillsOwnGroup`, `KilledGroupsGone`; `ProcessAssumption`,
`PidAssumption`). An unreaped child keeps its pid, so two members that hold one hold different ones
(`OwnInv`): that is what makes a kill hit the member's own group. While the handler walks, a group in a
slot it has passed is cleared, or its member is past the point where it could run (`WalkInv`), and no
step revives anyone (`ClearedStays`).

**JusticeRungs** (`VerdictsAreTrue`, `UnknownHasCause`, `ReturnedMeansIdle`; `JusticeAssumption`). While
the caller waits, every rung that came to its end panicked, is in the channel, or was heard, and
`pending` counts those not heard (`WaitInv`); the race is therefore called off undecided only when both
were heard (`UndecidedInv`). An answer of a cancelled rung has `cancel` behind it (`AnswerInv`), answers
are those of the current set (`TruthInv`), and `LIVE_RUNGS` counts the rungs between their guard's two ends
(`CountInv`). The portfolio enters through the disjuncts of `ReachPromise` alone.

**RunBudget and VerifyRun** (`VerifyRunProofs`; `BudgetConstants`, `RunConstants`, `DesignConstants`).
`ChildWithinParent`, `ClampInRange`, `ClampExact` and `QueryWithinBudget` are about the operators of
`RunBudget`, for every instant, budget and word size: a child budget never outlives its parent, a
clamped query timeout lies between 1 ms and both its default and the remainder although the cast to 32
bits may truncate, it is exact while less than 2^32 ms remain, and a query given either timeout ends by
the deadline. `ReportIsSound`, `VerdictsShip`, `PairsAreConsistent`, `BreadcrumbSurvives` and `RunBudgetExact`
are the five properties of the `verify` run for any number of rows, any ladder, any budgets. Their
invariant says who may be where (`ControlInv`), that a pass runs under a child of no budget, that the
thread's current budget is the pass's whenever no row budget is entered, and that a thread without a
pass has none (`BudgetInv`); that a verdict which is not the lifted model's comes from an unsound engine
(`HonestInv`) and that a returned report has no violation of a row whose violations are withheld (`WithheldInv`),
which leaves a wrong verdict of a sound engine only the ways of `LetThrough`; that a verdict
of the merged report is that of every member that voted, and a row with votes is open only as an alarm
(`VotedInv`: through merge, re-plan and passes this is the fact that carries both soundness and
completeness); that the consistency pass ran last (`PairInv`); and what is on file at each place of a
pass (`CrumbInv`). `OnlyMoves`, `MemberGoesOn`, `MemberEnds` and `PlannerGoesOn` are the four shapes a step has
for the conjuncts it does not concern. `MinIn` is the one induction: a non-empty set of numbers has a least
element, from the library's well-foundedness of the naturals.

**LiftCache** (in `CacheProofs`: `WrongHitsExplained`, `EntriesWhole`; `EditsBounded`, `NoneApart`). The argument is about what
a directory may hold: its owner's manifest and what its owner's tools made, at every place of the owner
and however much of it others have removed (`DirInv`); only directories whose owner is done can be
reached by an index or be open in a remover (`EntryInv`, `OpenInv`), so they no longer change but by
removal (`PublishedStays`); and a lookup at its second read has seen the equal manifest of one such
directory (`ReadInv`). A hit then has the lift of that directory, or of another one: the two causes.

**ContextCache** (in `CacheProofs`: `CacheAnswersOwn`, `CacheBounded`, `MutexExact`; `CacheConstants`, `NamesApart`). An entry
is the realization of its own input under its own key (`MapInv`), a thread on its way to insert holds
the realization of its own input (`ThreadInv`), and eviction leaves room (`EvictLeavesRoom`). Neither
property needs mutual exclusion once each critical section is one step; that the mutex gives it is
`MutexExact`.

**Kmts and Game3v** (`VerdictsTransferHolds`, `PreservationOnPlain`, `IterationsConverge`;
`InputsAssumption`: finitely many states, the inputs are systems and formulas). The state machine adds
little (`IndInv`: once evaluated, the verdicts are those of `evaluate_tri`); the argument is about the evaluator,
for every system and every arena, so at any size and any alternation of fixpoints. It goes in four steps.
(1) The recursions are well defined: `LoopExists` gives the iteration its equation whatever its body (from the
values every set it stays in must have), `EvaluateEq` and `SatEq` give the evaluator and the reference theirs, node
by node. Inductions are over sets of numbers by a least counterexample (`LeastIn`), since the library's
induction rules cannot be instantiated here. (2) `AllFine`: a node's value grows with the variables of its own sign
and shrinks with the others, and its must half lies in its may half. Monotone bodies make the iteration
climb (mu) or descend (nu) in the finite order of must and may bits; `Descent` turns that into an end,
which is a fixpoint and lies in every set the iteration cannot leave (`FixpointFacts`). `IterationsConverge`
reads off that it is the least or the greatest one. (3) `ConcretisationFacts` reduces a concretisation to two
facts, that a move comes from a transition and that one that is not may-only gives a move; from them `ImageMust`
and `ImageMay` bound each modality on one side, and each needs only one of the two halves of `Loses` to be absent;
the cover that the lift asserts is what makes a box over a hyper-must sound when True. (4) `AllSound`: for a
sign q, nodes of sign q are bounded from below by what is sure and the others from above by what is possible.
A fixpoint's iteration stays within every bound a pre-fixpoint (or post-fixpoint) of the concrete body sets, and
where the bound points the other way its end is itself such a fixpoint; no monotonicity of the reference is
needed. With q positive this is the True half of `VerdictsTransfer`, with q negative the False half.

**What proving changed.** `VerdictsTransfer` was false: its `Cause` looked for a modality that loses the
verdict itself, and under a negation it is the opposite value that is lost; `not [] p` over a hyper-must
is True and denied without such a modality. `Cause` now follows the negations (`positive`), and
`MCGame3v` has formulas with negated modalities, on which the old form fails. The reference's `Step` had
a `CASE` whose arms overlapped, and a concretisation of a hyper-must one whose parsing depended on the
reader; both are now unambiguous. `DecidedRowsShip` used to allow only contradictions as the reason for
an undecided row with votes. The step of the passes after the re-plan could not be proved: engines
contradict each other on a row of a complementary pair, the re-plan of the merged report answers with a
violation, and the row's cone is free, so the violation is withheld as it should be. The property now
says so, and `MCVerifyRun` has the design (a pair with a free cone and an unsound engine) in which it
happens. `DepthsExhausted` used to compare the front with itself and is now about paths. Two overlapping
`CASE`s of `VerifyRun`, whose value TLA+ leaves open, became `IF`s in the order of the code's tests.

**Model-checked only.** Every liveness property (`PromptStop`, `Terminates`, `PanicEnds`, `CancelHonoured`,
`NeverBlocked`, `DecidedReturns`, `MemberReturns`, `BudgetEnds`, `Answered`), since the prover handles neither
`ENABLED` nor fairness; and `GameAgrees` and `CulpritsListed`, which need the correctness of Zielonka's recursion on
games with leaf propagation, a determinacy argument of its own. That an engine is sound, that a realization depends on its
input alone, and that a process prints what an honest solver may print are assumptions written into the
models, not theorems.

## 6. Not modelled

The modelled code is where several actors, failures or budgets meet: the portfolios, the processes, the
justice race, the verify driver with its merge, the two caches, and the one pure algorithm whose
soundness every abstract verdict rests on. It is a small part of the 286 000 lines of the workspace,
because most of them are parsers, translators and renderers of a dozen input languages, the BTOR2
encoders, BDD and SMT back ends, command-line and request handling, and tests inside the source files.
Those are sequential transformations of large data without state of their own: their correctness is a
relation between a text and its meaning, and a TLA+ model of them would be the code again. Engines
appear in the models by what they may answer.

Within the modelled parts: wall-clock values (timeouts are events, so no property bounds a latency in
milliseconds); the contents of a design; log lines, notes, witnesses and refusal texts; the ordering
of engine names inside an outcome; stdin feeding; temporary files of pono and rIC3; a poisoned mutex;
Windows, where there are no process groups; guarded and step-bounded modalities, memoization and seeded
fixpoints of the evaluator, and its out-of-bounds sink, a state an adapter may add at which `true` and every
predicate are Unknown (`trit.rs:101-136`; it takes must bits away and adds may bits, so it only makes verdicts
Unknown); `--only-rows`, the fault posture and the isolated child of the verify
driver. `PROJECT.json` lists every component with the reason why it is or is not modelled.

## 7. Plan

1. The safety of every module is proved but for the parity game: the correctness of `solve_2v`, that the winner it
   names has a winning strategy, would carry `GameAgrees` to every system; attractors and leaf propagation are
   closures like the iteration of `Game3vProofs`, Zielonka's recursion is an induction on open positions.
2. What the parts assume of each other, from the caller's side: that a call of `OwnedPortfolio` or
   `ReachPortfolio`, as `JusticeRungs` uses it, gives its oracle.
3. The refinement loop with reused approximants, on top of `Kmts`: `FixpointFacts` says what a seed must satisfy.
4. The two-valued games and the GR(1) strategies, against reference definitions.
