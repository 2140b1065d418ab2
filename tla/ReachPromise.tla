---------------------------- MODULE ReachPromise ----------------------------
(***************************************************************************)
(* What a reachability portfolio promises, whatever threads, child         *)
(* processes and deadlines it uses inside: one return, in which every      *)
(* engine it lists voted, no engine voted twice, and an engine that is not *)
(* in Unsound voted the truth; the verdict is from_sets of those votes and *)
(* never changes afterwards.  Both drivers of adapter/reach_portfolio.rs,  *)
(* the scoped one (ReachPortfolio) and the owned-only one (OwnedPortfolio) *)
(* implement this specification.                                           *)
(***************************************************************************)
EXTENDS ReachOutcome

CONSTANTS Engines,   \* every engine the driver may run
          Unsound    \* the engines whose answers are not assumed right

VARIABLES truth,     \* "reachable" or "unreachable": what the design is
          outcome    \* what the call returned, or Pending

promiseVars == <<truth, outcome>>

PromiseInit == truth \in Definite /\ outcome = Pending

(* R and U are the engines that answered reachable and unreachable.        *)
Honest(R, U) ==
    /\ R \cap U = {}
    /\ truth = "unreachable" => R \subseteq Unsound
    /\ truth = "reachable" => U \subseteq Unsound

Return ==
    /\ outcome = Pending
    /\ \E R, U \in SUBSET Engines : Honest(R, U) /\ outcome' = from_sets(R, U)
    /\ UNCHANGED truth

PromiseNext == Return

PromiseSpec == PromiseInit /\ [][PromiseNext]_promiseVars
=============================================================================
