---------------------------- MODULE ReachOutcome ----------------------------
(***************************************************************************)
(* The value a reachability portfolio hands to its caller                  *)
(* (adapter/reach_portfolio.rs, ReachVerdict and ReachOutcome) and the one *)
(* rule that builds it.  A design is a set of `bad` properties; `bad` is   *)
(* reachable when at least one of them is.  The engine lists are sets: the *)
(* code only ever tests them for emptiness and prints them.                *)
(***************************************************************************)

(***************************************************************************)
(* What one member contributes: a definite answer, an abstention (unknown, *)
(* timeout, cancelled) or a refusal (Err: an encode error, an absent       *)
(* binary, a child that exited without a verdict).                         *)
(***************************************************************************)
Definite == {"reachable", "unreachable"}
Votes == Definite \cup {"none", "refused"}

(* "pending" stands for a call that has not returned.                      *)
Verdicts == Definite \cup {"unknown", "contradiction"}

(* Mutant: a counterexample silences the proofs, so no alarm can ring.     *)
from_sets_first(reachable_by, unreachable_by) ==
    [ verdict |->
        CASE reachable_by # {} -> "reachable"
          [] reachable_by = {} /\ unreachable_by # {} -> "unreachable"
          [] reachable_by = {} /\ unreachable_by = {} -> "unknown",
      reachable_by   |-> reachable_by,
      unreachable_by |-> unreachable_by ]

(* ReachOutcome::from_sets: first-definite plus contradiction alarm.       *)
from_sets(reachable_by, unreachable_by) ==
    [ verdict |->
        CASE reachable_by # {} /\ unreachable_by # {} -> "contradiction"
          [] reachable_by # {} /\ unreachable_by = {} -> "reachable"
          [] reachable_by = {} /\ unreachable_by # {} -> "unreachable"
          [] reachable_by = {} /\ unreachable_by = {} -> "unknown",
      reachable_by   |-> reachable_by,
      unreachable_by |-> unreachable_by ]

Pending == [verdict |-> "pending", reachable_by |-> {}, unreachable_by |-> {}]

(* What the whole design is, given the set of its reachable bad lines.     *)
TruthOf(reachableBads) ==
    IF reachableBads # {} THEN "reachable" ELSE "unreachable"
=============================================================================
