------------------------------ MODULE RunBudget ------------------------------
(***************************************************************************)
(* The budget arithmetic of adapter/run_budget.rs.  A deadline is an       *)
(* instant, Unbounded when there is none; None is an absent setting.       *)
(* Budget::cancel is not modelled: nothing outside the tests calls it.     *)
(***************************************************************************)
EXTENDS Integers

CONSTANTS
    Unbounded,   \* Budget::deadline = None
    None,        \* an Option that is None
    Word         \* 2^32 in the code: the values of a u32

ASSUME BudgetConstants ==
    /\ Unbounded \notin Int /\ None \notin Int
    /\ Word \in Nat \ {0, 1}

Deadlines == Nat \cup {Unbounded}

least(a, b)    == IF a <= b THEN a ELSE b
greatest(a, b) == IF a <= b THEN b ELSE a

\* Budget::child at instant `now`: the earlier of the two deadlines.
child(outer, ms, now) ==
    IF ms = None THEN outer
    ELSE IF outer = Unbounded THEN now + ms
    ELSE least(outer, now + ms)

\* Budget::expired.
expired(deadline, now) == deadline # Unbounded /\ now >= deadline

\* Budget::remaining_ms, saturating at 0.
remaining_ms(deadline, now) ==
    IF deadline = Unbounded THEN None ELSE greatest(deadline - now, 0)

\* clamp_query_ms: `rem.max(1) as u32` keeps the low 32 bits.
clamp_query_ms(default_ms, rem) ==
    IF rem = None THEN default_ms
    ELSE greatest(least(default_ms, greatest(rem, 1) % Word), 1)

\* query_ms_up_to_remaining saturates instead.
query_ms_up_to_remaining(default_ms, rem) ==
    IF rem = None THEN default_ms ELSE least(greatest(rem, 1), Word - 1)
=============================================================================
