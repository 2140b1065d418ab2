----------------------------- MODULE MCLiftCache -----------------------------
(* An instance of LiftCache: p1 and p3 lift the same source; with the      *)
(* colliding index every manifest has the same one.  Which header is on    *)
(* disk first makes no difference.                                         *)
EXTENDS LiftCache

MCProcs  == {"p1", "p2", "p3"}
MCsource == [p \in MCProcs |-> IF p = "p2" THEN "t" ELSE "s"]

Colliding(m) == 0

MCInit == Init /\ header = "h0"

MCSpec == MCInit /\ [][Next]_vars /\ \A p \in Procs : WF_vars(Step(p))
=============================================================================
