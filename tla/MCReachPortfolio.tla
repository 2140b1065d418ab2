-------------------------- MODULE MCReachPortfolio --------------------------
(* An instance of ReachPortfolio for TLC: designs with every bad line, of  *)
(* which none, one or all are reachable (which one it is makes no          *)
(* difference), so that a partial proof can happen.                        *)
EXTENDS ReachPortfolio

CONSTANT OneBad

MCInit ==
    /\ Init
    /\ bads = Bads
    /\ reach \in {{}, {OneBad}, Bads}

MCSpec == MCInit /\ [][Next]_vars /\ Scheduling
=============================================================================
