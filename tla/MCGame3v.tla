------------------------------ MODULE MCGame3v ------------------------------
(* Two states, every mix of sharp, MayOnly and hyper-must transitions, and   *)
(* a family of formulas for each construct of the logic.                     *)
EXTENDS Game3v

MCState == {1, 2}

Pred          == [op |-> "pred"]
Var(v)        == [op |-> "var", var |-> v]
Op1(o, l)     == [op |-> o, l |-> l]
Op2(o, l, r)  == [op |-> o, l |-> l, r |-> r]
Mod(o, c, l)  == [op |-> o, control |-> c, l |-> l]
Fix(o, v, bd) == [op |-> o, var |-> v, body |-> bd]
Formula(ns)   == [node |-> ns, root |-> Len(ns)]

\* One and two modalities of p.
Modal ==
    {Formula(<<Pred, Mod(o, "all", 1)>>) : o \in {"dia", "box"}}
    \cup {Formula(<<Pred, Mod(o, "all", 1), Mod(q, "all", 2)>>) : o \in {"dia", "box"}, q \in {"dia", "box"}}

\* mu X. p \/ <>X, nu X. p /\ []X and their like, under a control.
Fixpoint(c, kinds) ==
    {Formula(<<Pred, Var("X"), Mod(o, c, 2), Op2(IF q = "mu" THEN "or" ELSE "and", 1, 3), Fix(q, "X", 4)>>) :
        o \in kinds, q \in {"mu", "nu"}}

NotReach ==
    {Formula(<<Pred, Var("X"), Mod("dia", "all", 2), Op2("or", 1, 3), Fix("mu", "X", 4), Op1("not", 5)>>)}

\* Negations of a modality, and nu X. ~(~p \/ <> ~X), below two negations.
Negated(c, o) == {Formula(<<Pred, Mod(o, c, 1), Op1("not", 2)>>)}
Twice ==
    {Formula(<<Pred, Op1("not", 1), Var("X"), Op1("not", 3), Mod("dia", "all", 4), Op2("or", 2, 5),
               Op1("not", 6), Fix("nu", "X", 7)>>)}

\* nu X. mu Y. <>((p /\ X) \/ Y): p again and again; and its like with a box.
Alternating ==
    {Formula(<<Pred, Var("X"), Var("Y"), Op2("and", 1, 2), Op2("or", 4, 3), Mod(o, "all", 5),
               Fix("mu", "Y", 6), Fix("nu", "X", 7)>>) : o \in {"dia", "box"}}

Plain(c, k, t) == IF k = "none" THEN << >> ELSE <<edge(c, k, <<t>>)>>
Kinds   == {"none", "Sharp", "MayOnly"}
Outs(c) == {Plain(c, k, 1) \o Plain(c, l, 2) : k \in Kinds, l \in Kinds}

\* Every hyper-target is the target of another transition, as the lift asserts.
Hypers ==
    {Plain(c, k, 1) \o Plain(c, l, 2) \o <<edge(c, "MustHyperOnly", ts)>> :
        c \in BOOLEAN, k \in Kinds \ {"none"}, l \in Kinds \ {"none"}, ts \in {<<1, 2>>, <<2, 1>>}}

Model(o1, o2, l1, l2) == [out |-> <<o1, o2>>, label |-> <<l1, l2>>]

Models ==
    {Model(o1, o2, l1, l2) : o1 \in Outs(FALSE) \cup Hypers, o2 \in Outs(FALSE),
                             l1 \in {"T", "F", "U"}, l2 \in {"T", "F"}}

\* The controller and the environment both move in state 1.
ControlModels ==
    {Model(c \o u, o2, l1, l2) : c \in Outs(TRUE), u \in Outs(FALSE),
                                 o2 \in {Plain(FALSE, k, 1) : k \in Kinds},
                                 l1 \in {"T", "F"}, l2 \in {"T", "F"}}

MCInputs ==
    Models \X (Modal \cup Fixpoint("all", {"dia", "box"}) \cup NotReach \cup Alternating
               \cup Negated("all", "box") \cup Twice)
    \cup ControlModels \X (Fixpoint("controllable", {"dia"}) \cup Fixpoint("environment", {"dia"})
                              \cup Negated("controllable", "dia") \cup Negated("environment", "dia"))

MCBoxInputs == Models \X Modal
=============================================================================
