-------------------------------- MODULE Kmts --------------------------------
(***************************************************************************)
(* The three-valued mu-calculus evaluator of mu_calculus/evaluator.rs      *)
(* (evaluate_tri over KleeneDom) on a Kripke modal transition system, and  *)
(* the reference its definite verdicts answer to: the two-valued semantics *)
(* on every system the abstraction stands for.                             *)
(*                                                                         *)
(* A system m has m.out[s], the transitions of state s in adjacency order, *)
(* and m.label[s], the value of the one predicate.  A formula f is the     *)
(* arena of its nodes, f.node, and its root.                               *)
(***************************************************************************)
EXTENDS Integers, Sequences, FiniteSets

CONSTANT State

\* A transition: controllable or not, its TransitionModality, and its targets,
\* of which the first is the principal one.  Only a hyper-must has several.
edge(c, k, ts) == [ctrl |-> c, modality |-> k, targets |-> ts]
target(e)      == e.targets[1]
targets(e)     == {e.targets[i] : i \in DOMAIN e.targets}
out(m, s)      == {m.out[s][i] : i \in DOMAIN m.out[s]}

\* transition_target_in_set_diamond and _box: any, or every, hyper-target.
target_in_set_any(e, X) == targets(e) \cap X # {}
target_in_set_all(e, X) == targets(e) \subseteq X

---------------------------------------------------------------------------
(* TritSet: the states where a formula is surely true, and may be true.    *)
(* Left out: an adapter may add an out-of-bounds sink, a state at which    *)
(* all_true and from_predicate are Unknown whatever its label.  It takes   *)
(* must bits away and adds may bits, so it only makes verdicts Unknown.    *)

trits(must, may) == [must |-> must, may |-> may]
all_true         == trits(State, State)
all_false        == trits({}, {})
trit_and(a, b)   == trits(a.must \cap b.must, a.may \cap b.may)
trit_or(a, b)    == trits(a.must \cup b.must, a.may \cup b.may)
trit_not(a)      == trits(State \ a.may, State \ a.must)

\* KleeneDom::from_predicate: an unknown label may hold and is not sure to.
predicate(m) == trits({s \in State : m.label[s] = "T"}, {s \in State : m.label[s] # "F"})

verdict_at(v, s) ==
    CASE s \in v.must -> "True"
      [] s \in v.may \ v.must -> "Unknown"
      [] OTHER -> "False"

---------------------------------------------------------------------------
(* The modal operators.                                                    *)

\* TransitionModalityFilter::allows.
allows(filter, e) == filter = "All" \/ e.modality # "MayOnly"

\* modal_exists under Control::All: the must pass wants every hyper-target.
modal_exists_any(m, s, X, filter) ==
    \E e \in out(m, s) : allows(filter, e) /\ target_in_set_any(e, X)
modal_exists(m, s, X, filter) ==
    \E e \in out(m, s) :
        /\ allows(filter, e)
        /\ IF filter = "MustOnly" THEN target_in_set_all(e, X) ELSE target_in_set_any(e, X)

\* modal_forall under Control::All: an uncontrollable transition is in a group
\* and is read at its principal target; a controllable one at all its targets.
modal_forall(m, s, X, filter) ==
    \A e \in out(m, s) :
        allows(filter, e) => IF e.ctrl THEN target_in_set_all(e, X) ELSE target(e) \in X

\* KleeneDom::modal_image, the two filtered passes.
modal_image_all(m, kind, v) ==
    IF kind = "dia"
    THEN trits({s \in State : modal_exists(m, s, v.must, "MustOnly")},
               {s \in State : modal_exists(m, s, v.may, "All")})
    ELSE trits({s \in State : modal_forall(m, s, v.must, "All")},
               {s \in State : modal_forall(m, s, v.may, "MustOnly")})

\* modal_trit_core for the two players: who establishes the modality relies on
\* must transitions, who refutes it has the may transitions too.
modal_trit_core(es, control, v) ==
    LET Of(c, must)   == {e \in es : e.ctrl = c /\ (must => e.modality # "MayOnly")}
        must_reach(e) == target_in_set_all(e, v.must)
        may_reach(e)  == target_in_set_any(e, v.may)
        has_ctrl      == Of(TRUE, FALSE) # {}
    IN IF control = "controllable"
       THEN [must |-> /\ \A e \in Of(FALSE, FALSE) : must_reach(e)
                      /\ has_ctrl => \E e \in Of(TRUE, TRUE) : must_reach(e),
             may  |-> /\ \A e \in Of(FALSE, TRUE) : may_reach(e)
                      /\ has_ctrl => \E e \in Of(TRUE, FALSE) : may_reach(e)]
       ELSE [must |-> \/ \E e \in Of(FALSE, TRUE) : must_reach(e)
                      \/ has_ctrl /\ \A e \in Of(TRUE, FALSE) : must_reach(e),
             may  |-> \/ \E e \in Of(FALSE, FALSE) : may_reach(e)
                      \/ has_ctrl /\ \A e \in Of(TRUE, TRUE) : may_reach(e)]

\* modal_trit_from_target: a state that is surely good is also maybe good.
modal_trit_from_target(m, control, v) ==
    LET core == [s \in State |-> modal_trit_core(out(m, s), control, v)]
    IN trits({s \in State : core[s].must}, {s \in State : core[s].must \/ core[s].may})

modal_image(m, nd, v) ==
    IF nd.control = "all" THEN modal_image_all(m, nd.op, v)
                          ELSE modal_trit_from_target(m, nd.control, v)

---------------------------------------------------------------------------
(* evaluate_tri: the formula bottom up, a fixpoint by iteration.  The      *)
(* recursions are functions: over the nodes, whose operands have smaller   *)
(* ids, and over the values a fixpoint's iteration passes through.         *)

Trits        == [must : SUBSET State, may : SUBSET State]
Named(f)     == {n \in DOMAIN f.node : f.node[n].op \in {"var", "mu", "nu"}}
variables(f) == {f.node[n].var : n \in Named(f)}
bind(b, x, v) == [b EXCEPT ![x] = v]

\* eval_fixpoint_generic without a seed: up from bottom, or down from top.
eval_fixpoint(op, body) ==
    LET iterate[current \in Trits] ==
            LET next == body[current] IN IF next = current THEN next ELSE iterate[next]
    IN iterate[IF op = "mu" THEN all_false ELSE all_true]

\* eval_node_generic: the value of a node from the values of its operands.
eval_node(m, nd, val, b) ==
    CASE nd.op = "pred" -> predicate(m)
      [] nd.op = "var"  -> b[nd.var]
      [] nd.op = "not"  -> trit_not(val[nd.l][b])
      [] nd.op = "and"  -> trit_and(val[nd.l][b], val[nd.r][b])
      [] nd.op = "or"   -> trit_or(val[nd.l][b], val[nd.r][b])
      [] nd.op \in {"dia", "box"} -> modal_image(m, nd, val[nd.l][b])
      [] nd.op \in {"mu", "nu"}   ->
            eval_fixpoint(nd.op, [v \in Trits |-> val[nd.body][bind(b, nd.var, v)]])

evaluate(m, f) ==
    LET val[n \in DOMAIN f.node] ==
            [b \in [variables(f) -> Trits] |-> eval_node(m, f.node[n], val, b)]
    IN val

\* An unbound variable reads as false.
unbound(f) == [x \in variables(f) |-> all_false]

evaluate_tri(m, f) == evaluate(m, f)[f.root][unbound(f)]

---------------------------------------------------------------------------
(* The reference.  A concretisation keeps every sharp transition, any of   *)
(* the MayOnly ones, at least one target of each hyper-must, and decides   *)
(* every unknown label.                                                    *)

Choices(e) ==
    CASE e.modality = "Sharp"   -> {targets(e)}
      [] e.modality = "MayOnly" -> {{}, targets(e)}
      [] OTHER                  -> (SUBSET targets(e)) \ {{}}

Moves(es) ==
    {UNION {{<<es[i].ctrl, t>> : t \in c[i]} : i \in DOMAIN es} :
        c \in {g \in [DOMAIN es -> SUBSET State] : \A i \in DOMAIN es : g[i] \in Choices(es[i])}}

Concretisations(m) ==
    LET Movess == {g \in [State -> UNION {Moves(m.out[s]) : s \in State}] :
                      \A s \in State : g[s] \in Moves(m.out[s])}
        Labels == {X \in SUBSET State : predicate(m).must \subseteq X /\ X \subseteq predicate(m).may}
    IN {[moves |-> g, holds |-> X] : g \in Movess, X \in Labels}

\* What a modality says of the moves from a state into X.
Step(nd, moves, X) ==
    LET good(c) == \E mv \in moves : mv[1] = c /\ mv[2] \in X
        safe(c) == \A mv \in moves : mv[1] = c => mv[2] \in X
        some(c) == \E mv \in moves : mv[1] = c
    IN CASE nd.control = "controllable"           -> safe(FALSE) /\ (some(TRUE) => good(TRUE))
         [] nd.control = "environment"            -> good(FALSE) \/ (some(TRUE) /\ safe(TRUE))
         [] nd.control = "all" /\ nd.op = "dia"   -> good(TRUE) \/ good(FALSE)
         [] OTHER                                 -> safe(TRUE) /\ safe(FALSE)

\* The standard semantics; a fixpoint is the meet of the pre-fixpoints, or
\* the join of the post-fixpoints.
Meaning(c, nd, sat, b) ==
    LET F(X) == sat[nd.body][bind(b, nd.var, X)]
    IN CASE nd.op = "pred" -> c.holds
         [] nd.op = "var"  -> b[nd.var]
         [] nd.op = "not"  -> State \ sat[nd.l][b]
         [] nd.op = "and"  -> sat[nd.l][b] \cap sat[nd.r][b]
         [] nd.op = "or"   -> sat[nd.l][b] \cup sat[nd.r][b]
         [] nd.op \in {"dia", "box"} -> {s \in State : Step(nd, c.moves[s], sat[nd.l][b])}
         [] nd.op = "mu" -> {s \in State : \A X \in SUBSET State : F(X) \subseteq X => s \in X}
         [] nd.op = "nu" -> UNION {X \in SUBSET State : X \subseteq F(X)}

Sat(c, f) ==
    LET sat[n \in DOMAIN f.node] ==
            [b \in [variables(f) -> SUBSET State] |-> Meaning(c, f.node[n], sat, b)]
    IN sat

Truth(c, f) == Sat(c, f)[f.root][[x \in variables(f) |-> {}]]

\* The states where some system the abstraction stands for denies a definite
\* verdict.
Denied(m, f, v) ==
    UNION {LET X == Truth(c, f) IN (v.must \ X) \cup (X \ v.may) : c \in Concretisations(m)}

---------------------------------------------------------------------------
(* What is evaluated.                                                      *)

\* FormulaBuilder::push_node: a node refers to nodes pushed before it.
IsArena(f) ==
    /\ Len(f.node) \in Nat /\ DOMAIN f.node = 1..Len(f.node)
    /\ f.root \in DOMAIN f.node
    /\ \A n \in DOMAIN f.node :
         LET nd == f.node[n]
         IN \/ nd.op \in {"pred", "var"}
            \/ nd.op = "not" /\ nd.l \in 1..(n - 1)
            \/ nd.op \in {"and", "or"} /\ nd.l \in 1..(n - 1) /\ nd.r \in 1..(n - 1)
            \/ /\ nd.op \in {"dia", "box"} /\ nd.l \in 1..(n - 1)
               /\ nd.control \in {"all", "controllable", "environment"}
            \/ nd.op \in {"mu", "nu"} /\ nd.body \in 1..(n - 1)

\* g says which nodes are below an even number of negations, and that a variable
\* has the sign of its fixpoint ("syntactic positivity", kmts-theory.md:176).
Signed(f, g) ==
    /\ g.node[f.root]
    /\ \A n \in DOMAIN f.node :
         LET nd == f.node[n]
         IN /\ nd.op = "not" => g.node[nd.l] = ~ g.node[n]
            /\ nd.op \in {"and", "or", "dia", "box"} => g.node[nd.l] = g.node[n]
            /\ nd.op \in {"and", "or"} => g.node[nd.r] = g.node[n]
            /\ nd.op \in {"mu", "nu"} => g.node[nd.body] = g.node[n]
            /\ nd.op \in {"var", "mu", "nu"} => g.var[nd.var] = g.node[n]

Signings(f) ==
    {g \in [node : [DOMAIN f.node -> BOOLEAN], var : [variables(f) -> BOOLEAN]] : Signed(f, g)}

positive(f, n) == (CHOOSE g \in Signings(f) : TRUE).node[n]

IsFormula(f) == IsArena(f) /\ Signings(f) # {}

\* Only a hyper-must has several targets, and each of them is the principal
\* target of a transition of the same state, as the lift asserts.
IsSystem(m) ==
    /\ m.label \in [State -> {"T", "F", "U"}]
    /\ \A s \in State : \A e \in out(m, s) :
         /\ e.ctrl \in BOOLEAN /\ e.modality \in {"Sharp", "MayOnly", "MustHyperOnly"}
         /\ 1 \in DOMAIN e.targets /\ targets(e) \subseteq State
         /\ e.modality # "MustHyperOnly" => targets(e) = {target(e)}
         /\ \A t \in targets(e) : \E d \in out(m, s) : target(d) = t
=============================================================================
