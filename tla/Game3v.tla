------------------------------- MODULE Game3v -------------------------------
(***************************************************************************)
(* evaluate_3v_game of mu_calculus/parity_game_3v.rs: the verdicts of      *)
(* evaluate_tri and, when a state is Unknown, the parity game of the       *)
(* formula, solved with and without the MayOnly moves, and the MayOnly     *)
(* transitions the refinement loop is told to look at.                     *)
(***************************************************************************)
EXTENDS Kmts, Functions

CONSTANT Inputs   \* the pairs <<system, formula>> the evaluation is given

ASSUME InputsAssumption ==
    /\ IsFiniteSet(State)
    /\ \A m \in {i[1] : i \in Inputs} : IsSystem(m)
    /\ \A f \in {i[2] : i \in Inputs} : IsFormula(f)

VARIABLES
    model, formula,
    pc,          \* "evaluate" | "solve" | "extract" | "done"
    verdicts,    \* GameEvaluation::verdicts
    winner3v,    \* Solution3v::verdicts, position by position
    subgame      \* FailureSubgame

vars == <<model, formula, pc, verdicts, winner3v, subgame>>

---------------------------------------------------------------------------
(* build_game.  A game g has g.moves[p][q], the modality of the move from  *)
(* p to q, and g.priority[p].  A position is a pair <<state, node>>.       *)

Positions(f) == State \X (DOMAIN f.node)

owner(nd) == IF nd.op \in {"or", "mu", "dia"} THEN "Eve" ELSE "Adam"
other_player(p) == IF p = "Eve" THEN "Adam" ELSE "Eve"

\* fixpoint_nesting_order, outermost first.
nesting(f) ==
    LET order[n \in DOMAIN f.node] ==
            LET nd == f.node[n]
            IN CASE nd.op \in {"mu", "nu"} -> <<n>> \o order[nd.body]
                 [] nd.op \in {"and", "or"} -> order[nd.l] \o order[nd.r]
                 [] nd.op \in {"not", "dia", "box"} -> order[nd.l]
                 [] OTHER -> <<>>
    IN order[f.root]

\* compute_priorities: outermost lowest, mu odd, nu even, anything else 0.
position_priority_swapped(f, n) ==
    LET order == nesting(f)
        at    == {i \in DOMAIN order : order[i] = n}
    IN IF at = {} THEN 0
       ELSE LET i == CHOOSE i \in at : TRUE
            IN 2 * (i - 1) + (IF f.node[n].op = "mu" THEN 2 ELSE 1)
position_priority(f, n) ==
    LET order == nesting(f)
        at    == {i \in DOMAIN order : order[i] = n}
    IN IF at = {} THEN 0
       ELSE LET i == CHOOSE i \in at : TRUE
            IN 2 * (i - 1) + (IF f.node[n].op = "mu" THEN 1 ELSE 2)

\* collect_var_bindings: a variable stands for its fixpoint node.
binding(f, v) == CHOOSE n \in DOMAIN f.node : f.node[n].op \in {"mu", "nu"} /\ f.node[n].var = v

\* The move to a target several transitions share is Sharp when one of them
\* is, and has the modality of the first otherwise.
merged(es, t) ==
    LET at == {i \in DOMAIN es : target(es[i]) = t}
    IN IF \E i \in at : es[i].modality = "Sharp" THEN "Sharp"
       ELSE es[CHOOSE i \in at : \A j \in at : i <= j].modality

compute_successors(m, f, p) ==
    LET s  == p[1]
        nd == f.node[p[2]]
        To(ns) == [q \in {s} \X ns |-> "Sharp"]
    IN CASE nd.op = "pred"             -> << >>
         [] nd.op = "var"              -> To({binding(f, nd.var)})
         [] nd.op \in {"mu", "nu"}     -> To({nd.body})
         [] nd.op = "not"              -> To({nd.l})
         [] nd.op \in {"and", "or"}    -> To({nd.l, nd.r})
         [] OTHER -> [q \in {target(e) : e \in out(m, s)} \X {nd.l} |-> merged(m.out[s], q[1])]

build_game(m, f) ==
    [moves    |-> [p \in Positions(f) |-> compute_successors(m, f, p)],
     priority |-> [p \in Positions(f) |-> position_priority(f, p[2])]]

successors(g, p) == DOMAIN g.moves[p]

\* build_leaf_oracle_from_env reads the two-valued bits: unknown is Adam's.
\* A position without a winner yet is open.
leaf_winners(m, f) ==
    [p \in Positions(f) |->
        IF f.node[p[2]].op # "pred" THEN "open"
        ELSE IF m.label[p[1]] = "T" THEN "Eve" ELSE "Adam"]

---------------------------------------------------------------------------
(* solve_2v.  won is the winner of each position so far: the active ones   *)
(* are the open ones.  Its loops and recursions are functions of won.      *)

Winners(f) == [Positions(f) -> {"Eve", "Adam", "open"}]
Active(won) == {p \in DOMAIN won : won[p] = "open"}
Won(won, ps, player) == [p \in DOMAIN won |-> IF p \in ps THEN player ELSE won[p]]

\* propagate_from_resolved: settle what the settled successors decide.
propagate_from_resolved(g, f, won0) ==
    LET settle[won \in Winners(f)] ==
            LET OwnerOf(p)  == owner(f.node[p[2]])
                WinningMove(p) == \E q \in successors(g, p) : won[q] = OwnerOf(p)
                now  == {p \in Active(won) :
                            WinningMove(p) \/ \A q \in successors(g, p) : won[q] # "open"}
                next == [p \in DOMAIN won |->
                            IF p \notin now THEN won[p]
                            ELSE IF WinningMove(p) THEN OwnerOf(p) ELSE other_player(OwnerOf(p))]
            IN IF now = {} THEN won ELSE settle[next]
    IN settle[won0]

attractor(g, f, won, player, target0) ==
    LET grow[goal \in SUBSET DOMAIN won] ==
            LET Good(q) == q \in goal \/ won[q] = player
                more == {p \in Active(won) \ goal :
                            /\ successors(g, p) # {}
                            /\ IF owner(f.node[p[2]]) = player
                               THEN \E q \in successors(g, p) : Good(q)
                               ELSE \A q \in successors(g, p) : Good(q)}
            IN IF more = {} THEN goal ELSE grow[goal \cup more]
    IN grow[target0]

\* Every call first settles what is decided: solve is the rest of the call.
zielonka(g, f, leaves) ==
    LET Settled(won) == propagate_from_resolved(g, f, won)
        solve[won \in Winners(f)] ==
            LET active == Active(won)
                top    == {p \in active : \A q \in active : g.priority[q] <= g.priority[p]}
                player == IF \E p \in top : g.priority[p] % 2 = 0 THEN "Eve" ELSE "Adam"
                rival  == other_player(player)
                a      == attractor(g, f, won, player, top)
                first  == solve[Settled(Won(won, a, player))]
                lost   == {p \in active \ a : first[p] = rival}
                b      == attractor(g, f, won, rival, lost)
            IN IF active = {} THEN won
               ELSE IF a = active THEN Won(won, a, player)
               ELSE IF lost = {} THEN first
               ELSE solve[Settled(Won(won, b, rival))]
    IN solve[Settled(leaves)]

solve_2v(m, f, g) == zielonka(g, f, leaf_winners(m, f))

---------------------------------------------------------------------------
(* solve_3v and the failure subgame.                                       *)

remove_may_only_edges(g) ==
    [g EXCEPT !.moves = [p \in DOMAIN @ |-> Restrict(@[p], {q \in DOMAIN @[p] : @[p][q] # "MayOnly"})]]

solve_3v(m, f, g) ==
    LET over  == solve_2v(m, f, g)
        under == solve_2v(m, f, remove_may_only_edges(g))
    IN [p \in Positions(f) |-> IF over[p] = under[p] THEN over[p] ELSE "Indefinite"]

remove_single_edge(g, p, q) == [g EXCEPT !.moves[p] = Restrict(@, DOMAIN @ \ {q})]

\* extract_failure_subgame: the MayOnly moves whose loss changes some winner.
classifying_edges_under(m, f, g) ==
    LET base == solve_2v(m, f, remove_may_only_edges(g))
    IN {pq \in Positions(f) \X Positions(f) :
            /\ pq[2] \in successors(g, pq[1])
            /\ g.moves[pq[1]][pq[2]] = "MayOnly"
            /\ solve_2v(m, f, remove_single_edge(g, pq[1], pq[2])) # base}
classifying_edges(m, f, g) ==
    LET base == solve_2v(m, f, g)
    IN {pq \in Positions(f) \X Positions(f) :
            /\ pq[2] \in successors(g, pq[1])
            /\ g.moves[pq[1]][pq[2]] = "MayOnly"
            /\ solve_2v(m, f, remove_single_edge(g, pq[1], pq[2])) # base}

\* The transitions of those moves, with the player who owns each.
classifying_transitions(m, f, g) ==
    LET At(s) == {i \in DOMAIN m.out[s] :
                    /\ m.out[s][i].modality = "MayOnly"
                    /\ \E pq \in classifying_edges(m, f, g) :
                           pq[1][1] = s /\ pq[2][1] = target(m.out[s][i])}
        Owner(e) == IF e.ctrl THEN "Controller" ELSE "Environment"
    IN UNION {{<<s, i, Owner(m.out[s][i])>> : i \in At(s)} : s \in State}

---------------------------------------------------------------------------
NoSubgame == [positions |-> {}, transitions |-> {}]

Init ==
    /\ \E i \in Inputs : model = i[1] /\ formula = i[2]
    /\ pc = "evaluate"
    /\ verdicts = all_false
    /\ winner3v = << >>
    /\ subgame = NoSubgame

\* evaluate_tri decides the verdicts; without an Unknown there is no subgame.
Evaluate ==
    /\ pc = "evaluate"
    /\ verdicts' = evaluate_tri(model, formula)
    /\ pc' = IF \E s \in State : verdict_at(verdicts', s) = "Unknown" THEN "solve" ELSE "done"
    /\ UNCHANGED <<model, formula, winner3v, subgame>>

Solve ==
    /\ pc = "solve"
    /\ \E game \in {build_game(model, formula)} : winner3v' = solve_3v(model, formula, game)
    /\ pc' = "extract"
    /\ UNCHANGED <<model, formula, verdicts, subgame>>

Extract ==
    /\ pc = "extract"
    /\ LET at == {p \in Positions(formula) : winner3v[p] = "Indefinite"}
       IN \E game \in {build_game(model, formula)} :
            subgame' = IF at = {} THEN NoSubgame
                       ELSE [positions   |-> at,
                             transitions |-> classifying_transitions(model, formula, game)]
    /\ pc' = "done"
    /\ UNCHANGED <<model, formula, verdicts, winner3v>>

Next == Evaluate \/ Solve \/ Extract

Spec == Init /\ [][Next]_vars

---------------------------------------------------------------------------
(* Properties.                                                             *)

Ops(f)        == {f.node[n].op : n \in DOMAIN f.node}
Edges(m)      == UNION {out(m, s) : s \in State}
Opposite(v)   == IF v = "True" THEN "False" ELSE "True"
Controls(f)   == {f.node[n].control : n \in {k \in DOMAIN f.node : f.node[k].op \in {"dia", "box"}}}

\* The readings that lose a definite value v of a modality.  A box over a
\* hyper-must: the may pass asks for a target that need not be taken.  A
\* controllability modality in a state whose controllable transitions may all
\* be absent: they count as a choice, the controller's to lose or the
\* environment's to win.
Loses(m, nd, v) ==
    \/ /\ v = "False" /\ nd.op = "box" /\ nd.control = "all"
       /\ \E e \in Edges(m) : targets(e) # {target(e)}
    \/ /\ \/ v = "False" /\ nd.control = "controllable"
          \/ v = "True" /\ nd.control = "environment"
       /\ \E s \in State : LET own == {e \in out(m, s) : e.ctrl}
                           IN own # {} /\ \A e \in own : e.modality = "MayOnly"

\* A modality that loses v, or below an odd number of negations its opposite.
Cause(m, f, v) ==
    \E n \in DOMAIN f.node :
        /\ f.node[n].op \in {"dia", "box"}
        /\ Loses(m, f.node[n], IF positive(f, n) THEN v ELSE Opposite(v))

\* Evaluate: a verdict that is sure is possible (must within may), and every
\* definite verdict holds in every system the abstraction stands for, except
\* where one of the two readings above is met.
VerdictsTransfer ==
    pc = "done" =>
        /\ verdicts.must \subseteq verdicts.may
        /\ \A s \in Denied(model, formula, verdicts) :
               Cause(model, formula, verdict_at(verdicts, s))

\* What docs/design/kmts-theory.md says of evaluate_tri: a definite verdict on
\* the abstraction transfers to every system it abstracts.
Preservation == pc = "done" => Denied(model, formula, verdicts) = {}

\* Formulas with one kind of modality and one kind of fixpoint, on systems with
\* neither hyper-musts nor unknown labels.
Simple(m, f) ==
    /\ ~ {"dia", "box"} \subseteq Ops(f) /\ ~ {"mu", "nu"} \subseteq Ops(f)
    /\ "not" \notin Ops(f) /\ Controls(f) \subseteq {"all"}
    /\ \A e \in Edges(m) : Cardinality(targets(e)) = 1
    /\ \A s \in State : m.label[s] \in {"T", "F"}

\* solve_3v: on these the game agrees with the evaluator at the root in every
\* state, so an Unknown verdict is an indefinite position of the subgame.
GameAgrees ==
    winner3v # << >> /\ Simple(model, formula) =>
        \A s \in State :
            <<winner3v[<<s, formula.root>>], verdict_at(verdicts, s)>> \in
                {<<"Eve", "True">>, <<"Adam", "False">>, <<"Indefinite", "Unknown">>}

\* The system in which transition i of state s turned out not to exist.
Without(m, s, i) ==
    [m EXCEPT !.out[s] = SubSeq(@, 1, i - 1) \o SubSeq(@, i + 1, Len(@))]

\* extract_failure_subgame: the list misses no transition the refinement could
\* settle alone.  If the absence of one MayOnly transition changes the verdict of
\* some state, that transition is listed, so an Unknown leaves the refinement
\* without a transition to look at only when none of them makes a difference by
\* itself (two that stand in for each other).
CulpritsListed ==
    pc = "done" /\ winner3v # << >> /\ Simple(model, formula) =>
        \A s \in State : \A i \in DOMAIN model.out[s] :
            /\ model.out[s][i].modality = "MayOnly"
            /\ evaluate_tri(Without(model, s, i), formula) # verdicts
            => \E c \in subgame.transitions : c[1] = s /\ c[2] = i
=============================================================================
