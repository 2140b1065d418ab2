---------------------------- MODULE Game3vProofs ----------------------------
(***************************************************************************)
(* What the three-valued evaluator computes, for every finite system and   *)
(* every formula: its iterations converge, what is sure is possible, and a *)
(* definite verdict holds in every system the abstraction stands for but   *)
(* for the two readings Cause names.  kmts-theory.md (4.4, 4.5) sketches   *)
(* this argument.                                                          *)
(*                                                                         *)
(* The evaluator is recursive twice, over the nodes of the formula and     *)
(* over the values a fixpoint passes through.  First each recursion is     *)
(* shown to satisfy its own equation (FromExists, EvaluateEq, SatEq);      *)
(* inductions are over sets of numbers, by a least counterexample          *)
(* (LeastIn).  A node's value is monotone in the variables of its sign and *)
(* antitone in the others, so an iteration climbs or descends and ends at  *)
(* a fixpoint that lies in every set its steps stay in (FixpointFacts).    *)
(* Soundness is one-sided: the must half of a positive node needs the must *)
(* half of its operands, below a negation the may half, so a True verdict  *)
(* only depends on the half of each modality that Cause looks at.          *)
(***************************************************************************)
EXTENDS Game3v, FiniteSetTheorems, WellFoundedInduction, TLAPS

-----------------------------------------------------------------------------
(* A non-empty set of numbers has a least element.                         *)
LEMMA LeastIn ==
    ASSUME NEW S \in SUBSET Nat, S # {}
    PROVE  \E x \in S : \A y \in S : x <= y
<1> DEFINE Less == {p \in Nat \X Nat : p[1] < p[2]}
<1>1. IsWellFoundedOn(Less, Nat)
    BY NatLessThanWellFounded DEF OpToRel
<1>2. PICK x \in S : \A y \in S : ~(<<y, x>> \in Less)
    <2> HIDE DEF Less
    <2>1. QED
        BY <1>1, WFMin
<1>3. \A y \in S : ~(y < x)
    BY <1>2
<1>4. QED
    BY <1>3

-----------------------------------------------------------------------------
(* The iteration of a fixpoint.                                            *)

(* h is what the loop returns from each value it may start from.           *)
IsLoop(F, h) == h = [v \in Trits |-> IF F[v] = v THEN F[v] ELSE h[F[v]]]

(* The values that every set the loop stays in has, and the ones among     *)
(* them at which the loop stops.                                           *)
Closed(F, S) == \A x \in S : F[x] \in S
Orbit(F, v)  == {w \in Trits : \A S \in SUBSET Trits : v \in S /\ Closed(F, S) => w \in S}
Ends(F, v)   == {w \in Orbit(F, v) : F[w] = w}

(* The orbit of v is v and the orbit of its successor.                     *)
LEMMA OrbitStep ==
    ASSUME NEW F \in [Trits -> Trits], NEW v \in Trits
    PROVE  Orbit(F, v) = {v} \cup Orbit(F, F[v])
<1>1. v \in Orbit(F, v)
    BY DEF Orbit
<1>2. Orbit(F, F[v]) \subseteq Orbit(F, v)
    <2> SUFFICES ASSUME NEW w \in Orbit(F, F[v]), NEW S \in SUBSET Trits, v \in S, Closed(F, S)
                 PROVE  w \in S
        BY DEF Orbit
    <2>1. F[v] \in S
        BY DEF Closed
    <2>2. QED
        BY <2>1 DEF Orbit
<1>3. ASSUME NEW w \in Orbit(F, v), w # v
      PROVE  w \in Orbit(F, F[v])
    <2> SUFFICES ASSUME NEW S \in SUBSET Trits, F[v] \in S, Closed(F, S)
                 PROVE  w \in S
        BY <1>3 DEF Orbit
    <2>1. Closed(F, S \cup {v})
        BY DEF Closed
    <2>2. w \in S \cup {v}
        BY <1>3, <2>1 DEF Orbit
    <2>3. QED
        BY <2>2, <1>3
<1>4. QED
    BY <1>1, <1>2, <1>3

(* The loop stops at once at a fixpoint, and has the ends of its successor *)
(* elsewhere.                                                              *)
LEMMA EndsStep ==
    ASSUME NEW F \in [Trits -> Trits], NEW v \in Trits
    PROVE  /\ F[v] = v => Ends(F, v) = {v}
           /\ F[v] # v => Ends(F, v) = Ends(F, F[v])
<1>1. ASSUME F[v] = v
      PROVE  Orbit(F, v) \subseteq {v}
    <2>1. Closed(F, {v})
        BY <1>1 DEF Closed
    <2>2. QED
        BY <2>1 DEF Orbit
<1>2. v \in Orbit(F, v)
    BY DEF Orbit
<1>3. QED
    BY <1>1, <1>2, OrbitStep DEF Ends

(* Where a chain of values ends: a value of S, if there is one.            *)
Stop(S) == IF S = {} THEN {} ELSE CHOOSE w \in S : TRUE

(* The loop is well defined, whatever its body: some function satisfies    *)
(* the equation of iterate.                                                *)
LEMMA LoopExists ==
    ASSUME NEW F \in [Trits -> Trits]
    PROVE  \E h : IsLoop(F, h)
<1> DEFINE h == [v \in Trits |-> Stop(Ends(F, v))]
<1>1. ASSUME NEW v \in Trits, F[v] = v
      PROVE  Stop(Ends(F, v)) = F[v]
    <2>1. Ends(F, v) = {v}
        BY <1>1, EndsStep
    <2>2. QED
        BY <2>1, <1>1 DEF Stop
<1>2. ASSUME NEW v \in Trits, F[v] # v
      PROVE  Stop(Ends(F, v)) = Stop(Ends(F, F[v]))
    BY <1>2, EndsStep
<1>3. \A v \in Trits : F[v] \in Trits
    OBVIOUS
<1>4. h = [v \in Trits |-> IF F[v] = v THEN F[v] ELSE h[F[v]]]
    BY <1>1, <1>2, <1>3
<1>5. QED
    BY <1>4 DEF IsLoop

(* Where the iteration of a fixpoint starts.                               *)
Start(op) == IF op = "mu" THEN all_false ELSE all_true

(* eval_fixpoint returns what such a function has at its start.            *)
LEMMA FixpointLoop ==
    ASSUME NEW F \in [Trits -> Trits], NEW op
    PROVE  \E h : IsLoop(F, h) /\ eval_fixpoint(op, F) = h[Start(op)]
<1> DEFINE from == CHOOSE h : h = [v \in Trits |-> IF F[v] = v THEN F[v] ELSE h[F[v]]]
<1>1. from = [v \in Trits |-> IF F[v] = v THEN F[v] ELSE from[F[v]]]
    BY LoopExists DEF IsLoop
<1>2. eval_fixpoint(op, F) = from[Start(op)]
    BY DEF eval_fixpoint, Start
<1>3. QED
    BY <1>1, <1>2 DEF IsLoop

-----------------------------------------------------------------------------
(* A loop that descends ends.                                              *)

(* From a value of U, where each step that changes the value lowers its    *)
(* rank, the loop ends at a fixpoint that is in every set it stays in.     *)
LEMMA Descent ==
    ASSUME NEW F \in [Trits -> Trits], NEW h, IsLoop(F, h),
           NEW U \in SUBSET Trits, Closed(F, U), NEW r \in [U -> Nat],
           \A v \in U : F[v] # v => r[F[v]] < r[v],
           NEW start \in U
    PROVE  /\ h[start] \in Trits /\ F[h[start]] = h[start]
           /\ \A S \in SUBSET Trits : start \in S /\ Closed(F, S) => h[start] \in S
<1> DEFINE Good(v) == /\ h[v] \in Trits /\ F[h[v]] = h[v]
                      /\ \A S \in SUBSET Trits : v \in S /\ Closed(F, S) => h[v] \in S
           Bad == {r[v] : v \in {v \in U : ~ Good(v)}}
<1>1. ASSUME NEW v \in U, \A w \in U : r[w] < r[v] => Good(w)
      PROVE  Good(v)
    <2>1. h[v] = IF F[v] = v THEN F[v] ELSE h[F[v]]
        BY DEF IsLoop
    <2>2. CASE F[v] = v
        BY <2>1, <2>2
    <2>3. CASE F[v] # v
        <3>1. Good(F[v]) /\ h[v] = h[F[v]]
            BY <1>1, <2>1, <2>3 DEF Closed
        <3>2. \A S \in SUBSET Trits : v \in S /\ Closed(F, S) => F[v] \in S
            BY DEF Closed
        <3>3. QED
            BY <3>1, <3>2
    <2>4. QED
        BY <2>2, <2>3
<1>2. Bad \in SUBSET Nat
    OBVIOUS
<1>3. ASSUME Bad # {}
      PROVE  FALSE
    <2> HIDE DEF Good
    <2>1. PICK x \in Bad : \A y \in Bad : x <= y
        <3> HIDE DEF Bad
        <3>1. QED
            BY <1>2, <1>3, LeastIn
    <2>2. PICK v \in U : ~ Good(v) /\ x = r[v]
        BY <2>1
    <2>3. \A w \in U : r[w] < r[v] => Good(w)
        BY <2>1, <2>2
    <2>4. QED
        BY <1>1, <2>2, <2>3
<1>4. Good(start)
    <2> HIDE DEF Good
    <2>1. QED
        BY <1>3
<1>5. QED
    BY <1>4

(* Pointwise inclusion, the order the iterations climb or descend.         *)
Below(v, w) == v.must \subseteq w.must /\ v.may \subseteq w.may
Size(v)     == Cardinality(v.must) + Cardinality(v.may)

(* A value above another and different from it has more bits, of which     *)
(* there are finitely many.                                                *)
LEMMA SizeFacts ==
    ASSUME NEW v \in Trits, NEW w \in Trits, Below(v, w)
    PROVE  /\ Size(v) \in Nat /\ Size(w) \in Nat
           /\ v # w => Size(v) < Size(w)
           /\ Cardinality(State) \in Nat /\ Size(w) <= 2 * Cardinality(State)
<1>1. IsFiniteSet(State)
    BY InputsAssumption
<1>2. v = trits(v.must, v.may) /\ w = trits(w.must, w.may)
    BY DEF Trits, trits
<1>3. /\ v.must \subseteq w.must /\ v.may \subseteq w.may
      /\ w.must \in SUBSET State /\ w.may \in SUBSET State
    BY DEF Below, Trits
<1>4. /\ IsFiniteSet(w.must) /\ IsFiniteSet(w.may)
      /\ Cardinality(w.must) <= Cardinality(State)
      /\ Cardinality(w.may) <= Cardinality(State)
    BY <1>1, <1>3, FS_Subset
<1>5. /\ IsFiniteSet(v.must) /\ IsFiniteSet(v.may)
      /\ Cardinality(v.must) <= Cardinality(w.must)
      /\ Cardinality(v.may) <= Cardinality(w.may)
      /\ Cardinality(v.must) = Cardinality(w.must) => v.must = w.must
      /\ Cardinality(v.may) = Cardinality(w.may) => v.may = w.may
    BY <1>3, <1>4, FS_Subset
<1>6. /\ Cardinality(State) \in Nat /\ Cardinality(v.must) \in Nat /\ Cardinality(v.may) \in Nat
      /\ Cardinality(w.must) \in Nat /\ Cardinality(w.may) \in Nat
    BY <1>1, <1>4, <1>5, FS_CardinalityType
<1>7. v # w => v.must # w.must \/ v.may # w.may
    BY <1>2
<1>8. QED
    BY <1>4, <1>5, <1>6, <1>7 DEF Size

Monotone(F) == \A v, w \in Trits : Below(v, w) => Below(F[v], F[w])

(* w is a fixpoint of F, in every set that the iteration stays in.         *)
Converged(op, F, w) ==
    /\ w \in Trits /\ F[w] = w
    /\ \A S \in SUBSET Trits : Start(op) \in S /\ Closed(F, S) => w \in S

(* eval_fixpoint_generic has no bound on its iterations.  With a monotone  *)
(* body it ends, at a fixpoint of the body, and what every iterate from    *)
(* the start keeps, the result has.                                        *)
LEMMA FixpointFacts ==
    ASSUME NEW F \in [Trits -> Trits], Monotone(F), NEW op \in {"mu", "nu"}
    PROVE  Converged(op, F, eval_fixpoint(op, F))
<1>1. PICK h : IsLoop(F, h) /\ eval_fixpoint(op, F) = h[Start(op)]
    BY FixpointLoop
<1>2. all_false \in Trits /\ all_true \in Trits
    BY DEF all_false, all_true, trits, Trits
<1>3. CASE op = "mu"
    <2> DEFINE U == {v \in Trits : Below(v, F[v])}
               r == [v \in U |-> 2 * Cardinality(State) - Size(v)]
    <2>1. Closed(F, U)
        BY DEF Closed, Monotone
    <2>2. Start(op) \in U
        BY <1>2, <1>3 DEF Start, all_false, trits, Below
    <2>3. r \in [U -> Nat]
        <3>1. ASSUME NEW v \in U
              PROVE  2 * Cardinality(State) - Size(v) \in Nat
            <4>1. v \in Trits /\ Below(v, v)
                BY DEF Below
            <4>2. QED
                BY <4>1, SizeFacts
        <3>2. QED
            BY <3>1
    <2>4. ASSUME NEW v \in U, F[v] # v
          PROVE  r[F[v]] < r[v]
        <3>1. F[v] \in U /\ v \in Trits /\ F[v] \in Trits /\ Below(v, F[v])
            BY <2>1 DEF Closed
        <3>2. Size(v) \in Nat /\ Size(F[v]) \in Nat /\ Size(v) < Size(F[v]) /\ Cardinality(State) \in Nat
            BY <2>4, <3>1, SizeFacts
        <3>3. QED
            BY <3>1, <3>2
    <2> HIDE DEF r
    <2>5. QED
        BY <1>1, <2>1, <2>2, <2>3, <2>4, Descent DEF Converged
<1>4. CASE op = "nu"
    <2> DEFINE U == {v \in Trits : Below(F[v], v)}
               r == [v \in U |-> Size(v)]
    <2>1. Closed(F, U)
        BY DEF Closed, Monotone
    <2>2. Start(op) \in U
        <3>1. Below(F[all_true], all_true)
            BY <1>2 DEF all_true, trits, Below, Trits
        <3>2. QED
            BY <1>2, <1>4, <3>1 DEF Start
    <2>3. r \in [U -> Nat]
        <3>1. ASSUME NEW v \in U
              PROVE  Size(v) \in Nat
            <4>1. v \in Trits /\ Below(v, v)
                BY DEF Below
            <4>2. QED
                BY <4>1, SizeFacts
        <3>2. QED
            BY <3>1
    <2>4. ASSUME NEW v \in U, F[v] # v
          PROVE  r[F[v]] < r[v]
        <3>1. F[v] \in U /\ v \in Trits /\ F[v] \in Trits /\ Below(F[v], v)
            BY <2>1 DEF Closed
        <3>2. Size(F[v]) < Size(v)
            BY <2>4, <3>1, SizeFacts
        <3>3. QED
            BY <3>1, <3>2
    <2> HIDE DEF r
    <2>5. QED
        BY <1>1, <2>1, <2>2, <2>3, <2>4, Descent DEF Converged
<1>5. QED
    BY <1>3, <1>4

-----------------------------------------------------------------------------
(* The recursion over the nodes: the evaluator.                            *)

Envs(f) == [variables(f) -> Trits]
NodeValue(m, f, val, n) == [b \in Envs(f) |-> eval_node(m, f.node[n], val, b)]

(* A node's value depends on the values of its operands, which have        *)
(* smaller ids.                                                            *)
LEMMA NodeValueLocal ==
    ASSUME NEW m, NEW f, IsArena(f), NEW n \in DOMAIN f.node, NEW g, NEW h,
           \A i \in 1..(n - 1) : g[i] = h[i]
    PROVE  NodeValue(m, f, g, n) = NodeValue(m, f, h, n)
<1> DEFINE nd == f.node[n]
<1>1. SUFFICES ASSUME NEW b \in Envs(f)
               PROVE  eval_node(m, nd, g, b) = eval_node(m, nd, h, b)
    BY DEF NodeValue
<1>2. CASE nd.op \in {"pred", "var"}
    BY <1>2 DEF eval_node
<1>3. CASE nd.op = "not"
    <2>1. g[nd.l] = h[nd.l]
        BY <1>3 DEF IsArena
    <2>2. QED
        BY <1>3, <2>1 DEF eval_node
<1>4. CASE nd.op \in {"and", "or"}
    <2>1. g[nd.l] = h[nd.l] /\ g[nd.r] = h[nd.r]
        BY <1>4 DEF IsArena
    <2>2. QED
        BY <1>4, <2>1 DEF eval_node
<1>5. CASE nd.op \in {"dia", "box"}
    <2>1. g[nd.l] = h[nd.l]
        BY <1>5 DEF IsArena
    <2>2. QED
        BY <1>5, <2>1 DEF eval_node
<1>6. CASE nd.op \in {"mu", "nu"}
    <2>1. g[nd.body] = h[nd.body]
        BY <1>6 DEF IsArena
    <2>2. QED
        BY <1>6, <2>1 DEF eval_node
<1>7. QED
    BY <1>2, <1>3, <1>4, <1>5, <1>6 DEF IsArena

(* The equation can be met up to any node.                                 *)
LEMMA PartialEvaluate ==
    ASSUME NEW m, NEW f, IsArena(f), NEW k \in 0..Len(f.node)
    PROVE  \E g : \A n \in 1..k : g[n] = NodeValue(m, f, g, n)
<1> DEFINE Ok(j) == \E g : \A n \in 1..j : g[n] = NodeValue(m, f, g, n)
           Bad == {j \in 0..Len(f.node) : ~ Ok(j)}
<1>1. Len(f.node) \in Nat /\ DOMAIN f.node = 1..Len(f.node)
    BY DEF IsArena
<1>2. Ok(0)
    OBVIOUS
<1>3. ASSUME NEW x \in 1..Len(f.node), Ok(x - 1)
      PROVE  Ok(x)
    <2>1. PICK g : \A n \in 1..(x - 1) : g[n] = NodeValue(m, f, g, n)
        BY <1>3
    <2> DEFINE h == [i \in 1..x |-> IF i = x THEN NodeValue(m, f, g, x) ELSE g[i]]
    <2>2. ASSUME NEW n \in 1..x
          PROVE  h[n] = NodeValue(m, f, h, n)
        <3>1. n \in DOMAIN f.node /\ n - 1 < x /\ x \in Int
            BY <1>1
        <3>2. \A i \in 1..(n - 1) : i \in 1..x /\ i # x
            BY <3>1
        <3>3. \A i \in 1..(n - 1) : g[i] = h[i]
            BY <3>2
        <3>4. h[n] = NodeValue(m, f, g, n)
            BY <2>1, <1>1
        <3> HIDE DEF h
        <3>5. NodeValue(m, f, g, n) = NodeValue(m, f, h, n)
            BY <3>1, <3>3, NodeValueLocal
        <3>6. QED
            BY <3>4, <3>5
    <2> HIDE DEF h
    <2>3. QED
        BY <2>2
<1> HIDE DEF Ok
<1>4. ASSUME Bad # {}
      PROVE  FALSE
    <2>1. Bad \in SUBSET Nat
        BY <1>1
    <2>2. PICK x \in Bad : \A y \in Bad : x <= y
        <3> HIDE DEF Bad
        <3>1. QED
            BY <1>4, <2>1, LeastIn
    <2>3. x # 0
        BY <1>2, <2>2
    <2>4. x \in 1..Len(f.node) /\ x - 1 \in 0..Len(f.node) /\ x - 1 \notin Bad
        BY <1>1, <2>2, <2>3
    <2>5. QED
        BY <1>3, <2>2, <2>4
<1>5. Ok(k)
    BY <1>4
<1>6. QED
    BY <1>5 DEF Ok

(* The evaluator meets it at every node.                                   *)
LEMMA EvaluateEq ==
    ASSUME NEW m, NEW f, IsArena(f), NEW n \in DOMAIN f.node
    PROVE  evaluate(m, f)[n] = NodeValue(m, f, evaluate(m, f), n)
<1> DEFINE Def(h) == [i \in DOMAIN f.node |-> NodeValue(m, f, h, i)]
<1>1. Len(f.node) \in Nat /\ DOMAIN f.node = 1..Len(f.node)
    BY DEF IsArena
<1>2. PICK g : \A i \in 1..Len(f.node) : g[i] = NodeValue(m, f, g, i)
    <2>1. Len(f.node) \in 0..Len(f.node)
        BY <1>1
    <2>2. QED
        BY <2>1, PartialEvaluate
<1> DEFINE h == [i \in DOMAIN f.node |-> g[i]]
<1>3. ASSUME NEW i \in DOMAIN f.node
      PROVE  h[i] = NodeValue(m, f, h, i)
    <2>1. \A j \in 1..(i - 1) : g[j] = h[j]
        BY <1>1
    <2>2. NodeValue(m, f, g, i) = NodeValue(m, f, h, i)
        <3> HIDE DEF h
        <3>1. QED
            BY <2>1, NodeValueLocal
    <2>3. QED
        BY <1>1, <1>2, <2>2
<1>4. h = Def(h)
    BY <1>3
<1>5. evaluate(m, f) = CHOOSE val : val = Def(val)
    BY DEF evaluate, NodeValue, Envs
<1> HIDE DEF h
<1>6. evaluate(m, f) = Def(evaluate(m, f))
    <2> HIDE DEF Def
    <2>1. QED
        BY <1>4, <1>5
<1>7. QED
    BY <1>6

-----------------------------------------------------------------------------
(* The recursion over the nodes: the reference.                            *)

Sets(f) == [variables(f) -> SUBSET State]
NodeMeaning(c, f, sat, n) == [b \in Sets(f) |-> Meaning(c, f.node[n], sat, b)]

(* A node's value depends on the values of its operands, which have        *)
(* smaller ids.                                                            *)
LEMMA NodeMeaningLocal ==
    ASSUME NEW c, NEW f, IsArena(f), NEW n \in DOMAIN f.node, NEW g, NEW h,
           \A i \in 1..(n - 1) : g[i] = h[i]
    PROVE  NodeMeaning(c, f, g, n) = NodeMeaning(c, f, h, n)
<1> DEFINE nd == f.node[n]
<1>1. SUFFICES ASSUME NEW b \in Sets(f)
               PROVE  Meaning(c, nd, g, b) = Meaning(c, nd, h, b)
    BY DEF NodeMeaning
<1>2. CASE nd.op \in {"pred", "var"}
    BY <1>2 DEF Meaning
<1>3. CASE nd.op = "not"
    <2>1. g[nd.l] = h[nd.l]
        BY <1>3 DEF IsArena
    <2>2. QED
        BY <1>3, <2>1 DEF Meaning
<1>4. CASE nd.op \in {"and", "or"}
    <2>1. g[nd.l] = h[nd.l] /\ g[nd.r] = h[nd.r]
        BY <1>4 DEF IsArena
    <2>2. QED
        BY <1>4, <2>1 DEF Meaning
<1>5. CASE nd.op \in {"dia", "box"}
    <2>1. g[nd.l] = h[nd.l]
        BY <1>5 DEF IsArena
    <2>2. QED
        BY <1>5, <2>1 DEF Meaning
<1>6. CASE nd.op \in {"mu", "nu"}
    <2>1. g[nd.body] = h[nd.body]
        BY <1>6 DEF IsArena
    <2>2. QED
        BY <1>6, <2>1 DEF Meaning
<1>7. QED
    BY <1>2, <1>3, <1>4, <1>5, <1>6 DEF IsArena

(* The equation can be met up to any node.                                 *)
LEMMA PartialSat ==
    ASSUME NEW c, NEW f, IsArena(f), NEW k \in 0..Len(f.node)
    PROVE  \E g : \A n \in 1..k : g[n] = NodeMeaning(c, f, g, n)
<1> DEFINE Ok(j) == \E g : \A n \in 1..j : g[n] = NodeMeaning(c, f, g, n)
           Bad == {j \in 0..Len(f.node) : ~ Ok(j)}
<1>1. Len(f.node) \in Nat /\ DOMAIN f.node = 1..Len(f.node)
    BY DEF IsArena
<1>2. Ok(0)
    OBVIOUS
<1>3. ASSUME NEW x \in 1..Len(f.node), Ok(x - 1)
      PROVE  Ok(x)
    <2>1. PICK g : \A n \in 1..(x - 1) : g[n] = NodeMeaning(c, f, g, n)
        BY <1>3
    <2> DEFINE h == [i \in 1..x |-> IF i = x THEN NodeMeaning(c, f, g, x) ELSE g[i]]
    <2>2. ASSUME NEW n \in 1..x
          PROVE  h[n] = NodeMeaning(c, f, h, n)
        <3>1. n \in DOMAIN f.node /\ n - 1 < x /\ x \in Int
            BY <1>1
        <3>2. \A i \in 1..(n - 1) : i \in 1..x /\ i # x
            BY <3>1
        <3>3. \A i \in 1..(n - 1) : g[i] = h[i]
            BY <3>2
        <3>4. h[n] = NodeMeaning(c, f, g, n)
            BY <2>1, <1>1
        <3> HIDE DEF h
        <3>5. NodeMeaning(c, f, g, n) = NodeMeaning(c, f, h, n)
            BY <3>1, <3>3, NodeMeaningLocal
        <3>6. QED
            BY <3>4, <3>5
    <2> HIDE DEF h
    <2>3. QED
        BY <2>2
<1> HIDE DEF Ok
<1>4. ASSUME Bad # {}
      PROVE  FALSE
    <2>1. Bad \in SUBSET Nat
        BY <1>1
    <2>2. PICK x \in Bad : \A y \in Bad : x <= y
        <3> HIDE DEF Bad
        <3>1. QED
            BY <1>4, <2>1, LeastIn
    <2>3. x # 0
        BY <1>2, <2>2
    <2>4. x \in 1..Len(f.node) /\ x - 1 \in 0..Len(f.node) /\ x - 1 \notin Bad
        BY <1>1, <2>2, <2>3
    <2>5. QED
        BY <1>3, <2>2, <2>4
<1>5. Ok(k)
    BY <1>4
<1>6. QED
    BY <1>5 DEF Ok

(* The reference meets it at every node.                                   *)
LEMMA SatEq ==
    ASSUME NEW c, NEW f, IsArena(f), NEW n \in DOMAIN f.node
    PROVE  Sat(c, f)[n] = NodeMeaning(c, f, Sat(c, f), n)
<1> DEFINE Def(h) == [i \in DOMAIN f.node |-> NodeMeaning(c, f, h, i)]
<1>1. Len(f.node) \in Nat /\ DOMAIN f.node = 1..Len(f.node)
    BY DEF IsArena
<1>2. PICK g : \A i \in 1..Len(f.node) : g[i] = NodeMeaning(c, f, g, i)
    <2>1. Len(f.node) \in 0..Len(f.node)
        BY <1>1
    <2>2. QED
        BY <2>1, PartialSat
<1> DEFINE h == [i \in DOMAIN f.node |-> g[i]]
<1>3. ASSUME NEW i \in DOMAIN f.node
      PROVE  h[i] = NodeMeaning(c, f, h, i)
    <2>1. \A j \in 1..(i - 1) : g[j] = h[j]
        BY <1>1
    <2>2. NodeMeaning(c, f, g, i) = NodeMeaning(c, f, h, i)
        <3> HIDE DEF h
        <3>1. QED
            BY <2>1, NodeMeaningLocal
    <2>3. QED
        BY <1>1, <1>2, <2>2
<1>4. h = Def(h)
    BY <1>3
<1>5. Sat(c, f) = CHOOSE val : val = Def(val)
    BY DEF Sat, NodeMeaning, Sets
<1> HIDE DEF h
<1>6. Sat(c, f) = Def(Sat(c, f))
    <2> HIDE DEF Def
    <2>1. QED
        BY <1>4, <1>5
<1>7. QED
    BY <1>6

-----------------------------------------------------------------------------
(* The modal operators: typed, monotone, and what is sure is possible.     *)

Consistent(v) == v.must \subseteq v.may

(* An image is a TritSet.                                                  *)
LEMMA ImageTyped ==
    ASSUME NEW m, NEW nd, NEW v
    PROVE  modal_image(m, nd, v) \in Trits
BY DEF modal_image, modal_image_all, modal_trit_from_target, trits, Trits

(* Both passes grow with the value the modality is applied to.             *)
LEMMA ImageMonotone ==
    ASSUME NEW m, NEW nd, NEW v, NEW w, Below(v, w)
    PROVE  Below(modal_image(m, nd, v), modal_image(m, nd, w))
<1>1. /\ \A e : target_in_set_all(e, v.must) => target_in_set_all(e, w.must)
      /\ \A e : target_in_set_all(e, v.may) => target_in_set_all(e, w.may)
      /\ \A e : target_in_set_any(e, v.may) => target_in_set_any(e, w.may)
      /\ \A e : target(e) \in v.must => target(e) \in w.must
      /\ \A e : target(e) \in v.may => target(e) \in w.may
    BY DEF Below, target_in_set_all, target_in_set_any
<1>2. CASE nd.control = "all"
    <2>1. Below(modal_image_all(m, nd.op, v), modal_image_all(m, nd.op, w))
        BY <1>1 DEF modal_image_all, modal_exists, modal_forall, trits, Below
    <2>2. QED
        BY <1>2, <2>1 DEF modal_image
<1>3. CASE nd.control # "all"
    <2>1. ASSUME NEW es
          PROVE  /\ modal_trit_core(es, nd.control, v).must => modal_trit_core(es, nd.control, w).must
                 /\ modal_trit_core(es, nd.control, v).may => modal_trit_core(es, nd.control, w).may
        BY <1>1 DEF modal_trit_core
    <2>2. Below(modal_trit_from_target(m, nd.control, v), modal_trit_from_target(m, nd.control, w))
        BY <2>1 DEF modal_trit_from_target, trits, Below
    <2>3. QED
        BY <1>3, <2>2 DEF modal_image
<1>4. QED
    BY <1>2, <1>3

(* The must pass asks for more than the may pass: a transition has a       *)
(* target.                                                                 *)
LEMMA ImageConsistent ==
    ASSUME NEW m, IsSystem(m), NEW nd, NEW v, Consistent(v)
    PROVE  Consistent(modal_image(m, nd, v))
<1>1. CASE nd.control = "all"
    <2>1. ASSUME NEW s \in State, NEW e \in out(m, s), target_in_set_all(e, v.must)
          PROVE  target_in_set_any(e, v.may) /\ target_in_set_all(e, v.may)
        <3>1. target(e) \in targets(e)
            BY DEF IsSystem, target, targets
        <3>2. QED
            BY <2>1, <3>1 DEF target_in_set_all, target_in_set_any, Consistent
    <2>2. \A e : target(e) \in v.must => target(e) \in v.may
        BY DEF Consistent
    <2>3. Consistent(modal_image_all(m, nd.op, v))
        BY <2>1, <2>2 DEF modal_image_all, modal_exists, modal_forall, allows, trits, Consistent
    <2>4. QED
        BY <1>1, <2>3 DEF modal_image
<1>2. CASE nd.control # "all"
    BY <1>2 DEF modal_image, modal_trit_from_target, trits, Consistent
<1>3. QED
    BY <1>1, <1>2

-----------------------------------------------------------------------------
(* The values of the nodes.                                                *)

(* b is below c where a variable has sign s, and above it where it has not. *)
EnvBelow(g, s, b, c) ==
    \A x \in DOMAIN g.var : IF g.var[x] = s THEN Below(b[x], c[x]) ELSE Below(c[x], b[x])

(* A node's value is a TritSet, grows with the variables of the node's     *)
(* sign and shrinks with the others, and is consistent when they are.      *)
Typed(f, val, n)    == \A b \in Envs(f) : val[n][b] \in Trits
Mono(f, g, val, n)  == \A b, c \in Envs(f) : EnvBelow(g, g.node[n], b, c) => Below(val[n][b], val[n][c])
Sane(f, val, n)     == \A b \in Envs(f) :
                          (\A x \in variables(f) : Consistent(b[x])) => Consistent(val[n][b])
Fine(f, g, val, n)  == Typed(f, val, n) /\ Mono(f, g, val, n) /\ Sane(f, val, n)

(* The body of a fixpoint node, as a function of its variable.             *)
Body(nd, val, b) == [v \in Trits |-> val[nd.body][bind(b, nd.var, v)]]

(* The variable of a node has the sign of the node, and bind changes it    *)
(* alone.                                                                  *)
LEMMA BindFacts ==
    ASSUME NEW f, NEW n \in DOMAIN f.node, f.node[n].op \in {"var", "mu", "nu"},
           NEW g \in Signings(f)
    PROVE  /\ f.node[n].var \in variables(f) /\ DOMAIN g.var = variables(f)
           /\ g.var[f.node[n].var] = g.node[n] /\ g.node[n] \in BOOLEAN
           /\ \A b \in Envs(f), v \in Trits :
                /\ bind(b, f.node[n].var, v) \in Envs(f)
                /\ bind(b, f.node[n].var, v)[f.node[n].var] = v
                /\ \A y \in variables(f) \ {f.node[n].var} : bind(b, f.node[n].var, v)[y] = b[y]
<1>1. f.node[n].var \in variables(f)
    BY DEF variables, Named
<1>2. g.var \in [variables(f) -> BOOLEAN] /\ g.node \in [DOMAIN f.node -> BOOLEAN]
    BY DEF Signings
<1>3. g.var[f.node[n].var] = g.node[n]
    BY DEF Signings, Signed
<1>4. QED
    BY <1>1, <1>2, <1>3 DEF Envs, bind

(* The body of a fixpoint is a monotone function.                          *)
LEMMA BodyMonotone ==
    ASSUME NEW f, NEW n \in DOMAIN f.node, f.node[n].op \in {"mu", "nu"},
           NEW g \in Signings(f), NEW val, Fine(f, g, val, f.node[n].body),
           NEW b \in Envs(f), NEW c \in Envs(f), EnvBelow(g, g.node[n], b, c)
    PROVE  /\ Body(f.node[n], val, b) \in [Trits -> Trits]
           /\ \A v, w \in Trits : Below(v, w) =>
                Below(Body(f.node[n], val, b)[v], Body(f.node[n], val, c)[w])
<1> DEFINE nd == f.node[n]
<1>1. g.node[nd.body] = g.node[n]
    BY DEF Signings, Signed
<1>2. ASSUME NEW v \in Trits
      PROVE  val[nd.body][bind(b, nd.var, v)] \in Trits
    BY BindFacts DEF Fine, Typed
<1>3. ASSUME NEW v \in Trits, NEW w \in Trits, Below(v, w)
      PROVE  Below(val[nd.body][bind(b, nd.var, v)], val[nd.body][bind(c, nd.var, w)])
    <2>1. bind(b, nd.var, v) \in Envs(f) /\ bind(c, nd.var, w) \in Envs(f)
        BY BindFacts
    <2>2. EnvBelow(g, g.node[n], bind(b, nd.var, v), bind(c, nd.var, w))
        BY <1>3, BindFacts DEF EnvBelow
    <2>3. QED
        BY <1>1, <2>1, <2>2 DEF Fine, Mono
<1>4. QED
    BY <1>2, <1>3 DEF Body

(* An environment is below itself.                                         *)
LEMMA EnvBelowRefl ==
    ASSUME NEW g, NEW s, NEW b
    PROVE  EnvBelow(g, s, b, b)
BY DEF EnvBelow, Below

(* What a fixpoint node's iteration gives, whatever its environment.       *)
LEMMA FixpointNode ==
    ASSUME NEW f, NEW n \in DOMAIN f.node, f.node[n].op \in {"mu", "nu"},
           NEW g \in Signings(f), NEW val, Fine(f, g, val, f.node[n].body), NEW b \in Envs(f)
    PROVE  /\ Body(f.node[n], val, b) \in [Trits -> Trits]
           /\ Converged(f.node[n].op, Body(f.node[n], val, b),
                        eval_fixpoint(f.node[n].op, Body(f.node[n], val, b)))
<1> DEFINE F == Body(f.node[n], val, b)
<1>1. F \in [Trits -> Trits] /\ Monotone(F)
    BY BodyMonotone, EnvBelowRefl DEF Monotone
<1> HIDE DEF F
<1>2. Converged(f.node[n].op, F, eval_fixpoint(f.node[n].op, F))
    BY <1>1, FixpointFacts
<1>3. QED
    BY <1>1, <1>2 DEF F

(* A fixpoint node is fine when its body is.                               *)
LEMMA FixpointFine ==
    ASSUME NEW f, NEW n \in DOMAIN f.node, f.node[n].op \in {"mu", "nu"},
           NEW g \in Signings(f), NEW val, Fine(f, g, val, f.node[n].body),
           \A b \in Envs(f) : val[n][b] = eval_fixpoint(f.node[n].op, Body(f.node[n], val, b))
    PROVE  Fine(f, g, val, n)
<1> DEFINE nd == f.node[n]
           F(b) == Body(nd, val, b)
           w(b) == eval_fixpoint(nd.op, F(b))
<1>1. ASSUME NEW b \in Envs(f)
      PROVE  /\ w(b) \in Trits /\ F(b)[w(b)] = w(b) /\ F(b) \in [Trits -> Trits]
             /\ \A S \in SUBSET Trits : Start(nd.op) \in S /\ Closed(F(b), S) => w(b) \in S
    <2>1. F(b) \in [Trits -> Trits] /\ Converged(nd.op, F(b), w(b))
        BY FixpointNode
    <2> HIDE DEF F, w
    <2>2. QED
        BY <2>1 DEF Converged
<1>2. Typed(f, val, n)
    BY <1>1 DEF Typed
<1>3. ASSUME NEW b \in Envs(f), NEW c \in Envs(f), EnvBelow(g, g.node[n], b, c)
      PROVE  Below(w(b), w(c))
    <2>1. \A v, u \in Trits : Below(v, u) => Below(F(b)[v], F(c)[u])
        BY <1>3, BodyMonotone
    <2> HIDE DEF F
    <2>2. CASE nd.op = "mu"
        <3> DEFINE S == {v \in Trits : Below(v, w(c))}
        <3>1. Start(nd.op) \in S
            BY <2>2 DEF Start, all_false, trits, Trits, Below
        <3>2. Closed(F(b), S)
            <4> HIDE DEF w
            <4>1. QED
                BY <1>1, <2>1 DEF Closed
        <3>3. QED
            BY <1>1, <3>1, <3>2
    <2>3. CASE nd.op = "nu"
        <3> DEFINE S == {v \in Trits : Below(w(b), v)}
        <3>1. Start(nd.op) \in S
            <4>1. w(b) \in Trits
                BY <1>1
            <4> HIDE DEF w
            <4>2. QED
                BY <2>3, <4>1 DEF Start, all_true, trits, Trits, Below
        <3>2. Closed(F(c), S)
            <4> HIDE DEF w
            <4>1. QED
                BY <1>1, <2>1 DEF Closed
        <3>3. QED
            BY <1>1, <3>1, <3>2
    <2>4. QED
        BY <2>2, <2>3
<1>4. ASSUME NEW b \in Envs(f), \A x \in variables(f) : Consistent(b[x])
      PROVE  Consistent(w(b))
    <2> DEFINE S == {v \in Trits : Consistent(v)}
    <2>1. Start(nd.op) \in S
        BY DEF Start, all_false, all_true, trits, Trits, Consistent
    <2>2. ASSUME NEW v \in S
          PROVE  F(b)[v] \in S
        <3>1. /\ bind(b, nd.var, v) \in Envs(f)
              /\ \A x \in variables(f) : Consistent(bind(b, nd.var, v)[x])
            BY <1>4, BindFacts
        <3>2. Consistent(val[nd.body][bind(b, nd.var, v)])
            BY <3>1 DEF Fine, Sane
        <3>3. F(b)[v] = val[nd.body][bind(b, nd.var, v)]
            BY DEF Body
        <3>4. QED
            BY <1>1, <3>2, <3>3
    <2>3. Closed(F(b), S)
        BY <2>2 DEF Closed
    <2>4. QED
        BY <1>1, <2>1, <2>3
<1>5. Mono(f, g, val, n)
    BY <1>3 DEF Mono
<1>6. Sane(f, val, n)
    BY <1>4 DEF Sane
<1>7. QED
    BY <1>2, <1>5, <1>6 DEF Fine

(* What evaluate gives at a node.                                          *)
LEMMA ValueAt ==
    ASSUME NEW m, NEW f, IsArena(f), NEW n \in DOMAIN f.node, NEW b \in Envs(f)
    PROVE  evaluate(m, f)[n][b] = eval_node(m, f.node[n], evaluate(m, f), b)
<1>1. evaluate(m, f)[n] = NodeValue(m, f, evaluate(m, f), n)
    BY EvaluateEq
<1>2. NodeValue(m, f, evaluate(m, f), n)[b] = eval_node(m, f.node[n], evaluate(m, f), b)
    BY DEF NodeValue
<1>3. QED
    BY <1>1, <1>2

(* Negation is antitone and keeps must within may.                         *)
LEMMA NotTrits ==
    ASSUME NEW v \in Trits, NEW w \in Trits
    PROVE  /\ trit_not(v) \in Trits
           /\ Below(v, w) => Below(trit_not(w), trit_not(v))
           /\ Consistent(v) => Consistent(trit_not(v))
BY DEF trit_not, trits, Trits, Below, Consistent

(* Conjunction and disjunction are monotone and keep must within may.      *)
LEMMA BothTrits ==
    ASSUME NEW v \in Trits, NEW w \in Trits, NEW v2 \in Trits, NEW w2 \in Trits
    PROVE  /\ trit_and(v, w) \in Trits /\ trit_or(v, w) \in Trits
           /\ Below(v, v2) /\ Below(w, w2) =>
                Below(trit_and(v, w), trit_and(v2, w2)) /\ Below(trit_or(v, w), trit_or(v2, w2))
           /\ Consistent(v) /\ Consistent(w) => Consistent(trit_and(v, w)) /\ Consistent(trit_or(v, w))
<1>1. trit_and(v, w) \in Trits /\ trit_or(v, w) \in Trits
    BY DEF trit_and, trit_or, trits, Trits
<1>2. Below(v, v2) /\ Below(w, w2) =>
        Below(trit_and(v, w), trit_and(v2, w2)) /\ Below(trit_or(v, w), trit_or(v2, w2))
    BY DEF trit_and, trit_or, trits, Below
<1>3. Consistent(v) /\ Consistent(w) => Consistent(trit_and(v, w)) /\ Consistent(trit_or(v, w))
    BY DEF trit_and, trit_or, trits, Consistent
<1>4. QED
    BY <1>1, <1>2, <1>3

(* A node is fine when those before it are.                                *)
LEMMA NodeFine ==
    ASSUME NEW m, IsSystem(m), NEW f, IsArena(f), NEW g \in Signings(f), NEW n \in DOMAIN f.node,
           \A k \in 1..(n - 1) : Fine(f, g, evaluate(m, f), k)
    PROVE  Fine(f, g, evaluate(m, f), n)
<1> DEFINE nd  == f.node[n]
           val == evaluate(m, f)
<1>1. \A b \in Envs(f) : val[n][b] = eval_node(m, nd, val, b)
    BY ValueAt
<1>2. g.node \in [DOMAIN f.node -> BOOLEAN] /\ g.var \in [variables(f) -> BOOLEAN]
    BY DEF Signings
<1> HIDE DEF val
<1>3. CASE nd.op = "pred"
    <2>1. \A b \in Envs(f) : val[n][b] = predicate(m)
        BY <1>1, <1>3 DEF eval_node
    <2>2. predicate(m) \in Trits /\ Below(predicate(m), predicate(m)) /\ Consistent(predicate(m))
        BY DEF predicate, trits, Trits, Below, Consistent
    <2>3. QED
        BY <2>1, <2>2 DEF Fine, Typed, Mono, Sane, val
<1>4. CASE nd.op = "var"
    <2>1. \A b \in Envs(f) : val[n][b] = b[nd.var]
        BY <1>1, <1>4 DEF eval_node
    <2>2. nd.var \in variables(f) /\ g.var[nd.var] = g.node[n] /\ DOMAIN g.var = variables(f)
        BY <1>4, BindFacts
    <2>3. \A b \in Envs(f) : b[nd.var] \in Trits
        BY <2>2 DEF Envs
    <2>4. Typed(f, val, n) /\ Sane(f, val, n)
        BY <2>1, <2>2, <2>3 DEF Typed, Sane
    <2>5. Mono(f, g, val, n)
        BY <2>1, <2>2 DEF Mono, EnvBelow
    <2>6. QED
        BY <2>4, <2>5 DEF Fine, val
<1>5. CASE nd.op = "not"
    <2>1. \A b \in Envs(f) : val[n][b] = trit_not(val[nd.l][b])
        BY <1>1, <1>5 DEF eval_node
    <2>2. Fine(f, g, val, nd.l) /\ nd.l \in DOMAIN f.node
        BY <1>5 DEF IsArena, val
    <2>3. g.node[nd.l] = ~ g.node[n]
        BY <1>5 DEF Signings, Signed
    <2>4. ASSUME NEW b \in Envs(f), NEW c \in Envs(f), EnvBelow(g, g.node[n], b, c)
          PROVE  EnvBelow(g, g.node[nd.l], c, b)
        BY <1>2, <2>3, <2>4 DEF EnvBelow
    <2>5. Typed(f, val, n)
        BY <2>1, <2>2, NotTrits DEF Fine, Typed
    <2>6. Mono(f, g, val, n)
        <3>1. ASSUME NEW b \in Envs(f), NEW c \in Envs(f), EnvBelow(g, g.node[n], b, c)
              PROVE  Below(val[n][b], val[n][c])
            <4>1. Below(val[nd.l][c], val[nd.l][b])
                BY <2>2, <2>4, <3>1 DEF Fine, Mono
            <4>2. val[nd.l][b] \in Trits /\ val[nd.l][c] \in Trits
                BY <2>2 DEF Fine, Typed
            <4>3. QED
                BY <2>1, <4>1, <4>2, NotTrits
        <3>2. QED
            BY <3>1 DEF Mono
    <2>7. Sane(f, val, n)
        BY <2>1, <2>2, NotTrits DEF Fine, Typed, Sane
    <2>8. QED
        BY <2>5, <2>6, <2>7 DEF Fine, val
<1>6. CASE nd.op \in {"and", "or"}
    <2>1. \A b \in Envs(f) : val[n][b] = IF nd.op = "and" THEN trit_and(val[nd.l][b], val[nd.r][b])
                                                          ELSE trit_or(val[nd.l][b], val[nd.r][b])
        BY <1>1, <1>6 DEF eval_node
    <2>2. Fine(f, g, val, nd.l) /\ Fine(f, g, val, nd.r)
        BY <1>6 DEF IsArena, val
    <2>3. g.node[nd.l] = g.node[n] /\ g.node[nd.r] = g.node[n]
        BY <1>6 DEF Signings, Signed
    <2>4. \A b \in Envs(f) : val[nd.l][b] \in Trits /\ val[nd.r][b] \in Trits
        BY <2>2 DEF Fine, Typed
    <2>5. Typed(f, val, n)
        BY <2>1, <2>4, BothTrits DEF Typed
    <2>6. Mono(f, g, val, n)
        <3>1. ASSUME NEW b \in Envs(f), NEW c \in Envs(f), EnvBelow(g, g.node[n], b, c)
              PROVE  Below(val[n][b], val[n][c])
            <4>1. Below(val[nd.l][b], val[nd.l][c]) /\ Below(val[nd.r][b], val[nd.r][c])
                BY <2>2, <2>3, <3>1 DEF Fine, Mono
            <4>2. QED
                BY <2>1, <2>4, <4>1, BothTrits
        <3>2. QED
            BY <3>1 DEF Mono
    <2>7. Sane(f, val, n)
        <3>1. ASSUME NEW b \in Envs(f), \A x \in variables(f) : Consistent(b[x])
              PROVE  Consistent(val[n][b])
            <4>1. Consistent(val[nd.l][b]) /\ Consistent(val[nd.r][b])
                BY <2>2, <3>1 DEF Fine, Sane
            <4>2. QED
                BY <2>1, <2>4, <4>1, BothTrits
        <3>2. QED
            BY <3>1 DEF Sane
    <2>8. QED
        BY <2>5, <2>6, <2>7 DEF Fine, val
<1>7. CASE nd.op \in {"dia", "box"}
    <2>1. \A b \in Envs(f) : val[n][b] = modal_image(m, nd, val[nd.l][b])
        BY <1>1, <1>7 DEF eval_node
    <2>2. Fine(f, g, val, nd.l)
        BY <1>7 DEF IsArena, val
    <2>3. g.node[nd.l] = g.node[n]
        BY <1>7 DEF Signings, Signed
    <2>4. Typed(f, val, n)
        BY <2>1, ImageTyped DEF Typed
    <2>5. Mono(f, g, val, n)
        BY <2>1, <2>2, <2>3, ImageMonotone DEF Fine, Mono
    <2>6. Sane(f, val, n)
        BY <2>1, <2>2, ImageConsistent DEF Fine, Sane
    <2>7. QED
        BY <2>4, <2>5, <2>6 DEF Fine, val
<1>8. CASE nd.op \in {"mu", "nu"}
    <2>1. \A b \in Envs(f) : val[n][b] = eval_fixpoint(nd.op, Body(nd, val, b))
        BY <1>1, <1>8 DEF eval_node, Body
    <2>2. Fine(f, g, val, nd.body)
        BY <1>8 DEF IsArena, val
    <2>3. QED
        BY <1>8, <2>1, <2>2, FixpointFine DEF val
<1>9. QED
    BY <1>3, <1>4, <1>5, <1>6, <1>7, <1>8 DEF IsArena

(* Every node is fine.                                                     *)
LEMMA AllFine ==
    ASSUME NEW m, IsSystem(m), NEW f, IsArena(f), NEW g \in Signings(f)
    PROVE  \A n \in DOMAIN f.node : Fine(f, g, evaluate(m, f), n)
<1> DEFINE Bad == {n \in DOMAIN f.node : ~ Fine(f, g, evaluate(m, f), n)}
<1>1. Len(f.node) \in Nat /\ DOMAIN f.node = 1..Len(f.node)
    BY DEF IsArena
<1>2. ASSUME Bad # {}
      PROVE  FALSE
    <2>1. Bad \in SUBSET Nat
        BY <1>1
    <2>2. PICK x \in Bad : \A y \in Bad : x <= y
        <3> HIDE DEF Bad
        <3>1. QED
            BY <1>2, <2>1, LeastIn
    <2>3. \A k \in 1..(x - 1) : k \in DOMAIN f.node /\ ~ (x <= k)
        BY <1>1, <2>2
    <2>4. \A k \in 1..(x - 1) : Fine(f, g, evaluate(m, f), k)
        BY <2>2, <2>3
    <2>5. QED
        BY <2>2, <2>4, NodeFine
<1>3. QED
    BY <1>2

-----------------------------------------------------------------------------
(* The modal operators against the systems the abstraction stands for.     *)

(* A move comes from a transition, and a transition that is not MayOnly    *)
(* gives a move to one of its targets.                                     *)
Implements(m, c) ==
    \A s \in State :
        /\ \A mv \in c.moves[s] : \E e \in out(m, s) : mv[1] = e.ctrl /\ mv[2] \in targets(e)
        /\ \A e \in out(m, s) : e.modality # "MayOnly" =>
               \E mv \in c.moves[s] : mv[1] = e.ctrl /\ mv[2] \in targets(e)

(* What a concretisation has in common with its abstraction.               *)
LEMMA ConcretisationFacts ==
    ASSUME NEW m, IsSystem(m), NEW c \in Concretisations(m)
    PROVE  /\ Implements(m, c)
           /\ predicate(m).must \subseteq c.holds /\ c.holds \subseteq predicate(m).may
<1>1. /\ \A s \in State : c.moves[s] \in Moves(m.out[s])
      /\ predicate(m).must \subseteq c.holds /\ c.holds \subseteq predicate(m).may
    BY DEF Concretisations
<1>2. SUFFICES ASSUME NEW s \in State
               PROVE  /\ \A mv \in c.moves[s] : \E e \in out(m, s) : mv[1] = e.ctrl /\ mv[2] \in targets(e)
                      /\ \A e \in out(m, s) : e.modality # "MayOnly" =>
                            \E mv \in c.moves[s] : mv[1] = e.ctrl /\ mv[2] \in targets(e)
    BY <1>1 DEF Implements
<1> DEFINE es == m.out[s]
<1>3. PICK ch \in [DOMAIN es -> SUBSET State] :
          /\ \A i \in DOMAIN es : ch[i] \in Choices(es[i])
          /\ c.moves[s] = UNION {{<<es[i].ctrl, t>> : t \in ch[i]} : i \in DOMAIN es}
    BY <1>1 DEF Moves
<1>4. ASSUME NEW i \in DOMAIN es
      PROVE  /\ ch[i] \subseteq targets(es[i])
             /\ es[i].modality # "MayOnly" => ch[i] # {}
    <2>1. es[i] \in out(m, s)
        BY DEF out
    <2>2. target(es[i]) \in targets(es[i])
        BY <2>1 DEF IsSystem, target, targets
    <2>3. ch[i] \in Choices(es[i])
        BY <1>3
    <2>4. es[i].modality \in {"Sharp", "MayOnly", "MustHyperOnly"}
        BY <2>1 DEF IsSystem
    <2>5. QED
        BY <2>2, <2>3, <2>4 DEF Choices
<1>5. ASSUME NEW mv \in c.moves[s]
      PROVE  \E e \in out(m, s) : mv[1] = e.ctrl /\ mv[2] \in targets(e)
    <2>1. PICK i \in DOMAIN es : \E t \in ch[i] : mv = <<es[i].ctrl, t>>
        BY <1>3
    <2>2. es[i] \in out(m, s)
        BY DEF out
    <2>3. mv[1] = es[i].ctrl /\ mv[2] \in targets(es[i])
        BY <1>4, <2>1
    <2>4. QED
        BY <2>2, <2>3
<1>6. ASSUME NEW e \in out(m, s), e.modality # "MayOnly"
      PROVE  \E mv \in c.moves[s] : mv[1] = e.ctrl /\ mv[2] \in targets(e)
    <2>1. PICK i \in DOMAIN es : e = es[i]
        BY DEF out
    <2>2. PICK t \in ch[i] : t \in targets(e)
        BY <1>4, <1>6, <2>1
    <2>3. <<es[i].ctrl, t>> \in c.moves[s]
        BY <1>3
    <2>4. <<es[i].ctrl, t>>[1] = e.ctrl /\ <<es[i].ctrl, t>>[2] = t
        BY <2>1
    <2>5. QED
        BY <2>2, <2>3, <2>4
<1>7. QED
    BY <1>5, <1>6

(* The nodes a modality can be.                                            *)
Modality(nd) == nd.op \in {"dia", "box"} /\ nd.control \in {"all", "controllable", "environment"}

(* A modality that is surely true of v holds of the moves into X, when X   *)
(* has all that is sure in v.                                              *)
LEMMA ImageMust ==
    ASSUME NEW m, IsSystem(m), NEW c, Implements(m, c), NEW nd, Modality(nd),
           NEW v, NEW X, v.must \subseteq X, ~ Loses(m, nd, "True")
    PROVE  modal_image(m, nd, v).must \subseteq {s \in State : Step(nd, c.moves[s], X)}
<1>1. SUFFICES ASSUME NEW s \in modal_image(m, nd, v).must
               PROVE  s \in State /\ Step(nd, c.moves[s], X)
    OBVIOUS
<1>2. s \in State
    BY DEF modal_image, modal_image_all, modal_trit_from_target, trits
<1>3. \A mv \in c.moves[s] : \E e \in out(m, s) : mv[1] = e.ctrl /\ mv[2] \in targets(e)
    BY <1>2 DEF Implements
<1>4. \A e \in out(m, s) : e.modality # "MayOnly" =>
          \E mv \in c.moves[s] : mv[1] = e.ctrl /\ mv[2] \in targets(e)
    BY <1>2 DEF Implements
<1>5. \A e \in out(m, s) : e.ctrl \in BOOLEAN /\ target(e) \in targets(e)
    BY <1>2 DEF IsSystem, target, targets
<1>6. CASE nd.control = "all" /\ nd.op = "dia"
    <2>1. PICK e \in out(m, s) : e.modality # "MayOnly" /\ targets(e) \subseteq v.must
        BY <1>1, <1>6 DEF modal_image, modal_image_all, modal_exists, allows, target_in_set_all, trits
    <2>2. PICK mv \in c.moves[s] : mv[1] = e.ctrl /\ mv[2] \in X
        BY <1>4, <2>1
    <2>3. mv[1] \in BOOLEAN
        BY <1>5, <2>2
    <2>4. QED
        BY <1>2, <1>6, <2>2, <2>3 DEF Step
<1>7. CASE nd.control = "all" /\ nd.op = "box"
    <2>1. \A e \in out(m, s) : IF e.ctrl THEN targets(e) \subseteq v.must ELSE target(e) \in v.must
        BY <1>1, <1>7 DEF modal_image, modal_image_all, modal_forall, allows, target_in_set_all, trits
    <2>2. ASSUME NEW e \in out(m, s), NEW t \in targets(e)
          PROVE  t \in X
        <3>1. PICK d \in out(m, s) : target(d) = t
            BY <1>2 DEF IsSystem
        <3>2. target(d) \in v.must
            BY <1>5, <2>1
        <3>3. QED
            BY <3>1, <3>2
    <2>3. \A mv \in c.moves[s] : mv[2] \in X
        BY <1>3, <2>2
    <2>4. QED
        BY <1>2, <1>7, <2>3 DEF Step
<1>8. CASE nd.control = "controllable"
    <2>1. modal_trit_core(out(m, s), "controllable", v).must
        BY <1>1, <1>2, <1>8 DEF modal_image, modal_trit_from_target, trits
    <2>2. /\ \A e \in out(m, s) : e.ctrl = FALSE => targets(e) \subseteq v.must
          /\ (\E e \in out(m, s) : e.ctrl = TRUE) =>
                \E e \in out(m, s) : e.ctrl = TRUE /\ e.modality # "MayOnly" /\ targets(e) \subseteq v.must
        BY <2>1 DEF modal_trit_core, target_in_set_all
    <2>3. \A mv \in c.moves[s] : mv[1] = FALSE => mv[2] \in X
        BY <1>3, <2>2
    <2>4. (\E mv \in c.moves[s] : mv[1] = TRUE) => \E mv \in c.moves[s] : mv[1] = TRUE /\ mv[2] \in X
        BY <1>3, <1>4, <2>2
    <2>5. QED
        BY <1>2, <1>8, <2>3, <2>4 DEF Step
<1>9. CASE nd.control = "environment"
    <2>1. modal_trit_core(out(m, s), "environment", v).must
        BY <1>1, <1>2, <1>9 DEF modal_image, modal_trit_from_target, trits
    <2>2. \/ \E e \in out(m, s) : e.ctrl = FALSE /\ e.modality # "MayOnly" /\ targets(e) \subseteq v.must
          \/ /\ \E e \in out(m, s) : e.ctrl = TRUE
             /\ \A e \in out(m, s) : e.ctrl = TRUE => targets(e) \subseteq v.must
        BY <2>1 DEF modal_trit_core, target_in_set_all
    <2>3. (\E e \in out(m, s) : e.ctrl = TRUE) =>
              \E e \in out(m, s) : e.ctrl = TRUE /\ e.modality # "MayOnly"
        BY <1>2, <1>9 DEF Loses
    <2>4. \/ \E mv \in c.moves[s] : mv[1] = FALSE /\ mv[2] \in X
          \/ /\ \E mv \in c.moves[s] : mv[1] = TRUE
             /\ \A mv \in c.moves[s] : mv[1] = TRUE => mv[2] \in X
        BY <1>3, <1>4, <2>2, <2>3
    <2>5. QED
        BY <1>2, <1>9, <2>4 DEF Step
<1>10. QED
    BY <1>6, <1>7, <1>8, <1>9 DEF Modality

(* A modality that holds of the moves into X is possible for v, when v may *)
(* hold in all of X.                                                       *)
LEMMA ImageMay ==
    ASSUME NEW m, IsSystem(m), NEW c, Implements(m, c), NEW nd, Modality(nd),
           NEW v, NEW X, X \subseteq v.may, ~ Loses(m, nd, "False")
    PROVE  {s \in State : Step(nd, c.moves[s], X)} \subseteq modal_image(m, nd, v).may
<1>1. SUFFICES ASSUME NEW s \in State, Step(nd, c.moves[s], X)
               PROVE  s \in modal_image(m, nd, v).may
    OBVIOUS
<1>2. \A mv \in c.moves[s] : \E e \in out(m, s) : mv[1] = e.ctrl /\ mv[2] \in targets(e)
    BY DEF Implements
<1>3. \A e \in out(m, s) : e.modality # "MayOnly" =>
          \E mv \in c.moves[s] : mv[1] = e.ctrl /\ mv[2] \in targets(e)
    BY DEF Implements
<1>4. \A e \in out(m, s) : e.ctrl \in BOOLEAN /\ target(e) \in targets(e)
    BY DEF IsSystem, target, targets
<1>5. CASE nd.control = "all" /\ nd.op = "dia"
    <2>1. PICK mv \in c.moves[s] : mv[2] \in X
        BY <1>1, <1>5 DEF Step
    <2>2. PICK e \in out(m, s) : mv[2] \in targets(e)
        BY <1>2
    <2>3. target_in_set_any(e, v.may)
        BY <2>1, <2>2 DEF target_in_set_any
    <2>4. QED
        BY <1>5, <2>3 DEF modal_image, modal_image_all, modal_exists, allows, trits
<1>6. CASE nd.control = "all" /\ nd.op = "box"
    <2>1. \A mv \in c.moves[s] : mv[1] \in BOOLEAN => mv[2] \in X
        BY <1>1, <1>6 DEF Step
    <2>2. ASSUME NEW e \in out(m, s), e.modality # "MayOnly"
          PROVE  target(e) \in v.may /\ targets(e) \subseteq v.may
        <3>1. targets(e) = {target(e)}
            BY <1>6 DEF Loses, Edges
        <3>2. PICK mv \in c.moves[s] : mv[1] = e.ctrl /\ mv[2] = target(e)
            BY <1>3, <2>2, <3>1
        <3>3. QED
            BY <1>4, <2>1, <3>1, <3>2
    <2>3. QED
        BY <1>6, <2>2 DEF modal_image, modal_image_all, modal_forall, allows, target_in_set_all, trits
<1>7. CASE nd.control = "controllable"
    <2>1. /\ \A mv \in c.moves[s] : mv[1] = FALSE => mv[2] \in X
          /\ (\E mv \in c.moves[s] : mv[1] = TRUE) => \E mv \in c.moves[s] : mv[1] = TRUE /\ mv[2] \in X
        BY <1>1, <1>7 DEF Step
    <2>2. \A e \in out(m, s) : e.ctrl = FALSE /\ e.modality # "MayOnly" => target_in_set_any(e, v.may)
        BY <1>3, <2>1 DEF target_in_set_any
    <2>3. (\E e \in out(m, s) : e.ctrl = TRUE) =>
              \E e \in out(m, s) : e.ctrl = TRUE /\ e.modality # "MayOnly"
        BY <1>7 DEF Loses
    <2>4. (\E e \in out(m, s) : e.ctrl = TRUE) =>
              \E e \in out(m, s) : e.ctrl = TRUE /\ target_in_set_any(e, v.may)
        <3>1. SUFFICES ASSUME \E e \in out(m, s) : e.ctrl = TRUE
                       PROVE  \E e \in out(m, s) : e.ctrl = TRUE /\ target_in_set_any(e, v.may)
            OBVIOUS
        <3>2. PICK mv \in c.moves[s] : mv[1] = TRUE /\ mv[2] \in X
            BY <1>3, <2>1, <2>3, <3>1
        <3>3. PICK e \in out(m, s) : e.ctrl = TRUE /\ mv[2] \in targets(e)
            BY <1>2, <3>2
        <3>4. QED
            BY <3>2, <3>3 DEF target_in_set_any
    <2>5. modal_trit_core(out(m, s), "controllable", v).may
        BY <2>2, <2>4 DEF modal_trit_core
    <2>6. QED
        BY <1>7, <2>5 DEF modal_image, modal_trit_from_target, trits
<1>8. CASE nd.control = "environment"
    <2>1. \/ \E mv \in c.moves[s] : mv[1] = FALSE /\ mv[2] \in X
          \/ /\ \E mv \in c.moves[s] : mv[1] = TRUE
             /\ \A mv \in c.moves[s] : mv[1] = TRUE => mv[2] \in X
        BY <1>1, <1>8 DEF Step
    <2>2. CASE \E mv \in c.moves[s] : mv[1] = FALSE /\ mv[2] \in X
        <3>1. PICK mv \in c.moves[s] : mv[1] = FALSE /\ mv[2] \in X
            BY <2>2
        <3>2. PICK e \in out(m, s) : e.ctrl = FALSE /\ mv[2] \in targets(e)
            BY <1>2, <3>1
        <3>3. e.ctrl = FALSE /\ target_in_set_any(e, v.may)
            BY <3>1, <3>2 DEF target_in_set_any
        <3>4. QED
            <4>1. modal_trit_core(out(m, s), "environment", v).may
                BY <3>3 DEF modal_trit_core
            <4>2. QED
                BY <1>8, <4>1 DEF modal_image, modal_trit_from_target, trits
    <2>3. CASE /\ \E mv \in c.moves[s] : mv[1] = TRUE
               /\ \A mv \in c.moves[s] : mv[1] = TRUE => mv[2] \in X
        <3>1. \E e \in out(m, s) : e.ctrl = TRUE
            BY <1>2, <2>3
        <3>2. \A e \in out(m, s) : e.ctrl = TRUE /\ e.modality # "MayOnly" => target_in_set_any(e, v.may)
            BY <1>3, <2>3 DEF target_in_set_any
        <3>3. modal_trit_core(out(m, s), "environment", v).may
            BY <3>1, <3>2 DEF modal_trit_core
        <3>4. QED
            BY <1>8, <3>3 DEF modal_image, modal_trit_from_target, trits
    <2>4. QED
        BY <2>1, <2>2, <2>3
<1>9. QED
    BY <1>5, <1>6, <1>7, <1>8 DEF Modality

-----------------------------------------------------------------------------
(* Soundness, node by node.  Nodes and variables of sign q are bounded from *)
(* below by what is sure, the others from above by what is possible.       *)

Bounded(sign, q, v, X)  == IF sign = q THEN v.must \subseteq X ELSE X \subseteq v.may
Related(g, q, b, d)     == \A x \in DOMAIN g.var : Bounded(g.var[x], q, b[x], d[x])
Sound(f, g, q, val, sat, n) ==
    \A b \in Envs(f), d \in Sets(f) :
        Related(g, q, b, d) => Bounded(g.node[n], q, val[n][b], sat[n][d])

(* No modality loses the value that the bound of its sign needs.           *)
Kept(m, f, g, q) ==
    \A n \in DOMAIN f.node : f.node[n].op \in {"dia", "box"} =>
        ~ Loses(m, f.node[n], IF g.node[n] = q THEN "True" ELSE "False")

(* What the reference gives at a node.                                     *)
LEMMA MeaningAt ==
    ASSUME NEW c, NEW f, IsArena(f), NEW n \in DOMAIN f.node, NEW d \in Sets(f)
    PROVE  Sat(c, f)[n][d] = Meaning(c, f.node[n], Sat(c, f), d)
<1>1. Sat(c, f)[n] = NodeMeaning(c, f, Sat(c, f), n)
    BY SatEq
<1>2. NodeMeaning(c, f, Sat(c, f), n)[d] = Meaning(c, f.node[n], Sat(c, f), d)
    BY DEF NodeMeaning
<1>3. QED
    BY <1>1, <1>2

(* Binding the variable of a fixpoint keeps environments related.          *)
LEMMA RelatedBind ==
    ASSUME NEW f, NEW n \in DOMAIN f.node, f.node[n].op \in {"mu", "nu"},
           NEW g \in Signings(f), NEW q, NEW b \in Envs(f), NEW d \in Sets(f), Related(g, q, b, d),
           NEW v \in Trits, NEW X \in SUBSET State, Bounded(g.node[n], q, v, X)
    PROVE  /\ bind(b, f.node[n].var, v) \in Envs(f) /\ bind(d, f.node[n].var, X) \in Sets(f)
           /\ Related(g, q, bind(b, f.node[n].var, v), bind(d, f.node[n].var, X))
<1> DEFINE x == f.node[n].var
<1>1. x \in variables(f) /\ DOMAIN g.var = variables(f) /\ g.var[x] = g.node[n]
    BY BindFacts
<1>2. bind(b, x, v) \in Envs(f) /\ bind(d, x, X) \in Sets(f)
    BY <1>1 DEF bind, Envs, Sets
<1>3. ASSUME NEW y \in variables(f)
      PROVE  Bounded(g.var[y], q, bind(b, x, v)[y], bind(d, x, X)[y])
    <2>1. CASE y = x
        <3>1. bind(b, x, v)[y] = v /\ bind(d, x, X)[y] = X
            BY <1>1, <2>1 DEF bind, Envs, Sets
        <3>2. QED
            BY <1>1, <2>1, <3>1
    <2>2. CASE y # x
        <3>1. bind(b, x, v)[y] = b[y] /\ bind(d, x, X)[y] = d[y]
            BY <1>1, <2>2 DEF bind, Envs, Sets
        <3>2. QED
            BY <1>1, <3>1 DEF Related
    <2>3. QED
        BY <2>1, <2>2
<1>4. QED
    BY <1>1, <1>2, <1>3 DEF Related

(* A fixpoint node is sound when its body is: the iteration stays within   *)
(* every bound that a pre- or post-fixpoint of the reference sets, and its *)
(* end is itself such a fixpoint.                                          *)
LEMMA FixpointSound ==
    ASSUME NEW f, NEW n \in DOMAIN f.node, f.node[n].op \in {"mu", "nu"},
           NEW g \in Signings(f), NEW q \in BOOLEAN, NEW val, NEW sat, NEW c,
           Fine(f, g, val, f.node[n].body), Sound(f, g, q, val, sat, f.node[n].body),
           NEW b \in Envs(f), NEW d \in Sets(f), Related(g, q, b, d)
    PROVE  Bounded(g.node[n], q, eval_fixpoint(f.node[n].op, Body(f.node[n], val, b)),
                   Meaning(c, f.node[n], sat, d))
<1> DEFINE nd == f.node[n]
           F  == Body(nd, val, b)
           w  == eval_fixpoint(nd.op, F)
           H(X) == sat[nd.body][bind(d, nd.var, X)]
<1>1. /\ w \in Trits /\ F[w] = w /\ F \in [Trits -> Trits]
      /\ \A S \in SUBSET Trits : Start(nd.op) \in S /\ Closed(F, S) => w \in S
    <2>1. F \in [Trits -> Trits] /\ Converged(nd.op, F, w)
        BY FixpointNode
    <2> HIDE DEF F, w
    <2>2. QED
        BY <2>1 DEF Converged
<1>2. g.node[nd.body] = g.node[n]
    BY DEF Signings, Signed
<1>3. ASSUME NEW v \in Trits, NEW X \in SUBSET State, Bounded(g.node[n], q, v, X)
      PROVE  Bounded(g.node[n], q, F[v], H(X))
    <2>1. Bounded(g.node[n], q, val[nd.body][bind(b, nd.var, v)], H(X))
        BY <1>2, <1>3, RelatedBind DEF Sound
    <2>2. F[v] = val[nd.body][bind(b, nd.var, v)]
        BY DEF Body
    <2>3. QED
        BY <2>1, <2>2
<1>4. /\ nd.op = "mu" => Meaning(c, nd, sat, d) =
            {s \in State : \A X \in SUBSET State : H(X) \subseteq X => s \in X}
      /\ nd.op = "nu" => Meaning(c, nd, sat, d) = UNION {X \in SUBSET State : X \subseteq H(X)}
    BY DEF Meaning
<1>5. w.must \in SUBSET State /\ w.may \in SUBSET State
    BY <1>1 DEF Trits
<1> HIDE DEF F, w, H
<1>6. CASE g.node[n] = q /\ nd.op = "mu"
    <2>1. ASSUME NEW X \in SUBSET State, H(X) \subseteq X
          PROVE  w.must \subseteq X
        <3> DEFINE S == {v \in Trits : v.must \subseteq X}
        <3>1. Start(nd.op) \in S
            BY <1>6 DEF Start, all_false, trits, Trits
        <3>2. Closed(F, S)
            BY <1>1, <1>3, <1>6, <2>1 DEF Closed, Bounded
        <3>3. QED
            BY <1>1, <3>1, <3>2
    <2>2. QED
        BY <1>4, <1>5, <1>6, <2>1 DEF Bounded, w, F
<1>7. CASE g.node[n] = q /\ nd.op = "nu"
    <2>1. w.must \subseteq H(w.must)
        BY <1>1, <1>3, <1>5, <1>7 DEF Bounded
    <2>2. QED
        BY <1>4, <1>5, <1>7, <2>1 DEF Bounded, w, F
<1>8. CASE g.node[n] # q /\ nd.op = "mu"
    <2>1. H(w.may) \subseteq w.may
        BY <1>1, <1>3, <1>5, <1>8 DEF Bounded
    <2>2. QED
        BY <1>4, <1>5, <1>8, <2>1 DEF Bounded, w, F
<1>9. CASE g.node[n] # q /\ nd.op = "nu"
    <2>1. ASSUME NEW X \in SUBSET State, X \subseteq H(X)
          PROVE  X \subseteq w.may
        <3> DEFINE S == {v \in Trits : X \subseteq v.may}
        <3>1. Start(nd.op) \in S
            BY <1>9 DEF Start, all_true, trits, Trits
        <3>2. Closed(F, S)
            BY <1>1, <1>3, <1>9, <2>1 DEF Closed, Bounded
        <3>3. QED
            BY <1>1, <3>1, <3>2
    <2>2. QED
        BY <1>4, <1>5, <1>9, <2>1 DEF Bounded, w, F
<1>10. QED
    BY <1>6, <1>7, <1>8, <1>9

(* Conjunction and disjunction keep either bound.                          *)
LEMMA BothBounded ==
    ASSUME NEW s, NEW q, NEW v, NEW w, NEW X, NEW Y, Bounded(s, q, v, X), Bounded(s, q, w, Y)
    PROVE  Bounded(s, q, trit_and(v, w), X \cap Y) /\ Bounded(s, q, trit_or(v, w), X \cup Y)
BY DEF Bounded, trit_and, trit_or, trits

(* Negation turns one bound into the other, and the sign with it.          *)
LEMMA NotBounded ==
    ASSUME NEW s \in BOOLEAN, NEW q \in BOOLEAN, NEW v, NEW X, Bounded(~s, q, v, X)
    PROVE  Bounded(s, q, trit_not(v), State \ X)
<1>1. CASE s = q
    <2>1. (~s) # q
        BY <1>1
    <2>2. X \subseteq v.may
        BY <2>1 DEF Bounded
    <2>3. (State \ v.may) \subseteq (State \ X)
        BY <2>2
    <2>4. QED
        BY <1>1, <2>3 DEF Bounded, trit_not, trits
<1>2. CASE s # q
    <2>1. (~s) = q
        BY <1>2
    <2>2. v.must \subseteq X
        BY <2>1 DEF Bounded
    <2>3. (State \ X) \subseteq (State \ v.must)
        BY <2>2
    <2>4. QED
        BY <1>2, <2>3 DEF Bounded, trit_not, trits
<1>3. QED
    BY <1>1, <1>2

(* A node is sound when those before it are.                               *)
LEMMA NodeSound ==
    ASSUME NEW m, IsSystem(m), NEW f, IsArena(f), NEW g \in Signings(f), NEW q \in BOOLEAN,
           Kept(m, f, g, q), NEW c \in Concretisations(m), NEW n \in DOMAIN f.node,
           \A k \in 1..(n - 1) : Sound(f, g, q, evaluate(m, f), Sat(c, f), k)
    PROVE  Sound(f, g, q, evaluate(m, f), Sat(c, f), n)
<1> DEFINE nd  == f.node[n]
           val == evaluate(m, f)
           sat == Sat(c, f)
<1>1. SUFFICES ASSUME NEW b \in Envs(f), NEW d \in Sets(f), Related(g, q, b, d)
               PROVE  Bounded(g.node[n], q, val[n][b], sat[n][d])
    BY DEF Sound
<1>2. val[n][b] = eval_node(m, nd, val, b) /\ sat[n][d] = Meaning(c, nd, sat, d)
    BY ValueAt, MeaningAt
<1>3. g.node \in [DOMAIN f.node -> BOOLEAN] /\ g.var \in [variables(f) -> BOOLEAN]
    BY DEF Signings
<1>4. /\ Implements(m, c)
      /\ predicate(m).must \subseteq c.holds /\ c.holds \subseteq predicate(m).may
    BY ConcretisationFacts
<1>5. \A k \in 1..(n - 1) : Bounded(g.node[k], q, val[k][b], sat[k][d])
    BY <1>1 DEF Sound
<1>6. CASE nd.op \in {"mu", "nu"}
    <2>1. val[n][b] = eval_fixpoint(nd.op, Body(nd, val, b))
        BY <1>2, <1>6 DEF eval_node, Body
    <2>2. nd.body \in 1..(n - 1) /\ nd.body \in DOMAIN f.node
        BY <1>6 DEF IsArena
    <2>3. Sound(f, g, q, val, sat, nd.body)
        BY <2>2
    <2>4. Fine(f, g, val, nd.body)
        BY <2>2, AllFine
    <2> HIDE DEF val, sat
    <2>5. QED
        BY <1>1, <1>2, <1>6, <2>1, <2>3, <2>4, FixpointSound
<1> HIDE DEF val, sat
<1>7. CASE nd.op = "pred"
    BY <1>2, <1>4, <1>7 DEF eval_node, Meaning, Bounded
<1>8. CASE nd.op = "var"
    <2>1. nd.var \in DOMAIN g.var /\ g.var[nd.var] = g.node[n]
        BY <1>8, BindFacts
    <2>2. val[n][b] = b[nd.var] /\ sat[n][d] = d[nd.var]
        BY <1>2, <1>8 DEF eval_node, Meaning
    <2>3. QED
        BY <1>1, <2>1, <2>2 DEF Related
<1>9. CASE nd.op = "not"
    <2>1. val[n][b] = trit_not(val[nd.l][b]) /\ sat[n][d] = State \ sat[nd.l][d]
        BY <1>2, <1>9 DEF eval_node, Meaning
    <2>2. Bounded(g.node[nd.l], q, val[nd.l][b], sat[nd.l][d])
        BY <1>5, <1>9 DEF IsArena
    <2>3. g.node[nd.l] = ~ g.node[n] /\ g.node[n] \in BOOLEAN
        BY <1>3, <1>9 DEF Signings, Signed
    <2>4. Bounded(~ g.node[n], q, val[nd.l][b], sat[nd.l][d])
        BY <2>2, <2>3
    <2>5. Bounded(g.node[n], q, trit_not(val[nd.l][b]), State \ sat[nd.l][d])
        BY <2>3, <2>4, NotBounded
    <2>6. QED
        BY <2>1, <2>5
<1>10. CASE nd.op \in {"and", "or"}
    <2>1. /\ val[n][b] = IF nd.op = "and" THEN trit_and(val[nd.l][b], val[nd.r][b])
                                          ELSE trit_or(val[nd.l][b], val[nd.r][b])
          /\ sat[n][d] = IF nd.op = "and" THEN sat[nd.l][d] \cap sat[nd.r][d]
                                          ELSE sat[nd.l][d] \cup sat[nd.r][d]
        BY <1>2, <1>10 DEF eval_node, Meaning
    <2>2. /\ Bounded(g.node[nd.l], q, val[nd.l][b], sat[nd.l][d])
          /\ Bounded(g.node[nd.r], q, val[nd.r][b], sat[nd.r][d])
        BY <1>5, <1>10 DEF IsArena
    <2>3. g.node[nd.l] = g.node[n] /\ g.node[nd.r] = g.node[n]
        BY <1>10 DEF Signings, Signed
    <2>4. /\ Bounded(g.node[n], q, trit_and(val[nd.l][b], val[nd.r][b]), sat[nd.l][d] \cap sat[nd.r][d])
          /\ Bounded(g.node[n], q, trit_or(val[nd.l][b], val[nd.r][b]), sat[nd.l][d] \cup sat[nd.r][d])
        BY <2>2, <2>3, BothBounded
    <2>5. CASE nd.op = "and"
        BY <2>1, <2>4, <2>5
    <2>6. CASE nd.op = "or"
        BY <2>1, <2>4, <2>6
    <2>7. QED
        BY <1>10, <2>5, <2>6
<1>11. CASE nd.op \in {"dia", "box"}
    <2>1. /\ val[n][b] = modal_image(m, nd, val[nd.l][b])
          /\ sat[n][d] = {s \in State : Step(nd, c.moves[s], sat[nd.l][d])}
        BY <1>2, <1>11 DEF eval_node, Meaning
    <2>2. Bounded(g.node[nd.l], q, val[nd.l][b], sat[nd.l][d])
        BY <1>5, <1>11 DEF IsArena
    <2>3. g.node[nd.l] = g.node[n]
        BY <1>11 DEF Signings, Signed
    <2>4. Modality(nd) /\ ~ Loses(m, nd, IF g.node[n] = q THEN "True" ELSE "False")
        BY <1>11 DEF IsArena, Modality, Kept
    <2>5. CASE g.node[n] = q
        <3>1. val[nd.l][b].must \subseteq sat[nd.l][d] /\ ~ Loses(m, nd, "True")
            BY <2>2, <2>3, <2>4, <2>5 DEF Bounded
        <3>2. val[n][b].must \subseteq sat[n][d]
            BY <1>4, <2>1, <2>4, <3>1, ImageMust
        <3>3. QED
            BY <2>5, <3>2 DEF Bounded
    <2>6. CASE g.node[n] # q
        <3>1. sat[nd.l][d] \subseteq val[nd.l][b].may /\ ~ Loses(m, nd, "False")
            BY <2>2, <2>3, <2>4, <2>6 DEF Bounded
        <3>2. sat[n][d] \subseteq val[n][b].may
            BY <1>4, <2>1, <2>4, <3>1, ImageMay
        <3>3. QED
            BY <2>6, <3>2 DEF Bounded
    <2>7. QED
        BY <2>5, <2>6
<1>12. QED
    BY <1>6, <1>7, <1>8, <1>9, <1>10, <1>11 DEF IsArena

(* Every node is sound, as far as no modality loses what is needed.        *)
LEMMA AllSound ==
    ASSUME NEW m, IsSystem(m), NEW f, IsArena(f), NEW g \in Signings(f), NEW q \in BOOLEAN,
           Kept(m, f, g, q), NEW c \in Concretisations(m)
    PROVE  \A n \in DOMAIN f.node : Sound(f, g, q, evaluate(m, f), Sat(c, f), n)
<1> DEFINE Bad == {n \in DOMAIN f.node : ~ Sound(f, g, q, evaluate(m, f), Sat(c, f), n)}
<1>1. Len(f.node) \in Nat /\ DOMAIN f.node = 1..Len(f.node)
    BY DEF IsArena
<1>2. ASSUME Bad # {}
      PROVE  FALSE
    <2>1. Bad \in SUBSET Nat
        BY <1>1
    <2>2. PICK x \in Bad : \A y \in Bad : x <= y
        <3> HIDE DEF Bad
        <3>1. QED
            BY <1>2, <2>1, LeastIn
    <2>3. \A k \in 1..(x - 1) : k \in DOMAIN f.node /\ ~ (x <= k)
        BY <1>1, <2>2
    <2>4. \A k \in 1..(x - 1) : Sound(f, g, q, evaluate(m, f), Sat(c, f), k)
        BY <2>2, <2>3
    <2>5. QED
        BY <2>2, <2>4, NodeSound
<1>3. QED
    BY <1>2

-----------------------------------------------------------------------------
(* The verdicts.                                                           *)

(* The environments the evaluation starts from are related and consistent. *)
LEMMA UnboundFacts ==
    ASSUME NEW f, NEW g \in Signings(f), NEW q
    PROVE  /\ unbound(f) \in Envs(f) /\ [x \in variables(f) |-> {}] \in Sets(f)
           /\ Related(g, q, unbound(f), [x \in variables(f) |-> {}])
           /\ \A x \in variables(f) : Consistent(unbound(f)[x])
<1>1. \A x \in variables(f) : unbound(f)[x] = all_false
    BY DEF unbound
<1>2. all_false \in Trits /\ Consistent(all_false) /\ all_false.must = {} /\ all_false.may = {}
    BY DEF all_false, trits, Trits, Consistent
<1>3. DOMAIN g.var = variables(f)
    BY DEF Signings
<1>4. unbound(f) \in Envs(f) /\ [x \in variables(f) |-> {}] \in Sets(f)
    BY <1>1, <1>2 DEF unbound, Envs, Sets
<1>5. QED
    BY <1>1, <1>2, <1>3, <1>4 DEF Related, Bounded

(* The arguments Cause and the signings speak of are about the same g.     *)
LEMMA KeptWithoutCause ==
    ASSUME NEW m, NEW f, Signings(f) # {}, NEW q \in BOOLEAN,
           ~ Cause(m, f, IF q THEN "True" ELSE "False")
    PROVE  LET g == CHOOSE g \in Signings(f) : TRUE
           IN g \in Signings(f) /\ Kept(m, f, g, q)
<1> DEFINE g == CHOOSE h \in Signings(f) : TRUE
<1>1. g \in Signings(f)
    OBVIOUS
<1> HIDE DEF g
<1>2. g.node \in [DOMAIN f.node -> BOOLEAN]
    BY <1>1 DEF Signings
<1>3. \A n \in DOMAIN f.node : positive(f, n) = g.node[n]
    BY DEF positive, g
<1>4. ASSUME NEW n \in DOMAIN f.node, f.node[n].op \in {"dia", "box"}
      PROVE  ~ Loses(m, f.node[n], IF g.node[n] = q THEN "True" ELSE "False")
    <2>1. ~ Loses(m, f.node[n], IF g.node[n] THEN (IF q THEN "True" ELSE "False")
                                ELSE Opposite(IF q THEN "True" ELSE "False"))
        BY <1>3, <1>4 DEF Cause
    <2>2. g.node[n] \in BOOLEAN
        BY <1>2
    <2>3. QED
        BY <2>1, <2>2 DEF Opposite
<1>5. QED
    BY <1>1, <1>4 DEF Kept, g

(* What evaluate_tri promises of a system and a formula.                   *)
LEMMA EvaluateTri ==
    ASSUME NEW m, IsSystem(m), NEW f, IsFormula(f)
    PROVE  /\ evaluate_tri(m, f) \in Trits
           /\ Consistent(evaluate_tri(m, f))
           /\ \A s \in Denied(m, f, evaluate_tri(m, f)) :
                  Cause(m, f, verdict_at(evaluate_tri(m, f), s))
<1> DEFINE g == CHOOSE h \in Signings(f) : TRUE
           v == evaluate_tri(m, f)
<1>1. IsArena(f) /\ Signings(f) # {} /\ g \in Signings(f) /\ f.root \in DOMAIN f.node
    BY DEF IsFormula, IsArena
<1> HIDE DEF g
<1>2. Fine(f, g, evaluate(m, f), f.root)
    BY <1>1, AllFine
<1>3. v \in Trits
    BY <1>1, <1>2, UnboundFacts DEF Fine, Typed, evaluate_tri
<1>4. Consistent(v)
    BY <1>1, <1>2, UnboundFacts DEF Fine, Sane, evaluate_tri
<1>5. ASSUME NEW q \in BOOLEAN, ~ Cause(m, f, IF q THEN "True" ELSE "False"),
             NEW c \in Concretisations(m)
      PROVE  IF q THEN v.must \subseteq Truth(c, f) ELSE Truth(c, f) \subseteq v.may
    <2>1. Kept(m, f, g, q)
        BY <1>1, <1>5, KeptWithoutCause DEF g
    <2>2. Sound(f, g, q, evaluate(m, f), Sat(c, f), f.root)
        BY <1>1, <2>1, AllSound
    <2>3. g.node[f.root] = TRUE
        BY <1>1 DEF Signings, Signed
    <2>4. Bounded(g.node[f.root], q, v, Truth(c, f))
        BY <1>1, <2>2, UnboundFacts DEF Sound, evaluate_tri, Truth
    <2>5. QED
        BY <2>3, <2>4 DEF Bounded
<1> HIDE DEF v
<1>6. ASSUME NEW s \in Denied(m, f, v)
      PROVE  Cause(m, f, verdict_at(v, s))
    <2>1. PICK c \in Concretisations(m) :
              (s \in v.must /\ s \notin Truth(c, f)) \/ (s \notin v.may /\ s \in Truth(c, f))
        BY DEF Denied
    <2>2. CASE s \in v.must /\ s \notin Truth(c, f)
        <3>1. verdict_at(v, s) = "True"
            BY <2>2 DEF verdict_at
        <3>2. Cause(m, f, "True")
            <4>1. SUFFICES ASSUME ~ Cause(m, f, "True")
                           PROVE  FALSE
                OBVIOUS
            <4>2. v.must \subseteq Truth(c, f)
                BY <1>5, <4>1
            <4>3. QED
                BY <2>2, <4>2
        <3>3. QED
            BY <3>1, <3>2
    <2>3. CASE s \notin v.may /\ s \in Truth(c, f)
        <3>1. verdict_at(v, s) = "False"
            BY <1>4, <2>3 DEF verdict_at, Consistent
        <3>2. Cause(m, f, "False")
            <4>1. SUFFICES ASSUME ~ Cause(m, f, "False")
                           PROVE  FALSE
                OBVIOUS
            <4>2. Truth(c, f) \subseteq v.may
                BY <1>5, <4>1
            <4>3. QED
                BY <2>3, <4>2
        <3>3. QED
            BY <3>1, <3>2
    <2>4. QED
        BY <2>1, <2>2, <2>3
<1>7. QED
    BY <1>3, <1>4, <1>6 DEF v

-----------------------------------------------------------------------------
(* The evaluation as a run.                                                *)

(* The inputs stay what they were, and from the evaluation on the verdicts *)
(* are those of evaluate_tri.                                              *)
IndInv ==
    /\ IsSystem(model) /\ IsFormula(formula)
    /\ pc # "evaluate" => verdicts = evaluate_tri(model, formula)

(* The inputs are systems and formulas, and nothing is evaluated yet.      *)
LEMMA IndInit == Init => IndInv
BY InputsAssumption DEF Init, IndInv

(* Only Evaluate writes the verdicts.                                      *)
LEMMA IndStep == IndInv /\ [Next]_vars => IndInv'
<1>1. SUFFICES ASSUME IndInv, [Next]_vars
               PROVE  IndInv'
    OBVIOUS
<1>2. CASE Evaluate
    BY <1>1, <1>2 DEF IndInv, Evaluate
<1>3. CASE Solve
    BY <1>1, <1>3 DEF IndInv, Solve
<1>4. CASE Extract
    BY <1>1, <1>4 DEF IndInv, Extract
<1>5. CASE UNCHANGED vars
    BY <1>1, <1>5 DEF IndInv, vars
<1>6. QED
    BY <1>1, <1>2, <1>3, <1>4, <1>5 DEF Next

(* The inductive invariant holds throughout.                               *)
LEMMA IndInvariant == Spec => []IndInv
BY IndInit, IndStep, PTL DEF Spec

(* On every finite system and for every formula, whatever its nesting:     *)
(* evaluate_tri never calls a state surely good that it does not also call *)
(* possibly good, and its definite verdicts hold in every system that the  *)
(* abstraction stands for unless the formula has one of the two readings   *)
(* that Cause names, under the number of negations it looks at.            *)
THEOREM VerdictsTransferHolds == Spec => []VerdictsTransfer
<1>1. IndInv => VerdictsTransfer
    <2>1. SUFFICES ASSUME IndInv, pc = "done"
                   PROVE  /\ verdicts.must \subseteq verdicts.may
                          /\ \A s \in Denied(model, formula, verdicts) :
                                 Cause(model, formula, verdict_at(verdicts, s))
        BY DEF VerdictsTransfer
    <2>2. IsSystem(model) /\ IsFormula(formula) /\ verdicts = evaluate_tri(model, formula)
        BY <2>1 DEF IndInv
    <2>3. QED
        BY <2>2, EvaluateTri DEF Consistent
<1>2. QED
    BY <1>1, IndInvariant, PTL

(* Formulas without a controllability modality on systems in which only    *)
(* the principal target of a transition can be reached, or any system when *)
(* the formula has no box.                                                 *)
Plain(m, f) ==
    /\ Controls(f) \subseteq {"all"}
    /\ "box" \in Ops(f) => \A e \in Edges(m) : targets(e) = {target(e)}

(* kmts-theory.md says that a definite verdict transfers to every system   *)
(* the abstraction stands for.  The run kmts_preservation shows where it   *)
(* does not; here is where it always does, at any nesting of fixpoints.    *)
THEOREM PreservationOnPlain == Spec => [](Plain(model, formula) => Preservation)
<1>1. ASSUME NEW m, NEW f, NEW v, Plain(m, f), Cause(m, f, v)
      PROVE  FALSE
    <2>1. PICK n \in DOMAIN f.node : /\ f.node[n].op \in {"dia", "box"}
                                     /\ \E u : Loses(m, f.node[n], u)
        BY <1>1 DEF Cause
    <2>2. f.node[n].control = "all"
        BY <1>1, <2>1 DEF Plain, Controls
    <2>3. f.node[n].op = "box" /\ \E e \in Edges(m) : targets(e) # {target(e)}
        BY <2>1, <2>2 DEF Loses
    <2>4. "box" \in Ops(f)
        BY <2>3 DEF Ops
    <2>5. QED
        BY <1>1, <2>3, <2>4 DEF Plain
<1>2. IndInv => (Plain(model, formula) => Preservation)
    <2>1. SUFFICES ASSUME IndInv, Plain(model, formula), pc = "done", Denied(model, formula, verdicts) # {}
                   PROVE  FALSE
        BY DEF Preservation
    <2>2. IsSystem(model) /\ IsFormula(formula) /\ verdicts = evaluate_tri(model, formula)
        BY <2>1 DEF IndInv
    <2>3. PICK s \in Denied(model, formula, verdicts) : TRUE
        BY <2>1
    <2>4. Cause(model, formula, verdict_at(verdicts, s))
        BY <2>2, EvaluateTri
    <2>5. QED
        BY <1>1, <2>1, <2>4
<1>3. QED
    BY <1>2, IndInvariant, PTL

(* eval_fixpoint_generic loops until two iterates are equal, with no bound *)
(* on their number.  On a finite system, for a formula in which a variable *)
(* has the sign of its fixpoint, the loop ends at every fixpoint node      *)
(* under every environment, and what it returns is a fixpoint of the body: *)
(* the least one for mu, the greatest one for nu.                          *)
THEOREM IterationsConverge ==
    ASSUME NEW m, IsSystem(m), NEW f, IsFormula(f), NEW n \in DOMAIN f.node,
           f.node[n].op \in {"mu", "nu"}, NEW b \in Envs(f)
    PROVE  LET w == evaluate(m, f)[n][b]
               F == Body(f.node[n], evaluate(m, f), b)
           IN /\ w \in Trits /\ F[w] = w
              /\ \A v \in Trits : F[v] = v => IF f.node[n].op = "mu" THEN Below(w, v) ELSE Below(v, w)
<1> DEFINE nd  == f.node[n]
           val == evaluate(m, f)
           F   == Body(nd, val, b)
           w   == val[n][b]
<1>1. PICK g : IsArena(f) /\ g \in Signings(f)
    BY DEF IsFormula
<1>2. nd.body \in DOMAIN f.node
    <2>1. Len(f.node) \in Nat /\ DOMAIN f.node = 1..Len(f.node) /\ nd.body \in 1..(n - 1)
        BY <1>1 DEF IsArena
    <2>2. QED
        BY <2>1
<1>3. Fine(f, g, val, nd.body)
    BY <1>1, <1>2, AllFine
<1>4. w = eval_fixpoint(nd.op, F)
    BY <1>1, ValueAt DEF eval_node, Body
<1> HIDE DEF val
<1>5. /\ F \in [Trits -> Trits] /\ Converged(nd.op, F, w)
      /\ \A v, u \in Trits : Below(v, u) => Below(F[v], F[u])
    BY <1>1, <1>3, <1>4, FixpointNode, BodyMonotone, EnvBelowRefl
<1> HIDE DEF F, w
<1>6. w \in Trits /\ F[w] = w
    BY <1>5 DEF Converged
<1>7. ASSUME NEW v \in Trits, F[v] = v, nd.op = "mu"
      PROVE  Below(w, v)
    <2> DEFINE S == {u \in Trits : Below(u, v)}
    <2>1. Start(nd.op) \in S
        BY <1>7 DEF Start, all_false, trits, Trits, Below
    <2>2. Closed(F, S)
        BY <1>5, <1>7 DEF Closed
    <2>3. QED
        BY <1>5, <2>1, <2>2 DEF Converged
<1>8. ASSUME NEW v \in Trits, F[v] = v, nd.op = "nu"
      PROVE  Below(v, w)
    <2> DEFINE S == {u \in Trits : Below(v, u)}
    <2>1. Start(nd.op) \in S
        BY <1>8 DEF Start, all_true, trits, Trits, Below
    <2>2. Closed(F, S)
        BY <1>5, <1>8 DEF Closed
    <2>3. QED
        BY <1>5, <2>1, <2>2 DEF Converged
<1>9. QED
    BY <1>6, <1>7, <1>8 DEF F, w, val
=============================================================================
