------------------------- MODULE NativeLadderProofs -------------------------
(***************************************************************************)
(* The k-induction ladder with its interrupting watchdog is sound for      *)
(* every transition system, finite or not, and every depth cap.            *)
(*                                                                         *)
(* The argument has two halves.  The gate: an answer the ladder reads is   *)
(* unknown or right, because an interrupt is recorded under the same lock  *)
(* that says a check is in flight (GateInv).  The fronts: every closed set *)
(* contains the base front, so a bad frame in it is reachable; and the     *)
(* step front only shrinks, so when it holds no bad frame it is, together  *)
(* with the frames the base queries have already cleared, an inductive set *)
(* that avoids bad (FrontInv).                                             *)
(***************************************************************************)
EXTENDS NativeLadder, TLAPS

(* What z3 would answer, undisturbed, to the query at hand.                *)
RightAnswer == IF Front \cap d.bad # {} THEN "sat" ELSE "unsat"

InCheck == pc \in {"solve", "leave"}

(* An interrupt is never unrecorded, and what is read is right.            *)
GateInv ==
    /\ cut => interrupted
    /\ inQuery <=> InCheck
    /\ pc = "leave" /\ ~interrupted => res \in {RightAnswer, "unknown"}
    /\ pc = "read" => res \in {RightAnswer, "unknown"}

(* `cleared` are the frames of the shallower base queries.                 *)
Covers(cleared) ==
    /\ cleared \cap d.bad = {}
    /\ d.init \cap d.ok \subseteq cleared \cup baseFront
    /\ Image(cleared) \cap d.ok \subseteq cleared \cup baseFront

FrontInv ==
    /\ \A S \in SUBSET States : Closed(S) => baseFront \subseteq S
    /\ baseFront \subseteq stepFront
    /\ Image(stepFront \ d.bad) \cap d.ok \subseteq stepFront
    /\ \E cleared \in SUBSET States : Covers(cleared)
    /\ query = "step" /\ pc \in {"ask", "solve", "leave", "read"}
         => baseFront \cap d.bad = {}

ResultInv ==
    /\ pc \notin {"draining", "returned"} => verdict = "pending"
    /\ VerdictTrue

(* The base front is what paths of k steps end in, and the shallower ones  *)
(* end in no bad frame.                                                    *)
DepthInv ==
    /\ baseFront = EndsIn(k)
    /\ \A n \in 0..(k - 1) : EndsIn(n) \cap d.bad = {}

(* Without a timeout only a cancellation makes an answer unknown.          *)
CauseInv ==
    /\ interrupted => cancel
    /\ pc \in {"leave", "read"} /\ res = "unknown" => timed \/ cancel

IndInv == TypeOK /\ GateInv /\ FrontInv /\ ResultInv /\ DepthInv /\ CauseInv

-----------------------------------------------------------------------------
(* The components of a design.                                             *)
LEMMA DesignType ==
    ASSUME d \in Designs
    PROVE  /\ d.init \in SUBSET States /\ d.bad \in SUBSET States
           /\ d.ok \in SUBSET States /\ d.trans \in SUBSET (States \X States)
BY LadderAssumption

(* More frames, more successors.                                           *)
LEMMA ImageMono ==
    ASSUME NEW S, NEW T, S \subseteq T
    PROVE  Image(S) \subseteq Image(T)
BY DEF Image

(* The successors of a union.                                              *)
LEMMA ImageUnion ==
    ASSUME NEW S, NEW T
    PROVE  Image(S \cup T) = Image(S) \cup Image(T)
BY DEF Image

(* A bad frame that every closed set contains is a reachable bad frame.    *)
LEMMA BaseSat ==
    ASSUME TypeOK, FrontInv, baseFront \cap d.bad # {}
    PROVE  BadReachable
<1>1. PICK s \in baseFront : s \in d.bad
    OBVIOUS
<1>2. s \in States
    BY <1>1 DEF TypeOK
<1>3. s \in Reachable
    BY <1>1, <1>2 DEF Reachable, FrontInv
<1> QED
    BY <1>1, <1>3 DEF BadReachable

(* A step front without bad frames closes the cleared frames.              *)
LEMMA StepUnsat ==
    ASSUME TypeOK, FrontInv, stepFront \cap d.bad = {}
    PROVE  ~BadReachable
<1>1. PICK cleared \in SUBSET States : Covers(cleared)
    BY DEF FrontInv
<1> DEFINE I == cleared \cup stepFront
<1>2. I \in SUBSET States
    BY DEF TypeOK
<1>3. I \cap d.bad = {}
    BY <1>1 DEF Covers
<1>4. d.init \cap d.ok \subseteq I
    BY <1>1 DEF Covers, FrontInv
<1>5. Image(I) \cap d.ok \subseteq I
  <2>1. stepFront \ d.bad = stepFront
      OBVIOUS
  <2>2. Image(stepFront) \cap d.ok \subseteq stepFront
      BY <2>1 DEF FrontInv
  <2>3. Image(cleared) \cap d.ok \subseteq I
      BY <1>1 DEF Covers, FrontInv
  <2>4. Image(I) = Image(cleared) \cup Image(stepFront)
      BY ImageUnion
  <2> QED
      BY <2>2, <2>3, <2>4
<1>6. Closed(I)
    BY <1>4, <1>5 DEF Closed
<1> HIDE DEF I
<1>7. Reachable \subseteq I
    BY <1>2, <1>6 DEF Reachable
<1> QED
    BY <1>3, <1>7 DEF BadReachable

-----------------------------------------------------------------------------
(* The invariant holds before the first depth.                             *)
LEMMA IndInit == Init => IndInv
<1> SUFFICES ASSUME Init PROVE IndInv
    OBVIOUS
<1>1. TypeOK
  <2>1. baseFront \in SUBSET States /\ stepFront \in SUBSET States
      BY DesignType DEF Init
  <2>2. k \in 0..MaxK
      BY LadderAssumption DEF Init
  <2>3. watchdog \in {"watching", "grace", "ended"}
      BY DEF Init
  <2> QED
      BY <2>1, <2>2, <2>3, Zenon DEF Init, TypeOK
<1>2. GateInv /\ ResultInv
    BY DEF Init, GateInv, InCheck, ResultInv, VerdictTrue
<1>3. FrontInv
  <2>1. Image({}) = {}
      BY DEF Image
  <2>2. Covers({})
      BY <2>1 DEF Init, Covers
  <2> QED
      BY <2>2 DEF Init, FrontInv, Closed
<1>4. DepthInv
  <2>1. d.init \cap d.ok \subseteq EndsIn(0)
    <3>1. ASSUME NEW s \in d.init \cap d.ok PROVE s \in EndsIn(0)
      <4>1. s \in States
          BY DesignType DEF Init
      <4>2. [i \in 0..0 |-> s] \in [0..0 -> States] /\ IsPath([i \in 0..0 |-> s], 0)
          BY <4>1 DEF IsPath
      <4>3. [i \in 0..0 |-> s][0] = s
          OBVIOUS
      <4> QED
          BY <4>1, <4>2, <4>3 DEF EndsIn
    <3> QED
        BY <3>1
  <2>2. EndsIn(0) \subseteq d.init \cap d.ok
      BY DEF EndsIn, IsPath
  <2> QED
      BY <2>1, <2>2 DEF DepthInv, Init
<1>5. CauseInv
    BY DEF Init, CauseInv
<1> QED
    BY <1>1, <1>2, <1>3, <1>4, <1>5 DEF IndInv

(* A path of one step more is a path and a transition.                     *)
LEMMA PathGrows ==
    ASSUME d \in Designs, NEW n \in Nat
    PROVE  EndsIn(n + 1) = Image(EndsIn(n)) \cap d.ok
<1>1. ASSUME NEW s \in EndsIn(n + 1) PROVE s \in Image(EndsIn(n)) \cap d.ok
  <2>1. PICK p \in [0..(n + 1) -> States] : IsPath(p, n + 1) /\ p[n + 1] = s
      BY <1>1 DEF EndsIn
  <2> DEFINE q == [i \in 0..n |-> p[i]]
  <2>2. q \in [0..n -> States] /\ q[n] = p[n] /\ p[n] \in States
      OBVIOUS
  <2>3. \A i \in 1..n : i \in 1..(n + 1) /\ q[i] = p[i] /\ q[i - 1] = p[i - 1]
      OBVIOUS
  <2>4. IsPath(q, n)
      BY <2>1, <2>3 DEF IsPath
  <2>5. p[n] \in EndsIn(n)
      BY <2>2, <2>4 DEF EndsIn
  <2>6. <<p[n], p[n + 1]>> \in d.trans /\ p[n + 1] \in d.ok
    <3>1. n + 1 \in 1..(n + 1) /\ (n + 1) - 1 = n
        OBVIOUS
    <3> QED
        BY <2>1, <3>1 DEF IsPath
  <2>7. s \in States
      BY <1>1 DEF EndsIn
  <2> QED
      BY <2>1, <2>5, <2>6, <2>7 DEF Image
<1>2. ASSUME NEW t \in Image(EndsIn(n)) \cap d.ok PROVE t \in EndsIn(n + 1)
  <2>1. PICK s \in EndsIn(n) : <<s, t>> \in d.trans
      BY <1>2 DEF Image
  <2>2. PICK p \in [0..n -> States] : IsPath(p, n) /\ p[n] = s
      BY <2>1 DEF EndsIn
  <2>3. t \in States /\ t \in d.ok
      BY <1>2 DEF Image
  <2> DEFINE q == [i \in 0..(n + 1) |-> IF i = n + 1 THEN t ELSE p[i]]
  <2>4. q \in [0..(n + 1) -> States] /\ q[n + 1] = t /\ q[0] = p[0] /\ q[n] = p[n]
      BY <2>3
  <2>5. ASSUME NEW i \in 1..(n + 1)
        PROVE  <<q[i - 1], q[i]>> \in d.trans /\ q[i] \in d.ok
    <3>1. CASE i = n + 1
        BY <2>1, <2>2, <2>3, <3>1
    <3>2. CASE i # n + 1
      <4>1. i \in 1..n /\ q[i] = p[i] /\ q[i - 1] = p[i - 1]
          BY <3>2
      <4> QED
          BY <2>2, <4>1 DEF IsPath
    <3> QED
        BY <3>1, <3>2
  <2> HIDE DEF q
  <2>6. IsPath(q, n + 1)
      BY <2>2, <2>4, <2>5 DEF IsPath
  <2> QED
      BY <2>3, <2>4, <2>6 DEF EndsIn
<1> QED
    BY <1>1, <1>2

(* A step that leaves the design, the depth and the fronts alone keeps     *)
(* what they mean.                                                         *)
LEMMA SameFronts ==
    ASSUME FrontInv, UNCHANGED <<d, k, baseFront, stepFront>>,
           (query = "step" /\ pc \in {"ask", "solve", "leave", "read"})'
             => baseFront \cap d.bad = {}
    PROVE  FrontInv'
BY DEF FrontInv, Closed, Covers, Image

(* A step that leaves the verdict alone keeps it true.                     *)
LEMMA SameVerdict ==
    ASSUME VerdictTrue, UNCHANGED <<d, verdict>>
    PROVE  VerdictTrue'
BY DEF VerdictTrue, BadReachable, Reachable, Closed, Image

(* One more transition on both paths: the fronts keep their meaning.       *)
LEMMA ExtendFronts ==
    ASSUME TypeOK, FrontInv, Extend
    PROVE  FrontInv'
<1> DEFINE B == Image(baseFront) \cap d.ok
           F == Image(stepFront \ d.bad) \cap d.ok
<1>1. /\ baseFront' = B /\ stepFront' = F /\ d' = d
      /\ pc' = "depth" /\ baseFront \cap d.bad = {}
    BY DEF Extend, design, FrontInv
<1>2. ASSUME NEW S \in SUBSET States, Closed(S) PROVE B \subseteq S
  <2>1. baseFront \subseteq S
      BY <1>2 DEF FrontInv
  <2>2. Image(baseFront) \subseteq Image(S)
      BY <2>1, ImageMono
  <2> QED
      BY <1>2, <2>2 DEF Closed
<1>3. B \subseteq F
  <2>1. baseFront \subseteq stepFront \ d.bad
      BY <1>1 DEF FrontInv
  <2>2. Image(baseFront) \subseteq Image(stepFront \ d.bad)
      BY <2>1, ImageMono
  <2> QED
      BY <2>2
<1>4. Image(F \ d.bad) \cap d.ok \subseteq F
  <2>1. F \ d.bad \subseteq stepFront \ d.bad
      BY DEF FrontInv
  <2>2. Image(F \ d.bad) \subseteq Image(stepFront \ d.bad)
      BY <2>1, ImageMono
  <2> QED
      BY <2>2
<1>5. PICK cleared \in SUBSET States : Covers(cleared)
    BY DEF FrontInv
<1>6. LET more == cleared \cup baseFront
      IN  /\ more \in SUBSET States
          /\ more \cap d.bad = {}
          /\ d.init \cap d.ok \subseteq more \cup B
          /\ Image(more) \cap d.ok \subseteq more \cup B
  <2>1. Image(cleared \cup baseFront) = Image(cleared) \cup Image(baseFront)
      BY ImageUnion
  <2> QED
      BY <1>1, <1>5, <2>1 DEF Covers, TypeOK
<1> HIDE DEF B, F
<1>7. \E c \in SUBSET States : Covers(c)'
    BY <1>1, <1>6 DEF Covers, Image
<1>8. \A S \in SUBSET States : Closed(S)' => baseFront' \subseteq S
    BY <1>1, <1>2 DEF Closed, Image
<1>9. (Image(stepFront \ d.bad) \cap d.ok \subseteq stepFront)'
    BY <1>1, <1>4 DEF Image
<1> QED
    BY <1>1, <1>3, <1>7, <1>8, <1>9 DEF FrontInv

-----------------------------------------------------------------------------
(* Every step keeps the types.                                             *)
LEMMA TypeStep == TypeOK /\ [Next]_vars => TypeOK'
<1> SUFFICES ASSUME TypeOK, [Next]_vars PROVE TypeOK'
    OBVIOUS
<1> USE DEF TypeOK, design, ladder, gate, Finish
<1>1. CASE PeerDecides \/ BudgetExpires
  <2>1. CASE PeerDecides
      BY <2>1 DEF PeerDecides
  <2>2. CASE BudgetExpires
      BY <2>2 DEF BudgetExpires
  <2> QED
      BY <1>1, <2>1, <2>2
<1>2. CASE StopAtCancel \/ StopAtBudget \/ BeginDepth
  <2>1. CASE StopAtCancel
      BY <2>1 DEF StopAtCancel
  <2>2. CASE StopAtBudget
      BY <2>2 DEF StopAtBudget
  <2>3. CASE BeginDepth
      BY <2>3 DEF BeginDepth
  <2> QED
      BY <1>2, <2>1, <2>2, <2>3
<1>3. CASE GateEnter \/ GateLeave
  <2>1. CASE GateEnter
    <3>1. CASE interrupted
        BY <2>1, <3>1 DEF GateEnter
    <3>2. CASE ~interrupted
        BY <2>1, <3>2 DEF GateEnter
    <3> QED
        BY <3>1, <3>2
  <2>2. CASE GateLeave
    <3>1. res' \in {"sat", "unsat", "unknown"}
        BY <2>2 DEF GateLeave
    <3>2. /\ pc' = "read" /\ inQuery' = FALSE
          /\ UNCHANGED <<d, cancelArg, timed, cancel, expired, k, baseFront,
                         stepFront, cancelSeen, query, interrupted, cut,
                         watchdog, done, verdict>>
        BY <2>2 DEF GateLeave
    <3> QED
        BY <3>1, <3>2, ZenonT(30)
  <2> QED
      BY <1>3, <2>1, <2>2
<1>4. CASE Z3Returns
    BY <1>4 DEF Z3Returns, Z3Answers
<1>5. CASE ReadDefinite \/ ReadBaseUnsat \/ DepthCap
  <2>1. CASE ReadDefinite
      BY <2>1, ZenonT(30) DEF ReadDefinite
  <2>2. CASE ReadBaseUnsat
      BY <2>2 DEF ReadBaseUnsat
  <2>3. CASE DepthCap
      BY <2>3 DEF DepthCap
  <2> QED
      BY <1>5, <2>1, <2>2, <2>3
<1>6. CASE Extend
  <2>1. baseFront' \in SUBSET States /\ stepFront' \in SUBSET States
      BY <1>6 DEF Extend, Image
  <2>2. k' \in 0..MaxK
      BY <1>6, LadderAssumption DEF Extend
  <2>3. /\ pc' = "depth"
        /\ UNCHANGED <<d, cancelArg, timed, cancel, expired, query, res,
                       cancelSeen, inQuery, interrupted, cut, watchdog, done,
                       verdict>>
      BY <1>6 DEF Extend
  <2> QED
      BY <2>1, <2>2, <2>3
<1>7. CASE WatchStep
  <2>1. CASE WatchSees
      BY <2>1 DEF WatchSees
  <2>2. CASE WatchFires
      BY <2>2 DEF WatchFires, InterruptIfInQuery
  <2>3. CASE WatchEnds
      BY <2>3 DEF WatchEnds
  <2> QED
      BY <1>7, <2>1, <2>2, <2>3 DEF WatchStep
<1>8. CASE LeaveScope
    BY <1>8 DEF LeaveScope
<1>9. CASE UNCHANGED vars
    BY <1>9 DEF vars
<1> QED
    BY <1>1, <1>2, <1>3, <1>4, <1>5, <1>6, <1>7, <1>8, <1>9
       DEF Next, LadderStep, Over

(* The gate: what is read stays unknown or right.                          *)
LEMMA GateStep == TypeOK /\ GateInv /\ [Next]_vars => GateInv'
<1> SUFFICES ASSUME TypeOK, GateInv, [Next]_vars PROVE GateInv'
    OBVIOUS
<1> USE DEF TypeOK, GateInv, InCheck, RightAnswer, Front, design, ladder, gate, Finish
<1>1. CASE PeerDecides \/ BudgetExpires
    BY <1>1 DEF PeerDecides, BudgetExpires
<1>2. CASE StopAtCancel \/ StopAtBudget \/ BeginDepth
    BY <1>2 DEF StopAtCancel, StopAtBudget, BeginDepth
<1>3. CASE GateEnter \/ GateLeave
    BY <1>3 DEF GateEnter, GateLeave
<1>4. CASE Z3Returns
    BY <1>4 DEF Z3Returns, Z3Answers
<1>5. CASE ReadDefinite \/ ReadBaseUnsat \/ DepthCap \/ Extend
    BY <1>5 DEF ReadDefinite, ReadBaseUnsat, DepthCap, Extend
<1>6. CASE WatchStep
    BY <1>6 DEF WatchStep, WatchSees, WatchFires, WatchEnds, InterruptIfInQuery
<1>7. CASE LeaveScope
    BY <1>7 DEF LeaveScope
<1>8. CASE UNCHANGED vars
    BY <1>8 DEF vars
<1> QED
    BY <1>1, <1>2, <1>3, <1>4, <1>5, <1>6, <1>7, <1>8
       DEF Next, LadderStep, Over

(* The fronts keep their meaning.                                          *)
LEMMA FrontStep == TypeOK /\ GateInv /\ FrontInv /\ [Next]_vars => FrontInv'
<1> SUFFICES ASSUME TypeOK, GateInv, FrontInv, [Next]_vars PROVE FrontInv'
    OBVIOUS
<1>1. CASE Extend
    BY <1>1, ExtendFronts
<1>2. CASE ~Extend
  <2>1. UNCHANGED <<d, k, baseFront, stepFront>>
      BY <1>2 DEF Next, LadderStep, WatchStep, PeerDecides, BudgetExpires,
           StopAtCancel, StopAtBudget, BeginDepth, GateEnter, GateLeave,
           ReadDefinite, ReadBaseUnsat, DepthCap, LeaveScope, Z3Returns,
           WatchSees, WatchFires, WatchEnds, Over, vars, design, ladder
  <2>2. CASE ReadBaseUnsat
    <3>1. baseFront \cap d.bad = {}
        BY <2>2 DEF ReadBaseUnsat, GateInv, RightAnswer, Front
    <3> QED
        BY <2>1, <3>1, SameFronts
  <2>3. CASE ~ReadBaseUnsat
    <3>1. (query = "step" /\ pc \in {"ask", "solve", "leave", "read"})'
            => query = "step" /\ pc \in {"ask", "solve", "leave", "read"}
        BY <1>2, <2>3 DEF Next, LadderStep, WatchStep, PeerDecides,
             BudgetExpires, StopAtCancel, StopAtBudget, BeginDepth, GateEnter,
             GateLeave, ReadDefinite, DepthCap, LeaveScope, Z3Returns,
             WatchSees, WatchFires, WatchEnds, Over, vars, Finish
    <3> QED
        BY <2>1, <3>1, SameFronts DEF FrontInv
  <2> QED
      BY <2>2, <2>3
<1> QED
    BY <1>1, <1>2

(* A verdict is only written when it is true.                              *)
LEMMA ResultStep == IndInv /\ [Next]_vars => ResultInv'
<1> SUFFICES ASSUME IndInv, [Next]_vars PROVE ResultInv'
    OBVIOUS
<1> USE DEF IndInv, ResultInv
<1>1. CASE ReadDefinite
  <2>1. d' = d
      BY <1>1 DEF ReadDefinite, design
  <2>2. BadReachable' = BadReachable
      BY <2>1 DEF BadReachable, Reachable, Closed, Image
  <2>3. CASE query = "base" /\ res = "sat" /\ Finish("violated")
    <3>1. baseFront \cap d.bad # {}
        BY <1>1, <2>3 DEF ReadDefinite, GateInv, RightAnswer, Front
    <3> QED
        BY <2>2, <2>3, <3>1, BaseSat DEF Finish, VerdictTrue
  <2>4. CASE query = "step" /\ res = "unsat" /\ Finish("safe")
    <3>1. stepFront \cap d.bad = {}
        BY <1>1, <2>4 DEF ReadDefinite, GateInv, RightAnswer, Front
    <3> QED
        BY <2>2, <2>4, <3>1, StepUnsat DEF Finish, VerdictTrue
  <2>5. CASE res = "unknown" /\ Finish("unknown")
      BY <2>5 DEF Finish, VerdictTrue
  <2> QED
      BY <1>1, <2>3, <2>4, <2>5 DEF ReadDefinite
<1>2. CASE StopAtCancel \/ StopAtBudget \/ DepthCap
    BY <1>2 DEF StopAtCancel, StopAtBudget, DepthCap, Finish, VerdictTrue
<1>3. CASE UNCHANGED <<d, verdict>> /\ (pc' \in {"draining", "returned"} <=> pc \in {"draining", "returned"})
    BY <1>3, SameVerdict
<1>4. CASE ~(ReadDefinite \/ StopAtCancel \/ StopAtBudget \/ DepthCap)
    BY <1>3, <1>4 DEF Next, LadderStep, WatchStep, PeerDecides, BudgetExpires,
         BeginDepth, GateEnter, GateLeave, ReadBaseUnsat, Extend, LeaveScope,
         Z3Returns, WatchSees, WatchFires, WatchEnds, Over, vars, design
<1> QED
    BY <1>1, <1>2, <1>4

(* The depth counted is the depth searched.                                *)
LEMMA SameEnds ==
    ASSUME UNCHANGED d, NEW n
    PROVE  EndsIn(n)' = EndsIn(n)
BY DEF EndsIn, IsPath

LEMMA DepthStep == TypeOK /\ FrontInv /\ DepthInv /\ [Next]_vars => DepthInv'
<1> SUFFICES ASSUME TypeOK, FrontInv, DepthInv, [Next]_vars PROVE DepthInv'
    OBVIOUS
<1>1. CASE Extend
  <2>1. /\ d' = d /\ d \in Designs /\ k' = k + 1 /\ k \in Nat
        /\ baseFront' = Image(baseFront) \cap d.ok /\ baseFront \cap d.bad = {}
      BY <1>1, LadderAssumption DEF Extend, design, FrontInv, TypeOK
  <2>2. baseFront' = EndsIn(k + 1)
      BY <2>1, PathGrows DEF DepthInv
  <2>3. \A n \in 0..k : EndsIn(n) \cap d.bad = {}
    <3>1. \A n \in 0..k : n = k \/ n \in 0..(k - 1)
        BY <2>1
    <3> QED
        BY <2>1, <3>1 DEF DepthInv
  <2>4. k' - 1 = k
      BY <2>1
  <2>5. \A n : EndsIn(n)' = EndsIn(n)
      BY <2>1, SameEnds
  <2>6. (baseFront = EndsIn(k))'
      BY <2>1, <2>2 DEF EndsIn, IsPath
  <2>7. (\A n \in 0..(k - 1) : EndsIn(n) \cap d.bad = {})'
      BY <2>1, <2>3, <2>4, <2>5
  <2> QED
      BY <2>6, <2>7 DEF DepthInv
<1>2. CASE ~Extend
  <2>1. UNCHANGED <<d, k, baseFront>>
      BY <1>2 DEF Next, LadderStep, WatchStep, PeerDecides, BudgetExpires,
           StopAtCancel, StopAtBudget, BeginDepth, GateEnter, GateLeave,
           ReadDefinite, ReadBaseUnsat, DepthCap, LeaveScope, Z3Returns,
           WatchSees, WatchFires, WatchEnds, Over, vars, design, ladder
  <2> QED
      BY <2>1 DEF DepthInv, EndsIn, IsPath
<1> QED
    BY <1>1, <1>2

LEMMA CauseStep == TypeOK /\ GateInv /\ CauseInv /\ [Next]_vars => CauseInv'
<1> SUFFICES ASSUME TypeOK, GateInv, CauseInv, [Next]_vars PROVE CauseInv'
    OBVIOUS
<1> USE DEF TypeOK, CauseInv, GateInv, design, gate, Finish
<1>1. CASE GateEnter
    BY <1>1 DEF GateEnter
<1>2. CASE GateLeave
    BY <1>2 DEF GateLeave
<1>3. CASE Z3Returns
    BY <1>3 DEF Z3Returns, Z3Answers
<1>4. CASE WatchStep
    BY <1>4 DEF WatchStep, WatchSees, WatchFires, WatchEnds, InterruptIfInQuery
<1>5. CASE PeerDecides \/ BudgetExpires
    BY <1>5 DEF PeerDecides, BudgetExpires
<1>6. CASE \/ StopAtCancel \/ StopAtBudget \/ BeginDepth \/ ReadDefinite
           \/ ReadBaseUnsat \/ Extend \/ DepthCap \/ LeaveScope \/ UNCHANGED vars
    BY <1>6 DEF StopAtCancel, StopAtBudget, BeginDepth, ReadDefinite, ReadBaseUnsat,
         Extend, DepthCap, LeaveScope, vars
<1> QED
    BY <1>1, <1>2, <1>3, <1>4, <1>5, <1>6 DEF Next, LadderStep, Over

(* What a verdict says of the depths, at the step that writes it.          *)
LEMMA ExhaustedStep == IndInv /\ DepthsExhausted /\ [Next]_vars => DepthsExhausted'
<1> SUFFICES ASSUME IndInv, DepthsExhausted, [Next]_vars PROVE DepthsExhausted'
    OBVIOUS
<1>0. d' = d /\ MaxK \in Nat /\ k \in 0..MaxK
    BY LadderAssumption DEF IndInv, TypeOK, Next, LadderStep, WatchStep, PeerDecides, BudgetExpires,
         StopAtCancel, StopAtBudget, BeginDepth, GateEnter, GateLeave,
         ReadDefinite, ReadBaseUnsat, DepthCap, Extend, LeaveScope, Z3Returns,
         WatchSees, WatchFires, WatchEnds, Over, vars, design
<1>1. CASE ReadDefinite
  <2>1. CASE query = "base" /\ res = "sat" /\ Finish("violated")
    <3>1. baseFront \cap d.bad # {}
        BY <1>1, <2>1 DEF ReadDefinite, IndInv, GateInv, RightAnswer, Front
    <3>2. k' = k /\ verdict' = "violated"
        BY <1>1, <2>1 DEF ReadDefinite, Finish, ladder
    <3> QED
        BY <1>0, <3>1, <3>2 DEF IndInv, DepthInv, DepthsExhausted, EndsIn, IsPath
  <2>2. CASE query = "step" /\ res = "unsat" /\ Finish("safe")
      BY <2>2 DEF Finish, DepthsExhausted
  <2>3. CASE res = "unknown" /\ Finish("unknown")
    <3>1. /\ verdict' = "unknown" /\ timed' = timed /\ cancel' = cancel
          /\ timed \/ cancel
        BY <1>1, <2>3 DEF ReadDefinite, Finish, design, IndInv, CauseInv
    <3> QED
        BY <3>1 DEF DepthsExhausted
  <2> QED
      BY <1>1, <2>1, <2>2, <2>3 DEF ReadDefinite
<1>2. CASE StopAtCancel \/ StopAtBudget
    BY <1>2 DEF StopAtCancel, StopAtBudget, Finish, DepthsExhausted
<1>3. CASE DepthCap
  <2>1. k = MaxK /\ verdict' = "unknown" /\ baseFront \cap d.bad = {}
      BY <1>0, <1>3 DEF DepthCap, Finish, IndInv, FrontInv
  <2>2. \A n \in 0..MaxK : n = k \/ n \in 0..(k - 1)
      BY <1>0, <2>1
  <2>3. \A n \in 0..MaxK : EndsIn(n) \cap d.bad = {}
      BY <2>1, <2>2 DEF IndInv, DepthInv
  <2> QED
      BY <1>0, <2>1, <2>3 DEF DepthsExhausted, EndsIn, IsPath
<1>4. CASE Extend
  <2>1. verdict' = "pending"
      BY <1>4 DEF Extend, IndInv, ResultInv
  <2> QED
      BY <2>1 DEF DepthsExhausted
<1>5. CASE ~(ReadDefinite \/ StopAtCancel \/ StopAtBudget \/ DepthCap \/ Extend)
  <2>1. /\ UNCHANGED <<d, k, verdict, timed>>
        /\ ~cancel' => ~cancel
        /\ ~expired' => ~expired
      BY <1>5 DEF Next, LadderStep, WatchStep, PeerDecides, BudgetExpires, BeginDepth,
           GateEnter, GateLeave, ReadBaseUnsat, LeaveScope, Z3Returns,
           WatchSees, WatchFires, WatchEnds, Over, vars, design, ladder
  <2> QED
      BY <2>1 DEF DepthsExhausted, EndsIn, IsPath
<1> QED
    BY <1>1, <1>2, <1>3, <1>4, <1>5

(* The inductive invariant.                                                *)
THEOREM Invariance == Spec => []IndInv
<1>1. IndInv /\ [Next]_vars => IndInv'
    BY TypeStep, GateStep, FrontStep, ResultStep, DepthStep, CauseStep DEF IndInv
<1> QED
    BY <1>1, IndInit, PTL DEF Spec

(* Every reachable state of the ladder is well typed.                      *)
THEOREM TypeCorrect == Spec => []TypeOK
<1>1. IndInv => TypeOK
    BY DEF IndInv
<1> QED
    BY <1>1, Invariance, PTL

(* k-induction with interrupts is sound: Violated means a bad frame is     *)
(* reachable, Safe means none is, whatever an interrupted z3 answers.      *)
THEOREM Soundness == Spec => []VerdictTrue
<1>1. IndInv => VerdictTrue
    BY DEF IndInv, ResultInv
<1> QED
    BY <1>1, Invariance, PTL

(* A counterexample is a shallowest one, and an unknown that no timeout,   *)
(* cancellation or spent budget explains has searched every depth up to    *)
(* the cap: for every design and every cap.                                *)
THEOREM DepthsSearched == Spec => []DepthsExhausted
<1>1. Init => DepthsExhausted
    BY DEF Init, DepthsExhausted
<1> QED
    BY <1>1, ExhaustedStep, Invariance, PTL DEF Spec

(* The watchdog interrupts z3 only while a check is in flight.             *)
THEOREM InterruptConfined == Spec => InterruptOnlyInCheck
<1>1. IndInv /\ [Next]_vars => [cut' # cut => pc \in {"solve", "leave"}]_vars
    BY DEF IndInv, GateInv, InCheck, Next, LadderStep, WatchStep, PeerDecides,
         BudgetExpires, StopAtCancel, StopAtBudget, BeginDepth, GateEnter,
         GateLeave, ReadDefinite, ReadBaseUnsat, Extend, DepthCap, LeaveScope,
         Z3Returns, WatchSees, WatchFires, InterruptIfInQuery, WatchEnds, Over,
         vars
<1> QED
    BY <1>1, Invariance, PTL DEF Spec, InterruptOnlyInCheck

=============================================================================
