------------------------ MODULE ReachPortfolioProofs ------------------------
(***************************************************************************)
(* The scoped portfolio is sound, leaves nothing running, reports every    *)
(* refusal and implements ReachPromise, for every set of child members,    *)
(* every set of bad lines and every set of unsound engines.                *)
(***************************************************************************)
EXTENDS ReachPortfolio, FiniteSetTheorems, TLAPS

(* A member that has not come back has not voted, and owns no process      *)
(* before it runs or after it settles.                                     *)
MembersInv ==
    /\ \A e \in Engines : th[e] \in {"unborn", "run"} => vote[e] = "none"
    /\ \A c \in Children :
         /\ th[c] = "unborn" => child[c] = "none"
         /\ th[c] \in {"settled", "done"} => child[c] \in {"none", "reaped"}

(* What a sound engine says is true: its vote of the whole design, a       *)
(* process's output of one bad line of it.                                 *)
HonestInv ==
    /\ bads # {} /\ reach \subseteq bads
    /\ \A e \in Engines \ Unsound : vote[e] \in Definite => vote[e] = Truth
    /\ \A c \in Children \ Unsound :
         /\ says[c] = "sat" => reach # {}
         /\ says[c] \in {"unsat", "unsat!"} => reach # bads

(* `decided` has a cause, and a child sees it only when it is set.         *)
CauseInv ==
    /\ decided => StopRequested \/ Voters # {}
    /\ \A c \in Children : seen[c] => decided

RefusedInv == refused = {e \in Engines : th[e] = "done" /\ vote[e] = "refused"}

(* What the calling thread's place says about the others.                  *)
MainInv ==
    /\ main = "entry" =>
         /\ \A e \in Engines : th[e] = "unborn"
         /\ forwarder = "off" /\ ~decided
    /\ main = "joined" => \A e \in Engines : th[e] = "done"
    /\ main = "returned" =>
         /\ \/ \A e \in Engines : th[e] = "unborn"
            \/ \A e \in Engines : th[e] = "done"
         /\ forwarder # "run"
         /\ outcome = collect
    /\ main = "unwound" =>
         /\ \A e \in Engines : th[e] = "done"
         /\ forwarder # "run"
    /\ main # "returned" => outcome = Pending

IndInv ==
    /\ TypeOK /\ MembersInv /\ HonestInv /\ CauseInv /\ RefusedInv /\ MainInv

-----------------------------------------------------------------------------
(* Lemmas about the values the model is built from.                        *)

(* A design is reachable or it is not.                                     *)
LEMMA TruthType == Truth \in Definite
BY DEF Truth, TruthOf, Definite

(* from_sets returns an outcome whatever the two sets are.                 *)
LEMMA FromSetsType ==
    ASSUME NEW E, NEW R \in SUBSET E, NEW U \in SUBSET E
    PROVE  from_sets(R, U) \in [verdict : Verdicts, reachable_by : SUBSET E,
                                unreachable_by : SUBSET E]
<1>1. CASE R # {} /\ U # {}
    BY <1>1 DEF from_sets, Verdicts
<1>2. CASE R # {} /\ U = {}
    BY <1>2 DEF from_sets, Verdicts, Definite
<1>3. CASE R = {} /\ U # {}
    BY <1>3 DEF from_sets, Verdicts, Definite
<1>4. CASE R = {} /\ U = {}
    BY <1>4 DEF from_sets, Verdicts
<1> QED
    BY <1>1, <1>2, <1>3, <1>4

(* The merge of the votes is an outcome.                                   *)
LEMMA CollectType ==
    collect \in [verdict : Verdicts, reachable_by : SUBSET Engines,
                 unreachable_by : SUBSET Engines]
BY FromSetsType DEF collect

(* Nobody voted: the merge is the outcome of an expired budget.            *)
LEMMA CollectNobody ==
    ASSUME \A e \in Engines : vote[e] = "none"
    PROVE  collect = from_sets({}, {})
<1>1. {e \in Engines : vote[e] = "reachable"} = {}
    OBVIOUS
<1>2. {e \in Engines : vote[e] = "unreachable"} = {}
    OBVIOUS
<1> QED
    BY <1>1, <1>2 DEF collect

(* With at most one bad line, a proof of one bad line is a proof of all.   *)
LEMMA SingleBad ==
    ASSUME NEW S, IsFiniteSet(S), ~(Cardinality(S) > 1),
           NEW R \in SUBSET S, R # S
    PROVE  R = {}
<1> SUFFICES ASSUME R # {} PROVE FALSE
    OBVIOUS
<1>1. PICK x \in S : x \notin R
    OBVIOUS
<1>2. PICK y \in S : y \in R
    OBVIOUS
<1>3. /\ IsFiniteSet(S \ {x})
      /\ Cardinality(S \ {x}) = Cardinality(S) - 1
    BY <1>1, FS_RemoveElement
<1>4. Cardinality(S \ {x}) # 0
    BY <1>1, <1>2, <1>3, FS_EmptySet
<1>5. Cardinality(S) \in Nat /\ Cardinality(S \ {x}) \in Nat
    BY <1>3, FS_CardinalityType
<1> QED
    BY <1>3, <1>4, <1>5


-----------------------------------------------------------------------------
(* The invariant holds before the call.                                    *)
LEMMA IndInit == Init => IndInv
<1> SUFFICES ASSUME Init PROVE IndInv
    OBVIOUS
<1> USE DEF Init, Engines, InProcess
<1>1. TypeOK
    BY DEF TypeOK, Votes
<1>2. MembersInv /\ CauseInv /\ MainInv
    BY DEF MembersInv, CauseInv, MainInv
<1>3. HonestInv
  <2>1. bads # {} /\ reach \subseteq bads
      OBVIOUS
  <2>2. \A e \in Engines : vote[e] \notin Definite
      BY DEF Definite
  <2>3. \A c \in Children : says[c] = "nothing"
      OBVIOUS
  <2> QED
      BY <2>1, <2>2, <2>3 DEF HonestInv
<1>4. RefusedInv
    BY DEF RefusedInv
<1> QED
    BY <1>1, <1>2, <1>3, <1>4 DEF IndInv

(* The wrapper's reading of an honest process's output is an honest vote.  *)
LEMMA HonestReading ==
    ASSUME TypeOK, HonestInv, NEW c \in Children
    PROVE  /\ ReadOutput(says[c]) \in Votes
           /\ c \notin Unsound /\ ReadOutput(says[c]) \in Definite
                => ReadOutput(says[c]) = Truth
<1>1. says[c] \in {"sat", "unsat", "unsat!", "nothing", "nothing!"}
    BY DEF TypeOK
<1>2. CASE says[c] = "sat"
    BY <1>2 DEF ReadOutput, PartialProof, HonestInv, Truth, TruthOf, Votes, Definite
<1>3. CASE says[c] \in {"unsat", "unsat!"}
  <2>1. IsFiniteSet(bads)
      BY PortfolioAssumption, FS_Subset DEF TypeOK
  <2>2. CASE Cardinality(bads) > 1
      BY <1>3, <2>2 DEF ReadOutput, PartialProof, Votes, Definite
  <2>3. CASE ~(Cardinality(bads) > 1)
    <3>1. ReadOutput(says[c]) = "unreachable"
        BY <1>3, <2>3 DEF ReadOutput, PartialProof
    <3>2. c \notin Unsound => reach = {}
        BY <1>3, <2>1, <2>3, SingleBad DEF HonestInv
    <3> QED
        BY <3>1, <3>2 DEF Truth, TruthOf, Votes, Definite
  <2> QED
      BY <2>2, <2>3
<1>4. CASE says[c] \in {"nothing", "nothing!"}
    BY <1>4 DEF ReadOutput, PartialProof, Votes, Definite
<1> QED
    BY <1>1, <1>2, <1>3, <1>4


(* Every step preserves the invariant: one case per action.                *)
LEMMA IndStep == IndInv /\ [Next]_vars => IndInv'
<1> SUFFICES ASSUME IndInv, [Next]_vars PROVE IndInv'
    OBVIOUS
<1> USE PortfolioAssumption, TruthType
<1> USE DEF IndInv, TypeOK, MembersInv, HonestInv, CauseInv, RefusedInv,
            MainInv, Truth, StopRequested, Voters, collect, Pending,
            Engines, InProcess, Definite, Votes, Verdicts, design
<1>1. CASE RequestCancel
    BY <1>1 DEF RequestCancel
<1>2. CASE BudgetExpires
    BY <1>2 DEF BudgetExpires
<1>3. CASE EnterExpired
  <2>1. outcome' = collect
      BY <1>3, CollectNobody DEF EnterExpired
  <2>2. collect' = collect
      BY <1>3 DEF EnterExpired
  <2> QED
      BY <1>3, <2>1, <2>2, CollectType DEF EnterExpired
<1>4. CASE EnterScope
    BY <1>4 DEF EnterScope, NeedsForwarder
<1>5. CASE JoinMembers
    BY <1>5 DEF JoinMembers
<1>6. CASE LeaveScope
  <2>1. outcome' = collect /\ collect' = collect
      BY <1>6 DEF LeaveScope
  <2> QED
      BY <1>6, <2>1, CollectType DEF LeaveScope
<1>7. CASE LeaveUnwinding
    BY <1>7 DEF LeaveUnwinding
<1>8. CASE ForwardStop
    BY <1>8 DEF ForwardStop
<1>9. CASE ForwardEnd
    BY <1>9 DEF ForwardEnd
<1>10. CASE ExactReturns
    BY <1>10 DEF ExactReturns, Settle, DefiniteOf
<1>11. CASE ExactPanics
    BY <1>11 DEF ExactPanics
<1>12. ASSUME NEW m \in InProcess, InProcessAnswers(m) PROVE IndInv'
    BY <1>12 DEF InProcessAnswers, Settle, DefiniteOf
<1>13. ASSUME NEW m \in InProcess, InProcessGivesUp(m) PROVE IndInv'
    BY <1>13 DEF InProcessGivesUp, Settle
<1>14. ASSUME NEW m \in InProcess, InProcessBails(m) PROVE IndInv'
    BY <1>14 DEF InProcessBails, Settle
<1>15. ASSUME NEW c \in Children, ChildUnavailable(c) PROVE IndInv'
    BY <1>15 DEF ChildUnavailable, Settle
<1>16. ASSUME NEW c \in Children, ChildSpawns(c) PROVE IndInv'
    BY <1>16 DEF ChildSpawns
<1>17. ASSUME NEW c \in Children, ChildExits(c) PROVE IndInv'
    BY <1>17 DEF ChildExits, Prints
<1>18. ASSUME NEW c \in Children, PollExited(c) PROVE IndInv'
  <2> DEFINE v == ReadOutput(says[c])
  <2>1. v \in Votes /\ (c \notin Unsound /\ v \in Definite => v = Truth)
      BY HonestReading
  <2>2. PollExited(c) /\ vote' = [vote EXCEPT ![c] = v]
      BY <1>18 DEF PollExited, Settle
  <2> HIDE DEF v
  <2>3. TypeOK' /\ MembersInv' /\ RefusedInv'
      BY <2>1, <2>2 DEF PollExited, Settle
  <2>4. HonestInv' /\ CauseInv' /\ MainInv'
      BY <2>1, <2>2 DEF PollExited, Settle
  <2> QED
      BY <2>3, <2>4
<1>19. ASSUME NEW c \in Children, PollSeesCancel(c) PROVE IndInv'
    BY <1>19 DEF PollSeesCancel
<1>20. ASSUME NEW c \in Children, KillCancelled(c) PROVE IndInv'
    BY <1>20 DEF KillCancelled, Kill, Settle
<1>21. ASSUME NEW c \in Children, KillTimedOut(c) PROVE IndInv'
    BY <1>21 DEF KillTimedOut, Kill, Settle
<1>22. ASSUME NEW e \in Engines, Report(e) PROVE IndInv'
    BY <1>22 DEF Report, SetsDecided, note_refusal
<1>23. CASE Over
    BY <1>23 DEF Over, vars
<1>24. CASE UNCHANGED vars
    BY <1>24 DEF vars
<1> QED
    BY <1>1, <1>2, <1>3, <1>4, <1>5, <1>6, <1>7, <1>8, <1>9, <1>10, <1>11,
       <1>12, <1>13, <1>14, <1>15, <1>16, <1>17, <1>18, <1>19, <1>20,
       <1>21, <1>22, <1>23, <1>24 DEF Next, MainStep, InProcessStep,
       ChildStep

(* The inductive invariant holds in every reachable state.                 *)
THEOREM Invariance == Spec => []IndInv
BY IndInit, IndStep, PTL DEF Spec

-----------------------------------------------------------------------------
(* Every reachable state of the scoped portfolio is well typed.            *)
THEOREM TypeCorrect == Spec => []TypeOK
<1>1. IndInv => TypeOK
    BY DEF IndInv
<1> QED
    BY <1>1, Invariance, PTL

(* The verdict of a returned call is from_sets of the two sets of voters.  *)
LEMMA FromSetsVerdict ==
    ASSUME NEW R, NEW U
    PROVE  /\ from_sets(R, U).verdict = "reachable" => R # {} /\ U = {}
           /\ from_sets(R, U).verdict = "unreachable" => R = {} /\ U # {}
           /\ from_sets(R, U).verdict = "contradiction" => R # {} /\ U # {}
           /\ from_sets(R, U).verdict = "unknown" => R = {} /\ U = {}
<1>1. CASE R # {} /\ U # {}
    BY <1>1 DEF from_sets
<1>2. CASE R # {} /\ U = {}
    BY <1>2 DEF from_sets
<1>3. CASE R = {} /\ U # {}
    BY <1>3 DEF from_sets
<1>4. CASE R = {} /\ U = {}
    BY <1>4 DEF from_sets
<1> QED
    BY <1>1, <1>2, <1>3, <1>4

(* Soundness of the merged verdict: a wrong definite verdict has only      *)
(* unsound engines behind it, and a contradiction has at least one.        *)
THEOREM Soundness == Spec => []SoundVerdict
<1>1. IndInv => SoundVerdict
  <2> SUFFICES ASSUME IndInv, main = "returned"
               PROVE  /\ outcome.verdict \in Definite \ {Truth}
                           => Voters # {} /\ Voters \subseteq Unsound
                      /\ outcome.verdict = "contradiction"
                           => Voters \cap Unsound # {}
      BY DEF SoundVerdict
  <2> DEFINE R == {e \in Engines : vote[e] = "reachable"}
             U == {e \in Engines : vote[e] = "unreachable"}
  <2>1. outcome = from_sets(R, U)
      BY DEF IndInv, MainInv, collect
  <2>2. Voters = R \cup U
      BY DEF Voters, Definite
  <2>3. /\ Truth # "reachable" => R \subseteq Unsound
        /\ Truth # "unreachable" => U \subseteq Unsound
      BY DEF IndInv, HonestInv, Definite
  <2>4. /\ outcome.verdict = "reachable" => R # {} /\ U = {}
        /\ outcome.verdict = "unreachable" => R = {} /\ U # {}
        /\ outcome.verdict = "contradiction" => R # {} /\ U # {}
      BY <2>1, FromSetsVerdict
  <2> HIDE DEF R, U
  <2> QED
      BY <2>2, <2>3, <2>4, TruthType DEF Definite
<1> QED
    BY <1>1, Invariance, PTL

(* The portfolio never cancels its members into an unknown by itself.      *)
THEOREM NoSelfInflictedUnknown == Spec => []UnknownForCause
<1>1. IndInv => UnknownForCause
  <2> SUFFICES ASSUME IndInv, main = "returned", outcome.verdict = "unknown",
                      NEW c \in Children, seen[c]
               PROVE  StopRequested
      BY DEF UnknownForCause
  <2>1. Voters = {}
    <3> DEFINE R == {e \in Engines : vote[e] = "reachable"}
               U == {e \in Engines : vote[e] = "unreachable"}
    <3>1. outcome = from_sets(R, U)
        BY DEF IndInv, MainInv, collect
    <3>2. R = {} /\ U = {}
        BY <3>1, FromSetsVerdict
    <3> QED
        BY <3>2 DEF Voters, Definite
  <2> QED
      BY <2>1 DEF IndInv, CauseInv
<1> QED
    BY <1>1, Invariance, PTL

(* After the call no thread and no solver process is left behind.          *)
THEOREM CleanReturn == Spec => []NothingLeftRunning
<1>1. IndInv => NothingLeftRunning
    BY DEF IndInv, TypeOK, MembersInv, MainInv, NothingLeftRunning, Engines
<1> QED
    BY <1>1, Invariance, PTL

(* The refusals of a returned call are exactly its refusing members.       *)
THEOREM RefusalAccounting == Spec => []RefusalsReported
<1>1. IndInv => RefusalsReported
    BY DEF IndInv, MembersInv, RefusedInv, MainInv, RefusalsReported
<1> QED
    BY <1>1, Invariance, PTL

-----------------------------------------------------------------------------
(* A returning step is a step of the promise.                              *)
LEMMA ReturnsHonestly ==
    ASSUME IndInv, outcome = Pending, outcome' = collect, UNCHANGED reach
    PROVE  Promise!Return
<1> DEFINE R == {e \in Engines : vote[e] = "reachable"}
           U == {e \in Engines : vote[e] = "unreachable"}
<1>1. outcome' = from_sets(R, U)
    BY DEF collect
<1>2. Promise!Honest(R, U)
    BY TruthType DEF Promise!Honest, IndInv, HonestInv, Definite
<1>3. Truth' = Truth
    BY DEF Truth
<1>4. R \in SUBSET Engines /\ U \in SUBSET Engines
    OBVIOUS
<1> HIDE DEF R, U
<1> QED
    BY <1>1, <1>2, <1>3, <1>4 DEF Promise!Return, Promise!Pending, Promise!from_sets, Pending, from_sets

(* The scoped driver implements ReachPromise.                              *)
THEOREM Refinement == Spec => ImplementsPromise
<1>1. Init => Promise!PromiseInit
    BY TruthType DEF Init, Promise!PromiseInit, Promise!Definite, Definite,
                     Promise!Pending, Pending
<1>2. IndInv /\ [Next]_vars => [Promise!PromiseNext]_Promise!promiseVars
  <2> SUFFICES ASSUME IndInv, [Next]_vars
               PROVE  Promise!Return \/ UNCHANGED <<Truth, outcome>>
      BY DEF Promise!PromiseNext, Promise!promiseVars
  <2>1. CASE EnterExpired
    <3>1. outcome = Pending /\ \A e \in Engines : vote[e] = "none"
        BY <2>1 DEF EnterExpired, IndInv, MainInv, MembersInv
    <3>2. outcome' = collect /\ UNCHANGED reach
        BY <2>1, <3>1, CollectNobody DEF EnterExpired, design
    <3> QED
        BY <3>1, <3>2, ReturnsHonestly
  <2>2. CASE LeaveScope
    <3>1. outcome = Pending /\ outcome' = collect /\ UNCHANGED reach
        BY <2>2 DEF LeaveScope, IndInv, MainInv, design
    <3> QED
        BY <3>1, ReturnsHonestly
  <2>3. CASE UNCHANGED <<reach, outcome>>
      BY <2>3 DEF Truth
  <2>4. EnterExpired \/ LeaveScope \/ UNCHANGED <<reach, outcome>>
      BY DEF Next, vars, design, MainStep, InProcessStep, ChildStep, RequestCancel,
             BudgetExpires, EnterScope, JoinMembers, LeaveUnwinding,
             ForwardStop, ForwardEnd, ExactReturns, ExactPanics,
             InProcessAnswers, InProcessGivesUp, InProcessBails,
             ChildUnavailable, ChildSpawns, ChildExits, PollExited,
             PollSeesCancel, KillCancelled, KillTimedOut, Report, Over
  <2> QED
      BY <2>1, <2>2, <2>3, <2>4
<1> QED
    BY <1>1, <1>2, Invariance, PTL DEF Spec, ImplementsPromise, Promise!PromiseSpec

=============================================================================
