---------------------------- MODULE NativeLadder ----------------------------
(***************************************************************************)
(* The in-house BMC + k-induction engine with its cancellation watchdog:   *)
(* one call of decide_bad_safety_cancellable (adapter/btor2/native_bmc.rs).*)
(*                                                                         *)
(* A depth ladder asks z3 two questions per depth: is bad reachable in     *)
(* exactly k steps (base), and can a path of k steps that avoids bad, from *)
(* anywhere, end in bad (step)?  A watchdog thread interrupts z3 when the  *)
(* caller's cancel flag has been up for longer than the grace.  An         *)
(* interrupted check may return ANY answer (mununu#878), so every check    *)
(* goes through a gate that records the interrupt and discards the answer. *)
(*                                                                         *)
(* A frame (a valuation of all states and inputs) is one element of        *)
(* States.  A solver's assertion stack is represented by the set of frames *)
(* its paths can end in: the query is satisfiable iff that set meets bad.  *)
(***************************************************************************)
EXTENDS Integers

CONSTANTS States,   \* the frames
          Designs,  \* the transition systems the engine may be given
          MaxK      \* max_k: the depth cap of the ladder

ASSUME LadderAssumption ==
    /\ Designs \subseteq [init : SUBSET States, trans : SUBSET (States \X States),
                          bad : SUBSET States, ok : SUBSET States]
    /\ MaxK \in Nat

VARIABLES
    d,            \* the design; never changes
    cancelArg,    \* was a cancel flag passed?  (no watchdog otherwise)
    timed,        \* timeout_ms.is_some(): may z3 give up on a query?
    cancel,       \* the portfolio's `decided` flag
    expired,      \* the run budget
    k,            \* the depth
    baseFront,    \* frames an initialised path of k steps can end in
    stepFront,    \* frames a bad-avoiding path of k steps can end in
    pc,           \* where the ladder is
    query,        \* which of the two queries of depth k
    res,          \* what base.check() / step.check() returned
    cancelSeen,   \* the ladder has seen the flag: its grace is running
    inQuery,      \* GateState.in_query
    interrupted,  \* GateState.interrupted
    cut,          \* z3's own cancel flag: an interrupt was issued
    watchdog,     \* the watchdog thread
    done,         \* the AtomicBool that stops the watchdog
    verdict       \* the result

design == <<d, cancelArg, timed>>
gate == <<inQuery, interrupted>>
ladder == <<k, baseFront, stepFront, cancelSeen>>
vars == <<d, cancelArg, timed, cancel, expired, k, baseFront, stepFront, pc,
          query, res, cancelSeen, inQuery, interrupted, cut, watchdog, done,
          verdict>>

-----------------------------------------------------------------------------
(* What the design means.                                                  *)

Image(S) == {t \in States : \E s \in S : <<s, t>> \in d.trans}

(* The frames a path reaches: the least set that contains the initial      *)
(* frames and is closed under transitions, constraints holding throughout. *)
Closed(S) == d.init \cap d.ok \subseteq S /\ Image(S) \cap d.ok \subseteq S
Reachable == {s \in States : \A S \in SUBSET States : Closed(S) => s \in S}
BadReachable == Reachable \cap d.bad # {}

Front == IF query = "base" THEN baseFront ELSE stepFront

(* z3 on the query in flight: right or, under a timeout, unknown; once an  *)
(* interrupt was issued, anything.                                         *)
Z3Answers ==
    IF cut THEN {"sat", "unsat", "unknown"}
    ELSE {IF Front \cap d.bad # {} THEN "sat" ELSE "unsat"}
           \cup (IF timed THEN {"unknown"} ELSE {})

-----------------------------------------------------------------------------
(* The solvers are created and asserted: init on base only, the frame-0    *)
(* constraints on both; the watchdog starts iff there is a flag to watch.  *)
Init ==
    /\ d \in Designs
    /\ cancelArg \in BOOLEAN
    /\ timed \in BOOLEAN
    /\ cancel = FALSE
    /\ expired = FALSE
    /\ k = 0
    /\ baseFront = d.init \cap d.ok
    /\ stepFront = d.ok
    /\ pc = "depth"
    /\ query = "base"
    /\ res = "unknown"
    /\ cancelSeen = FALSE
    /\ inQuery = FALSE
    /\ interrupted = FALSE
    /\ cut = FALSE
    /\ watchdog = IF cancelArg THEN "watching" ELSE "ended"
    /\ done = FALSE
    /\ verdict = "pending"

(* A peer decides; the budget runs out.                                    *)
PeerDecides ==
    /\ pc # "returned" /\ cancelArg /\ ~cancel
    /\ cancel' = TRUE
    /\ UNCHANGED <<design, expired, ladder, pc, query, res, gate, cut, watchdog,
                   done, verdict>>

BudgetExpires ==
    /\ pc # "returned" /\ ~expired
    /\ expired' = TRUE
    /\ UNCHANGED <<design, cancel, ladder, pc, query, res, gate, cut, watchdog,
                   done, verdict>>

(* The ladder ends with v; `done` tells the watchdog.                      *)
Finish(v) ==
    /\ verdict' = v
    /\ pc' = "draining"
    /\ done' = TRUE

-----------------------------------------------------------------------------
(* The depth boundary: the flag past its grace, then the budget, else the  *)
(* base query.  The first sight of the flag only starts the grace.         *)
StopAtCancel ==
    /\ pc = "depth" /\ cancelArg /\ cancel /\ cancelSeen
    /\ Finish("unknown")
    /\ UNCHANGED <<design, cancel, expired, ladder, query, res, gate, cut, watchdog>>

StopAtBudget ==
    /\ pc = "depth" /\ expired
    /\ Finish("unknown")
    /\ cancelSeen' = (cancelSeen \/ (cancelArg /\ cancel))
    /\ UNCHANGED <<design, cancel, expired, k, baseFront, stepFront, query, res,
                   gate, cut, watchdog>>

BeginDepth ==
    /\ pc = "depth" /\ ~expired
    /\ cancelSeen' = (cancelSeen \/ (cancelArg /\ cancel))
    /\ pc' = "ask"
    /\ query' = "base"
    /\ UNCHANGED <<design, cancel, expired, k, baseFront, stepFront, res, gate,
                   cut, watchdog, done, verdict>>

(* QueryGate::check, first critical section.                               *)
GateEnter ==
    /\ pc = "ask"
    /\ IF interrupted
         THEN res' = "unknown" /\ pc' = "read" /\ UNCHANGED inQuery
         ELSE inQuery' = TRUE /\ pc' = "solve" /\ UNCHANGED res
    /\ UNCHANGED <<design, cancel, expired, ladder, query, interrupted, cut,
                   watchdog, done, verdict>>

(* The check itself, outside the lock.                                     *)
Z3Returns ==
    /\ pc = "solve"
    /\ res' \in Z3Answers
    /\ pc' = "leave"
    /\ UNCHANGED <<design, cancel, expired, ladder, query, gate, cut, watchdog,
                   done, verdict>>

(* Mutants: the answer of an interrupted check is kept; the gate stays     *)
(* open after the check.                                                   *)
GateLeave_trusting ==
    /\ pc = "leave"
    /\ inQuery' = FALSE
    /\ pc' = "read"
    /\ UNCHANGED <<design, cancel, expired, ladder, query, res, interrupted,
                   cut, watchdog, done, verdict>>

GateLeave_open ==
    /\ pc = "leave"
    /\ res' = IF interrupted THEN "unknown" ELSE res
    /\ pc' = "read"
    /\ UNCHANGED <<design, cancel, expired, ladder, query, gate, cut, watchdog,
                   done, verdict>>

(* Second critical section: whatever z3 said is dropped after an interrupt.*)
GateLeave ==
    /\ pc = "leave"
    /\ inQuery' = FALSE
    /\ res' = IF interrupted THEN "unknown" ELSE res
    /\ pc' = "read"
    /\ UNCHANGED <<design, cancel, expired, ladder, query, interrupted, cut,
                   watchdog, done, verdict>>

(* The two matches on the result of a query.                               *)
ReadDefinite ==
    /\ pc = "read"
    /\ \/ query = "base" /\ res = "sat" /\ Finish("violated")
       \/ query = "step" /\ res = "unsat" /\ Finish("safe")
       \/ res = "unknown" /\ Finish("unknown")
    /\ UNCHANGED <<design, cancel, expired, ladder, query, res, gate, cut, watchdog>>

ReadBaseUnsat ==
    /\ pc = "read" /\ query = "base" /\ res = "unsat"
    /\ query' = "step"
    /\ pc' = "ask"
    /\ UNCHANGED <<design, cancel, expired, ladder, res, gate, cut, watchdog,
                   done, verdict>>

(* Neither closed depth k: one more transition on both paths, with bad     *)
(* excluded from the step path's last frame.                               *)
Extend ==
    /\ pc = "read" /\ query = "step" /\ res = "sat" /\ k < MaxK
    /\ k' = k + 1
    /\ baseFront' = Image(baseFront) \cap d.ok
    /\ stepFront' = Image(stepFront \ d.bad) \cap d.ok
    /\ pc' = "depth"
    /\ UNCHANGED <<design, cancel, expired, query, res, cancelSeen, gate, cut,
                   watchdog, done, verdict>>

(* Mutant: 0..max_k for 0..=max_k.                                         *)
DepthCap_short ==
    /\ pc = "read" /\ query = "step" /\ res = "sat" /\ k >= MaxK - 1
    /\ Finish("unknown")
    /\ UNCHANGED <<design, cancel, expired, ladder, query, res, gate, cut, watchdog>>

DepthCap ==
    /\ pc = "read" /\ query = "step" /\ res = "sat" /\ k >= MaxK
    /\ Finish("unknown")
    /\ UNCHANGED <<design, cancel, expired, ladder, query, res, gate, cut, watchdog>>

-----------------------------------------------------------------------------
(* The watchdog: the first sight of the flag starts its own grace; after   *)
(* it, each poll calls interrupt_if_in_query, one critical section.        *)
WatchSees ==
    /\ watchdog = "watching" /\ cancel
    /\ watchdog' = "grace"
    /\ UNCHANGED <<design, cancel, expired, ladder, pc, query, res, gate, cut,
                   done, verdict>>

(* Mutant: the interrupt is recorded but never issued.                     *)
InterruptIfInQuery_unsent ==
    /\ inQuery
    /\ interrupted' = TRUE
    /\ UNCHANGED <<inQuery, cut>>

InterruptIfInQuery ==
    /\ inQuery
    /\ interrupted' = TRUE
    /\ cut' = TRUE
    /\ UNCHANGED inQuery

WatchFires ==
    /\ watchdog = "grace" /\ cancel
    /\ InterruptIfInQuery
    /\ UNCHANGED <<design, cancel, expired, ladder, pc, query, res, watchdog,
                   done, verdict>>

WatchEnds ==
    /\ watchdog # "ended" /\ done
    /\ watchdog' = "ended"
    /\ UNCHANGED <<design, cancel, expired, ladder, pc, query, res, gate, cut,
                   done, verdict>>

(* thread::scope joins the watchdog before the verdict is handed out.      *)
LeaveScope ==
    /\ pc = "draining" /\ watchdog = "ended"
    /\ pc' = "returned"
    /\ UNCHANGED <<design, cancel, expired, ladder, query, res, gate, cut,
                   watchdog, done, verdict>>

Over == pc = "returned" /\ UNCHANGED vars

LadderStep ==
    \/ StopAtCancel \/ StopAtBudget \/ BeginDepth \/ GateEnter \/ GateLeave
    \/ ReadDefinite \/ ReadBaseUnsat \/ Extend \/ DepthCap \/ LeaveScope

WatchStep == WatchSees \/ WatchFires \/ WatchEnds

Next == PeerDecides \/ BudgetExpires \/ LadderStep \/ Z3Returns \/ WatchStep \/ Over

Spec == Init /\ [][Next]_vars

(* Both threads keep running, and z3 comes back from a check it was told   *)
(* to abandon.  Nothing says that it ever answers one it was not.          *)
CancelSpec ==
    /\ Spec
    /\ WF_vars(LadderStep)
    /\ WF_vars(WatchSees) /\ WF_vars(WatchFires) /\ WF_vars(WatchEnds)
    /\ WF_vars(Z3Returns /\ cut)

-----------------------------------------------------------------------------
(* Type correctness of the ladder, the gate and the watchdog.              *)
TypeOK ==
    /\ d \in Designs
    /\ cancelArg \in BOOLEAN /\ timed \in BOOLEAN
    /\ cancel \in BOOLEAN /\ expired \in BOOLEAN
    /\ k \in 0..MaxK
    /\ baseFront \in SUBSET States /\ stepFront \in SUBSET States
    /\ pc \in {"depth", "ask", "solve", "leave", "read", "draining", "returned"}
    /\ query \in {"base", "step"}
    /\ res \in {"sat", "unsat", "unknown"}
    /\ cancelSeen \in BOOLEAN
    /\ inQuery \in BOOLEAN /\ interrupted \in BOOLEAN /\ cut \in BOOLEAN
    /\ watchdog \in {"watching", "grace", "ended"}
    /\ done \in BOOLEAN
    /\ verdict \in {"pending", "violated", "safe", "unknown"}

(* A verdict of decide_bad_safety_cancellable is true of the design,       *)
(* whatever an interrupted z3 answered and wherever the interrupt landed:  *)
(* Violated only if a bad frame is reachable, Safe only if none is.        *)
VerdictTrue ==
    /\ verdict = "violated" => BadReachable
    /\ verdict = "safe" => ~BadReachable

(* "A query that is interrupted is never read; the interrupt cannot land   *)
(* between one check ending and the next beginning": z3 is interrupted     *)
(* only while the ladder is inside QueryGate::check.                       *)
InterruptOnlyInCheck == [][cut' # cut => pc \in {"solve", "leave"}]_vars

(* The paths of n steps, and the frames they end in.                       *)
IsPath(p, n) ==
    /\ p[0] \in d.init \cap d.ok
    /\ \A i \in 1..n : <<p[i - 1], p[i]>> \in d.trans /\ p[i] \in d.ok
EndsIn(n) == {s \in States : \E p \in [0..n -> States] : IsPath(p, n) /\ p[n] = s}

(* A Violated verdict carries the depth of a SHALLOWEST counterexample,    *)
(* and an Unknown verdict that no timeout, cancellation or expired budget  *)
(* explains means that no counterexample of at most max_k steps exists.    *)
DepthsExhausted ==
    /\ verdict = "violated" =>
         /\ EndsIn(k) \cap d.bad # {}
         /\ \A n \in 0..(k - 1) : EndsIn(n) \cap d.bad = {}
    /\ verdict = "unknown" /\ ~timed /\ ~cancel /\ ~expired =>
         \A n \in 0..MaxK : EndsIn(n) \cap d.bad = {}

(* A cancelled run returns although z3 would never finish the query in     *)
(* flight: the watchdog cuts it, the gate drops it, the scope is left.     *)
CancelHonoured == cancelArg /\ cancel ~> pc = "returned"
=============================================================================
