--------------------------- MODULE OwnedPortfolio ---------------------------
(***************************************************************************)
(* The owned-standalone portfolio: one call of decide_reach_owned_only     *)
(* (adapter/reach_portfolio.rs).  Four in-process members run on DETACHED  *)
(* threads and report through a channel; the collector returns on the      *)
(* first definite report plus a grace for stragglers, on four reports, on  *)
(* a disconnected channel or at the deadline, and never joins anybody.     *)
(***************************************************************************)
EXTENDS ReachOutcome, Sequences, FiniteSets, Integers

CONSTANTS Unsound,   \* engines that may answer wrongly
          MayPanic   \* members whose thread may panic before it reports

Engines == {"native", "interp", "cex", "exact"}

(* Mutant: the count was not raised when the fourth member was added.      *)
N_MEMBERS_stale == 3

N_MEMBERS == 4

ASSUME OwnedAssumption == MayPanic \subseteq Engines

VARIABLES
    truth,      \* what the design is; never changes
    expired,    \* had the run budget expired when the call was made?
    pc,         \* the collector
    late,       \* Instant::now() >= deadline
    graceOver,  \* Instant::now() >= grace_deadline
    th,         \* per engine: its thread
    vote,       \* per engine: what its engine call returned
    decided,    \* the shared AtomicBool
    refused,    \* the shared list of refusals
    channel,    \* the reports in flight
    reports,    \* the engines whose report was received
    outcome,    \* what the call returned
    listed      \* the refusals it returned

vars == <<truth, expired, pc, late, graceOver, th, vote, decided, refused,
          channel, reports, outcome, listed>>

members == <<th, vote, decided, refused>>

Init ==
    /\ truth \in Definite
    /\ expired \in BOOLEAN
    /\ pc = "entry"
    /\ late = FALSE /\ graceOver = FALSE
    /\ th = [e \in Engines |-> "unborn"]
    /\ vote = [e \in Engines |-> "none"]
    /\ decided = FALSE
    /\ refused = {}
    /\ channel = <<>>
    /\ reports = {}
    /\ outcome = Pending
    /\ listed = {}

(* An expired budget decides nothing; otherwise four threads and a clock.  *)
EnterExpired ==
    /\ pc = "entry" /\ expired
    /\ pc' = "returned"
    /\ outcome' = from_sets({}, {})
    /\ UNCHANGED <<truth, expired, late, graceOver, members, channel, reports, listed>>

Enter ==
    /\ pc = "entry" /\ ~expired
    /\ pc' = "wait"
    /\ th' = [e \in Engines |-> "run"]
    /\ UNCHANGED <<truth, expired, late, graceOver, vote, decided, refused,
                   channel, reports, outcome, listed>>

DeadlinePasses ==
    /\ pc \in {"wait", "grace"} /\ ~late
    /\ late' = TRUE
    /\ UNCHANGED <<truth, expired, pc, graceOver, members, channel, reports,
                   outcome, listed>>

GracePasses ==
    /\ pc = "grace" /\ ~graceOver
    /\ graceOver' = TRUE
    /\ UNCHANGED <<truth, expired, pc, late, members, channel, reports, outcome, listed>>

-----------------------------------------------------------------------------
(* The members.  The deep counterexample search only ever answers          *)
(* "reachable"; interpolation never refuses; exact never plainly abstains. *)
Answers(e) ==
    LET right == IF e \in Unsound THEN Definite ELSE {truth}
    IN  CASE e = "cex"    -> (right \cap {"reachable"}) \cup {"refused"}
          [] e = "interp" -> right
          [] e \in {"native", "exact"} -> right \cup {"refused"}

(* note_refusal, called before the report is sent.                         *)
note_refusal(e, v) == IF v = "refused" THEN refused \cup {e} ELSE refused

(* The engine call returns; a refusal is recorded inside it.               *)
Returns(e, v) ==
    /\ th[e] = "run"
    /\ th' = [th EXCEPT ![e] = "settled"]
    /\ vote' = [vote EXCEPT ![e] = v]
    /\ refused' = note_refusal(e, v)
    /\ UNCHANGED <<truth, expired, pc, late, graceOver, decided, channel,
                   reports, outcome, listed>>

MemberAnswers(e) == \E v \in Answers(e) : Returns(e, v)

(* Its own timeout or depth cap, or a poll of `decided`.                   *)
MemberGivesUp(e) == e # "exact" /\ Returns(e, "none")

MemberPanics(e) ==
    /\ e \in MayPanic /\ th[e] = "run"
    /\ th' = [th EXCEPT ![e] = "ended"]
    /\ UNCHANGED <<truth, expired, pc, late, graceOver, vote, decided, refused,
                   channel, reports, outcome, listed>>

(* A definite answer stores `decided` BEFORE it is sent.                   *)
MemberStores(e) ==
    /\ th[e] = "settled"
    /\ th' = [th EXCEPT ![e] = "stored"]
    /\ decided' = (decided \/ vote[e] \in Definite)
    /\ UNCHANGED <<truth, expired, pc, late, graceOver, vote, refused, channel,
                   reports, outcome, listed>>

(* A send to a collector that has returned fails and is ignored.           *)
MemberSends(e) ==
    /\ th[e] = "stored"
    /\ th' = [th EXCEPT ![e] = "ended"]
    /\ channel' = IF pc = "returned" THEN channel ELSE Append(channel, e)
    /\ UNCHANGED <<truth, expired, pc, late, graceOver, vote, decided, refused,
                   reports, outcome, listed>>

-----------------------------------------------------------------------------
(* The collector.                                                          *)
ReachableBy(S) == {e \in S : vote[e] = "reachable"}

(* Mutant: whoever did not find a counterexample counts as a proof.        *)
UnreachableBy_rest(S) == {e \in S : vote[e] # "reachable"}

UnreachableBy(S) == {e \in S : vote[e] = "unreachable"}

(* All senders are gone and nothing is queued: recv_timeout fails at once. *)
Disconnected == channel = <<>> /\ \A e \in Engines : th[e] = "ended"

Return ==
    /\ pc' = "returned"
    /\ outcome' = from_sets(ReachableBy(reports'), UnreachableBy(reports'))
    /\ listed' = refused
    /\ channel' = <<>>

(* recv_timeout delivers a report.  The deadline may pass between the test *)
(* of the clock and the delivery, so `late` does not forbid it.  `stop` is *)
(* the loop's own reason to end after this report.                         *)
Receive(stop, then) ==
    /\ channel # <<>>
    /\ reports' = reports \cup {Head(channel)}
    /\ IF stop
         THEN Return
         ELSE /\ pc' = then
              /\ channel' = Tail(channel)
              /\ UNCHANGED <<outcome, listed>>
    /\ UNCHANGED <<truth, expired, late, graceOver, members>>

WaitReceives ==
    /\ pc = "wait"
    /\ LET definite == vote[Head(channel)] \in Definite
           all == Cardinality(reports) + 1 = N_MEMBERS
       IN  Receive(all, IF definite THEN "grace" ELSE "wait")

(* Mutant: recv in place of recv_timeout.                                  *)
WaitEnds_blocking ==
    /\ pc = "wait"
    /\ Disconnected
    /\ UNCHANGED reports
    /\ Return
    /\ UNCHANGED <<truth, expired, late, graceOver, members>>

(* The first loop ends without a definite report.                          *)
WaitEnds ==
    /\ pc = "wait"
    /\ late \/ Disconnected
    /\ UNCHANGED reports
    /\ Return
    /\ UNCHANGED <<truth, expired, late, graceOver, members>>

(* The grace loop also ends as soon as the reports contradict each other.  *)
GraceReceives ==
    /\ pc = "grace" /\ channel # <<>>
    /\ LET got == reports \cup {Head(channel)}
       IN  Receive(\/ Cardinality(got) = N_MEMBERS
                   \/ ReachableBy(got) # {} /\ UnreachableBy(got) # {}, "grace")

(* Mutant: the stragglers are given the whole deadline.                    *)
GraceEnds_deadline ==
    /\ pc = "grace"
    /\ late \/ Disconnected
    /\ UNCHANGED reports
    /\ Return
    /\ UNCHANGED <<truth, expired, late, graceOver, members>>

GraceEnds ==
    /\ pc = "grace"
    /\ graceOver \/ late \/ Disconnected
    /\ UNCHANGED reports
    /\ Return
    /\ UNCHANGED <<truth, expired, late, graceOver, members>>

(* The caller has its answer and every abandoned thread has ended.         *)
Over ==
    /\ pc = "returned" /\ \A e \in Engines : th[e] \in {"unborn", "ended"}
    /\ UNCHANGED vars

MemberStep(e) ==
    \/ MemberAnswers(e) \/ MemberGivesUp(e) \/ MemberPanics(e)
    \/ MemberStores(e) \/ MemberSends(e)

Collector == EnterExpired \/ Enter \/ WaitReceives \/ WaitEnds \/ GraceReceives \/ GraceEnds

Next ==
    \/ Collector \/ DeadlinePasses \/ GracePasses
    \/ \E e \in Engines : MemberStep(e)
    \/ Over

Spec == Init /\ [][Next]_vars

(* Threads run, but no engine need ever return to its thread.              *)
FairSpec ==
    /\ Spec /\ WF_vars(Collector)
    /\ \A e \in Engines : WF_vars(MemberStores(e)) /\ WF_vars(MemberSends(e))

(* The two clocks, assumed one at a time.                                  *)
DeadlineComes == WF_vars(DeadlinePasses)
GraceComes == WF_vars(GracePasses)

-----------------------------------------------------------------------------
(* Type correctness of the threads, the channel and the collector, checked *)
(* with NothingMissed.                                                     *)
TypeOK ==
    /\ truth \in Definite
    /\ expired \in BOOLEAN /\ late \in BOOLEAN /\ graceOver \in BOOLEAN
    /\ pc \in {"entry", "wait", "grace", "returned"}
    /\ th \in [Engines -> {"unborn", "run", "settled", "stored", "ended"}]
    /\ vote \in [Engines -> Votes]
    /\ decided \in BOOLEAN
    /\ refused \in SUBSET Engines /\ listed \in SUBSET Engines
    /\ channel \in Seq(Engines) /\ Len(channel) <= Cardinality(Engines)
    /\ reports \in SUBSET Engines
    /\ outcome \in {Pending} \cup
         [verdict : Verdicts, reachable_by : SUBSET Engines,
          unreachable_by : SUBSET Engines]

(* The owned-only driver keeps the same promise as the scoped one.         *)
Promise == INSTANCE ReachPromise
ImplementsPromise == Promise!PromiseSpec

(* The collector misses nothing.  An Unknown before the deadline, under a  *)
(* live budget, means that no member decided: a member that bails because  *)
(* a peer stored `decided`, and reports first, does not end the wait for   *)
(* the peer's verdict.  The refusals handed to the caller are refusals,    *)
(* and include those of every member whose report was counted (mununu#803, *)
(* mununu#873).                                                            *)
NothingMissed ==
    /\ TypeOK
    /\ pc = "returned" /\ outcome.verdict = "unknown" /\ ~late =>
         ~decided /\ \A e \in Engines : vote[e] \notin Definite
    /\ pc = "returned" =>
         /\ {e \in reports : vote[e] = "refused"} \subseteq listed
         /\ \A e \in listed : vote[e] = "refused"

(* No caller is ever blocked on a member: the deadline alone ends the      *)
(* call, even if no engine ever returns.                                   *)
NeverBlocked == DeadlineComes => <>(pc = "returned")

(* The wall is the first decider plus the 250 ms grace, not the deadline,  *)
(* however far away that is.                                               *)
DecidedReturns == GraceComes => (decided ~> pc = "returned")
=============================================================================
