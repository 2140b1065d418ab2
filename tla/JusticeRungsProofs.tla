------------------------- MODULE JusticeRungsProofs -------------------------
(***************************************************************************)
(* What the justice engine's loop guarantees for every number of justice   *)
(* sets, every portfolio behind the l2s rung and every rung that panics: a *)
(* pushed verdict is its own set's, `Unknown` has its cause, and between   *)
(* two sets nothing runs.                                                  *)
(***************************************************************************)
EXTENDS JusticeRungs, SequenceTheorems, TLAPS

Running == {"start", "settled"} \cup Stages
Counted == Running \cup {"sent", "panicking", "held"}
AtRest  == {"idle", "ended"}

(* What the portfolio may have handed over.                                *)
OutcomeOK ==
    outcome \in [verdict : Verdicts \cup {"pending"},
                 reachable_by : SUBSET Members, unreachable_by : SUBSET Members]

(* Without a race at most the rung the caller is at runs, and nothing of   *)
(* the race is in use.                                                     *)
AloneInv ==
    policy # "parallel" =>
        /\ live = 0 /\ cancel = FALSE /\ channel = <<>>
        /\ pc \notin {"race", "cancel", "join"}
        /\ pc \in {"exact", "remainder"} =>
               rung["exact"] \in Running /\ rung["l2s"] \in AtRest
        /\ pc = "l2s" => rung["l2s"] \in Running /\ rung["exact"] \in AtRest
        /\ pc = "exact" => policy \in {"exact", "sequential"}
        /\ pc = "l2s" => policy \in {"l2s", "sequential"}
        /\ pc = "remainder" => policy = "sequential"

(* LIVE_RUNGS counts the rungs between their guard's two ends.             *)
Count(r) == IF rung[r] \in Counted THEN 1 ELSE 0

CountInv ==
    policy = "parallel" =>
        /\ live = Count("exact") + Count("l2s")
        /\ pc \notin {"exact", "l2s", "remainder", "unwound"}

RestInv == pc \in {"set", "push", "returned", "unwound"} =>
               \A r \in Rungs : rung[r] \in AtRest

(* A report is sent once, by a rung that came to its end.                  *)
Queues == {q \in Seq(Rungs) : \A i, j \in 1..Len(q) : i # j => q[i] # q[j]}
Queued(r, q) == \E i \in 1..Len(q) : q[i] = r

ChannelInv ==
    /\ channel \in Queues
    /\ \A r \in Rungs : Queued(r, channel) =>
           rung[r] \in {"sent", "ended"} /\ answer[r] \notin {"none", "panicked"}

(* What a rung's place says of its answer.                                 *)
AnswerAt(r) ==
    /\ rung[r] \in {"settled", "sent"} =>
           answer[r] \in Decisions \cup {"abstained", "cancelled"}
    /\ rung[r] \in {"panicking", "held"} => answer[r] = "panicked"
    /\ answer[r] = "cancelled" => cancel

AnswerInv == \A r \in Rungs : AnswerAt(r)

(* A rung has had its say: its abstention is noted, or it panicked.        *)
Heard(r) == answer[r] = "abstained" /\ r \in notes

(* While the caller waits, every rung that ended panicked, reported, or    *)
(* was heard; pending is the number of those not heard.                    *)
WaitInv ==
    pc = "race" =>
        /\ cancel = FALSE /\ verdict = "unknown"
        /\ pending = 2 - (IF "exact" \in notes THEN 1 ELSE 0) - (IF "l2s" \in notes THEN 1 ELSE 0)
        /\ pending >= 1
        /\ \A r \in notes : answer[r] = "abstained" /\ rung[r] \in {"sent", "ended"}
        /\ \A r \in notes : ~Queued(r, channel)
        /\ \A r \in Rungs : rung[r] \in {"sent", "ended"} =>
               \/ answer[r] = "panicked"
               \/ r \in notes
               \/ Queued(r, channel)

(* A race that was called off undecided had heard every rung.              *)
UndecidedInv ==
    pc \in {"cancel", "join"} =>
        /\ pc = "cancel" => cancel = FALSE
        /\ verdict = "unknown" => \A r \in Rungs :
               (Heard(r) \/ answer[r] = "panicked") /\ rung[r] \in {"sent", "ended"}

(* The sequential policy comes to a later leg only past an abstention.     *)
LegInv ==
    /\ pc \in {"exact", "l2s", "remainder"} => verdict = "unknown"
    /\ pc = "l2s" /\ policy = "sequential" => Heard("exact")
    /\ pc = "remainder" => Heard("l2s")

(* An exact answer is right; one of the monitor is right or rests on       *)
(* unsound members alone.                                                  *)
OnlyUnsound(S) == S # {} /\ S \subseteq Unsound

TruthInv ==
    pc # "set" =>
        /\ answer["exact"] \in Decisions => answer["exact"] = truth[set]
        /\ answer["l2s"] = "holds" /\ truth[set] = "violated" =>
               OnlyUnsound(outcome.unreachable_by)
        /\ answer["l2s"] = "violated" /\ truth[set] = "holds" =>
               OnlyUnsound(outcome.reachable_by)

SoundFor(v, by, t) ==
    v \in Decisions /\ v # t =>
        "l2s" \in by /\ by \cap Members # {} /\ by \cap Members \subseteq Unsound

VerdictInv == pc # "set" => SoundFor(verdict, decidedBy, truth[set])

(* One result per set.                                                     *)
PushedInv == Len(results) = IF pc = "returned" THEN NSets ELSE set - 1

ControlInv == AloneInv /\ CountInv /\ RestInv
RaceInv == ChannelInv /\ AnswerInv /\ WaitInv /\ UndecidedInv
DataInv == TruthInv /\ VerdictInv /\ PushedInv /\ SoundJustice

IndInv ==
    /\ TypeOK /\ OutcomeOK
    /\ ControlInv /\ RaceInv /\ LegInv /\ UnknownForCause
    /\ DataInv

-----------------------------------------------------------------------------
(* The steps of a rung on its way to an answer, seen alike.                *)
Working == {"start"} \cup Stages

Works(r, x, a) ==
    /\ rung[r] \in Working
    /\ rung' = [rung EXCEPT ![r] = x] /\ answer' = [answer EXCEPT ![r] = a]
    /\ \/ x \in Stages /\ a = answer[r]
       \/ x = "settled" /\ a \in Decisions \cup {"abstained", "cancelled"}
    /\ a = "cancelled" /\ a # answer[r] => cancel
    /\ UNCHANGED <<inputs, pc, locals, ladder, race, live>>

(* The answer a rung comes to is right, or rests on unsound members.       *)
Justified(r, a) ==
    /\ r = "exact" => outcome' = outcome /\ (a \in Decisions /\ a # answer[r] => a = truth[set])
    /\ r = "l2s" => \/ outcome' = outcome /\ a = "abstained"
                    \/ /\ a = "holds" /\ truth[set] = "violated" =>
                              OnlyUnsound(outcome'.unreachable_by)
                       /\ a = "violated" /\ truth[set] = "holds" =>
                              OnlyUnsound(outcome'.reachable_by)

RungWorks ==
    \E r \in Rungs, x \in Stages \cup {"settled"},
       a \in Decisions \cup {"none", "abstained", "cancelled", "panicked"} :
         Works(r, x, a) /\ Justified(r, a)

(* Nothing but a clock moves.                                              *)
Quiet == UNCHANGED <<inputs, pc, locals, rung, answer, outcome, race, live>>

LEMMA SettlesAs ==
    ASSUME TypeOK, NEW r \in Rungs, NEW a \in Decisions \cup {"abstained", "cancelled"},
           rung[r] \in Working, Settles(r, a), a = "cancelled" => cancel, Justified(r, a),
           UNCHANGED <<inputs, pc, locals, ladder, race, live>>
    PROVE  RungWorks
<1>1. Works(r, "settled", a)
    BY DEF Settles, Works
<1> QED
    BY <1>1 DEF RungWorks

LEMMA GoesOn ==
    ASSUME TypeOK, NEW x \in Stages, rung["exact"] \in Working,
           rung' = [rung EXCEPT !["exact"] = x],
           UNCHANGED <<inputs, pc, locals, answer, outcome, ladder, race, live>>
    PROVE  RungWorks
<1>1. answer' = [answer EXCEPT !["exact"] = answer["exact"]]
    BY DEF TypeOK, Rungs
<1>2. answer["exact"] \in Decisions \cup {"none", "abstained", "cancelled", "panicked"}
    BY DEF TypeOK, Rungs
<1>3. Works("exact", x, answer["exact"])
    BY <1>1 DEF Works
<1>4. Justified("exact", answer["exact"])
    BY DEF Justified
<1> QED
    BY <1>2, <1>3, <1>4 DEF RungWorks, Rungs

(* What the portfolio hands over, read through LivenessVerdict.            *)
LEMMA ReturnEffect ==
    ASSUME OutcomeOK, TypeOK, Portfolio!Return
    PROVE  /\ OutcomeOK'
           /\ LivenessVerdict(outcome'.verdict) \in Decisions \cup {"abstained"}
           /\ LivenessVerdict(outcome'.verdict) = "holds" /\ truth[set] = "violated" =>
                  OnlyUnsound(outcome'.unreachable_by)
           /\ LivenessVerdict(outcome'.verdict) = "violated" /\ truth[set] = "holds" =>
                  OnlyUnsound(outcome'.reachable_by)
<1>1. PICK R \in SUBSET Members, U \in SUBSET Members :
          Portfolio!Honest(R, U) /\ outcome' = Portfolio!from_sets(R, U)
    BY DEF Portfolio!Return
<1>2. /\ outcome'.reachable_by = R /\ outcome'.unreachable_by = U
      /\ outcome'.verdict =
           CASE R # {} /\ U # {} -> "contradiction"
             [] R # {} /\ U = {} -> "reachable"
             [] R = {} /\ U # {} -> "unreachable"
             [] R = {} /\ U = {} -> "unknown"
      /\ outcome' = [verdict |-> outcome'.verdict, reachable_by |-> R, unreachable_by |-> U]
    BY <1>1 DEF Portfolio!from_sets
<1>3. outcome'.verdict \in Verdicts
    BY <1>2 DEF Verdicts, Definite
<1>4. OutcomeOK'
    BY <1>1, <1>2, <1>3 DEF OutcomeOK
<1>5. LivenessVerdict(outcome'.verdict) \in Decisions \cup {"abstained"}
    BY <1>3 DEF LivenessVerdict, Verdicts, Definite, Decisions
<1>6. LivenessVerdict(outcome'.verdict) = "holds" => outcome'.verdict = "unreachable"
    BY <1>3 DEF LivenessVerdict, Verdicts, Definite
<1>7. LivenessVerdict(outcome'.verdict) = "violated" => outcome'.verdict = "reachable"
    BY <1>3 DEF LivenessVerdict, Verdicts, Definite
<1>8. outcome'.verdict = "unreachable" /\ truth[set] = "violated" => OnlyUnsound(U)
    BY <1>1, <1>2 DEF Portfolio!Honest, MonitorTruth, OnlyUnsound
<1>9. outcome'.verdict = "reachable" /\ truth[set] = "holds" => OnlyUnsound(R)
    BY <1>1, <1>2 DEF Portfolio!Honest, MonitorTruth, OnlyUnsound
<1> QED
    BY <1>2, <1>4, <1>5, <1>6, <1>7, <1>8, <1>9

LEMMA WorkEffect ==
    ASSUME TypeOK, OutcomeOK,
           \/ Prepare \/ (\E s \in Stages : StageEnds(s))
           \/ PortfolioReturns \/ NoMonitor
    PROVE  RungWorks /\ OutcomeOK'
<1> USE DEF Rungs
<1>1. CASE Prepare
  <2>0. rung["exact"] \in Working /\ outcome' = outcome
      BY <1>1 DEF Prepare, Working
  <2>1. CASE Settles("exact", "abstained")
    <3>1. Justified("exact", "abstained")
        BY <2>0 DEF Justified, Decisions
    <3> QED
        BY <1>1, <2>0, <2>1, <3>1, SettlesAs DEF Prepare, OutcomeOK
  <2>2. CASE rung' = [rung EXCEPT !["exact"] = "stage1"] /\ UNCHANGED answer
      BY <1>1, <2>0, <2>2, GoesOn DEF Prepare, OutcomeOK, Stages
  <2> QED
      BY <1>1, <2>1, <2>2 DEF Prepare
<1>2. ASSUME NEW s \in Stages, StageEnds(s) PROVE RungWorks /\ OutcomeOK'
  <2>0. rung["exact"] \in Working /\ outcome' = outcome
      BY <1>2 DEF StageEnds, Working
  <2>1. PICK end \in AttemptEnds :
          \/ \E x \in Stages : rung' = [rung EXCEPT !["exact"] = x] /\ UNCHANGED answer
          \/ end \in Decisions /\ Settles("exact", end)
          \/ end \notin Decisions /\ Settles("exact", Abstention(end))
      BY <1>2 DEF StageEnds, Stages
  <2>2. CASE \E x \in Stages : rung' = [rung EXCEPT !["exact"] = x] /\ UNCHANGED answer
      BY <1>2, <2>0, <2>2, GoesOn DEF StageEnds, OutcomeOK
  <2>3. CASE end \in Decisions /\ Settles("exact", end)
    <3>1. end = truth[set] /\ end # "cancelled"
        BY <2>1, <2>3 DEF AttemptEnds, Decisions
    <3>2. Justified("exact", end)
        BY <2>0, <3>1 DEF Justified
    <3> QED
        BY <1>2, <2>0, <2>3, <3>1, <3>2, SettlesAs DEF StageEnds, OutcomeOK
  <2>4. CASE end \notin Decisions /\ Settles("exact", Abstention(end))
    <3>1. /\ Abstention(end) \in {"abstained", "cancelled"}
          /\ Abstention(end) = "cancelled" => end = "cancelled"
        BY DEF Abstention
    <3>2. end = "cancelled" => cancel
      <4>1. truth[set] \in Decisions
          BY DEF TypeOK
      <4> QED
          BY <2>1, <2>4, <4>1 DEF AttemptEnds
    <3>3. Justified("exact", Abstention(end))
        BY <2>0, <3>1 DEF Justified, Decisions
    <3> QED
        BY <1>2, <2>0, <2>4, <3>1, <3>2, <3>3, SettlesAs DEF StageEnds, OutcomeOK
  <2> QED
      BY <2>1, <2>2, <2>3, <2>4
<1>3. CASE PortfolioReturns
  <2> DEFINE a == LivenessVerdict(outcome'.verdict)
  <2>1. rung["l2s"] \in Working /\ Portfolio!Return /\ Settles("l2s", a)
      BY <1>3 DEF PortfolioReturns, Working
  <2>2. a \in Decisions \cup {"abstained"} /\ OutcomeOK' /\ Justified("l2s", a)
      BY <2>1, ReturnEffect DEF Justified
  <2>3. a # "cancelled"
      BY <2>2 DEF Decisions
  <2> HIDE DEF a
  <2> QED
      BY <1>3, <2>1, <2>2, <2>3, SettlesAs DEF PortfolioReturns
<1>4. CASE NoMonitor
  <2>1. rung["l2s"] \in Working /\ Justified("l2s", "abstained")
      BY <1>4 DEF NoMonitor, Working, Justified
  <2> QED
      BY <1>4, <2>1, SettlesAs DEF NoMonitor, OutcomeOK
<1> QED
    BY <1>1, <1>2, <1>3, <1>4

(* Every step, in the terms of this module.                                *)
LEMMA StepKinds ==
    ASSUME TypeOK, OutcomeOK, [Next]_vars
    PROVE  \/ Quiet \/ RungWorks
           \/ \E r \in Rungs : RungGuard_enter(r) \/ Send(r) \/ RungEnds(r) \/ RungPanics(r)
           \/ BeginSet \/ Receive \/ Disconnected \/ CancelRungs \/ JoinRungs
           \/ TakeExact \/ TakeL2s \/ TakeRemainder \/ PushResult
<1>1. BudgetPasses \/ SlicePasses \/ ForwarderPolls \/ Over \/ UNCHANGED vars => Quiet
    BY DEF BudgetPasses, SlicePasses, ForwarderPolls, Over, vars, Quiet
<1>2. (\/ Prepare \/ (\E s \in Stages : StageEnds(s)) \/ PortfolioReturns \/ NoMonitor) => RungWorks
    BY WorkEffect
<1> QED
    BY <1>1, <1>2 DEF Next, Caller, Closure

LEMMA OutcomeStep ==
    ASSUME TypeOK, OutcomeOK, [Next]_vars
    PROVE  OutcomeOK'
<1>1. CASE \/ Prepare \/ (\E s \in Stages : StageEnds(s)) \/ PortfolioReturns \/ NoMonitor
    BY <1>1, WorkEffect
<1>2. CASE BeginSet
    BY <1>2 DEF BeginSet, OutcomeOK, Pending
<1>3. CASE UNCHANGED outcome
    BY <1>3 DEF OutcomeOK
<1>4. CASE UNCHANGED vars \/ ForwarderPolls \/ Over \/ BudgetPasses \/ SlicePasses
    BY <1>3, <1>4 DEF vars, ForwarderPolls, Over, BudgetPasses, SlicePasses
<1>5. CASE \E r \in Rungs : Closure(r) \/ RungPanics(r)
    BY <1>3, <1>5 DEF Closure, RungPanics, RungGuard_enter, Send, RungEnds
<1>6. CASE Caller /\ ~BeginSet
    BY <1>3, <1>6 DEF Caller, Receive, Disconnected, CancelRungs, JoinRungs, TakeExact,
                      TakeL2s, TakeRemainder, PushResult
<1> QED
    BY <1>1, <1>2, <1>4, <1>5, <1>6 DEF Next

-----------------------------------------------------------------------------
(* Which rungs run where, and that LIVE_RUNGS counts them.                 *)
LEMMA ControlStep ==
    ASSUME TypeOK, OutcomeOK, ControlInv, [Next]_vars
    PROVE  ControlInv'
<1> USE DEF Rungs, Stages, Running, AtRest, Counted, inputs, locals, ladder, race
<1>0. AloneInv /\ CountInv /\ RestInv
    BY DEF ControlInv
<1> SUFFICES AloneInv' /\ CountInv' /\ RestInv'
    BY DEF ControlInv
<1> USE DEF AloneInv, CountInv, RestInv, Count
<1>r. /\ rung \in [Rungs -> {"idle", "spawned", "start", "settled", "sent",
                              "panicking", "held", "ended"} \cup Stages]
      /\ policy \in Policies
      /\ pc \in {"set", "race", "cancel", "join", "exact", "l2s", "remainder",
                 "push", "returned", "unwound"}
    BY DEF TypeOK
<1>1. CASE Quiet
    BY <1>0, <1>1 DEF Quiet
<1>2. CASE RungWorks
  <2>1. PICK r \in Rungs, x \in Stages \cup {"settled"},
             a \in Decisions \cup {"none", "abstained", "cancelled", "panicked"} : Works(r, x, a)
      BY <1>2 DEF RungWorks
  <2> QED
      BY <1>0, <1>r, <2>1 DEF Works, Working
<1>3. ASSUME NEW r \in Rungs, RungGuard_enter(r) PROVE AloneInv' /\ CountInv' /\ RestInv'
    BY <1>0, <1>r, <1>3 DEF RungGuard_enter
<1>4. ASSUME NEW r \in Rungs, Send(r) PROVE AloneInv' /\ CountInv' /\ RestInv'
    BY <1>0, <1>r, <1>4 DEF Send
<1>5. ASSUME NEW r \in Rungs, RungEnds(r) PROVE AloneInv' /\ CountInv' /\ RestInv'
    BY <1>0, <1>r, <1>5 DEF RungEnds, RungGuard_drop
<1>6. ASSUME NEW r \in Rungs, RungPanics(r) PROVE AloneInv' /\ CountInv' /\ RestInv'
    BY <1>0, <1>r, <1>6 DEF PanicLeads, RungPanics
<1>7. CASE BeginSet
    BY <1>0, <1>r, <1>7 DEF BeginSet, FreshRace, FirstStop, Policies
<1>8. CASE Receive
    BY <1>0, <1>r, <1>8 DEF Receive
<1>9. CASE Disconnected \/ CancelRungs \/ JoinRungs
    BY <1>0, <1>r, <1>9 DEF Disconnected, CancelRungs, JoinRungs
<1>10. CASE TakeExact
    BY <1>0, <1>r, <1>10 DEF TakeExact, Take
<1>11. CASE TakeL2s
    BY <1>0, <1>r, <1>11 DEF TakeL2s, Take
<1>12. CASE TakeRemainder
    BY <1>0, <1>r, <1>12 DEF TakeRemainder, Take
<1>13. CASE PushResult
    BY <1>0, <1>r, <1>13 DEF PushResult
<1> QED
    BY <1>1, <1>2, <1>3, <1>4, <1>5, <1>6, <1>7, <1>8, <1>9, <1>10, <1>11, <1>12, <1>13, StepKinds

-----------------------------------------------------------------------------
(* The channel of the race, which no rung uses twice.                      *)
LEMMA QueueShort ==
    ASSUME NEW q \in Queues
    PROVE  Len(q) \in Nat /\ Len(q) <= 2 /\ q \in Seq(Rungs)
<1>1. q \in Seq(Rungs) /\ Len(q) \in Nat
    BY DEF Queues
<1>2. ASSUME Len(q) > 2 PROVE FALSE
  <2>1. 1 \in 1..Len(q) /\ 2 \in 1..Len(q) /\ 3 \in 1..Len(q)
      BY <1>1, <1>2
  <2>2. q[1] \in Rungs /\ q[2] \in Rungs /\ q[3] \in Rungs
      BY <1>1, <2>1, ElementOfSeq
  <2>3. q[1] # q[2] /\ q[2] # q[3] /\ q[1] # q[3]
      BY <2>1 DEF Queues
  <2> QED
      BY <2>2, <2>3 DEF Rungs
<1> QED
    BY <1>1, <1>2

(* The queue a report is appended to.                                      *)
LEMMA QueueAppend ==
    ASSUME NEW q \in Queues, NEW r \in Rungs, ~Queued(r, q)
    PROVE  /\ Append(q, r) \in Queues
           /\ \A p \in Rungs : Queued(p, Append(q, r)) <=> (p = r \/ Queued(p, q))
<1> DEFINE s == Append(q, r)
<1>1. q \in Seq(Rungs) /\ Len(q) \in Nat
    BY DEF Queues
<1>2. /\ s \in Seq(Rungs) /\ Len(s) = Len(q) + 1
      /\ \A i \in 1..Len(q) : s[i] = q[i]
      /\ s[Len(q) + 1] = r
    BY <1>1
<1> HIDE DEF s
<1>3. 1..Len(s) = 1..Len(q) \cup {Len(q) + 1}
    BY <1>1, <1>2
<1>4. \A i \in 1..Len(q) : q[i] # r
    BY DEF Queued
<1>5. \A i, j \in 1..Len(q) : i # j => q[i] # q[j]
    BY DEF Queues
<1>6. \A i, j \in 1..Len(s) : i # j => s[i] # s[j]
    BY <1>2, <1>3, <1>4, <1>5
<1>7. s \in Queues
    BY <1>2, <1>6 DEF Queues
<1>8. \A p \in Rungs : Queued(p, s) <=> (p = r \/ Queued(p, q))
    BY <1>2, <1>3 DEF Queued
<1> QED
    BY <1>7, <1>8 DEF s

(* The queue the next report is taken from.                                *)
LEMMA QueueTail ==
    ASSUME NEW q \in Queues, q # <<>>
    PROVE  /\ Head(q) \in Rungs /\ Queued(Head(q), q) /\ Tail(q) \in Queues
           /\ \A p \in Rungs : Queued(p, Tail(q)) <=> (p # Head(q) /\ Queued(p, q))
<1> DEFINE t == Tail(q)
<1>1. q \in Seq(Rungs) /\ Len(q) \in Nat \ {0}
    BY DEF Queues
<1>2. /\ t \in Seq(Rungs) /\ Len(t) = Len(q) - 1
      /\ \A i \in 1..Len(t) : t[i] = q[i + 1]
    BY <1>1
<1>3. Head(q) = q[1] /\ q[1] \in Rungs
    BY <1>1
<1> HIDE DEF t
<1>4. \A i, j \in 1..Len(q) : i # j => q[i] # q[j]
    BY DEF Queues
<1>5. \A i, j \in 1..Len(t) : i # j => t[i] # t[j]
    BY <1>1, <1>2, <1>4
<1>6. t \in Queues
    BY <1>2, <1>5 DEF Queues
<1>7. ASSUME NEW p \in Rungs, Queued(p, t) PROVE p # q[1] /\ Queued(p, q)
  <2>1. PICK i \in 1..Len(t) : t[i] = p
      BY <1>7 DEF Queued
  <2>2. i + 1 \in 1..Len(q) /\ 1 \in 1..Len(q) /\ i + 1 # 1 /\ q[i + 1] = p
      BY <1>1, <1>2, <2>1
  <2> QED
      BY <1>4, <2>2 DEF Queued
<1>8. ASSUME NEW p \in Rungs, p # q[1], Queued(p, q) PROVE Queued(p, t)
  <2>1. PICK i \in 1..Len(q) : q[i] = p
      BY <1>8 DEF Queued
  <2>2. i - 1 \in 1..Len(t) /\ t[i - 1] = p
      BY <1>1, <1>2, <1>8, <2>1
  <2> QED
      BY <2>2 DEF Queued
<1>9. Queued(q[1], q)
    BY <1>1 DEF Queued
<1> QED
    BY <1>3, <1>6, <1>7, <1>8, <1>9 DEF t

-----------------------------------------------------------------------------
(* What a rung's place says of its answer, and who is in the channel.      *)
LEMMA AnswerStep ==
    ASSUME TypeOK, OutcomeOK, ControlInv, AnswerInv, [Next]_vars
    PROVE  AnswerInv'
<1> USE DEF Rungs, Stages, Running, AtRest, inputs, locals, ladder, race
<1>0. AloneInv /\ CountInv /\ AnswerInv
    BY DEF ControlInv
<1> USE DEF AloneInv, CountInv, AnswerInv, AnswerAt
<1>r. /\ rung \in [Rungs -> {"idle", "spawned", "start", "settled", "sent",
                              "panicking", "held", "ended"} \cup Stages]
      /\ answer \in [Rungs -> Decisions \cup {"none", "abstained", "cancelled", "panicked"}]
      /\ policy \in Policies /\ notes \in SUBSET Rungs
    BY DEF TypeOK
<1>1. CASE RungWorks
  <2>1. PICK r \in Rungs, x \in Stages \cup {"settled"},
             a \in Decisions \cup {"none", "abstained", "cancelled", "panicked"} : Works(r, x, a)
      BY <1>1 DEF RungWorks
  <2> QED
      BY <1>0, <1>r, <2>1 DEF Works, Working
<1>2. CASE BeginSet
    BY <1>0, <1>r, <1>2 DEF BeginSet, FreshLocals, FreshRace, FirstStop
<1>3. ASSUME NEW r \in Rungs, RungGuard_enter(r) \/ Send(r) \/ RungEnds(r) \/ RungPanics(r)
      PROVE  AnswerInv'
    BY <1>0, <1>r, <1>3 DEF RungGuard_enter, Send, RungEnds, PanicLeads, RungPanics
<1>4. CASE Quiet \/ Receive \/ Disconnected \/ CancelRungs \/ JoinRungs \/ TakeExact \/
        TakeL2s \/ TakeRemainder \/ PushResult
    BY <1>0, <1>r, <1>4 DEF Quiet, Receive, Disconnected, CancelRungs, JoinRungs, TakeExact,
        TakeL2s, TakeRemainder, PushResult, Take
<1> QED
    BY <1>1, <1>2, <1>3, <1>4, StepKinds

LEMMA ChannelStep ==
    ASSUME TypeOK, OutcomeOK, ControlInv, AnswerInv, ChannelInv, [Next]_vars
    PROVE  ChannelInv'
<1> USE DEF Rungs, Stages, Running, AtRest, inputs, locals, ladder, race
<1>0. AloneInv /\ CountInv /\ ChannelInv
    BY DEF ControlInv
<1>q. <<>> \in Queues /\ \A r : ~Queued(r, <<>>)
    BY DEF Queues, Queued
<1> USE DEF AloneInv, CountInv, ChannelInv
<1>r. /\ rung \in [Rungs -> {"idle", "spawned", "start", "settled", "sent",
                              "panicking", "held", "ended"} \cup Stages]
      /\ answer \in [Rungs -> Decisions \cup {"none", "abstained", "cancelled", "panicked"}]
      /\ policy \in Policies /\ notes \in SUBSET Rungs
    BY DEF TypeOK
<1>1. CASE RungWorks
  <2>1. PICK r \in Rungs, x \in Stages \cup {"settled"},
             a \in Decisions \cup {"none", "abstained", "cancelled", "panicked"} : Works(r, x, a)
      BY <1>1 DEF RungWorks
  <2> QED
      BY <1>0, <1>r, <1>q, <2>1 DEF Works, Working
<1>2. CASE BeginSet
    BY <1>0, <1>r, <1>q, <1>2 DEF BeginSet, FreshLocals, FreshRace, FirstStop
<1>3. ASSUME NEW r \in Rungs, Send(r) PROVE ChannelInv'
  <2>1. /\ ~Queued(r, channel) /\ channel' = Append(channel, r)
        /\ rung' = [rung EXCEPT ![r] = "sent"] /\ answer' = answer
      BY <1>0, <1>3 DEF Send
  <2>2. answer[r] \in Decisions \cup {"abstained", "cancelled"}
      BY <1>3 DEF Send, AnswerInv, AnswerAt
  <2>3. answer[r] \notin {"none", "panicked"}
      BY <2>2 DEF Decisions
  <2>4. /\ channel' \in Queues
        /\ \A p \in Rungs : Queued(p, channel') <=> (p = r \/ Queued(p, channel))
      BY <2>1, QueueAppend
  <2> QED
      BY <1>0, <1>r, <2>1, <2>3, <2>4
<1>4. CASE Receive
  <2>1. /\ channel \in Queues /\ channel # <<>> /\ channel' = Tail(channel)
        /\ rung' = rung /\ answer' = answer
      BY <1>0, <1>4 DEF Receive
  <2>2. /\ channel' \in Queues
        /\ \A p \in Rungs : Queued(p, channel') => Queued(p, channel)
      BY <2>1, QueueTail
  <2> QED
      BY <1>0, <2>1, <2>2
<1>5. ASSUME NEW r \in Rungs, RungGuard_enter(r) \/ RungEnds(r) \/ RungPanics(r)
      PROVE  ChannelInv'
    BY <1>0, <1>r, <1>q, <1>5 DEF RungGuard_enter, RungEnds, PanicLeads, RungPanics
<1>6. CASE Quiet \/ Disconnected \/ CancelRungs \/ JoinRungs \/ TakeExact \/ TakeL2s \/
        TakeRemainder \/ PushResult
    BY <1>0, <1>r, <1>q, <1>6 DEF Quiet, Disconnected, CancelRungs, JoinRungs, TakeExact,
        TakeL2s, TakeRemainder, PushResult, Take
<1> QED
    BY <1>1, <1>2, <1>3, <1>4, <1>5, <1>6, StepKinds

(* Waiting for reports, and what a race without a decision has heard.      *)
LEMMA WaitStep ==
    ASSUME TypeOK, OutcomeOK, ControlInv, RaceInv, [Next]_vars
    PROVE  WaitInv'
<1> USE DEF Rungs, Stages, Running, AtRest, inputs, locals, ladder, race
<1>0. AloneInv /\ CountInv /\ RestInv /\ ChannelInv /\ AnswerInv /\ WaitInv
    BY DEF ControlInv, RaceInv
<1>q. \A r : ~Queued(r, <<>>)
    BY DEF Queued
<1> USE DEF AloneInv, CountInv, WaitInv
<1>r. /\ rung \in [Rungs -> {"idle", "spawned", "start", "settled", "sent",
                              "panicking", "held", "ended"} \cup Stages]
      /\ answer \in [Rungs -> Decisions \cup {"none", "abstained", "cancelled", "panicked"}]
      /\ policy \in Policies /\ notes \in SUBSET Rungs
    BY DEF TypeOK
<1>1. CASE RungWorks
  <2>1. PICK r \in Rungs, x \in Stages \cup {"settled"},
             a \in Decisions \cup {"none", "abstained", "cancelled", "panicked"} : Works(r, x, a)
      BY <1>1 DEF RungWorks
  <2> QED
      BY <1>0, <1>r, <1>q, <2>1 DEF Works, Working
<1>2. CASE BeginSet
    BY <1>0, <1>r, <1>q, <1>2 DEF BeginSet, FreshLocals, FreshRace, FirstStop
<1>3. ASSUME NEW r \in Rungs, Send(r) PROVE WaitInv'
  <2>1. /\ ~Queued(r, channel) /\ channel' = Append(channel, r) /\ channel \in Queues
        /\ rung[r] = "settled" /\ rung' = [rung EXCEPT ![r] = "sent"] /\ answer' = answer
        /\ UNCHANGED <<pc, cancel, verdict, notes, pending>>
      BY <1>0, <1>3 DEF Send, ChannelInv
  <2>2. \A p \in Rungs : Queued(p, channel') <=> (p = r \/ Queued(p, channel))
      BY <2>1, QueueAppend
  <2> QED
      BY <1>0, <1>r, <2>1, <2>2
<1>4. ASSUME NEW r \in Rungs, RungEnds(r) PROVE WaitInv'
    BY <1>0, <1>r, <1>q, <1>4 DEF RungEnds, AnswerInv, AnswerAt
<1>5. ASSUME NEW r \in Rungs, RungPanics(r) PROVE WaitInv'
    BY <1>0, <1>r, <1>q, <1>5 DEF PanicLeads, RungPanics
<1>6. CASE Receive
  <2> DEFINE r == Head(channel)
  <2>1. /\ pc = "race" /\ channel \in Queues /\ channel # <<>> /\ channel' = Tail(channel)
        /\ rung' = rung /\ answer' = answer /\ cancel' = cancel /\ pending' = pending - 1
      BY <1>0, <1>6 DEF Receive, ChannelInv
  <2>2. /\ r \in Rungs /\ Queued(r, channel)
        /\ \A p \in Rungs : Queued(p, channel') <=> (p # r /\ Queued(p, channel))
      BY <2>1, QueueTail
  <2>3. \/ pc' = "cancel"
        \/ pc' = "race" /\ verdict' = verdict /\ notes' = notes \cup {r}
           /\ answer[r] \notin Decisions /\ pending # 1
      BY <1>6 DEF Receive
  <2> HIDE DEF r
  <2>4. rung[r] \in {"sent", "ended"} /\ answer[r] \notin {"none", "panicked", "cancelled"}
      BY <1>0, <2>1, <2>2 DEF ChannelInv, AnswerInv, AnswerAt
  <2>5. r \notin notes
      BY <1>0, <2>1, <2>2
  <2>6. CASE pc' = "cancel"
      BY <2>6
  <2>7. CASE /\ pc' = "race" /\ verdict' = verdict /\ notes' = notes \cup {r}
             /\ answer[r] \notin Decisions /\ pending # 1
    <3>1. answer[r] = "abstained"
        BY <1>r, <2>2, <2>4, <2>7
    <3>2. pending' = 2 - (IF "exact" \in notes' THEN 1 ELSE 0) - (IF "l2s" \in notes' THEN 1 ELSE 0)
          /\ pending' >= 1
        BY <1>0, <1>r, <2>1, <2>2, <2>5, <2>7
    <3>3. \A p \in notes' : answer'[p] = "abstained" /\ rung'[p] \in {"sent", "ended"}
        BY <1>0, <2>1, <2>4, <2>7, <3>1
    <3>4. \A p \in notes' : ~Queued(p, channel')
        BY <1>0, <1>r, <2>1, <2>2, <2>7
    <3>5. \A p \in Rungs : rung'[p] \in {"sent", "ended"} =>
             answer'[p] = "panicked" \/ p \in notes' \/ Queued(p, channel')
        BY <1>0, <2>1, <2>2, <2>7
    <3> QED
        BY <1>0, <2>1, <2>7, <3>2, <3>3, <3>4, <3>5
  <2> QED
      BY <2>3, <2>6, <2>7
<1>7. ASSUME NEW r \in Rungs, RungGuard_enter(r)
      PROVE  WaitInv'
    BY <1>0, <1>r, <1>q, <1>7 DEF RungGuard_enter
<1>8. CASE Quiet \/ Disconnected \/ CancelRungs \/ JoinRungs \/ TakeExact \/ TakeL2s \/
        TakeRemainder \/ PushResult
    BY <1>0, <1>r, <1>q, <1>8 DEF Quiet, Disconnected, CancelRungs, JoinRungs, TakeExact,
        TakeL2s, TakeRemainder, PushResult, Take
<1> QED
    BY <1>1, <1>2, <1>3, <1>4, <1>5, <1>6, <1>7, <1>8, StepKinds

LEMMA UndecidedStep ==
    ASSUME TypeOK, OutcomeOK, ControlInv, RaceInv, [Next]_vars
    PROVE  UndecidedInv'
<1> USE DEF Rungs, Stages, Running, AtRest, inputs, locals, ladder, race
<1>0. AloneInv /\ CountInv /\ ChannelInv /\ AnswerInv /\ WaitInv /\ UndecidedInv
    BY DEF ControlInv, RaceInv
<1> USE DEF AloneInv, CountInv, UndecidedInv, Heard
<1>r. /\ rung \in [Rungs -> {"idle", "spawned", "start", "settled", "sent",
                              "panicking", "held", "ended"} \cup Stages]
      /\ answer \in [Rungs -> Decisions \cup {"none", "abstained", "cancelled", "panicked"}]
      /\ policy \in Policies /\ notes \in SUBSET Rungs
    BY DEF TypeOK
<1>1. CASE RungWorks
  <2>1. PICK r \in Rungs, x \in Stages \cup {"settled"},
             a \in Decisions \cup {"none", "abstained", "cancelled", "panicked"} : Works(r, x, a)
      BY <1>1 DEF RungWorks
  <2> QED
      BY <1>0, <1>r, <2>1 DEF Works, Working
<1>2. CASE BeginSet
    BY <1>0, <1>r, <1>2 DEF BeginSet, FreshLocals, FreshRace, FirstStop
<1>3. CASE Receive
  <2> DEFINE r == Head(channel)
  <2>1. /\ pc = "race" /\ channel \in Queues /\ channel # <<>>
        /\ rung' = rung /\ answer' = answer /\ cancel' = cancel
      BY <1>0, <1>3 DEF Receive, ChannelInv
  <2>2. r \in Rungs /\ Queued(r, channel)
      BY <2>1, QueueTail
  <2>3. \/ pc' = "race"
        \/ pc' = "cancel" /\ verdict' \in Decisions
        \/ pc' = "cancel" /\ verdict' = verdict /\ notes' = notes \cup {r}
           /\ answer[r] \notin Decisions /\ pending = 1
      BY <1>3 DEF Receive
  <2> HIDE DEF r
  <2>4. rung[r] \in {"sent", "ended"} /\ answer[r] \notin {"none", "panicked", "cancelled"}
      BY <1>0, <2>1, <2>2 DEF ChannelInv, AnswerInv, AnswerAt, WaitInv
  <2>5. r \notin notes /\ cancel = FALSE
      BY <1>0, <2>1, <2>2 DEF WaitInv
  <2>6. CASE pc' = "cancel" /\ verdict' \in Decisions
      BY <2>1, <2>5, <2>6 DEF Decisions
  <2>7. CASE /\ pc' = "cancel" /\ verdict' = verdict /\ notes' = notes \cup {r}
             /\ answer[r] \notin Decisions /\ pending = 1
    <3>1. answer[r] = "abstained"
        BY <1>r, <2>2, <2>4, <2>7
    <3>2. \A p \in Rungs : p \in notes'
        BY <1>0, <1>r, <2>1, <2>2, <2>5, <2>7 DEF WaitInv
    <3>3. \A p \in notes' : answer[p] = "abstained" /\ rung[p] \in {"sent", "ended"}
        BY <1>0, <2>1, <2>4, <2>7, <3>1 DEF WaitInv
    <3> QED
        BY <2>1, <2>5, <2>7, <3>2, <3>3
  <2>8. CASE pc' = "race"
      BY <2>8
  <2> QED
      BY <2>3, <2>6, <2>7, <2>8
<1>4. CASE Disconnected
  <2>1. \A r : ~Queued(r, <<>>)
      BY DEF Queued
  <2> QED
      BY <1>0, <1>r, <1>4, <2>1 DEF Disconnected, SendersGone, WaitInv
<1>5. ASSUME NEW r \in Rungs, RungGuard_enter(r) \/ Send(r) \/ RungEnds(r) \/ RungPanics(r)
      PROVE  UndecidedInv'
    BY <1>0, <1>r, <1>5 DEF RungGuard_enter, Send, RungEnds, PanicLeads, RungPanics
<1>6. CASE Quiet \/ CancelRungs \/ JoinRungs \/ TakeExact \/ TakeL2s \/ TakeRemainder \/
        PushResult
    BY <1>0, <1>r, <1>6 DEF Quiet, CancelRungs, JoinRungs, TakeExact, TakeL2s, TakeRemainder,
        PushResult, Take
<1> QED
    BY <1>1, <1>2, <1>3, <1>4, <1>5, <1>6, StepKinds

(* The calling thread takes what its own rung came to.                     *)
LEMMA TakeEffect ==
    ASSUME TypeOK, ControlInv, AnswerInv, LegInv, NEW r \in Rungs, Take(r),
           pc \in {"exact", "l2s", "remainder"}
    PROVE  \/ /\ answer[r] \in Decisions /\ verdict' # "unknown"
              /\ verdict' = answer[r] /\ decidedBy' = By(r) /\ notes' = notes
           \/ /\ answer[r] = "abstained" /\ verdict' = "unknown"
              /\ decidedBy' = decidedBy /\ notes' = notes \cup {r}
<1>1. verdict = "unknown" /\ policy # "parallel" /\ cancel = FALSE /\ rung[r] = "settled"
    BY DEF LegInv, Take, ControlInv, AloneInv
<1>2. answer[r] \in Decisions \/ answer[r] = "abstained"
    BY <1>1 DEF AnswerInv, AnswerAt
<1>3. \A d \in Decisions : d # "unknown" /\ d # "abstained"
    BY DEF Decisions
<1> QED
    BY <1>1, <1>2, <1>3 DEF Take

(* The legs of the calling thread.                                         *)
LEMMA LegStep ==
    ASSUME TypeOK, OutcomeOK, ControlInv, AnswerInv, LegInv, [Next]_vars
    PROVE  LegInv'
<1> USE DEF Rungs, Stages, Running, AtRest, inputs, locals, ladder, race
<1>0. AloneInv /\ CountInv /\ RestInv /\ AnswerInv /\ LegInv
    BY DEF ControlInv
<1> USE DEF AloneInv, CountInv, LegInv, Heard, AnswerInv, AnswerAt
<1>r. /\ rung \in [Rungs -> {"idle", "spawned", "start", "settled", "sent",
                              "panicking", "held", "ended"} \cup Stages]
      /\ answer \in [Rungs -> Decisions \cup {"none", "abstained", "cancelled", "panicked"}]
      /\ policy \in Policies /\ notes \in SUBSET Rungs
    BY DEF TypeOK
<1>1. CASE RungWorks
  <2>1. PICK r \in Rungs, x \in Stages \cup {"settled"},
             a \in Decisions \cup {"none", "abstained", "cancelled", "panicked"} : Works(r, x, a)
      BY <1>1 DEF RungWorks
  <2> QED
      BY <1>0, <1>r, <2>1 DEF Works, Working
<1>2. CASE BeginSet
    BY <1>0, <1>r, <1>2 DEF BeginSet, FreshLocals, FreshRace, FirstStop
<1>3. CASE TakeExact
  <2>1. \/ answer["exact"] \in Decisions /\ verdict' # "unknown"
        \/ answer["exact"] = "abstained" /\ verdict' = "unknown" /\ notes' = notes \cup {"exact"}
      BY <1>0, <1>3, TakeEffect DEF TakeExact
  <2> QED
      BY <1>0, <1>r, <1>3, <2>1 DEF TakeExact
<1>4. CASE TakeL2s
  <2>1. \/ answer["l2s"] \in Decisions /\ verdict' # "unknown"
        \/ answer["l2s"] = "abstained" /\ verdict' = "unknown" /\ notes' = notes \cup {"l2s"}
      BY <1>0, <1>4, TakeEffect DEF TakeL2s
  <2> QED
      BY <1>0, <1>r, <1>4, <2>1 DEF TakeL2s
<1>5. CASE TakeRemainder
  <2>1. \/ answer["exact"] \in Decisions /\ verdict' # "unknown"
        \/ answer["exact"] = "abstained" /\ verdict' = "unknown" /\ notes' = notes \cup {"exact"}
      BY <1>0, <1>5, TakeEffect DEF TakeRemainder
  <2> QED
      BY <1>0, <1>r, <1>5, <2>1 DEF TakeRemainder
<1>6. ASSUME NEW r \in Rungs, RungGuard_enter(r) \/ Send(r) \/ RungEnds(r) \/ RungPanics(r)
      PROVE  LegInv'
    BY <1>0, <1>r, <1>6 DEF RungGuard_enter, Send, RungEnds, PanicLeads, RungPanics
<1>7. CASE Quiet \/ Receive \/ Disconnected \/ CancelRungs \/ JoinRungs \/ PushResult
    BY <1>0, <1>r, <1>7 DEF Quiet, Receive, Disconnected, CancelRungs, JoinRungs, PushResult
<1> QED
    BY <1>1, <1>2, <1>3, <1>4, <1>5, <1>6, <1>7, StepKinds

LEMMA UnknownStep ==
    ASSUME TypeOK, OutcomeOK, ControlInv, RaceInv, LegInv, UnknownForCause, [Next]_vars
    PROVE  UnknownForCause'
<1> USE DEF Rungs, Stages, Running, AtRest, inputs, locals, ladder, race
<1>0. AloneInv /\ CountInv /\ RestInv /\ AnswerInv /\ UndecidedInv /\ LegInv
    BY DEF ControlInv, RaceInv
<1> USE DEF AloneInv, CountInv, LegInv, Heard, AnswerInv, AnswerAt, UnknownForCause, Asked, RestInv
<1>r. /\ rung \in [Rungs -> {"idle", "spawned", "start", "settled", "sent",
                              "panicking", "held", "ended"} \cup Stages]
      /\ answer \in [Rungs -> Decisions \cup {"none", "abstained", "cancelled", "panicked"}]
      /\ policy \in Policies /\ notes \in SUBSET Rungs
    BY DEF TypeOK
<1>1. CASE RungWorks
  <2>1. PICK r \in Rungs, x \in Stages \cup {"settled"},
             a \in Decisions \cup {"none", "abstained", "cancelled", "panicked"} : Works(r, x, a)
      BY <1>1 DEF RungWorks
  <2> QED
      BY <1>0, <1>r, <2>1 DEF Works, Working
<1>2. CASE BeginSet
    BY <1>0, <1>r, <1>2 DEF BeginSet, FreshLocals, FreshRace, FirstStop
<1>3. CASE JoinRungs
    BY <1>0, <1>r, <1>3 DEF JoinRungs, UndecidedInv
<1>4. CASE TakeExact
  <2>1. \/ answer["exact"] \in Decisions /\ verdict' # "unknown"
        \/ answer["exact"] = "abstained" /\ verdict' = "unknown" /\ notes' = notes \cup {"exact"}
      BY <1>0, <1>4, TakeEffect DEF TakeExact
  <2> QED
      BY <1>0, <1>r, <1>4, <2>1 DEF TakeExact
<1>5. CASE TakeL2s
  <2>1. \/ answer["l2s"] \in Decisions /\ verdict' # "unknown"
        \/ answer["l2s"] = "abstained" /\ verdict' = "unknown" /\ notes' = notes \cup {"l2s"}
      BY <1>0, <1>5, TakeEffect DEF TakeL2s
  <2> QED
      BY <1>0, <1>r, <1>5, <2>1 DEF TakeL2s
<1>6. CASE TakeRemainder
  <2>1. \/ answer["exact"] \in Decisions /\ verdict' # "unknown"
        \/ answer["exact"] = "abstained" /\ verdict' = "unknown" /\ notes' = notes \cup {"exact"}
      BY <1>0, <1>6, TakeEffect DEF TakeRemainder
  <2> QED
      BY <1>0, <1>r, <1>6, <2>1 DEF TakeRemainder
<1>7. ASSUME NEW r \in Rungs, RungGuard_enter(r) \/ Send(r) \/ RungEnds(r) \/ RungPanics(r)
      PROVE  UnknownForCause'
    BY <1>0, <1>r, <1>7 DEF RungGuard_enter, Send, RungEnds, PanicLeads, RungPanics
<1>8. CASE Quiet \/ Receive \/ Disconnected \/ CancelRungs \/ PushResult
    BY <1>0, <1>r, <1>8 DEF Quiet, Receive, Disconnected, CancelRungs, PushResult
<1> QED
    BY <1>1, <1>2, <1>3, <1>4, <1>5, <1>6, <1>7, <1>8, StepKinds

-----------------------------------------------------------------------------
(* Verdicts and truth.                                                     *)
LEMMA TruthStep ==
    ASSUME TypeOK, OutcomeOK, ControlInv, TruthInv, [Next]_vars
    PROVE  TruthInv'
<1> USE DEF Rungs, inputs, locals, ladder, race
<1>0. TruthInv
    OBVIOUS
<1> USE DEF TruthInv
<1>r. /\ rung \in [Rungs -> {"idle", "spawned", "start", "settled", "sent",
                              "panicking", "held", "ended"} \cup Stages]
      /\ answer \in [Rungs -> Decisions \cup {"none", "abstained", "cancelled", "panicked"}]
      /\ policy \in Policies /\ notes \in SUBSET Rungs
    BY DEF TypeOK
<1>1. CASE RungWorks
  <2>1. PICK r \in Rungs, x \in Stages \cup {"settled"},
             a \in Decisions \cup {"none", "abstained", "cancelled", "panicked"} : 
                Works(r, x, a) /\ Justified(r, a)
      BY <1>1 DEF RungWorks
  <2>2. UNCHANGED <<truth, set, pc>> /\ answer' = [answer EXCEPT ![r] = a]
      BY <2>1 DEF Works
  <2>3. CASE r = "exact"
      BY <1>0, <1>r, <2>1, <2>2, <2>3 DEF Justified
  <2>4. CASE r = "l2s"
      BY <1>0, <1>r, <2>1, <2>2, <2>4 DEF Justified
  <2> QED
      BY <2>3, <2>4
<1>2. CASE BeginSet
    BY <1>2 DEF BeginSet, Decisions
<1>3. ASSUME NEW r \in Rungs, RungPanics(r) PROVE TruthInv'
  <2>1. /\ answer' = [answer EXCEPT ![r] = "panicked"] /\ UNCHANGED <<truth, set, outcome>>
        /\ rung[r] \in {"start"} \cup Stages
      BY <1>3 DEF PanicLeads, RungPanics
  <2>2. pc # "set"
      BY <1>0, <2>1 DEF ControlInv, RestInv, AtRest, Stages
  <2> QED
      BY <1>0, <1>r, <2>1, <2>2 DEF Decisions
<1>4. ASSUME NEW r \in Rungs, RungGuard_enter(r) \/ Send(r) \/ RungEnds(r)
      PROVE  TruthInv'
    BY <1>0, <1>r, <1>4 DEF RungGuard_enter, Send, RungEnds
<1>5. CASE Quiet \/ Receive \/ Disconnected \/ CancelRungs \/ JoinRungs \/ TakeExact \/
        TakeL2s \/ TakeRemainder \/ PushResult
    BY <1>0, <1>r, <1>5 DEF Quiet, Receive, Disconnected, CancelRungs, JoinRungs, TakeExact,
        TakeL2s, TakeRemainder, PushResult, Take
<1> QED
    BY <1>1, <1>2, <1>3, <1>4, <1>5, StepKinds

LEMMA BySound ==
    ASSUME TypeOK, OutcomeOK, TruthInv, pc # "set", NEW r \in Rungs, answer[r] \in Decisions
    PROVE  SoundFor(answer[r], By(r), truth[set]) /\ By(r) \in SUBSET (Rungs \cup Members)
<1>1. truth[set] \in Decisions
    BY DEF TypeOK
<1>2. outcome.reachable_by \subseteq Members /\ outcome.unreachable_by \subseteq Members
    BY DEF OutcomeOK
<1>3. CASE r = "exact"
    BY <1>3 DEF TruthInv, SoundFor, By, Rungs
<1>4. CASE r = "l2s" /\ answer[r] = "holds"
  <2>1. By(r) = {"l2s"} \cup outcome.unreachable_by
      BY <1>4 DEF By
  <2>2. By(r) \cap Members = outcome.unreachable_by /\ "l2s" \in By(r)
      BY <1>2, <2>1, JusticeAssumption
  <2>3. answer[r] # truth[set] => OnlyUnsound(outcome.unreachable_by)
      BY <1>1, <1>4 DEF TruthInv, Decisions
  <2>4. By(r) \in SUBSET (Rungs \cup Members)
      BY <1>2, <2>1 DEF Rungs
  <2> QED
      BY <2>2, <2>3, <2>4 DEF SoundFor, OnlyUnsound
<1>5. CASE r = "l2s" /\ answer[r] = "violated"
  <2>1. By(r) = {"l2s"} \cup outcome.reachable_by
      BY <1>5 DEF By
  <2>2. By(r) \cap Members = outcome.reachable_by /\ "l2s" \in By(r)
      BY <1>2, <2>1, JusticeAssumption
  <2>3. answer[r] # truth[set] => OnlyUnsound(outcome.reachable_by)
      BY <1>1, <1>5 DEF TruthInv, Decisions
  <2>4. By(r) \in SUBSET (Rungs \cup Members)
      BY <1>2, <2>1 DEF Rungs
  <2> QED
      BY <2>2, <2>3, <2>4 DEF SoundFor, OnlyUnsound
<1> QED
    BY <1>3, <1>4, <1>5 DEF Rungs, Decisions

LEMMA VerdictStep ==
    ASSUME TypeOK, OutcomeOK, ControlInv, RaceInv, LegInv, TruthInv, VerdictInv, [Next]_vars
    PROVE  VerdictInv'
<1> USE DEF inputs, locals, ladder, race
<1>b. \A r \in Rungs : pc # "set" /\ answer[r] \in Decisions =>
        SoundFor(answer[r], By(r), truth[set])
    BY BySound
<1>u. \A by, t : SoundFor("unknown", by, t)
    BY DEF SoundFor, Decisions
<1>0. VerdictInv /\ RestInv /\ AnswerInv /\ "exact" \in Rungs /\ "l2s" \in Rungs
    BY DEF ControlInv, RaceInv, Rungs
<1>1. CASE RungWorks
  <2>1. PICK r \in Rungs, x \in Stages \cup {"settled"},
             a \in Decisions \cup {"none", "abstained", "cancelled", "panicked"} : Works(r, x, a)
      BY <1>1 DEF RungWorks
  <2> QED
      BY <1>0, <2>1 DEF Works, Working, VerdictInv
<1>2. CASE BeginSet
    BY <1>2, <1>u DEF BeginSet, FreshLocals, VerdictInv
<1>3. ASSUME NEW r \in Rungs, RungPanics(r) PROVE VerdictInv'
  <2>1. rung[r] \in {"start"} \cup Stages /\ UNCHANGED <<truth, set, verdict, decidedBy>>
      BY <1>3 DEF PanicLeads, RungPanics
  <2>2. pc # "set"
      BY <1>0, <2>1 DEF RestInv, AtRest, Stages
  <2> QED
      BY <1>0, <2>1, <2>2 DEF VerdictInv
<1>4. CASE Receive
  <2> DEFINE r == Head(channel)
  <2>1. channel \in Queues /\ channel # <<>> /\ pc = "race" /\ UNCHANGED <<truth, set>>
      BY <1>4 DEF Receive, RaceInv, ChannelInv
  <2>2. r \in Rungs
      BY <2>1, QueueTail
  <2>3. \/ verdict' = answer[r] /\ answer[r] \in Decisions /\ decidedBy' = By(r)
        \/ verdict' = verdict /\ decidedBy' = decidedBy
      BY <1>4 DEF Receive
  <2> HIDE DEF r
  <2> QED
      BY <1>0, <1>b, <2>1, <2>2, <2>3 DEF VerdictInv
<1>5. CASE TakeExact
  <2>1. \/ verdict' = answer["exact"] /\ answer["exact"] \in Decisions /\ decidedBy' = By("exact")
        \/ verdict' = "unknown" /\ decidedBy' = decidedBy
      BY <1>0, <1>5, TakeEffect DEF TakeExact
  <2>2. pc # "set" /\ pc' # "set" /\ UNCHANGED <<truth, set>>
      BY <1>5 DEF TakeExact
  <2> QED
      BY <1>0, <1>b, <1>u, <2>1, <2>2 DEF VerdictInv
<1>6. CASE TakeL2s
  <2>1. \/ verdict' = answer["l2s"] /\ answer["l2s"] \in Decisions /\ decidedBy' = By("l2s")
        \/ verdict' = "unknown" /\ decidedBy' = decidedBy
      BY <1>0, <1>6, TakeEffect DEF TakeL2s
  <2>2. pc # "set" /\ pc' # "set" /\ UNCHANGED <<truth, set>>
      BY <1>6 DEF TakeL2s
  <2> QED
      BY <1>0, <1>b, <1>u, <2>1, <2>2 DEF VerdictInv
<1>7. CASE TakeRemainder
  <2>1. \/ verdict' = answer["exact"] /\ answer["exact"] \in Decisions /\ decidedBy' = By("exact")
        \/ verdict' = "unknown" /\ decidedBy' = decidedBy
      BY <1>0, <1>7, TakeEffect DEF TakeRemainder
  <2>2. pc # "set" /\ pc' # "set" /\ UNCHANGED <<truth, set>>
      BY <1>7 DEF TakeRemainder
  <2> QED
      BY <1>0, <1>b, <1>u, <2>1, <2>2 DEF VerdictInv
<1>8. ASSUME NEW r \in Rungs, RungGuard_enter(r) \/ Send(r) \/ RungEnds(r)
      PROVE  VerdictInv'
    BY <1>0, <1>8 DEF RungGuard_enter, Send, RungEnds, VerdictInv
<1>9. CASE Quiet \/ Disconnected \/ CancelRungs \/ JoinRungs \/ PushResult
    BY <1>0, <1>9 DEF Quiet, Disconnected, CancelRungs, JoinRungs, PushResult, VerdictInv
<1> QED
    BY <1>1, <1>2, <1>3, <1>4, <1>5, <1>6, <1>7, <1>8, <1>9, StepKinds

(* One result per set, each true of its own.                               *)
LEMMA PushedStep ==
    ASSUME TypeOK, OutcomeOK, ControlInv, PushedInv, [Next]_vars
    PROVE  PushedInv'
<1> USE DEF inputs, locals, ladder, race
<1>0. PushedInv /\ RestInv
    BY DEF ControlInv
<1>t. set \in 1..NSets /\ NSets \in Nat
    BY JusticeAssumption DEF TypeOK
<1>s. CASE PushResult
  <2>1. pc = "push" /\ Len(results) = set - 1
      BY <1>0, <1>s DEF PushResult, PushedInv
  <2>2. Len(results') = Len(results) + 1
      BY <1>s DEF PushResult, TypeOK
  <2>3. CASE set < NSets
      BY <1>s, <1>t, <2>1, <2>2, <2>3 DEF PushResult, PushedInv
  <2>4. CASE ~(set < NSets)
    <3>1. set = NSets
        BY <1>t, <2>4
    <3>2. pc' = "returned"
        BY <1>s, <2>4 DEF PushResult
    <3> QED
        BY <1>t, <2>1, <2>2, <3>1, <3>2 DEF PushedInv
  <2> QED
      BY <2>3, <2>4
<1>1. CASE RungWorks
  <2>1. PICK r \in Rungs, x \in Stages \cup {"settled"},
             a \in Decisions \cup {"none", "abstained", "cancelled", "panicked"} : Works(r, x, a)
      BY <1>1 DEF RungWorks
  <2> QED
      BY <1>0, <2>1 DEF Works, Working, PushedInv
<1>2. CASE BeginSet
    BY <1>0, <1>2 DEF BeginSet, FreshLocals, FreshRace, FirstStop, PushedInv
<1>3. ASSUME NEW r \in Rungs, RungPanics(r) PROVE PushedInv'
  <2>1. rung[r] \in {"start"} \cup Stages /\ UNCHANGED <<set, results>>
        /\ pc' \in {pc, "unwound"}
      BY <1>3 DEF PanicLeads, RungPanics
  <2>2. pc # "returned"
      BY <1>0, <2>1 DEF RestInv, AtRest, Stages
  <2> QED
      BY <1>0, <2>1, <2>2 DEF PushedInv
<1>4. CASE PushResult
    BY <1>s, <1>4
<1>5. ASSUME NEW r \in Rungs, RungGuard_enter(r) \/ Send(r) \/ RungEnds(r)
      PROVE  PushedInv'
    BY <1>0, <1>5 DEF RungGuard_enter, Send, RungEnds, PushedInv
<1>6. CASE Quiet \/ Receive \/ Disconnected \/ CancelRungs \/ JoinRungs \/ TakeExact \/
        TakeL2s \/ TakeRemainder
    BY <1>0, <1>6 DEF Quiet, Receive, Disconnected, CancelRungs, JoinRungs, TakeExact,
        TakeL2s, TakeRemainder, Take, PushedInv
<1> QED
    BY <1>1, <1>2, <1>3, <1>4, <1>5, <1>6, StepKinds

LEMMA PushFrame ==
    ASSUME [Next]_vars
    PROVE  UNCHANGED <<truth, policy, budgeted>> /\ (PushResult \/ UNCHANGED results)
BY DEF Next, vars, inputs, locals, Caller, Closure, BeginSet, Receive, Disconnected, CancelRungs,
       JoinRungs, TakeExact, TakeL2s, TakeRemainder, PushResult, BudgetPasses, SlicePasses,
       RungGuard_enter, Send, RungEnds, PanicLeads, RungPanics, Prepare, StageEnds, PortfolioReturns,
       NoMonitor, ForwarderPolls, Over

LEMMA SoundStep ==
    ASSUME TypeOK, OutcomeOK, PushedInv, VerdictInv, SoundJustice, [Next]_vars
    PROVE  SoundJustice'
<1> USE DEF inputs, locals, ladder, race
<1>0. SoundJustice
    OBVIOUS
<1>s. CASE PushResult
  <2> DEFINE res == [verdict |-> verdict, decided_by |-> decidedBy, notes |-> notes]
  <2>1. /\ results' = Append(results, res) /\ truth' = truth /\ Len(results) = set - 1
        /\ set \in Nat
      BY <1>s, JusticeAssumption DEF PushResult, PushedInv, TypeOK
  <2>2. /\ Len(results) \in Nat /\ Len(results') = Len(results) + 1
        /\ \A i \in 1..Len(results) : results'[i] = results[i]
        /\ results'[Len(results) + 1] = res
      BY <2>1 DEF TypeOK
  <2>3. SoundFor(res.verdict, res.decided_by, truth[set])
      BY <1>s DEF PushResult, VerdictInv
  <2> HIDE DEF res
  <2>4. \A i \in 1..Len(results') : i \in 1..Len(results) \/ i = set
      BY <2>1, <2>2
  <2>5. results'[set] = res
      BY <2>1, <2>2
  <2> QED
      BY <1>0, <2>1, <2>2, <2>3, <2>4, <2>5 DEF SoundJustice, SoundFor
<1> QED
    BY <1>0, <1>s, PushFrame DEF SoundJustice

-----------------------------------------------------------------------------
(* Types.                                                                  *)
LocalsOK ==
    /\ verdict \in Decisions \cup {"unknown"}
    /\ decidedBy \in SUBSET (Rungs \cup Members) /\ notes \in SUBSET Rungs

LEMMA LocalsStep ==
    ASSUME TypeOK, OutcomeOK, ControlInv, RaceInv, LegInv, TruthInv, [Next]_vars
    PROVE  LocalsOK'
<1> USE DEF inputs, locals, ladder, race, LocalsOK
<1>0. LocalsOK /\ AnswerInv /\ "exact" \in Rungs /\ "l2s" \in Rungs
    BY DEF TypeOK, RaceInv, Rungs
<1>b. \A r \in Rungs : pc # "set" /\ answer[r] \in Decisions => By(r) \in SUBSET (Rungs \cup Members)
    BY BySound
<1>1. CASE RungWorks
  <2>1. PICK r \in Rungs, x \in Stages \cup {"settled"},
             a \in Decisions \cup {"none", "abstained", "cancelled", "panicked"} : Works(r, x, a)
      BY <1>1 DEF RungWorks
  <2> QED
      BY <1>0, <2>1 DEF Works, Working
<1>2. CASE BeginSet
    BY <1>0, <1>2 DEF BeginSet, FreshLocals, FreshRace, FirstStop
<1>3. CASE Receive
  <2> DEFINE r == Head(channel)
  <2>1. channel \in Queues /\ channel # <<>> /\ pc = "race"
      BY <1>3 DEF Receive, RaceInv, ChannelInv
  <2>2. r \in Rungs
      BY <2>1, QueueTail
  <2>3. /\ \/ verdict' = answer[r] /\ answer[r] \in Decisions /\ decidedBy' = By(r)
           \/ verdict' = verdict /\ decidedBy' = decidedBy
        /\ notes' \in {notes, notes \cup {r}}
      BY <1>3 DEF Receive
  <2> HIDE DEF r
  <2> QED
      BY <1>0, <1>b, <2>1, <2>2, <2>3
<1>4. CASE TakeExact
  <2>1. \/ verdict' = answer["exact"] /\ answer["exact"] \in Decisions /\ decidedBy' = By("exact") /\ notes' = notes
        \/ verdict' = "unknown" /\ decidedBy' = decidedBy /\ notes' = notes \cup {"exact"}
      BY <1>0, <1>4, TakeEffect DEF TakeExact
  <2>2. pc # "set"
      BY <1>4 DEF TakeExact
  <2> QED
      BY <1>0, <1>b, <2>1, <2>2
<1>5. CASE TakeL2s
  <2>1. \/ verdict' = answer["l2s"] /\ answer["l2s"] \in Decisions /\ decidedBy' = By("l2s") /\ notes' = notes
        \/ verdict' = "unknown" /\ decidedBy' = decidedBy /\ notes' = notes \cup {"l2s"}
      BY <1>0, <1>5, TakeEffect DEF TakeL2s
  <2>2. pc # "set"
      BY <1>5 DEF TakeL2s
  <2> QED
      BY <1>0, <1>b, <2>1, <2>2
<1>6. CASE TakeRemainder
  <2>1. \/ verdict' = answer["exact"] /\ answer["exact"] \in Decisions /\ decidedBy' = By("exact") /\ notes' = notes
        \/ verdict' = "unknown" /\ decidedBy' = decidedBy /\ notes' = notes \cup {"exact"}
      BY <1>0, <1>6, TakeEffect DEF TakeRemainder
  <2>2. pc # "set"
      BY <1>6 DEF TakeRemainder
  <2> QED
      BY <1>0, <1>b, <2>1, <2>2
<1>7. ASSUME NEW r \in Rungs, RungGuard_enter(r) \/ Send(r) \/ RungEnds(r) \/ RungPanics(r)
      PROVE  LocalsOK'
    BY <1>0, <1>7 DEF RungGuard_enter, Send, RungEnds, PanicLeads, RungPanics
<1>8. CASE Quiet \/ Disconnected \/ CancelRungs \/ JoinRungs \/ PushResult
    BY <1>0, <1>8 DEF Quiet, Disconnected, CancelRungs, JoinRungs, PushResult
<1> QED
    BY <1>1, <1>2, <1>3, <1>4, <1>5, <1>6, <1>7, <1>8, StepKinds

PlacesOK ==
    /\ truth \in [1..NSets -> Decisions] /\ policy \in Policies
    /\ pc \in {"set", "race", "cancel", "join", "exact", "l2s", "remainder",
               "push", "returned", "unwound"}
    /\ set \in 1..NSets
    /\ rung \in [Rungs -> {"idle", "spawned", "start", "settled", "sent",
                           "panicking", "held", "ended"} \cup Stages]
    /\ answer \in [Rungs -> Decisions \cup
                     {"none", "abstained", "cancelled", "panicked"}]

LEMMA PlacesStep ==
    ASSUME TypeOK, OutcomeOK, [Next]_vars
    PROVE  PlacesOK'
<1> USE DEF inputs, locals, ladder, race, PlacesOK
<1>0. PlacesOK /\ Rungs = {"exact", "l2s"} /\ NSets \in Nat
    BY JusticeAssumption DEF TypeOK, Rungs
<1>1. CASE RungWorks
  <2>1. PICK r \in Rungs, x \in Stages \cup {"settled"},
             a \in Decisions \cup {"none", "abstained", "cancelled", "panicked"} : Works(r, x, a)
      BY <1>1 DEF RungWorks
  <2> QED
      BY <1>0, <2>1 DEF Works, Working
<1>2. CASE BeginSet
  <2>1. /\ rung' \in [Rungs -> {"idle", "spawned", "start"}]
        /\ answer' = [r \in Rungs |-> "none"]
        /\ pc' \in {"race", "l2s", "exact"} /\ UNCHANGED <<truth, policy, set>>
      BY <1>2 DEF BeginSet, FirstStop
  <2> QED
      BY <1>0, <2>1
<1>3. ASSUME NEW r \in Rungs, RungGuard_enter(r) \/ Send(r) \/ RungEnds(r) \/ RungPanics(r)
      PROVE  PlacesOK'
    BY <1>0, <1>3 DEF RungGuard_enter, Send, RungEnds, PanicLeads, RungPanics
<1>4. CASE Quiet \/ Receive \/ Disconnected \/ CancelRungs \/ JoinRungs \/ TakeExact \/
        TakeL2s \/ TakeRemainder \/ PushResult
    BY <1>0, <1>4 DEF Quiet, Receive, Disconnected, CancelRungs, JoinRungs, TakeExact,
        TakeL2s, TakeRemainder, PushResult, Take
<1> QED
    BY <1>1, <1>2, <1>3, <1>4, StepKinds

(* The queue, the counters and the flags.                                  *)
RaceOK ==
    /\ channel \in Seq(Rungs) /\ Len(channel) <= 2
    /\ pending \in 0..2 /\ live \in 0..2

LEMMA RaceOKStep ==
    ASSUME TypeOK, OutcomeOK, ControlInv, RaceInv, ControlInv', ChannelInv', [Next]_vars
    PROVE  RaceOK'
<1>1. channel' \in Seq(Rungs) /\ Len(channel') <= 2
    BY QueueShort DEF ChannelInv
<1>2. live' \in 0..2
    BY DEF ControlInv, AloneInv, CountInv, Count
<1>3. pending' \in 0..2
  <2>1. pending \in 0..2
      BY DEF TypeOK
  <2>2. CASE Receive
    <3>1. pending >= 1 /\ pending' = pending - 1
        BY <2>2 DEF Receive, RaceInv, WaitInv
    <3> QED
        BY <2>1, <3>1
  <2>3. CASE BeginSet
      BY <2>3 DEF BeginSet, FreshRace
  <2>4. CASE UNCHANGED pending
      BY <2>1, <2>4
  <2>5. CASE Quiet \/ RungWorks
      BY <2>4, <2>5 DEF Quiet, RungWorks, Works, race
  <2>6. ASSUME NEW r \in Rungs, RungGuard_enter(r) \/ Send(r) \/ RungEnds(r) \/ RungPanics(r)
        PROVE  pending' \in 0..2
      BY <2>4, <2>6 DEF RungGuard_enter, Send, RungEnds, PanicLeads, RungPanics, race
  <2>7. CASE \/ Disconnected \/ CancelRungs \/ JoinRungs
             \/ TakeExact \/ TakeL2s \/ TakeRemainder \/ PushResult
      BY <2>4, <2>7 DEF Disconnected, CancelRungs, JoinRungs, TakeExact, TakeL2s,
                        TakeRemainder, PushResult, race
  <2> QED
      BY <2>2, <2>3, <2>5, <2>6, <2>7, StepKinds
<1> QED
    BY <1>1, <1>2, <1>3 DEF RaceOK

LEMMA FlagsStep ==
    ASSUME TypeOK, OutcomeOK, [Next]_vars
    PROVE  {budgeted, timed, out, spent, cancel}' \subseteq BOOLEAN
<1> USE DEF inputs, ladder, race
<1>0. /\ budgeted \in BOOLEAN /\ timed \in BOOLEAN /\ out \in BOOLEAN
      /\ spent \in BOOLEAN /\ cancel \in BOOLEAN
    BY DEF TypeOK
<1>1. UNCHANGED budgeted
    BY PushFrame
<1>2. cancel' \in BOOLEAN
    BY <1>0 DEF Next, vars, Caller, Closure, BeginSet, FreshRace, Receive, Disconnected,
           CancelRungs, JoinRungs, TakeExact, TakeL2s, TakeRemainder, PushResult, BudgetPasses,
           SlicePasses, RungGuard_enter, Send, RungEnds, PanicLeads, RungPanics, Prepare, StageEnds,
           PortfolioReturns, NoMonitor, ForwarderPolls, Over
<1>3. timed' \in BOOLEAN /\ out' \in BOOLEAN /\ spent' \in BOOLEAN
    BY <1>0 DEF Next, vars, Caller, Closure, BeginSet, Receive, Disconnected,
           CancelRungs, JoinRungs, TakeExact, TakeL2s, TakeRemainder, PushResult, BudgetPasses,
           SlicePasses, RungGuard_enter, Send, RungEnds, PanicLeads, RungPanics, Prepare, StageEnds,
           PortfolioReturns, NoMonitor, ForwarderPolls, Over
<1> QED
    BY <1>0, <1>1, <1>2, <1>3

ResultsOK ==
    /\ results \in Seq([verdict : Decisions \cup {"unknown"},
                        decided_by : SUBSET (Rungs \cup Members),
                        notes : SUBSET Rungs])
    /\ Len(results) <= NSets

LEMMA ResultsStep ==
    ASSUME TypeOK, OutcomeOK, PushedInv', PlacesOK', [Next]_vars
    PROVE  ResultsOK'
<1> DEFINE Res == [verdict : Decisions \cup {"unknown"},
                   decided_by : SUBSET (Rungs \cup Members), notes : SUBSET Rungs]
<1>0. results \in Seq(Res)
    BY DEF TypeOK
<1>1. ASSUME PushResult PROVE results' \in Seq(Res)
  <2>1. [verdict |-> verdict, decided_by |-> decidedBy, notes |-> notes] \in Res
      BY DEF TypeOK
  <2> HIDE DEF Res
  <2> QED
      BY <1>0, <1>1, <2>1 DEF PushResult
<1>2. ASSUME UNCHANGED results PROVE results' \in Seq(Res)
    BY <1>0, <1>2
<1>3. PushResult \/ UNCHANGED results
    BY PushFrame
<1>4. Len(results') <= NSets
  <2>1. set' \in 1..NSets /\ NSets \in Nat
      BY JusticeAssumption DEF PlacesOK
  <2>2. Len(results') = NSets \/ Len(results') = set' - 1
      BY DEF PushedInv
  <2>3. NSets <= NSets /\ \A n \in 1..NSets : n - 1 <= NSets
      BY ONLY JusticeAssumption
  <2> QED
      BY <2>1, <2>2, <2>3, Zenon
<1> QED
    BY <1>1, <1>2, <1>3, <1>4 DEF ResultsOK

-----------------------------------------------------------------------------
(* The induction.                                                          *)
LEMMA InitInv == Init => IndInv
<1> SUFFICES ASSUME Init PROVE IndInv
    OBVIOUS
<1> USE JusticeAssumption DEF Init, Rungs
<1>1. TypeOK
  <2>1. set \in 1..NSets /\ Len(results) <= NSets /\ Len(channel) <= 2
      OBVIOUS
  <2>2. {budgeted, timed, out, spent, cancel} \subseteq BOOLEAN
      OBVIOUS
  <2>3. /\ rung \in [Rungs -> {"idle", "spawned", "start", "settled", "sent",
                               "panicking", "held", "ended"} \cup Stages]
        /\ answer \in [Rungs -> Decisions \cup {"none", "abstained", "cancelled", "panicked"}]
      OBVIOUS
  <2>4. \A S : <<>> \in Seq(S)
      OBVIOUS
  <2> QED
      BY <2>1, <2>2, <2>3, <2>4 DEF TypeOK
<1>2. OutcomeOK
    BY DEF OutcomeOK, Pending
<1>3. ControlInv
    BY DEF ControlInv, AloneInv, CountInv, Count, Counted, Running, Stages, RestInv, AtRest
<1>4. RaceInv
  <2>1. <<>> \in Queues /\ \A r : ~Queued(r, <<>>)
      BY DEF Queues, Queued
  <2> QED
      BY <2>1 DEF RaceInv, ChannelInv, AnswerInv, AnswerAt, WaitInv, UndecidedInv
<1>5. LegInv /\ UnknownForCause
    BY DEF LegInv, UnknownForCause
<1>6. DataInv
    BY DEF DataInv, TruthInv, VerdictInv, PushedInv, SoundJustice
<1> QED
    BY <1>1, <1>2, <1>3, <1>4, <1>5, <1>6 DEF IndInv

LEMMA NextInv == IndInv /\ [Next]_vars => IndInv'
<1> SUFFICES ASSUME IndInv, [Next]_vars PROVE IndInv'
    OBVIOUS
<1>0. /\ TypeOK /\ OutcomeOK /\ ControlInv /\ RaceInv /\ LegInv /\ UnknownForCause
      /\ ChannelInv /\ AnswerInv /\ TruthInv /\ VerdictInv /\ PushedInv /\ SoundJustice
    BY DEF IndInv, RaceInv, DataInv
<1>1. OutcomeOK' /\ ControlInv'
    BY <1>0, OutcomeStep, ControlStep
<1>2. ChannelInv' /\ AnswerInv' /\ WaitInv' /\ UndecidedInv'
    BY <1>0, ChannelStep, AnswerStep, WaitStep, UndecidedStep
<1>3. LegInv' /\ UnknownForCause'
    BY <1>0, LegStep, UnknownStep
<1>4. TruthInv' /\ VerdictInv' /\ PushedInv' /\ SoundJustice'
    BY <1>0, TruthStep, VerdictStep, PushedStep, SoundStep
<1>5. TypeOK'
  <2>1. LocalsOK' /\ PlacesOK' /\ RaceOK'
      BY <1>0, <1>1, <1>2, LocalsStep, PlacesStep, RaceOKStep
  <2>2. {budgeted, timed, out, spent, cancel}' \subseteq BOOLEAN
      BY <1>0, FlagsStep
  <2>3. ResultsOK'
      BY <1>0, <1>4, <2>1, ResultsStep
  <2> QED
      BY <2>1, <2>2, <2>3 DEF TypeOK, LocalsOK, PlacesOK, RaceOK, ResultsOK
<1> QED
    BY <1>1, <1>2, <1>3, <1>4, <1>5 DEF IndInv, RaceInv, DataInv

LEMMA IndInvariant == Spec => []IndInv
BY InitInv, NextInv, PTL DEF Spec

(* Every pushed verdict is true of its own justice set unless unsound      *)
(* members of the portfolio alone stand behind it: for any number of sets, *)
(* under every policy, whichever rung panics or is cancelled.              *)
THEOREM VerdictsAreTrue == Spec => []SoundJustice
<1>1. IndInv => SoundJustice
    BY DEF IndInv, DataInv
<1> QED
    BY <1>1, IndInvariant, PTL

(* `Unknown` is pushed only when every rung the policy asks came to its    *)
(* own end without an answer; being called off is never the reason.        *)
THEOREM UnknownHasCause == Spec => []UnknownForCause
<1>1. IndInv => UnknownForCause
    BY DEF IndInv
<1> QED
    BY <1>1, IndInvariant, PTL

(* "Returned means nothing left running": types, LIVE_RUNGS within its     *)
(* range, and no rung alive between two sets or after the call.            *)
THEOREM ReturnedMeansIdle == Spec => []NothingLeftRunning
<1>1. IndInv => NothingLeftRunning
  <2> SUFFICES ASSUME IndInv PROVE NothingLeftRunning
      OBVIOUS
  <2>1. TypeOK /\ AloneInv /\ CountInv /\ RestInv
      BY DEF IndInv, ControlInv
  <2>2. ASSUME pc \in {"set", "push", "returned", "unwound"}
        PROVE  live = 0 /\ \A r \in Rungs : rung[r] \in {"idle", "ended"}
    <3>1. \A r \in Rungs : rung[r] \in {"idle", "ended"}
        BY <2>1, <2>2 DEF RestInv, AtRest
    <3>2. Count("exact") = 0 /\ Count("l2s") = 0
        BY <3>1 DEF Count, Counted, Running, Stages, Rungs
    <3> QED
        BY <2>1, <3>1, <3>2 DEF AloneInv, CountInv
  <2> QED
      BY <2>1, <2>2 DEF NothingLeftRunning
<1> QED
    BY <1>1, IndInvariant, PTL
=============================================================================
