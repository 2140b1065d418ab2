------------------------ MODULE OwnedPortfolioProofs ------------------------
(***************************************************************************)
(* The owned-only portfolio keeps the promise of a portfolio and misses no *)
(* verdict, whichever members panic, give up, answer late or are unsound.  *)
(*                                                                         *)
(* Three parts carry the argument.  VoteInv: a vote is what its engine may *)
(* answer and is never changed, `decided` has a decider behind it, and the *)
(* refusals are the refusing votes.  ChanInv accounts for every report: a  *)
(* decider's thread that has ended is either received or still in the      *)
(* channel, once.  MainInv: what the collector knows at each place; a      *)
(* return with "unknown" before the deadline found every thread ended.     *)
(***************************************************************************)
EXTENDS OwnedPortfolio, FiniteSetTheorems, SequenceTheorems, TLAPS

EndedThreads == {e \in Engines : th[e] = "ended"}

VoteInv ==
    /\ \A e \in Engines : th[e] \in {"unborn", "run"} => vote[e] = "none"
    /\ \A e \in Engines : vote[e] \in Definite => vote[e] = truth \/ e \in Unsound
    /\ decided => \E e \in Engines : vote[e] \in Definite
    /\ refused = {e \in Engines : vote[e] = "refused"}

InChannel(e) == \E i \in 1..Len(channel) : channel[i] = e

ChanInv ==
    /\ \A i \in 1..Len(channel) : th[channel[i]] = "ended" /\ channel[i] \notin reports
    /\ \A i, j \in 1..Len(channel) : channel[i] = channel[j] => i = j
    /\ \A e \in reports : th[e] = "ended"
    /\ Len(channel) <= Cardinality(EndedThreads)
    /\ pc \in {"wait", "grace"} =>
         \A e \in EndedThreads : vote[e] \in Definite => e \in reports \/ InChannel(e)

MainInv ==
    /\ pc = "entry" => reports = {} /\ channel = <<>> /\ \A e \in Engines : th[e] = "unborn"
    /\ pc # "returned" => outcome = Pending /\ listed = {}
    /\ pc = "grace" => \E e \in reports : vote[e] \in Definite
    /\ pc = "returned" =>
         /\ channel = <<>>
         /\ outcome.verdict = "unknown" /\ ~late =>
              \A e \in Engines : vote[e] \notin Definite /\ th[e] \in {"unborn", "ended"}
         /\ {e \in reports : vote[e] = "refused"} \subseteq listed
         /\ \A e \in listed : vote[e] = "refused"

IndInv == TypeOK /\ VoteInv /\ ChanInv /\ MainInv

-----------------------------------------------------------------------------
(* There are four members, and the collector counts to four.               *)
LEMMA FourMembers == IsFiniteSet(Engines) /\ Cardinality(Engines) = N_MEMBERS
<1>1. IsFiniteSet({}) /\ Cardinality({}) = 0
    BY FS_EmptySet
<1>2. IsFiniteSet({"native"}) /\ Cardinality({"native"}) = 1
    BY FS_Singleton
<1>3. IsFiniteSet({"native", "interp"}) /\ Cardinality({"native", "interp"}) = 2
  <2>1. {"native", "interp"} = {"native"} \cup {"interp"}
      OBVIOUS
  <2> QED
      BY <1>2, <2>1, FS_AddElement
<1>4. /\ IsFiniteSet({"native", "interp", "cex"})
      /\ Cardinality({"native", "interp", "cex"}) = 3
  <2>1. {"native", "interp", "cex"} = {"native", "interp"} \cup {"cex"}
      OBVIOUS
  <2> QED
      BY <1>3, <2>1, FS_AddElement
<1>5. Engines = {"native", "interp", "cex"} \cup {"exact"}
    BY DEF Engines
<1> QED
    BY <1>4, <1>5, FS_AddElement DEF N_MEMBERS

(* Any set of members is finite, has at most four, and with four is all.   *)
LEMMA MemberSets ==
    ASSUME NEW S \in SUBSET Engines
    PROVE  /\ IsFiniteSet(S) /\ Cardinality(S) \in Nat
           /\ Cardinality(S) <= Cardinality(Engines)
           /\ Cardinality(S) = N_MEMBERS => S = Engines
BY FourMembers, FS_Subset, FS_CardinalityType

(* from_sets returns an outcome, unknown exactly if nobody answered.       *)
LEMMA FromSets ==
    ASSUME NEW R \in SUBSET Engines, NEW U \in SUBSET Engines
    PROVE  /\ from_sets(R, U) \in [verdict : Verdicts, reachable_by : SUBSET Engines,
                                   unreachable_by : SUBSET Engines]
           /\ from_sets(R, U).verdict = "unknown" => R = {} /\ U = {}
<1>1. CASE R # {} /\ U # {}
    BY <1>1 DEF from_sets, Verdicts
<1>2. CASE R # {} /\ U = {}
    BY <1>2 DEF from_sets, Verdicts, Definite
<1>3. CASE R = {} /\ U # {}
    BY <1>3 DEF from_sets, Verdicts, Definite
<1>4. CASE R = {} /\ U = {}
    BY <1>4 DEF from_sets, Verdicts
<1> QED
    BY <1>1, <1>2, <1>3, <1>4

(* An engine answers a vote, and the truth if it is sound.                 *)
LEMMA AnswersHonest ==
    ASSUME truth \in Definite, NEW e \in Engines, NEW v \in Answers(e) \cup {"none"}
    PROVE  v \in Votes /\ (v \in Definite => v = truth \/ e \in Unsound)
<1>1. v \in Definite \cup {"none", "refused"}
    BY DEF Answers, Definite, Engines
<1>2. v \in Definite /\ e \notin Unsound => v = truth
    BY DEF Answers, Definite, Engines
<1> QED
    BY <1>1, <1>2 DEF Votes

(* The head of the channel is a report not yet counted.                    *)
LEMMA HeadReport ==
    ASSUME TypeOK, ChanInv, channel # <<>>
    PROVE  /\ Head(channel) \in Engines /\ Head(channel) \notin reports
           /\ th[Head(channel)] = "ended" /\ InChannel(Head(channel))
           /\ Head(channel) = channel[1] /\ 1 \in 1..Len(channel)
<1>1. channel \in Seq(Engines) /\ Len(channel) \in Nat /\ Len(channel) >= 1
    BY EmptySeq, LenProperties DEF TypeOK
<1>2. Head(channel) = channel[1] /\ 1 \in 1..Len(channel)
    BY <1>1
<1>3. Head(channel) \in Engines
    BY <1>1, HeadTailProperties
<1> QED
    BY <1>2, <1>3 DEF ChanInv, InChannel

-----------------------------------------------------------------------------
(* Nothing has happened at the call.                                       *)
LEMMA IndInit == Init => IndInv
<1> SUFFICES ASSUME Init PROVE IndInv
    OBVIOUS
<1> USE DEF Init
<1>1. channel \in Seq(Engines) /\ Len(channel) = 0
    BY EmptySeq
<1>2. TypeOK
  <2>1. Cardinality(Engines) = 4
      BY FourMembers DEF N_MEMBERS
  <2>2. Len(channel) <= Cardinality(Engines)
      BY <1>1, <2>1
  <2>3. th \in [Engines -> {"unborn", "run", "settled", "stored", "ended"}] /\ vote \in [Engines -> Votes]
      BY DEF Votes
  <2>4. expired \in BOOLEAN /\ late \in BOOLEAN /\ graceOver \in BOOLEAN /\ decided \in BOOLEAN
      OBVIOUS
  <2> QED
      BY <1>1, <2>2, <2>3, <2>4 DEF TypeOK
<1>3. VoteInv
    BY DEF VoteInv, Definite
<1>4. ChanInv
  <2>1. Cardinality(EndedThreads) \in Nat
      BY MemberSets DEF EndedThreads
  <2> QED
      BY <1>1, <2>1 DEF ChanInv
<1>5. MainInv
    BY DEF MainInv
<1> QED
    BY <1>2, <1>3, <1>4, <1>5 DEF IndInv

(* The call enters, with or without budget; the clocks run.                *)
LEMMA EnterStep ==
    ASSUME IndInv, EnterExpired \/ Enter \/ DeadlinePasses \/ GracePasses
    PROVE  IndInv'
<1>1. CASE EnterExpired
  <2> USE <1>1 DEF EnterExpired, members
  <2>1. outcome' \in [verdict : Verdicts, reachable_by : SUBSET Engines,
                      unreachable_by : SUBSET Engines]
      BY FromSets
  <2>2. TypeOK'
      BY <2>1 DEF IndInv, TypeOK
  <2>3. VoteInv' /\ ChanInv'
      BY DEF IndInv, VoteInv, ChanInv, EndedThreads
  <2>4. \A e \in Engines : vote[e] = "none" /\ th[e] = "unborn"
      BY DEF IndInv, VoteInv, MainInv
  <2>5. MainInv'
      BY <2>4 DEF IndInv, MainInv, Definite
  <2> QED
      BY <2>2, <2>3, <2>5 DEF IndInv
<1>2. CASE Enter
  <2> USE <1>2 DEF Enter
  <2>1. channel = <<>> /\ reports = {} /\ Len(channel) = 0 /\ EndedThreads' = {}
      BY DEF IndInv, MainInv, EndedThreads
  <2>2. TypeOK'
      BY DEF IndInv, TypeOK
  <2>3. VoteInv'
      BY DEF IndInv, VoteInv, MainInv
  <2>4. ChanInv'
      BY <2>1, FS_EmptySet DEF ChanInv
  <2>5. MainInv'
      BY DEF IndInv, MainInv
  <2> QED
      BY <2>2, <2>3, <2>4, <2>5 DEF IndInv
<1>3. CASE DeadlinePasses
  <2> USE <1>3 DEF DeadlinePasses, members
  <2>1. TypeOK'
      BY DEF IndInv, TypeOK
  <2>2. VoteInv' /\ ChanInv'
      BY DEF IndInv, VoteInv, ChanInv, EndedThreads, InChannel
  <2>3. MainInv'
      BY DEF IndInv, MainInv
  <2> QED
      BY <2>1, <2>2, <2>3 DEF IndInv
<1>4. CASE GracePasses
  <2> USE <1>4 DEF GracePasses, members
  <2>1. TypeOK'
      BY DEF IndInv, TypeOK
  <2>2. VoteInv' /\ ChanInv'
      BY DEF IndInv, VoteInv, ChanInv, EndedThreads, InChannel
  <2>3. MainInv'
      BY DEF IndInv, MainInv
  <2> QED
      BY <2>1, <2>2, <2>3 DEF IndInv
<1> QED
    BY <1>1, <1>2, <1>3, <1>4

(* A thread that ends with a vote nobody waits for, or sends it.           *)
LEMMA EndedGrows ==
    ASSUME TypeOK, NEW e \in Engines, th[e] # "ended", th' = [th EXCEPT ![e] = "ended"]
    PROVE  /\ EndedThreads' = EndedThreads \cup {e}
           /\ Cardinality(EndedThreads') = Cardinality(EndedThreads) + 1
           /\ Cardinality(EndedThreads) \in Nat /\ Cardinality(EndedThreads') \in Nat
           /\ Cardinality(EndedThreads') <= Cardinality(Engines)
<1>1. EndedThreads' = EndedThreads \cup {e}
    BY DEF EndedThreads, TypeOK
<1>2. e \notin EndedThreads
    BY DEF EndedThreads
<1>3. EndedThreads \in SUBSET Engines /\ EndedThreads' \in SUBSET Engines
    BY DEF EndedThreads
<1>4. /\ IsFiniteSet(EndedThreads) /\ Cardinality(EndedThreads) \in Nat
      /\ Cardinality(EndedThreads') \in Nat /\ Cardinality(EndedThreads') <= Cardinality(Engines)
    BY <1>3, MemberSets
<1> QED
    BY <1>1, <1>2, <1>4, FS_AddElement

(* Members: the engine call returns or panics, the flag is stored, the     *)
(* report is sent.                                                         *)
LEMMA MemberKeeps ==
    ASSUME IndInv, NEW e \in Engines, MemberStep(e)
    PROVE  IndInv'
<1>1. ASSUME NEW v \in Answers(e) \cup {"none"}, Returns(e, v)
      PROVE  IndInv'
  <2> USE <1>1 DEF Returns, note_refusal
  <2>1. v \in Votes /\ (v \in Definite => v = truth \/ e \in Unsound)
      BY AnswersHonest DEF IndInv, TypeOK
  <2>2. th[e] = "run" /\ vote[e] = "none"
      BY DEF IndInv, VoteInv
  <2>3. EndedThreads' = EndedThreads
      BY DEF EndedThreads, IndInv, TypeOK
  <2>4. refused' = {f \in Engines : vote'[f] = "refused"}
      BY <2>2 DEF IndInv, TypeOK, VoteInv
  <2>5. TypeOK'
      BY <2>1, <2>4 DEF IndInv, TypeOK
  <2>6. VoteInv'
      BY <2>1, <2>2, <2>4 DEF IndInv, TypeOK, VoteInv, Definite
  <2>7. ChanInv'
    <3>1. \A f \in Engines : th[f] = "ended" => th'[f] = "ended" /\ vote'[f] = vote[f]
        BY <2>2 DEF IndInv, TypeOK
    <3>2. \A i \in 1..Len(channel) : channel[i] \in Engines
        BY ElementOfSeq DEF IndInv, TypeOK
    <3>3. \A f \in EndedThreads : vote'[f] = vote[f]
        BY <3>1 DEF EndedThreads
    <3>4. ASSUME pc' \in {"wait", "grace"}, NEW f \in EndedThreads', vote'[f] \in Definite
          PROVE  f \in reports' \/ InChannel(f)'
        BY <2>3, <3>3, <3>4 DEF IndInv, ChanInv, InChannel
    <3>5. Len(channel') <= Cardinality(EndedThreads')
        BY <2>3 DEF IndInv, ChanInv
    <3> QED
        BY <3>1, <3>2, <3>4, <3>5 DEF IndInv, TypeOK, ChanInv
  <2>8. MainInv'
    <3>1. \A f \in Engines : f # e => vote'[f] = vote[f] /\ th'[f] = th[f]
        BY DEF IndInv, TypeOK
    <3>2. e \notin reports /\ e \notin listed
        BY <2>2 DEF IndInv, ChanInv, MainInv
    <3> QED
        BY <2>2, <3>1, <3>2 DEF IndInv, TypeOK, MainInv, Definite
  <2> QED
      BY <2>5, <2>6, <2>7, <2>8 DEF IndInv
<1>2. CASE MemberPanics(e)
  <2> USE <1>2 DEF MemberPanics
  <2>1. th[e] = "run" /\ vote[e] = "none" /\ pc # "entry"
      BY DEF IndInv, VoteInv, MainInv
  <2>2. EndedThreads' = EndedThreads \cup {e} /\ Cardinality(EndedThreads') = Cardinality(EndedThreads) + 1
        /\ Cardinality(EndedThreads) \in Nat
      BY EndedGrows DEF IndInv
  <2>3. TypeOK'
      BY DEF IndInv, TypeOK
  <2>4. VoteInv'
      BY <2>1 DEF IndInv, TypeOK, VoteInv
  <2>5. ChanInv'
    <3>1. \A f \in Engines : th[f] = "ended" => th'[f] = "ended"
        BY DEF IndInv, TypeOK
    <3>2. \A i \in 1..Len(channel) : channel[i] \in Engines
        BY ElementOfSeq DEF IndInv, TypeOK
    <3>3. Len(channel) \in Nat
        BY LenProperties DEF IndInv, TypeOK
    <3> QED
        BY <2>1, <2>2, <3>1, <3>2, <3>3 DEF IndInv, TypeOK, ChanInv, InChannel, Definite
  <2>6. MainInv'
      BY <2>1 DEF IndInv, TypeOK, MainInv
  <2> QED
      BY <2>3, <2>4, <2>5, <2>6 DEF IndInv
<1>3. CASE MemberStores(e)
  <2> USE <1>3 DEF MemberStores
  <2>1. th[e] = "settled" /\ pc # "entry"
      BY DEF IndInv, MainInv
  <2>2. EndedThreads' = EndedThreads
      BY DEF EndedThreads, IndInv, TypeOK
  <2>3. TypeOK'
      BY DEF IndInv, TypeOK
  <2>4. VoteInv'
      BY DEF IndInv, TypeOK, VoteInv
  <2>5. ChanInv'
    <3>1. \A f \in Engines : th[f] = "ended" => th'[f] = "ended"
        BY DEF IndInv, TypeOK
    <3>2. \A i \in 1..Len(channel) : channel[i] \in Engines
        BY ElementOfSeq DEF IndInv, TypeOK
    <3> QED
        BY <2>2, <3>1, <3>2 DEF IndInv, TypeOK, ChanInv, InChannel
  <2>6. MainInv'
      BY <2>1 DEF IndInv, TypeOK, MainInv
  <2> QED
      BY <2>3, <2>4, <2>5, <2>6 DEF IndInv
<1>4. CASE MemberSends(e)
  <2> USE <1>4 DEF MemberSends
  <2>1. th[e] = "stored" /\ pc # "entry" /\ e \notin reports
      BY DEF IndInv, MainInv, ChanInv
  <2>2. /\ EndedThreads' = EndedThreads \cup {e}
        /\ Cardinality(EndedThreads') = Cardinality(EndedThreads) + 1
        /\ Cardinality(EndedThreads) \in Nat
        /\ Cardinality(EndedThreads') <= Cardinality(Engines)
    <3>1. TypeOK /\ th[e] # "ended" /\ th' = [th EXCEPT ![e] = "ended"]
        BY <2>1 DEF IndInv
    <3> QED
        BY ONLY <3>1, EndedGrows, e \in Engines
  <2>3. channel \in Seq(Engines) /\ Len(channel) \in Nat /\ \A i \in 1..Len(channel) : channel[i] \in Engines
      BY ElementOfSeq, LenProperties DEF IndInv, TypeOK
  <2>4. VoteInv'
      BY <2>1 DEF IndInv, TypeOK, VoteInv
  <2>5. MainInv'
    <3>1. pc = "returned" => channel' = channel
        OBVIOUS
    <3>2. UNCHANGED <<pc, late, vote, reports, outcome, listed>>
        OBVIOUS
    <3>3. \A f \in Engines : th'[f] \in {"unborn", "ended"} \/ th'[f] = th[f]
        BY DEF IndInv, TypeOK
    <3> QED
        BY <2>1, <3>1, <3>2, <3>3 DEF IndInv, MainInv
  <2>6. \A f \in Engines : th[f] = "ended" => th'[f] = "ended"
      BY DEF IndInv, TypeOK
  <2>7. CASE pc = "returned"
    <3>1. TypeOK'
        BY <2>7 DEF IndInv, TypeOK
    <3>2. ChanInv'
        BY <2>2, <2>3, <2>6, <2>7 DEF IndInv, TypeOK, ChanInv
    <3> QED
        BY <2>4, <2>5, <3>1, <3>2 DEF IndInv
  <2>8. CASE pc # "returned"
    <3>1. /\ channel' = Append(channel, e) /\ channel' \in Seq(Engines)
          /\ Len(channel') = Len(channel) + 1
          /\ \A i \in 1..Len(channel) : channel'[i] = channel[i]
          /\ channel'[Len(channel) + 1] = e
        BY <2>3, <2>8, AppendProperties
    <3>2. TypeOK'
      <4>1. Cardinality(Engines) = 4
          BY FourMembers DEF N_MEMBERS
      <4>2. Len(channel') <= Cardinality(Engines)
          BY <2>2, <2>3, <3>1, <4>1 DEF IndInv, ChanInv
      <4> QED
          BY <3>1, <4>2 DEF IndInv, TypeOK
    <3>3. \A i \in 1..Len(channel') : i \in 1..Len(channel) \/ i = Len(channel) + 1
        BY <2>3, <3>1
    <3>4. \A i \in 1..Len(channel) : channel[i] # e
        BY <2>1 DEF IndInv, ChanInv
    <3>5. \A i \in 1..Len(channel') : th'[channel'[i]] = "ended" /\ channel'[i] \notin reports'
        BY <2>1, <2>3, <2>6, <3>1, <3>3 DEF IndInv, TypeOK, ChanInv
    <3>6. \A i, j \in 1..Len(channel') : channel'[i] = channel'[j] => i = j
        BY <3>1, <3>3, <3>4 DEF IndInv, ChanInv
    <3>7. \A f \in reports' : th'[f] = "ended"
        BY <2>6 DEF IndInv, TypeOK, ChanInv
    <3>8. Len(channel') <= Cardinality(EndedThreads')
        BY <2>2, <2>3, <3>1 DEF IndInv, ChanInv
    <3>9. ASSUME pc' \in {"wait", "grace"}, NEW f \in EndedThreads', vote'[f] \in Definite
          PROVE  f \in reports' \/ InChannel(f)'
      <4>1. 1..Len(channel) \subseteq 1..Len(channel') /\ Len(channel) + 1 \in 1..Len(channel')
          BY <2>3, <3>1
      <4>2. CASE f = e
          BY <3>1, <4>1, <4>2 DEF InChannel
      <4>3. CASE f # e
        <5>1. f \in reports \/ InChannel(f)
            BY <2>2, <3>9, <4>3 DEF IndInv, ChanInv
        <5> QED
            BY <3>1, <4>1, <5>1 DEF InChannel
      <4> QED
          BY <4>2, <4>3
    <3>10. ChanInv'
        BY <3>5, <3>6, <3>7, <3>8, <3>9 DEF ChanInv
    <3> QED
        BY <2>4, <2>5, <3>2, <3>10 DEF IndInv
  <2> QED
      BY <2>7, <2>8
<1> QED
    BY <1>1, <1>2, <1>3, <1>4 DEF MemberStep, MemberAnswers, MemberGivesUp

-----------------------------------------------------------------------------
(* Any return: the outcome is from_sets of the counted votes, and if it is *)
(* unknown before the deadline, every thread had ended and been counted.   *)
LEMMA ReturnKeeps ==
    ASSUME IndInv, pc \in {"wait", "grace"}, Return,
           UNCHANGED <<truth, expired, late, graceOver, members>>,
           reports' \in SUBSET EndedThreads,
           \/ late
           \/ \E e \in reports' : vote[e] \in Definite
           \/ /\ EndedThreads = Engines
              /\ \A e \in Engines : vote[e] \in Definite => e \in reports'
    PROVE  IndInv'
<1> DEFINE R == ReachableBy(reports')
           U == UnreachableBy(reports')
<1>1. /\ pc' = "returned" /\ outcome' = from_sets(R, U) /\ listed' = refused
      /\ channel' = <<>>
    BY DEF Return
<1>2. /\ truth' = truth /\ expired' = expired /\ late' = late /\ graceOver' = graceOver
      /\ th' = th /\ vote' = vote /\ decided' = decided /\ refused' = refused
    BY DEF members
<1>3. reports' \in SUBSET Engines /\ EndedThreads' = EndedThreads
    BY <1>2 DEF EndedThreads
<1>4. R \in SUBSET Engines /\ U \in SUBSET Engines
    BY <1>3 DEF ReachableBy, UnreachableBy
<1>5. /\ outcome' \in [verdict : Verdicts, reachable_by : SUBSET Engines,
                       unreachable_by : SUBSET Engines]
      /\ outcome'.verdict = "unknown" => R = {} /\ U = {}
    BY <1>1, <1>4, FromSets
<1>6. outcome'.verdict = "unknown" => \A e \in reports' : vote[e] \notin Definite
    BY <1>5 DEF ReachableBy, UnreachableBy, Definite
<1> HIDE DEF R, U
<1>7. channel' \in Seq(Engines) /\ Len(channel') = 0
    BY <1>1, EmptySeq
<1>8. TypeOK'
  <2>1. Len(channel') <= Cardinality(Engines)
      BY <1>7, FourMembers DEF N_MEMBERS
  <2>2. listed' \in SUBSET Engines /\ refused' \in SUBSET Engines
      BY <1>1, <1>2 DEF IndInv, TypeOK
  <2>3. /\ expired' \in BOOLEAN /\ late' \in BOOLEAN /\ graceOver' \in BOOLEAN
        /\ decided' \in BOOLEAN
      BY <1>2 DEF IndInv, TypeOK
  <2> QED
      BY <1>1, <1>2, <1>3, <1>5, <1>7, <2>1, <2>2, <2>3 DEF IndInv, TypeOK
<1>9. VoteInv'
    BY <1>2 DEF IndInv, VoteInv
<1>10. ChanInv'
  <2>1. Cardinality(EndedThreads) \in Nat
      BY MemberSets DEF EndedThreads
  <2>2. \A e \in reports' : th'[e] = "ended"
      BY <1>2 DEF EndedThreads
  <2> QED
      BY <1>1, <1>3, <1>7, <2>1, <2>2 DEF ChanInv
<1>11. MainInv'
  <2>1. outcome'.verdict = "unknown" /\ ~late' =>
          \A e \in Engines : vote'[e] \notin Definite /\ th'[e] \in {"unborn", "ended"}
      BY <1>2, <1>6 DEF EndedThreads
  <2>2. /\ {e \in reports' : vote'[e] = "refused"} \subseteq listed'
        /\ \A e \in listed' : vote'[e] = "refused"
      BY <1>1, <1>2, <1>3 DEF IndInv, VoteInv
  <2> QED
      BY <1>1, <2>1, <2>2 DEF MainInv
<1> QED
    BY <1>8, <1>9, <1>10, <1>11 DEF IndInv

(* A report that does not end the loop moves from the channel to the       *)
(* counted ones.                                                           *)
LEMMA CountKeeps ==
    ASSUME IndInv, pc \in {"wait", "grace"}, channel # <<>>,
           reports' = reports \cup {Head(channel)}, channel' = Tail(channel),
           pc' \in {"wait", "grace"},
           pc' = "grace" => \E e \in reports' : vote[e] \in Definite,
           UNCHANGED <<outcome, listed>>,
           UNCHANGED <<truth, expired, late, graceOver, members>>
    PROVE  IndInv'
<1>1. /\ truth' = truth /\ expired' = expired /\ late' = late /\ graceOver' = graceOver
      /\ th' = th /\ vote' = vote /\ decided' = decided /\ refused' = refused
    BY DEF members
<1>2. /\ Head(channel) \in Engines /\ th[Head(channel)] = "ended"
      /\ Head(channel) = channel[1] /\ 1 \in 1..Len(channel)
    BY HeadReport DEF IndInv
<1>3. /\ channel' \in Seq(Engines) /\ Len(channel') = Len(channel) - 1
      /\ \A i \in 1..Len(channel') : channel'[i] = channel[i + 1]
    BY HeadTailProperties DEF IndInv, TypeOK
<1>4. Len(channel) \in Nat /\ Len(channel') \in Nat
    BY <1>3, LenProperties DEF IndInv, TypeOK
<1>5. EndedThreads' = EndedThreads /\ Cardinality(EndedThreads) \in Nat
    BY <1>1, MemberSets DEF EndedThreads
<1>6. TypeOK'
  <2>1. Len(channel') <= Cardinality(Engines)
      BY <1>3, <1>4, FourMembers DEF IndInv, TypeOK, N_MEMBERS
  <2>2. reports' \in SUBSET Engines
      BY <1>2 DEF IndInv, TypeOK
  <2>3. /\ expired' \in BOOLEAN /\ late' \in BOOLEAN /\ graceOver' \in BOOLEAN
        /\ decided' \in BOOLEAN
      BY <1>1 DEF IndInv, TypeOK
  <2> QED
      BY <1>1, <1>3, <2>1, <2>2, <2>3 DEF IndInv, TypeOK
<1>7. VoteInv'
    BY <1>1 DEF IndInv, VoteInv
<1>8. ChanInv'
  <2>1. \A i \in 1..Len(channel') : i + 1 \in 1..Len(channel) /\ i + 1 # 1
      BY <1>3, <1>4
  <2>2. \A i \in 1..Len(channel') : th'[channel'[i]] = "ended" /\ channel'[i] \notin reports'
    <3> SUFFICES ASSUME NEW i \in 1..Len(channel')
                 PROVE  th[channel[i + 1]] = "ended" /\ channel[i + 1] \notin reports'
        BY <1>1, <1>3
    <3>1. i + 1 \in 1..Len(channel) /\ i + 1 # 1
        BY <2>1
    <3>2. channel[i + 1] # Head(channel)
        BY <1>2, <3>1 DEF IndInv, ChanInv
    <3> QED
        BY <3>1, <3>2 DEF IndInv, ChanInv
  <2>3. \A i, j \in 1..Len(channel') : channel'[i] = channel'[j] => i = j
    <3> SUFFICES ASSUME NEW i \in 1..Len(channel'), NEW j \in 1..Len(channel'),
                        channel'[i] = channel'[j]
                 PROVE  i = j
        OBVIOUS
    <3>1. i + 1 = j + 1
        BY <1>3, <2>1 DEF IndInv, ChanInv
    <3> QED
        BY <3>1, <1>4
  <2>4. \A e \in reports' : th'[e] = "ended"
      BY <1>1, <1>2 DEF IndInv, ChanInv
  <2>5. Len(channel') <= Cardinality(EndedThreads')
      BY <1>3, <1>4, <1>5 DEF IndInv, ChanInv
  <2>6. ASSUME NEW e \in EndedThreads', vote'[e] \in Definite
        PROVE  e \in reports' \/ InChannel(e)'
    <3>1. CASE e \in reports
        BY <3>1
    <3>2. CASE InChannel(e)
      <4>1. PICK i \in 1..Len(channel) : channel[i] = e
          BY <3>2 DEF InChannel
      <4>2. CASE i = 1
          BY <1>2, <4>1, <4>2
      <4>3. CASE i # 1
        <5>1. i - 1 \in 1..Len(channel') /\ (i - 1) + 1 = i
            BY <1>3, <1>4, <4>3
        <5>2. channel'[i - 1] = e
            BY <1>3, <4>1, <5>1
        <5> QED
            BY <5>1, <5>2 DEF InChannel
      <4> QED
          BY <4>2, <4>3
    <3> QED
        BY <1>1, <1>5, <2>6, <3>1, <3>2 DEF IndInv, ChanInv
  <2> QED
      BY <2>2, <2>3, <2>4, <2>5, <2>6 DEF ChanInv
<1>9. MainInv'
    BY <1>1 DEF IndInv, MainInv
<1> QED
    BY <1>6, <1>7, <1>8, <1>9 DEF IndInv

(* The collector receives a report or stops waiting.                       *)
LEMMA CollectorKeeps ==
    ASSUME IndInv, WaitReceives \/ WaitEnds \/ GraceReceives \/ GraceEnds
    PROVE  IndInv'
<1>1. reports \in SUBSET EndedThreads
    BY DEF IndInv, TypeOK, ChanInv, EndedThreads
<1>2. ASSUME Disconnected, pc \in {"wait", "grace"}
      PROVE  EndedThreads = Engines /\ \A e \in Engines : vote[e] \in Definite => e \in reports
  <2>1. channel = <<>> /\ Len(channel) = 0 /\ EndedThreads = Engines
      BY <1>2, EmptySeq DEF Disconnected, EndedThreads
  <2>2. \A e \in Engines : ~InChannel(e)
      BY <2>1 DEF InChannel
  <2> QED
      BY <1>2, <2>1, <2>2 DEF IndInv, ChanInv
<1>3. ASSUME NEW stop, NEW then, pc \in {"wait", "grace"}, Receive(stop, then),
             stop => \/ Cardinality(reports) + 1 = N_MEMBERS
                     \/ \E e \in reports' : vote[e] \in Definite,
             then \in {"wait", "grace"},
             then = "grace" => \E e \in reports' : vote[e] \in Definite
      PROVE  IndInv'
  <2>1. channel # <<>> /\ reports' = reports \cup {Head(channel)}
      BY <1>3 DEF Receive
  <2>2. Head(channel) \in Engines /\ Head(channel) \notin reports /\ th[Head(channel)] = "ended"
      BY <2>1, HeadReport DEF IndInv
  <2>3. reports' \in SUBSET EndedThreads
      BY <1>1, <2>1, <2>2 DEF EndedThreads
  <2>4. UNCHANGED <<truth, expired, late, graceOver, members>>
      BY <1>3 DEF Receive
  <2>5. CASE stop
    <3>1. Return
        BY <1>3, <2>5 DEF Receive
    <3>2. CASE Cardinality(reports) + 1 = N_MEMBERS
      <4>1. reports \in SUBSET Engines /\ reports' \in SUBSET Engines /\ IsFiniteSet(reports)
          BY <1>1, <2>3, MemberSets DEF EndedThreads
      <4>2. Cardinality(reports') = N_MEMBERS
          BY <2>1, <2>2, <3>2, <4>1, FS_AddElement
      <4>3. reports' = Engines
          BY <4>1, <4>2, MemberSets
      <4>4. EndedThreads = Engines
          BY <2>3, <4>3 DEF EndedThreads
      <4> QED
          BY <1>3, <2>3, <2>4, <3>1, <4>3, <4>4, ReturnKeeps
    <3>3. CASE \E e \in reports' : vote[e] \in Definite
        BY <1>3, <2>3, <2>4, <3>1, <3>3, ReturnKeeps
    <3> QED
        BY <1>3, <2>5, <3>2, <3>3
  <2>6. CASE ~stop
    <3>1. pc' = then /\ channel' = Tail(channel) /\ UNCHANGED <<outcome, listed>>
        BY <1>3, <2>6 DEF Receive
    <3> QED
        BY <1>3, <2>1, <2>4, <3>1, CountKeeps
  <2> QED
      BY <2>5, <2>6
<1>4. CASE WaitReceives
  <2> DEFINE all == Cardinality(reports) + 1 = N_MEMBERS
             then == IF vote[Head(channel)] \in Definite THEN "grace" ELSE "wait"
  <2>1. pc = "wait" /\ Receive(all, then)
      BY <1>4 DEF WaitReceives
  <2>2. then = "grace" => \E e \in reports' : vote[e] \in Definite
      BY <2>1 DEF Receive
  <2>3. then \in {"wait", "grace"}
      OBVIOUS
  <2> QED
      BY <1>3, <2>1, <2>2, <2>3
<1>5. CASE GraceReceives
  <2> DEFINE got == reports \cup {Head(channel)}
             stop == \/ Cardinality(got) = N_MEMBERS
                     \/ ReachableBy(got) # {} /\ UnreachableBy(got) # {}
  <2>1. pc = "grace" /\ Receive(stop, "grace")
      BY <1>5 DEF GraceReceives
  <2>2. \E e \in reports' : vote[e] \in Definite
      BY <2>1 DEF Receive, IndInv, MainInv
  <2> HIDE DEF stop
  <2> QED
      BY <1>3, <2>1, <2>2
<1>6. CASE WaitEnds
  <2>1. /\ pc = "wait" /\ (late \/ Disconnected) /\ reports' = reports /\ Return
        /\ UNCHANGED <<truth, expired, late, graceOver, members>>
      BY <1>6 DEF WaitEnds
  <2> QED
      BY <1>1, <1>2, <2>1, ReturnKeeps
<1>7. CASE GraceEnds
  <2>1. /\ pc = "grace" /\ reports' = reports /\ Return
        /\ UNCHANGED <<truth, expired, late, graceOver, members>>
      BY <1>7 DEF GraceEnds
  <2>2. \E e \in reports' : vote[e] \in Definite
      BY <2>1 DEF IndInv, MainInv
  <2> QED
      BY <1>1, <2>1, <2>2, ReturnKeeps
<1> QED
    BY <1>4, <1>5, <1>6, <1>7

(* Every step keeps the invariant.                                         *)
LEMMA IndStep == IndInv /\ [Next]_vars => IndInv'
<1> SUFFICES ASSUME IndInv, [Next]_vars PROVE IndInv'
    OBVIOUS
<1>1. CASE UNCHANGED vars
  <2> USE <1>1 DEF vars
  <2>1. TypeOK'
      BY DEF IndInv, TypeOK
  <2>2. VoteInv' /\ ChanInv'
      BY DEF IndInv, VoteInv, ChanInv, EndedThreads, InChannel
  <2>3. MainInv'
      BY DEF IndInv, MainInv
  <2> QED
      BY <2>1, <2>2, <2>3 DEF IndInv
<1> QED
    BY <1>1, EnterStep, MemberKeeps, CollectorKeeps DEF Next, Collector, Over

(* The inductive invariant holds throughout.                               *)
LEMMA IndInvariant == Spec => []IndInv
BY IndInit, IndStep, PTL DEF Spec

(***************************************************************************)
(* decide_reach_owned_only misses no verdict and loses no refusal: an      *)
(* Unknown before the deadline means that no member decided, and the       *)
(* refusals returned are refusals and include those of every counted       *)
(* member (mununu#803, mununu#873).                                        *)
(***************************************************************************)
THEOREM CollectorMissesNothing == Spec => []NothingMissed
<1>1. IndInv => NothingMissed
  <2> SUFFICES ASSUME IndInv PROVE NothingMissed
      OBVIOUS
  <2>1. ASSUME pc = "returned", outcome.verdict = "unknown", ~late
        PROVE  ~decided /\ \A e \in Engines : vote[e] \notin Definite
      BY <2>1 DEF IndInv, MainInv, VoteInv
  <2>2. ASSUME pc = "returned"
        PROVE  /\ {e \in reports : vote[e] = "refused"} \subseteq listed
               /\ \A e \in listed : vote[e] = "refused"
      BY <2>2 DEF IndInv, MainInv
  <2> QED
      BY <2>1, <2>2 DEF IndInv, NothingMissed
<1> QED
    BY <1>1, IndInvariant, PTL

(* What the collector returns is an honest return of the promise.          *)
LEMMA ReturnsHonestly ==
    ASSUME IndInv, pc # "returned", reports' \in SUBSET Engines,
           outcome' = from_sets(ReachableBy(reports'), UnreachableBy(reports')),
           UNCHANGED truth
    PROVE  Promise!Return
<1> DEFINE R == ReachableBy(reports')
           U == UnreachableBy(reports')
<1>1. R \in SUBSET Engines /\ U \in SUBSET Engines
    BY DEF ReachableBy, UnreachableBy
<1>2. R \cap U = {}
    BY DEF ReachableBy, UnreachableBy
<1>3. /\ \A e \in R : truth = "reachable" \/ e \in Unsound
      /\ \A e \in U : truth = "unreachable" \/ e \in Unsound
    BY DEF ReachableBy, UnreachableBy, IndInv, VoteInv, Definite
<1>4. outcome = Pending
    BY DEF IndInv, MainInv
<1> HIDE DEF R, U
<1>5. Promise!Honest(R, U)
    BY <1>2, <1>3 DEF Promise!Honest
<1>6. outcome' = from_sets(R, U)
    BY DEF R, U
<1> QED
    BY <1>1, <1>4, <1>5, <1>6
       DEF Promise!Return, Promise!Pending, Promise!from_sets, Pending, from_sets

(***************************************************************************)
(* The owned-only driver implements the promise of a portfolio: one        *)
(* return, in which every engine listed voted, none on both sides, and the *)
(* sound ones the truth (reach_portfolio.rs, decide_reach_owned_only).     *)
(***************************************************************************)
THEOREM OwnedRefinement == Spec => ImplementsPromise
<1>1. Init => Promise!PromiseInit
    BY DEF Init, Promise!PromiseInit, Promise!Definite, Definite, Promise!Pending, Pending
<1>2. IndInv /\ [Next]_vars => [Promise!PromiseNext]_(Promise!promiseVars)
  <2> SUFFICES ASSUME IndInv, [Next]_vars
               PROVE  Promise!Return \/ UNCHANGED <<truth, outcome>>
      BY DEF Promise!PromiseNext, Promise!promiseVars
  <2>1. CASE EnterExpired
    <3>1. reports' = {} /\ ReachableBy(reports') = {} /\ UnreachableBy(reports') = {}
        BY <2>1 DEF EnterExpired, IndInv, MainInv, ReachableBy, UnreachableBy
    <3> QED
        BY <2>1, <3>1, ReturnsHonestly DEF EnterExpired
  <2>2. CASE WaitReceives \/ GraceReceives
    <3>1. PICK stop, then : Receive(stop, then)
        BY <2>2 DEF WaitReceives, GraceReceives
    <3>2. pc \in {"wait", "grace"}
        BY <2>2 DEF WaitReceives, GraceReceives
    <3>3. reports' \in SUBSET Engines /\ UNCHANGED truth
        BY <3>1, HeadReport DEF Receive, IndInv, TypeOK
    <3> QED
        BY <3>1, <3>2, <3>3, ReturnsHonestly DEF Receive, Return
  <2>3. CASE WaitEnds \/ GraceEnds
    <3>1. pc # "returned" /\ reports' \in SUBSET Engines /\ UNCHANGED truth /\ Return
        BY <2>3 DEF WaitEnds, GraceEnds, IndInv, TypeOK
    <3> QED
        BY <3>1, ReturnsHonestly DEF Return
  <2>4. CASE Enter \/ DeadlinePasses \/ GracePasses
      BY <2>4 DEF Enter, DeadlinePasses, GracePasses
  <2>5. ASSUME NEW e \in Engines, MemberStep(e) PROVE UNCHANGED <<truth, outcome>>
      BY <2>5 DEF MemberStep, MemberAnswers, MemberGivesUp, Returns, MemberPanics,
                  MemberStores, MemberSends
  <2>6. CASE UNCHANGED vars
      BY <2>6 DEF vars
  <2> QED
      BY <2>1, <2>2, <2>3, <2>4, <2>5, <2>6 DEF Next, Collector, Over
<1> QED
    BY <1>1, <1>2, IndInvariant, PTL DEF Spec, ImplementsPromise, Promise!PromiseSpec
=============================================================================
