------------------------- MODULE PodValidator_proofs -------------------------
(* Type correctness of PodValidator, and its verdict, for any number of baselines. *)
EXTENDS PodValidator, TLAPS

\* Denials is empty only for a baseline that does not concern the Pod or that it
\* complies with, and what it holds is a rule of the baseline that the Pod breaks
\* while it obeys those checked before.
LEMMA DenialsFaithful ==
  ASSUME NEW baseline \in SecurityBaseline
  PROVE  /\ Denials(baseline) = {} => Excluded(baseline) \/ Complies(pod, baseline)
         /\ \A rule \in Denials(baseline) :
              /\ rule \in Rules /\ ~Excluded(baseline)
              /\ rule \in Demands(baseline) /\ Breaks(pod, rule)
              /\ \A other \in Demands(baseline) :
                   Breaks(pod, other) => Order[rule] <= Order[other]
<1>1. Demands(baseline) \subseteq Rules
  BY DEF Demands, Rules
<1>2. ASSUME ~Excluded(baseline), ~Complies(pod, baseline)
      PROVE  Denials(baseline) # {}
  <2>1. CASE "nonRoot" \in Demands(baseline) /\ Breaks(pod, "nonRoot")
    <3>1. "nonRoot" \in Denials(baseline)
      BY <1>1, <1>2, <2>1 DEF Denials, Rules, Order
    <3> QED BY <3>1
  <2>2. CASE /\ ~("nonRoot" \in Demands(baseline) /\ Breaks(pod, "nonRoot"))
             /\ "containers" \in Demands(baseline) /\ Breaks(pod, "containers")
    <3>1. "containers" \in Denials(baseline)
      BY <1>1, <1>2, <2>2 DEF Denials, Rules, Order
    <3> QED BY <3>1
  <2>3. CASE /\ ~("nonRoot" \in Demands(baseline) /\ Breaks(pod, "nonRoot"))
             /\ ~("containers" \in Demands(baseline) /\ Breaks(pod, "containers"))
    <3>1. "initContainers" \in Demands(baseline) /\ Breaks(pod, "initContainers")
      BY <1>2, <2>3 DEF Complies, Demands, Breaks
    <3>2. "initContainers" \in Denials(baseline)
      BY <1>1, <1>2, <2>3, <3>1 DEF Denials, Rules, Order
    <3> QED BY <3>2
  <2> QED BY <2>1, <2>2, <2>3
<1> QED BY <1>1, <1>2 DEF Denials

--------------------------------------------------------------------------------
(* The loop *)

\* The visited baselines have nothing against the Pod.
LoopInv ==
  pc = "check" => \A b \in Listed \ todo : Denials(baselines[b]) = {}

\* The verdict stands for all of them, or for one.
AnswerInv ==
  /\ verdict = "allowed" => \A b \in Listed : Denials(baselines[b]) = {}
  /\ verdict \in Rules => \E b \in Listed : verdict \in Denials(baselines[b])

IInv == TypeOK /\ LoopInv /\ AnswerInv

\* No request has been looked at.
LEMMA InvInit == Init => IInv
<1> SUFFICES ASSUME Init PROVE IInv
  OBVIOUS
<1>1. Listed = {}
  BY DEF Init, Listed, NoBaselines
<1>2. TypeOK
  BY ObjectsAssumption DEF Init, TypeOK, NoBaselines, Listed
<1> QED BY <1>1, <1>2 DEF Init, IInv, LoopInv, AnswerInv, Rules

\* Every step of Handle keeps the invariant: a visit that denies has its baseline
\* for a witness, one that does not removes its baseline from those to visit, and
\* the Pod is allowed once none is left.
LEMMA InvStep == IInv /\ [Next]_vars => IInv'
<1> SUFFICES ASSUME IInv, [Next]_vars PROVE IInv'
  OBVIOUS
<1> USE DEF IInv
<1>1. CASE UNCHANGED vars
  BY <1>1 DEF vars, TypeOK, LoopInv, AnswerInv, Listed, Denials, Demands, Excluded, Breaks
<1>2. CASE Errored
  <2>1. TypeOK'
    BY <1>2 DEF Errored, Answer, TypeOK, Listed, Verdict, Rules
  <2>2. verdict' \notin Rules /\ verdict' # "allowed" /\ pc' # "check"
    BY <1>2 DEF Errored, Answer, Rules
  <2> QED BY <2>1, <2>2 DEF LoopInv, AnswerInv
<1>3. CASE Decode
  <2>1. TypeOK'
    BY <1>3 DEF Decode, TypeOK, Listed
  <2>2. verdict' = "none" /\ pc' # "check"
    BY <1>3 DEF Decode, TypeOK
  <2> QED BY <2>1, <2>2 DEF LoopInv, AnswerInv, Rules
<1>4. CASE ListBaselines
  <2>1. TypeOK'
    BY <1>4 DEF ListBaselines, TypeOK, Listed
  <2>2. verdict' = "none" /\ todo' = Listed'
    BY <1>4 DEF ListBaselines, TypeOK, Listed
  <2> QED BY <2>1, <2>2 DEF LoopInv, AnswerInv, Rules
<1>5. ASSUME NEW b \in Baselines, VisitBaseline(b)
      PROVE  IInv'
  <2>1. /\ pc = "check" /\ b \in todo /\ b \in Listed /\ verdict = "none"
        /\ baselines[b] \in SecurityBaseline
    BY <1>5, ObjectsAssumption DEF VisitBaseline, TypeOK, Listed
  <2>2. Listed' = Listed /\ \A n : Denials(baselines[n])' = Denials(baselines[n])
    BY <1>5 DEF VisitBaseline, Listed, Denials, Demands, Excluded, Breaks
  <2>3. CASE Denials(baselines[b]) # {}
    <3>1. PICK denial \in Denials(baselines[b]) : pc' = "done" /\ verdict' = denial
      BY <1>5, <2>3 DEF VisitBaseline, Answer
    <3>2. denial \in Rules /\ denial # "allowed"
      BY <2>1, <3>1, DenialsFaithful DEF Rules
    <3>3. TypeOK'
      BY <1>5, <2>2, <2>3, <3>1, <3>2 DEF VisitBaseline, TypeOK, Verdict, Rules
    <3> QED BY <2>1, <2>2, <3>1, <3>2, <3>3 DEF LoopInv, AnswerInv
  <2>4. CASE Denials(baselines[b]) = {}
    <3>1. todo' = todo \ {b} /\ pc' = pc /\ verdict' = "none"
      BY <1>5, <2>1, <2>4 DEF VisitBaseline
    <3>2. TypeOK'
      BY <1>5, <2>1, <2>2, <3>1 DEF VisitBaseline, TypeOK
    <3>3. LoopInv'
      BY <2>1, <2>2, <2>4, <3>1 DEF LoopInv
    <3> QED BY <3>1, <3>2, <3>3 DEF AnswerInv, Rules
  <2> QED BY <2>3, <2>4
<1>6. CASE Allow
  <2>1. TypeOK'
    BY <1>6 DEF Allow, Answer, TypeOK, Listed, Verdict, Rules
  <2>2. \A b \in Listed : Denials(baselines[b]) = {}
    BY <1>6 DEF Allow, LoopInv
  <2>3. Listed' = Listed /\ \A n : Denials(baselines[n])' = Denials(baselines[n])
    BY <1>6 DEF Allow, Listed, Denials, Demands, Excluded, Breaks
  <2> QED BY <1>6, <2>1, <2>2, <2>3 DEF Allow, Answer, LoopInv, AnswerInv, Rules
<1>7. CASE Submit
  <2>1. TypeOK'
    BY <1>7, ObjectsAssumption DEF Submit, TypeOK, NoBaselines, Listed
  <2>2. verdict' = "none" /\ pc' # "check"
    BY <1>7 DEF Submit
  <2> QED BY <2>1, <2>2 DEF LoopInv, AnswerInv, Rules
<1> QED BY <1>1, <1>2, <1>3, <1>4, <1>5, <1>6, <1>7 DEF Next, Work

\* The invariant of Handle.
THEOREM Invariance == Spec => []IInv
<1> QED BY InvInit, InvStep, PTL DEF Spec

\* Every variable has its type, and there is a verdict exactly at the end.
THEOREM TypeCorrect == Spec => []TypeOK
<1>1. IInv => TypeOK
  BY DEF IInv
<1> QED BY <1>1, Invariance, PTL

\* Handle allows no Pod that breaks an applicable baseline.
THEOREM NoneBypasses == Spec => []AllowedComplies
<1>1. IInv => AllowedComplies
  <2> SUFFICES ASSUME IInv, verdict = "allowed", NEW b \in Listed
               PROVE  Excluded(baselines[b]) \/ Complies(pod, baselines[b])
    BY DEF AllowedComplies, Excluded
  <2>1. baselines[b] \in SecurityBaseline
    BY ObjectsAssumption DEF IInv, TypeOK, Listed
  <2>2. Denials(baselines[b]) = {}
    BY DEF IInv, AnswerInv
  <2> QED BY <2>1, <2>2, DenialsFaithful
<1> QED BY <1>1, Invariance, PTL

\* Handle denies no Pod without the reason it gives.
THEOREM ReasonsHold == Spec => []DenialJustified
<1>1. IInv => DenialJustified
  <2> SUFFICES ASSUME IInv, verdict \in Rules PROVE DenialJustified
    BY DEF DenialJustified
  <2>1. PICK b \in Listed : verdict \in Denials(baselines[b])
    BY DEF IInv, AnswerInv
  <2>2. baselines[b] \in SecurityBaseline
    BY ObjectsAssumption DEF IInv, TypeOK, Listed
  <2>3. /\ ~Excluded(baselines[b])
        /\ verdict \in Demands(baselines[b]) /\ Breaks(pod, verdict)
        /\ \A other \in Demands(baselines[b]) : Breaks(pod, other) => Order[verdict] <= Order[other]
    BY <2>1, <2>2, DenialsFaithful
  <2>4. CASE verdict = "nonRoot"
    BY <2>3, <2>4 DEF DenialJustified, Excluded, Demands, Breaks
  <2>5. CASE verdict = "containers"
    <3>1. "nonRoot" \in Demands(baselines[b]) => ~Breaks(pod, "nonRoot")
      BY <2>3, <2>5 DEF Order
    <3> QED BY <2>3, <2>5, <3>1 DEF DenialJustified, Excluded, Demands, Breaks
  <2>6. CASE verdict = "initContainers"
    <3>1. /\ "nonRoot" \in Demands(baselines[b]) => ~Breaks(pod, "nonRoot")
          /\ "containers" \in Demands(baselines[b]) => ~Breaks(pod, "containers")
      BY <2>3, <2>6 DEF Order
    <3> QED BY <2>3, <2>6, <3>1 DEF DenialJustified, Excluded, Demands, Breaks
  <2> QED BY <2>4, <2>5, <2>6 DEF Rules
<1> QED BY <1>1, Invariance, PTL
================================================================================
