----------------------- MODULE HorizontalScaling_proofs -----------------------
(***************************************************************************)
(* Facts about the defaulting and the validation of horizontalScaling, for  *)
(* every integer a user may write.                                          *)
(***************************************************************************)
EXTENDS HorizontalScaling, TLAPS

\* On a block both defaultings fill the same fields, and leave none at 0.
LEMMA DefaultedBlock ==
  ASSUME NEW hs \in HorizontalScalingPolicy
  PROVE  /\ Default(hs) \in HorizontalScalingPolicy
         /\ Default(hs) = Effective(hs)
         /\ Default(hs).minReplicas # 0
         /\ Default(hs).maxReplicas # 0
         /\ Default(hs).targetCPU # 0
<1>1. hs # Nil
  BY NilIsNoPolicy
<1>2. Default(hs) = Effective(hs)
  BY <1>1 DEF Default, Effective
<1> DEFINE min == OrDefault(hs.minReplicas, DefaultHPAMinReplicas)
           max == OrDefault(hs.maxReplicas, DefaultHPAMaxReplicas)
           cpu == OrDefault(hs.targetCPU, DefaultHPATargetCPU)
<1>3. /\ min \in Int /\ min # 0
      /\ max \in Int /\ max # 0
      /\ cpu \in Int /\ cpu # 0
  BY DEF HorizontalScalingPolicy, OrDefault, DefaultHPAMinReplicas,
         DefaultHPAMaxReplicas, DefaultHPATargetCPU
<1>4. Default(hs) = [hs EXCEPT !.minReplicas = min, !.maxReplicas = max, !.targetCPU = cpu]
  BY <1>1 DEF Default
<1> HIDE DEF min, max, cpu
<1> QED
  BY <1>2, <1>3, <1>4 DEF HorizontalScalingPolicy

\* Both defaultings return a block; the webhook's returns none where there is none.
LEMMA DefaultType ==
  ASSUME NEW hs \in HorizontalScalingPolicy \cup {Nil}
  PROVE  /\ Default(hs) \in HorizontalScalingPolicy \cup {Nil}
         /\ Effective(hs) \in HorizontalScalingPolicy
<1>1. CASE hs = Nil
  BY <1>1
  DEF Default, Effective, HorizontalScalingPolicy, DefaultHPAMinReplicas,
      DefaultHPAMaxReplicas, DefaultHPATargetCPU
<1>2. CASE hs \in HorizontalScalingPolicy
  BY <1>2, DefaultedBlock
<1> QED BY <1>1, <1>2

\* A block whose numbers are not 0 is left as it is by the controller.
LEMMA EffectiveKeeps ==
  ASSUME NEW hs \in HorizontalScalingPolicy,
         hs.minReplicas # 0, hs.maxReplicas # 0, hs.targetCPU # 0
  PROVE  Effective(hs) = hs
<1>1. hs # Nil
  BY NilIsNoPolicy
<1> QED BY <1>1 DEF Effective, HorizontalScalingPolicy, OrDefault

\* The controller's defensive defaulting changes nothing in a block the webhook
\* has defaulted: workloadpolicy_webhook.go and workloadpolicy_controller.go hold
\* the same rules.
THEOREM DefaultedIsEffective ==
  ASSUME NEW hs \in HorizontalScalingPolicy
  PROVE  Effective(Default(hs)) = Default(hs)
  BY DefaultedBlock, EffectiveKeeps

\* Whatever block passed validation, the numbers the controller computes from it
\* are numbers the autoscaling API accepts, for an absent block too.
THEOREM ValidatedIsRealizable ==
  ASSUME NEW hs \in HorizontalScalingPolicy \cup {Nil}, Validate(hs)
  PROVE  Realizable(Effective(hs))
  BY NilIsNoPolicy
  DEF Validate, Realizable, Effective, HorizontalScalingPolicy, OrDefault,
      DefaultHPAMinReplicas, DefaultHPAMaxReplicas, DefaultHPATargetCPU
================================================================================
