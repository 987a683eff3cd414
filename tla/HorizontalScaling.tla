--------------------------- MODULE HorizontalScaling ---------------------------
(***************************************************************************)
(* The horizontalScaling block of a WorkloadPolicy on its way from the      *)
(* user to an HPA: the defaulting webhook, the validating webhook, and the  *)
(* second, defensive defaulting the controller does when it builds an HPA.  *)
(* Nil stands for the Go nil pointer (a policy with no such block).         *)
(***************************************************************************)
EXTENDS Integers

CONSTANT Nil

DefaultHPAMinReplicas == 2
DefaultHPAMaxReplicas == 10
DefaultHPATargetCPU == 80

\* A block as decoded from a manifest: an omitted number is 0, and nothing
\* has bounded the numbers yet.
HorizontalScalingPolicy ==
  [enabledByDefault: BOOLEAN, minReplicas: Int, maxReplicas: Int, targetCPU: Int]

ASSUME NilIsNoPolicy == Nil \notin HorizontalScalingPolicy

OrDefault(value, default) == IF value = 0 THEN default ELSE value

\* What the defaulting webhook stores in the place of hs.
Default(hs) ==
  IF hs = Nil THEN Nil
  ELSE [hs EXCEPT !.minReplicas = OrDefault(@, DefaultHPAMinReplicas),
                  !.maxReplicas = OrDefault(@, DefaultHPAMaxReplicas),
                  !.targetCPU   = OrDefault(@, DefaultHPATargetCPU)]

\* Seeded fault: the bounds are not compared with one another.
ValidateApart(hs) ==
  hs # Nil =>
    /\ hs.minReplicas >= 1
    /\ hs.maxReplicas >= 1
    /\ hs.targetCPU \in 1..100

\* What the validating webhook accepts.
Validate(hs) ==
  hs # Nil =>
    /\ hs.minReplicas >= 1
    /\ hs.maxReplicas >= 1
    /\ hs.maxReplicas >= hs.minReplicas
    /\ hs.targetCPU \in 1..100

\* The block the controller works with.
Effective(hs) ==
  IF hs = Nil
  THEN [enabledByDefault |-> FALSE,
        minReplicas |-> DefaultHPAMinReplicas,
        maxReplicas |-> DefaultHPAMaxReplicas,
        targetCPU |-> DefaultHPATargetCPU]
  ELSE [hs EXCEPT !.minReplicas = OrDefault(@, DefaultHPAMinReplicas),
                  !.maxReplicas = OrDefault(@, DefaultHPAMaxReplicas),
                  !.targetCPU   = OrDefault(@, DefaultHPATargetCPU)]

\* Numbers the autoscaling API accepts in an HPA's spec.
Realizable(hs) ==
  1 <= hs.minReplicas /\ hs.minReplicas <= hs.maxReplicas /\ hs.targetCPU \in 1..100
================================================================================
