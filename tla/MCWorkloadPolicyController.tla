---------------------- MODULE MCWorkloadPolicyController ----------------------
(* Small namespaces for the runs of WorkloadPolicyController. *)
EXTENDS WorkloadPolicyController
LOCAL INSTANCE SequencesExt

\* Blocks as users write them: with numbers left to the defaulting webhook, in
\* full, and with a maximum below the default minimum (refused).
OnByDefault == [enabledByDefault |-> TRUE, minReplicas |-> 0, maxReplicas |-> 0, targetCPU |-> 0]
OffByDefault == [enabledByDefault |-> FALSE, minReplicas |-> 1, maxReplicas |-> 3, targetCPU |-> 50]
OnInFull == [OffByDefault EXCEPT !.enabledByDefault = TRUE]
BelowMinimum == [enabledByDefault |-> TRUE, minReplicas |-> 0, maxReplicas |-> 1, targetCPU |-> 0]

TwoSettings == {OnByDefault, OnInFull}
OnOrOff == {OnByDefault, OffByDefault}
OneSetting == {OnByDefault}
NoneFullAndRefused == {Nil, OnInFull, BelowMinimum}

\* One name, and two that are cut to the same HPA name when two characters are kept.
OneDeployment == {<<"a", "p", "i">>}
CollidingDeployments == {<<"a", "p", "i">>, <<"a", "p", "p">>}

\* A name that is cut behind its dot.
DottedDeployments == {<<"a", "p", "i">>, <<"b", ".", "i">>}

\* The loop of isHighestPriorityPolicy, in every order the cache may list the
\* policies, keeps the policy that isHighestPriorityPolicy names.
ASSUME ScanAgrees ==
  \A list \in [Policies -> InitialPolicies \cup {Nil}] :
    \A order \in SetToSeqs({q \in Policies : list[q] # Nil}), p \in Policies :
      FoldLeft(LAMBDA highest, q : Higher(list, highest, q), Nil, order) = p
        <=> isHighestPriorityPolicy(list, p)
================================================================================
