------------------- MODULE WorkloadPolicyController_proofs -------------------
(***************************************************************************)
(* Theorems about the WorkloadPolicy controller, for any namespace and any  *)
(* bound: what the ranking loop finds, type correctness, what no step may   *)
(* do to a status or to an HPA, what every HPA looks like, that no status   *)
(* update is lost, and what holds at rest and while the worker is at work.  *)
(***************************************************************************)
EXTENDS WorkloadPolicyController, HorizontalScaling_proofs, Streams_proofs,
        WellFoundedInduction

--------------------------------------------------------------------------------
(* The ranking: induction over the candidates, by the least one that fails *)

\* A non-empty set of numbers has a least one.
LEMMA LeastNumber ==
  ASSUME NEW T \in SUBSET Nat, T # {}
  PROVE  \E m \in T : \A k \in T : m <= k
<1> DEFINE R == {ss \in Nat \X Nat : ss[1] < ss[2]}
<1>1. IsWellFoundedOn(R, Nat)
  BY NatLessThanWellFounded DEF OpToRel
<1>2. \E m \in T : \A k \in T : <<k, m>> \notin R
  <2> HIDE DEF R
  <2> QED BY <1>1, WFMin
<1>3. \A m, k \in Nat : k < m => <<k, m>> \in R
  OBVIOUS
<1> HIDE DEF R
<1> QED
  <2>1. PICK m \in T : \A k \in T : <<k, m>> \notin R
    BY <1>2
  <2>2. \A k \in T : ~(k < m)
    BY <1>3, <2>1
  <2> QED BY <2>2

\* What is not the first has one before it.
LEMMA Predecessor ==
  ASSUME NEW len \in Nat, NEW n \in Nat, n <= len, n # 0
  PROVE  n - 1 \in 0..len /\ n \in 1..len /\ ~(n <= n - 1)
OBVIOUS

\* best[i] is the highest policy after i candidates of the listing items.
ScanOf(list, items, n, best) ==
  /\ best \in [0..n -> Policies \cup {Nil}] /\ best[0] = Nil
  /\ \A i \in 1..n : best[i] = Higher(list, best[i - 1], items[i])

\* Of the scaling policies among the first i candidates, b is the highest.
HighestOf(list, items, i, b) ==
  LET seen == {p \in Scaling(list) : \E j \in 1..i : items[j] = p}
  IN IF seen = {} THEN b = Nil ELSE b \in seen /\ \A q \in seen \ {b} : Outranks(list, b, q)

\* The ranking is a strict order on the policies that are listed.
LEMMA OutranksOrder ==
  ASSUME NEW list \in [Policies -> WorkloadPolicy \cup {Nil}],
         NEW p \in Scaling(list), NEW q \in Scaling(list), NEW r \in Scaling(list)
  PROVE  /\ p # q => Outranks(list, p, q) \/ Outranks(list, q, p)
         /\ ~(Outranks(list, p, q) /\ Outranks(list, q, p))
         /\ Outranks(list, p, q) /\ Outranks(list, q, r) => Outranks(list, p, r)
<1>1. /\ list[p].priority \in Int /\ list[q].priority \in Int /\ list[r].priority \in Int
      /\ p \in Int /\ q \in Int /\ r \in Int
  BY ConstantsAssumption DEF Scaling, WorkloadPolicy
<1> QED BY <1>1 DEF Outranks

\* One more candidate.
LEMMA HigherStep ==
  ASSUME NEW list \in [Policies -> WorkloadPolicy \cup {Nil}],
         NEW items \in Seq(Policies), NEW i \in 1..Len(items),
         NEW b \in Policies \cup {Nil}, HighestOf(list, items, i - 1, b)
  PROVE  HighestOf(list, items, i, Higher(list, b, items[i]))
<1> DEFINE Seen(n) == {p \in Scaling(list) : \E j \in 1..n : items[j] = p}
           p == items[i]
<1>1. p \in Policies /\ i \in Nat \ {0}
  BY ElementOfSeq
<1>2. Seen(i) = IF p \in Scaling(list) THEN Seen(i - 1) \cup {p} ELSE Seen(i - 1)
  <2>1. \A j \in Nat : j \in 1..i <=> j \in 1..(i - 1) \/ j = i
    BY <1>1
  <2> QED BY <1>1, <2>1
<1>3. Nil \notin Policies /\ Scaling(list) \subseteq Policies
  BY ConstantsAssumption DEF Scaling
<1>4. IF Seen(i - 1) = {} THEN b = Nil
      ELSE b \in Seen(i - 1) /\ \A q \in Seen(i - 1) \ {b} : Outranks(list, b, q)
  BY DEF HighestOf
<1> SUFFICES IF Seen(i) = {} THEN Higher(list, b, p) = Nil
             ELSE /\ Higher(list, b, p) \in Seen(i)
                  /\ \A q \in Seen(i) \ {Higher(list, b, p)} : Outranks(list, Higher(list, b, p), q)
  BY DEF HighestOf
<1>5. Seen(i - 1) \subseteq Scaling(list)
  OBVIOUS
<1> HIDE DEF Seen, p
<1>6. CASE p \notin Scaling(list)
  BY <1>2, <1>4, <1>6 DEF Higher
<1>7. CASE p \in Scaling(list) /\ b = Nil
  <2>1. Seen(i - 1) = {}
    BY <1>3, <1>4, <1>5, <1>7
  <2> QED BY <1>2, <1>7, <2>1 DEF Higher
<1>8. CASE p \in Scaling(list) /\ b # Nil /\ Outranks(list, b, p) /\ b # p
  <2>1. b \in Scaling(list) /\ ~Outranks(list, p, b)
    BY <1>4, <1>5, <1>8, OutranksOrder
  <2> QED BY <1>2, <1>4, <1>8, <2>1 DEF Higher
<1>9. CASE p \in Scaling(list) /\ b # Nil /\ (Outranks(list, p, b) \/ b = p)
  <2>1. b \in Scaling(list) /\ Higher(list, b, p) = p
    BY <1>4, <1>5, <1>9 DEF Higher
  <2>2. \A q \in Seen(i - 1) \ {p} : Outranks(list, p, q)
    BY <1>4, <1>5, <1>9, <2>1, OutranksOrder
  <2> QED BY <1>2, <1>9, <2>1, <2>2
<1> QED
  <2>1. b # Nil => b \in Scaling(list)
    BY <1>4, <1>5
  <2> QED BY <1>6, <1>7, <1>8, <1>9, <2>1, OutranksOrder

\* The scan exists for every listing.
LEMMA ScanExists ==
  ASSUME NEW list \in [Policies -> WorkloadPolicy \cup {Nil}], NEW items \in Seq(Policies)
  PROVE  \E best : ScanOf(list, items, Len(items), best)
<1> DEFINE Some(n) == \E best : ScanOf(list, items, n, best)
           T == {n \in 0..Len(items) : ~Some(n)}
<1>1. Len(items) \in Nat
  BY LenProperties
<1> SUFFICES ASSUME T # {} PROVE FALSE
  BY <1>1
<1>2. PICK n \in T : \A k \in T : n <= k
  <2>1. T \in SUBSET Nat
    BY <1>1
  <2> HIDE DEF T
  <2> QED BY <2>1, LeastNumber
<1>3. n \in Nat /\ n <= Len(items)
  BY <1>1
<1>4. n # 0
  <2>1. ScanOf(list, items, 0, [i \in 0..0 |-> Nil])
    BY DEF ScanOf
  <2> QED BY <2>1
<1>5. n - 1 \in 0..Len(items) /\ n - 1 \notin T
  <2>1. n - 1 \in 0..Len(items) /\ ~(n <= n - 1)
    BY <1>1, <1>3, <1>4, Predecessor, Zenon
  <2> HIDE DEF T
  <2> QED BY <1>2, <2>1
<1>6. PICK best : ScanOf(list, items, n - 1, best)
  <2>1. Some(n - 1)
    <3> HIDE DEF Some
    <3> QED BY <1>5
  <2> QED BY <2>1
<1> DEFINE next == [i \in 0..n |-> IF i = n THEN Higher(list, best[n - 1], items[n]) ELSE best[i]]
<1>7. items[n] \in Policies
  BY <1>1, <1>3, <1>4, ElementOfSeq
<1>8. best \in [0..(n - 1) -> Policies \cup {Nil}] /\ best[0] = Nil
  BY <1>6 DEF ScanOf
<1>9. next \in [0..n -> Policies \cup {Nil}] /\ next[0] = Nil
  <2>1. Higher(list, best[n - 1], items[n]) \in Policies \cup {Nil}
    BY <1>3, <1>4, <1>7, <1>8 DEF Higher
  <2> QED BY <1>3, <1>4, <1>8, <2>1
<1>10. ASSUME NEW i \in 1..n PROVE next[i] = Higher(list, next[i - 1], items[i])
  <2>1. next[i - 1] = best[i - 1]
    BY <1>3, <1>4
  <2>2. CASE i = n
    BY <1>3, <2>1, <2>2
  <2>3. CASE i # n
    BY <1>3, <1>6, <2>1, <2>3 DEF ScanOf
  <2> QED BY <2>2, <2>3
<1>11. ScanOf(list, items, n, next)
  <2> HIDE DEF next
  <2> QED BY <1>9, <1>10 DEF ScanOf
<1> QED BY <1>2, <1>11

\* The loop of isHighestPriorityPolicy finds, in whatever order the cache lists the
\* policies and however many of them have equal priorities, the one policy that the
\* declarative definition names.
THEOREM ScanFindsHighest ==
  ASSUME NEW list \in [Policies -> WorkloadPolicy \cup {Nil}], NEW items \in Seq(Policies),
         \A p \in Policies : list[p] # Nil => \E i \in 1..Len(items) : items[i] = p
  PROVE  /\ \E best : ScanOf(list, items, Len(items), best)
         /\ \A best : ScanOf(list, items, Len(items), best) =>
              \A p \in Policies : best[Len(items)] = p <=> isHighestPriorityPolicy(list, p)
<1> SUFFICES ASSUME NEW best, ScanOf(list, items, Len(items), best), NEW p \in Policies
             PROVE  best[Len(items)] = p <=> isHighestPriorityPolicy(list, p)
  BY ScanExists
<1> DEFINE T == {n \in 0..Len(items) : ~HighestOf(list, items, n, best[n])}
<1>1. Len(items) \in Nat
  BY LenProperties
<1>2. T = {}
  <2> SUFFICES ASSUME T # {} PROVE FALSE
    OBVIOUS
  <2>1. PICK n \in T : \A k \in T : n <= k
    <3>1. T \in SUBSET Nat
      BY <1>1
    <3> HIDE DEF T
    <3> QED BY <3>1, LeastNumber
  <2>2. n \in Nat /\ n <= Len(items)
    BY <1>1
  <2>3. n # 0
    <3>1. HighestOf(list, items, 0, best[0])
      BY DEF HighestOf, ScanOf
    <3> QED BY <3>1
  <2>4. n - 1 \in 0..Len(items) /\ n - 1 \notin T /\ n \in 1..Len(items)
    <3> HIDE DEF T
    <3>1. n - 1 \in 0..Len(items) /\ n \in 1..Len(items) /\ ~(n <= n - 1)
      BY <1>1, <2>2, <2>3, Predecessor, Zenon
    <3> QED BY <2>1, <3>1
  <2>5. HighestOf(list, items, n - 1, best[n - 1])
    BY <2>4
  <2>6. /\ best[n - 1] \in Policies \cup {Nil}
        /\ best[n] = Higher(list, best[n - 1], items[n])
    BY <2>4 DEF ScanOf
  <2>7. HighestOf(list, items, n, Higher(list, best[n - 1], items[n]))
    <3> HIDE DEF T
    <3> QED BY <2>4, <2>5, <2>6, HigherStep, Zenon
  <2>8. HighestOf(list, items, n, best[n])
    BY <2>6, <2>7
  <2> QED BY <2>8
<1>3. HighestOf(list, items, Len(items), best[Len(items)])
  BY <1>1, <1>2
<1>4. {q \in Scaling(list) : \E j \in 1..Len(items) : items[j] = q} = Scaling(list)
  BY DEF Scaling
<1> DEFINE b == best[Len(items)]
<1>5. IF Scaling(list) = {} THEN b = Nil
      ELSE b \in Scaling(list) /\ \A q \in Scaling(list) \ {b} : Outranks(list, b, q)
  BY <1>3, <1>4 DEF HighestOf
<1>6. p # Nil
  BY ConstantsAssumption
<1> HIDE DEF b
<1>7. b = p <=> isHighestPriorityPolicy(list, p)
  BY <1>5, <1>6, OutranksOrder DEF isHighestPriorityPolicy
<1> QED BY <1>7 DEF b

--------------------------------------------------------------------------------
(* Type correctness *)

\* What the two admission webhooks let through is a valid block or none.
LEMMA AdmittedType ==
  ASSUME NEW raw \in RawScaling, NEW scaling \in Admitted(raw)
  PROVE  scaling \in HorizontalScalingPolicy \cup {Nil} /\ Validate(scaling)
<1>1. raw \in HorizontalScalingPolicy \cup {Nil}
  BY ConstantsAssumption
<1>2. CASE raw = Nil
  BY <1>2 DEF Admitted, Validate
<1>3. CASE raw # Nil
  BY <1>1, <1>3, DefaultType DEF Admitted
<1> QED BY <1>2, <1>3

\* The HPA a policy wants for a Deployment is an HPA.
LEMMA DesiredType ==
  ASSUME NEW p \in Policies, NEW pol \in WorkloadPolicy, NEW d \in Deployments
  PROVE  desiredHPA(p, pol, d) \in HPA
<1> DEFINE hs == Effective(pol.scaling)
<1>1. hs \in HorizontalScalingPolicy
  BY DefaultType DEF WorkloadPolicy
<1>2. [target |-> d, minReplicas |-> hs.minReplicas,
       maxReplicas |-> hs.maxReplicas, targetCPU |-> hs.targetCPU] \in HPASpec
  BY <1>1 DEF HPASpec, HorizontalScalingPolicy
<1>3. [name |-> p, uid |-> pol.uid] \in OwnerRef
  BY DEF OwnerRef, WorkloadPolicy
<1> QED BY <1>2, <1>3 DEF desiredHPA, HPA

\* The update over an existing HPA and the users' edits keep it an HPA.
LEMMA EditedHPAType ==
  ASSUME NEW old \in HPA
  PROVE  /\ \A new \in HPA, p \in Policies :
              [old EXCEPT !.spec = new.spec, !.managed = TRUE, !.policy = p] \in HPA
         /\ [old EXCEPT !.managed = FALSE] \in HPA
         /\ \A n \in Int : [old EXCEPT !.spec.maxReplicas = n] \in HPA
<1>1. ASSUME NEW n \in Int
      PROVE  [old EXCEPT !.spec.maxReplicas = n] \in HPA
  <2>1. [old.spec EXCEPT !.maxReplicas = n] \in HPASpec
    BY DEF HPA, HPASpec
  <2>2. [old EXCEPT !.spec.maxReplicas = n] = [old EXCEPT !.spec = [old.spec EXCEPT !.maxReplicas = n]]
    BY DEF HPA, HPASpec
  <2> QED BY <2>1, <2>2 DEF HPA
<1>2. ASSUME NEW new \in HPA, NEW p \in Policies
      PROVE  [old EXCEPT !.spec = new.spec, !.managed = TRUE, !.policy = p] \in HPA
  BY DEF HPA
<1>3. [old EXCEPT !.managed = FALSE] \in HPA
  BY DEF HPA
<1> QED BY <1>1, <1>2, <1>3

\* What a created policy, an updated one and one whose status is written are.
LEMMA WrittenPolicyType ==
  /\ \A uid \in Nat, priority \in Int, scaling \in HorizontalScalingPolicy \cup {Nil} :
       NewPolicy(uid, priority, scaling) \in WorkloadPolicy
  /\ \A old \in WorkloadPolicy, priority \in Int, scaling \in HorizontalScalingPolicy \cup {Nil} :
       [old EXCEPT !.priority = priority, !.scaling = scaling,
                   !.generation = old.generation + 1] \in WorkloadPolicy
  /\ \A old \in WorkloadPolicy : [old EXCEPT !.observed = old.generation] \in WorkloadPolicy
<1>1. \A uid \in Nat, priority \in Int, scaling \in HorizontalScalingPolicy \cup {Nil} :
        NewPolicy(uid, priority, scaling) \in WorkloadPolicy
  BY DEF NewPolicy, WorkloadPolicy
<1>2. \A old \in WorkloadPolicy, priority \in Int, scaling \in HorizontalScalingPolicy \cup {Nil} :
        [old EXCEPT !.priority = priority, !.scaling = scaling,
                    !.generation = old.generation + 1] \in WorkloadPolicy
  <2>1. \A old \in WorkloadPolicy : old.generation + 1 \in Nat \ {0}
    BY DEF WorkloadPolicy
  <2>2. \A old \in WorkloadPolicy, n \in Int, hs \in HorizontalScalingPolicy \cup {Nil}, g \in Nat \ {0} :
          [old EXCEPT !.priority = n, !.scaling = hs, !.generation = g] \in WorkloadPolicy
    BY DEF WorkloadPolicy
  <2> QED BY <2>1, <2>2
<1>3. \A old \in WorkloadPolicy : [old EXCEPT !.observed = old.generation] \in WorkloadPolicy
  BY DEF WorkloadPolicy
<1> QED BY <1>1, <1>2, <1>3

\* In a typed state the two ends of every stream are typed.
LEMMA EndsType ==
  ASSUME TypeOK
  PROVE  /\ Cached(policies) \in [Policies -> WorkloadPolicy \cup {Nil}]
         /\ Stored(policies) \in [Policies -> WorkloadPolicy \cup {Nil}]
         /\ Cached(deployments) \in [Deployments -> Annotation \cup {Nil}]
         /\ Stored(deployments) \in [Deployments -> Annotation \cup {Nil}]
         /\ Cached(hpas) \in [HPANames -> HPA \cup {Nil}]
         /\ Stored(hpas) \in [HPANames -> HPA \cup {Nil}]
  BY StreamEnds DEF TypeOK

\* StreamAppend for a write to the stream of policies.
LEMMA CommitPolicy ==
  ASSUME TypeOK, NEW p \in Policies, NEW obj \in WorkloadPolicy \cup {Nil}
  PROVE  /\ Commit(policies, p, obj) \in Seq([Policies -> WorkloadPolicy \cup {Nil}])
         /\ Commit(policies, p, obj) # << >>
         /\ Len(Commit(policies, p, obj)) = Len(policies) + 1
         /\ \A i \in 1..Len(policies) : Commit(policies, p, obj)[i] = policies[i]
         /\ Cached(Commit(policies, p, obj)) = Cached(policies)
         /\ Stored(Commit(policies, p, obj)) = [Stored(policies) EXCEPT ![p] = obj]
<1> DEFINE F == [Policies -> WorkloadPolicy \cup {Nil}]
<1>1. Stored(policies) \in F
  BY EndsType
<1> DEFINE x == [Stored(policies) EXCEPT ![p] = obj]
<1>2. x \in F
  BY <1>1
<1>3. policies \in Seq(F) /\ policies # << >>
  BY DEF TypeOK
<1>4. Commit(policies, p, obj) = Append(policies, x)
  BY DEF Commit
<1> HIDE DEF F, x
<1>5. /\ Commit(policies, p, obj) \in Seq(F) /\ Commit(policies, p, obj) # << >>
      /\ Len(Commit(policies, p, obj)) = Len(policies) + 1
      /\ \A i \in 1..Len(policies) : Commit(policies, p, obj)[i] = policies[i]
      /\ Cached(Commit(policies, p, obj)) = Cached(policies)
      /\ Stored(Commit(policies, p, obj)) = x
  BY <1>2, <1>3, <1>4, StreamAppend
<1> QED BY <1>5 DEF F, x

\* StreamAppend for a write to the stream of Deployments.
LEMMA CommitDeployment ==
  ASSUME TypeOK, NEW d \in Deployments, NEW obj \in Annotation \cup {Nil}
  PROVE  /\ Commit(deployments, d, obj) \in Seq([Deployments -> Annotation \cup {Nil}])
         /\ Commit(deployments, d, obj) # << >>
         /\ Len(Commit(deployments, d, obj)) = Len(deployments) + 1
         /\ \A i \in 1..Len(deployments) : Commit(deployments, d, obj)[i] = deployments[i]
         /\ Cached(Commit(deployments, d, obj)) = Cached(deployments)
         /\ Stored(Commit(deployments, d, obj)) = [Stored(deployments) EXCEPT ![d] = obj]
<1> DEFINE F == [Deployments -> Annotation \cup {Nil}]
<1>1. Stored(deployments) \in F
  BY EndsType
<1> DEFINE x == [Stored(deployments) EXCEPT ![d] = obj]
<1>2. x \in F
  BY <1>1
<1>3. deployments \in Seq(F) /\ deployments # << >>
  BY DEF TypeOK
<1>4. Commit(deployments, d, obj) = Append(deployments, x)
  BY DEF Commit
<1> HIDE DEF F, x
<1>5. /\ Commit(deployments, d, obj) \in Seq(F) /\ Commit(deployments, d, obj) # << >>
      /\ Len(Commit(deployments, d, obj)) = Len(deployments) + 1
      /\ \A i \in 1..Len(deployments) : Commit(deployments, d, obj)[i] = deployments[i]
      /\ Cached(Commit(deployments, d, obj)) = Cached(deployments)
      /\ Stored(Commit(deployments, d, obj)) = x
  BY <1>2, <1>3, <1>4, StreamAppend
<1> QED BY <1>5 DEF F, x

\* StreamAppend for a write to the stream of HPAs.
LEMMA CommitHPA ==
  ASSUME TypeOK, NEW h \in HPANames, NEW obj \in HPA \cup {Nil}
  PROVE  /\ Commit(hpas, h, obj) \in Seq([HPANames -> HPA \cup {Nil}])
         /\ Commit(hpas, h, obj) # << >>
         /\ Len(Commit(hpas, h, obj)) = Len(hpas) + 1
         /\ \A i \in 1..Len(hpas) : Commit(hpas, h, obj)[i] = hpas[i]
         /\ Cached(Commit(hpas, h, obj)) = Cached(hpas)
         /\ Stored(Commit(hpas, h, obj)) = [Stored(hpas) EXCEPT ![h] = obj]
<1> DEFINE F == [HPANames -> HPA \cup {Nil}]
<1>1. Stored(hpas) \in F
  BY EndsType
<1> DEFINE x == [Stored(hpas) EXCEPT ![h] = obj]
<1>2. x \in F
  BY <1>1
<1>3. hpas \in Seq(F) /\ hpas # << >>
  BY DEF TypeOK
<1>4. Commit(hpas, h, obj) = Append(hpas, x)
  BY DEF Commit
<1> HIDE DEF F, x
<1>5. /\ Commit(hpas, h, obj) \in Seq(F) /\ Commit(hpas, h, obj) # << >>
      /\ Len(Commit(hpas, h, obj)) = Len(hpas) + 1
      /\ \A i \in 1..Len(hpas) : Commit(hpas, h, obj)[i] = hpas[i]
      /\ Cached(Commit(hpas, h, obj)) = Cached(hpas)
      /\ Stored(Commit(hpas, h, obj)) = x
  BY <1>2, <1>3, <1>4, StreamAppend
<1> QED BY <1>5 DEF F, x

\* A write to one HPA, whatever it is, leaves the others as they are stored.
LEMMA CommitStoresHPA ==
  ASSUME TypeOK, NEW h \in HPANames, NEW obj
  PROVE  Stored(Commit(hpas, h, obj)) = [Stored(hpas) EXCEPT ![h] = obj]
<1> DEFINE F == [HPANames -> HPA \cup {Nil}]
           x == [Stored(hpas) EXCEPT ![h] = obj]
           G == F \cup {x}
<1>1. hpas \in Seq(F) /\ hpas # << >>
  BY DEF TypeOK
<1>2. x \in G
  OBVIOUS
<1>3. Commit(hpas, h, obj) = Append(hpas, x)
  BY DEF Commit
<1> HIDE DEF F, x
<1>4. hpas \in Seq(G)
  BY <1>1
<1> HIDE DEF G
<1>5. Stored(Append(hpas, x)) = x
  BY <1>1, <1>2, <1>4, StreamAppend
<1> QED BY <1>3, <1>5 DEF x

\* The empty listing is a listing.
LEMMA NoneListedType == NoneListed \in [Deployments -> Annotation \cup {Nil}]
  BY DEF NoneListed

\* The policies the operator finds when it starts passed admission and have not
\* been announced.
LEMMA InitialPolicy ==
  ASSUME NEW pol \in InitialPolicies
  PROVE  /\ pol \in WorkloadPolicy /\ Validate(pol.scaling)
         /\ pol.generation = 1 /\ pol.observed = 0
<1>1. PICK n \in Priorities, hs \in UNION {Admitted(raw) : raw \in RawScaling} :
        pol = NewPolicy(0, n, hs)
  BY DEF InitialPolicies
<1>2. PICK raw \in RawScaling : hs \in Admitted(raw)
  OBVIOUS
<1>3. hs \in HorizontalScalingPolicy \cup {Nil} /\ Validate(hs)
  BY <1>2, AdmittedType
<1>4. n \in Int
  BY ConstantsAssumption
<1>5. pol \in WorkloadPolicy
  BY <1>1, <1>3, <1>4, WrittenPolicyType
<1> QED BY <1>1, <1>3, <1>5 DEF NewPolicy

\* The initial states are typed.
LEMMA TypeInit == Init => TypeOK
<1> SUFFICES ASSUME Init PROVE TypeOK
  OBVIOUS
<1>1. policies \in Seq([Policies -> WorkloadPolicy \cup {Nil}]) /\ policies # << >>
  <2>1. PICK f \in [Policies -> InitialPolicies \cup {Nil}] : policies = <<f>>
    BY DEF Init
  <2>2. f \in [Policies -> WorkloadPolicy \cup {Nil}]
    BY InitialPolicy
  <2> QED BY <2>1, <2>2, StreamFresh
<1>2. deployments \in Seq([Deployments -> Annotation \cup {Nil}]) /\ deployments # << >>
  <2>1. PICK f \in [Deployments -> Annotations \cup {Nil}] : deployments = <<f>>
    BY DEF Init
  <2>2. f \in [Deployments -> Annotation \cup {Nil}]
    BY ConstantsAssumption
  <2> QED BY <2>1, <2>2, StreamFresh
<1>3. hpas \in Seq([HPANames -> HPA \cup {Nil}]) /\ hpas # << >>
  <2>1. [h \in HPANames |-> Nil] \in [HPANames -> HPA \cup {Nil}]
    OBVIOUS
  <2> QED BY <2>1, StreamFresh DEF Init
<1> QED BY <1>1, <1>2, <1>3, NoneListedType DEF Init, TypeOK

\* What the steps of users and of the garbage collector write is typed.
LEMMA TypeUser ==
  ASSUME TypeOK, User \/ \E h \in HPANames : Collect(h)
  PROVE  TypeOK'
<1>1. ASSUME NEW p \in Policies, NEW obj \in WorkloadPolicy \cup {Nil}, WritePolicy(p, obj)
      PROVE  TypeOK'
  <2>1. policies' \in Seq([Policies -> WorkloadPolicy \cup {Nil}]) /\ policies' # << >>
    BY <1>1, CommitPolicy DEF WritePolicy
  <2>2. edits' \in Nat
    BY <1>1 DEF TypeOK, WritePolicy, Edit
  <2> QED BY <1>1, <2>1, <2>2 DEF TypeOK, WritePolicy, worker, history
<1>2. ASSUME NEW p \in Policies, CreatePolicy(p) PROVE TypeOK'
  <2>1. PICK priority \in Priorities, raw \in RawScaling : \E scaling \in Admitted(raw) :
          WritePolicy(p, NewPolicy(edits + 1, priority, scaling))
    BY <1>2 DEF CreatePolicy
  <2>2. PICK scaling \in Admitted(raw) : WritePolicy(p, NewPolicy(edits + 1, priority, scaling))
    BY <2>1
  <2>3. priority \in Int /\ scaling \in HorizontalScalingPolicy \cup {Nil} /\ edits + 1 \in Nat
    BY ConstantsAssumption, AdmittedType DEF TypeOK
  <2>4. NewPolicy(edits + 1, priority, scaling) \in WorkloadPolicy
    BY <2>3, WrittenPolicyType
  <2> QED BY <2>2, <2>4, <1>1
<1>3. ASSUME NEW p \in Policies, UpdatePolicy(p) PROVE TypeOK'
  <2> DEFINE old == Stored(policies)[p]
  <2>1. PICK priority \in Priorities, raw \in RawScaling : \E scaling \in Admitted(raw) :
          WritePolicy(p, [old EXCEPT !.priority = priority, !.scaling = scaling,
                                     !.generation = @ + 1])
    BY <1>3 DEF UpdatePolicy
  <2>2. PICK scaling \in Admitted(raw) :
          WritePolicy(p, [old EXCEPT !.priority = priority, !.scaling = scaling,
                                     !.generation = @ + 1])
    BY <2>1
  <2>3. priority \in Int /\ scaling \in HorizontalScalingPolicy \cup {Nil}
    BY ConstantsAssumption, AdmittedType
  <2>4. old \in WorkloadPolicy
    BY <1>3, EndsType DEF UpdatePolicy
  <2> HIDE DEF old
  <2>5. [old EXCEPT !.priority = priority, !.scaling = scaling, !.generation = @ + 1] \in WorkloadPolicy
    BY <2>3, <2>4, WrittenPolicyType
  <2> QED BY <2>2, <2>5, <1>1
<1>4. ASSUME NEW p \in Policies, DeletePolicy(p) PROVE TypeOK'
  BY <1>4, <1>1 DEF DeletePolicy
<1>5. ASSUME NEW d \in Deployments, WriteDeployment(d) PROVE TypeOK'
  <2>1. PICK v \in Annotations \cup {Nil} : deployments' = Commit(deployments, d, v)
    BY <1>5 DEF WriteDeployment
  <2>2. v \in Annotation \cup {Nil}
    BY ConstantsAssumption
  <2>3. deployments' \in Seq([Deployments -> Annotation \cup {Nil}]) /\ deployments' # << >>
    BY <2>1, <2>2, CommitDeployment
  <2>4. edits' \in Nat
    BY <1>5 DEF TypeOK, WriteDeployment, Edit
  <2> QED BY <1>5, <2>3, <2>4 DEF TypeOK, WriteDeployment, worker, history
<1>6. ASSUME NEW h \in HPANames, NEW obj \in HPA \cup {Nil}, Tamper(h, obj), edits' \in Nat
      PROVE  TypeOK'
  <2>1. hpas' \in Seq([HPANames -> HPA \cup {Nil}]) /\ hpas' # << >>
    BY <1>6, CommitHPA DEF Tamper
  <2> QED BY <1>6, <2>1 DEF TypeOK, Tamper, worker
<1>7. ASSUME NEW d \in Deployments, UserWritesHPA(d) PROVE TypeOK'
  <2> DEFINE h == managedHPAName(d)
             old == Stored(hpas)[h]
  <2>1. h \in HPANames /\ edits' \in Nat
    BY <1>7 DEF HPANames, UserWritesHPA, Edit, TypeOK
  <2>2. \A n \in UserReplicas : n \in Int
    BY ConstantsAssumption
  <2>3. \A n \in UserReplicas : UserHPA(d, n) \in HPA
    BY <2>2 DEF UserHPA, HPA, HPASpec, DefaultHPAMinReplicas, DefaultHPATargetCPU
  <2>4. isManagedHPA(old) => /\ old \in HPA
                             /\ [old EXCEPT !.managed = FALSE] \in HPA
                             /\ \A n \in UserReplicas : [old EXCEPT !.spec.maxReplicas = n] \in HPA
    BY <2>1, <2>2, EndsType, EditedHPAType DEF isManagedHPA
  <2>5. \E obj \in HPA \cup {Nil} : Tamper(h, obj)
    BY <1>7, <2>3, <2>4 DEF UserWritesHPA
  <2> HIDE DEF h
  <2> QED BY <2>1, <2>5, <1>6
<1>8. ASSUME NEW h \in HPANames, Collect(h) PROVE TypeOK'
  BY <1>8, <1>6 DEF Collect, TypeOK
<1> QED BY <1>2, <1>3, <1>4, <1>5, <1>7, <1>8 DEF User

\* Deliveries, the resync and a restart keep the state typed.
LEMMA TypeInformers ==
  ASSUME TypeOK, DeliverPolicy \/ DeliverDeployment \/ DeliverHPA \/ Resync \/ Restart
  PROVE  TypeOK'
<1>1. CASE DeliverPolicy
  <2>1. policies' \in Seq([Policies -> WorkloadPolicy \cup {Nil}]) /\ policies' # << >>
    BY <1>1, StreamTail DEF TypeOK, DeliverPolicy
  <2> QED BY <1>1, <2>1 DEF TypeOK, DeliverPolicy, worker, history
<1>2. CASE DeliverDeployment
  <2>1. deployments' \in Seq([Deployments -> Annotation \cup {Nil}]) /\ deployments' # << >>
    BY <1>2, StreamTail DEF TypeOK, DeliverDeployment
  <2>2. Touched \subseteq HPANames
    BY DEF Touched, HPANames
  <2>3. unseen' \subseteq HPANames /\ faults' \in Nat /\ queue' \subseteq Policies
    BY <1>2, <2>2 DEF TypeOK, DeliverDeployment, MapFails, Fault
  <2> QED BY <1>2, <2>1, <2>3 DEF TypeOK, DeliverDeployment, worker
<1>3. CASE DeliverHPA
  <2>1. hpas' \in Seq([HPANames -> HPA \cup {Nil}]) /\ hpas' # << >>
    BY <1>3, StreamTail DEF TypeOK, DeliverHPA
  <2> QED BY <1>3, <2>1 DEF TypeOK, DeliverHPA, worker, history
<1>4. CASE Resync
  BY <1>4 DEF TypeOK, Resync, store, worker, history
<1>5. CASE Restart
  <2>1. policies' \in Seq([Policies -> WorkloadPolicy \cup {Nil}]) /\ policies' # << >>
    BY <1>5, EndsType, StreamFresh DEF Restart
  <2>2. deployments' \in Seq([Deployments -> Annotation \cup {Nil}]) /\ deployments' # << >>
    BY <1>5, EndsType, StreamFresh DEF Restart
  <2>3. hpas' \in Seq([HPANames -> HPA \cup {Nil}]) /\ hpas' # << >>
    BY <1>5, EndsType, StreamFresh DEF Restart
  <2> QED BY <1>5, <2>1, <2>2, <2>3, NoneListedType DEF TypeOK, Restart, Idle, Fault, history
<1> QED BY <1>1, <1>2, <1>3, <1>4, <1>5

\* The types of the worker's own variables, and of the queue.
WorkerType ==
  /\ queue \subseteq Policies
  /\ pc \in {"idle", "rank", "list", "apply", "status"}
  /\ req \in Policies \cup {Nil}
  /\ policy \in WorkloadPolicy \cup {Nil}
  /\ listed \in [Deployments -> Annotation \cup {Nil}]
  /\ faults \in Nat
  /\ pc # "idle" => req \in Policies /\ policy \in WorkloadPolicy

\* However a visit ends, the worker's variables are typed.
LEMMA TypeVisitEnd ==
  ASSUME TypeOK, pc # "idle", NEW d \in Deployments,
         \/ Written(d)
         \/ Proceed(d) /\ UNCHANGED faults
         \/ Fail /\ UNCHANGED faults
         \/ Fail /\ Fault
  PROVE  WorkerType'
<1>1. CASE Fail /\ (UNCHANGED faults \/ Fault)
  BY <1>1, NoneListedType DEF TypeOK, WorkerType, Fail, Idle, Fault
<1>2. CASE Proceed(d) /\ UNCHANGED faults
  BY <1>2 DEF TypeOK, WorkerType, Proceed, PassOn
<1> QED BY <1>1, <1>2 DEF Written

\* A visit keeps the state typed.
LEMMA TypeVisit ==
  ASSUME TypeOK, NEW d \in Deployments, Visit(d)
  PROVE  TypeOK'
<1> DEFINE h == managedHPAName(d)
           desired == desiredHPA(req, policy, d)
           existing == Cached(hpas)[h]
<1>1. h \in HPANames /\ pc # "idle"
  BY DEF HPANames, Visit
<1>2. desired \in HPA
  BY <1>1, DesiredType DEF TypeOK
<1>3. UNCHANGED <<policies, deployments, enforcer, edits>>
  BY DEF Visit
<1>4. unseen' \subseteq HPANames
  BY <1>1 DEF Visit, Look, TypeOK
<1>5. WorkerType'
  BY <1>1, TypeVisitEnd DEF Visit, CreateHPA, RefuseHPA, UpdateHPA, DropHPA
<1>6. hpas' \in Seq([HPANames -> HPA \cup {Nil}]) /\ hpas' # << >>
  <2>1. isManagedHPA(existing) =>
          [existing EXCEPT !.spec = desired.spec, !.managed = TRUE, !.policy = req] \in HPA
    BY <1>1, <1>2, EndsType, EditedHPAType DEF isManagedHPA, TypeOK
  <2>2. \/ UNCHANGED hpas
        \/ \E obj \in HPA \cup {Nil} : hpas' = Commit(hpas, h, obj)
    BY <1>2, <2>1 DEF Visit, CreateHPA, RefuseHPA, UpdateHPA, DropHPA
  <2> HIDE DEF h
  <2> QED BY <1>1, <2>2, CommitHPA DEF TypeOK
<1> QED BY <1>3, <1>4, <1>5, <1>6 DEF TypeOK, WorkerType

\* The other steps of Reconcile keep the state typed.
LEMMA TypeReconcile ==
  ASSUME TypeOK, Worker
  PROVE  TypeOK'
<1>1. ASSUME NEW p \in Policies, Begin(p) PROVE TypeOK'
  BY <1>1, EndsType DEF TypeOK, Begin, store, worker, history
<1>2. CASE Rank
  BY <1>2 DEF TypeOK, Rank, store
<1>3. CASE ListDeployments
  BY <1>3, EndsType DEF TypeOK, ListDeployments, PassOn, store, history
<1>4. ASSUME NEW d \in Deployments, Visit(d) PROVE TypeOK'
  BY <1>4, TypeVisit
<1>5. CASE UpdateStatus
  <2>1. req \in Policies /\ policy \in WorkloadPolicy
    BY <1>5 DEF TypeOK, UpdateStatus
  <2>2. policies' \in Seq([Policies -> WorkloadPolicy \cup {Nil}]) /\ policies' # << >>
    <3>1. [policy EXCEPT !.observed = policy.generation] \in WorkloadPolicy
      BY <2>1, WrittenPolicyType
    <3> QED BY <1>5, <2>1, <3>1, CommitPolicy DEF TypeOK, UpdateStatus
  <2>3. WorkerType'
    BY <1>5, <2>1, NoneListedType DEF TypeOK, WorkerType, UpdateStatus, Done, Fail, Idle, Fault
  <2> QED BY <1>5, <2>2, <2>3 DEF TypeOK, WorkerType, UpdateStatus, history
<1>6. CASE CallFails
  <2>1. req \in Policies
    BY <1>6 DEF TypeOK, CallFails
  <2> QED BY <1>6, <2>1, NoneListedType DEF TypeOK, CallFails, Fail, Idle, Fault, store, history
<1> QED BY <1>1, <1>2, <1>3, <1>4, <1>5, <1>6 DEF Worker

\* Every step keeps the types.
LEMMA TypeStep ==
  ASSUME TypeOK, [Next]_vars
  PROVE  TypeOK'
<1>1. CASE Next
  BY <1>1, TypeUser, TypeInformers, TypeReconcile DEF Next
<1>2. CASE UNCHANGED vars
  BY <1>2 DEF TypeOK, vars, store, worker, history
<1> QED BY <1>1, <1>2

\* Every reachable state is typed, for any namespace, users and bounds.
THEOREM TypeCorrect == Spec => []TypeOK
<1>1. TypeOK /\ [Next]_vars => TypeOK'
  BY TypeStep
<1> QED BY TypeInit, <1>1, PTL DEF Spec

--------------------------------------------------------------------------------
(* What a step may write *)

\* The writes to a policy: creation, a change of spec, deletion, and the status.
PolicyWrite(old, new) ==
  \/ /\ old = Nil
     /\ \E uid \in Nat, n \in Int, hs \in HorizontalScalingPolicy \cup {Nil} :
          Validate(hs) /\ new = NewPolicy(uid, n, hs)
  \/ /\ old # Nil
     /\ \E n \in Int, hs \in HorizontalScalingPolicy \cup {Nil} :
          /\ Validate(hs)
          /\ new = [old EXCEPT !.priority = n, !.scaling = hs, !.generation = old.generation + 1]
  \/ old # Nil /\ new = Nil
  \/ old # Nil /\ new = [old EXCEPT !.observed = old.generation]

\* A user's write to a policy is one of those.
LEMMA PolicyEdits ==
  ASSUME TypeOK, NEW p \in Policies, CreatePolicy(p) \/ UpdatePolicy(p) \/ DeletePolicy(p)
  PROVE  \E new \in WorkloadPolicy \cup {Nil} :
           /\ policies' = Commit(policies, p, new)
           /\ PolicyWrite(Stored(policies)[p], new)
<1>1. CASE CreatePolicy(p)
  <2>1. PICK n \in Priorities, raw \in RawScaling : \E hs \in Admitted(raw) :
          WritePolicy(p, NewPolicy(edits + 1, n, hs))
    BY <1>1 DEF CreatePolicy
  <2>2. PICK hs \in Admitted(raw) : WritePolicy(p, NewPolicy(edits + 1, n, hs))
    BY <2>1
  <2>3. n \in Int /\ hs \in HorizontalScalingPolicy \cup {Nil} /\ Validate(hs) /\ edits + 1 \in Nat
    BY ConstantsAssumption, AdmittedType DEF TypeOK
  <2>4. PolicyWrite(Stored(policies)[p], NewPolicy(edits + 1, n, hs))
    BY <1>1, <2>3 DEF PolicyWrite, CreatePolicy
  <2>5. NewPolicy(edits + 1, n, hs) \in WorkloadPolicy
    BY <2>3, WrittenPolicyType
  <2> QED BY <2>2, <2>4, <2>5 DEF WritePolicy
<1>2. CASE UpdatePolicy(p)
  <2> DEFINE old == Stored(policies)[p]
  <2>1. PICK n \in Priorities, raw \in RawScaling : \E hs \in Admitted(raw) :
          WritePolicy(p, [old EXCEPT !.priority = n, !.scaling = hs, !.generation = @ + 1])
    BY <1>2 DEF UpdatePolicy
  <2>2. PICK hs \in Admitted(raw) :
          WritePolicy(p, [old EXCEPT !.priority = n, !.scaling = hs, !.generation = @ + 1])
    BY <2>1
  <2>3. n \in Int /\ hs \in HorizontalScalingPolicy \cup {Nil} /\ Validate(hs)
    BY ConstantsAssumption, AdmittedType
  <2>4. old # Nil /\ old \in WorkloadPolicy
    BY <1>2, EndsType DEF UpdatePolicy
  <2> DEFINE new == [old EXCEPT !.priority = n, !.scaling = hs, !.generation = old.generation + 1]
  <2>5. new \in WorkloadPolicy
    BY <2>3, <2>4, WrittenPolicyType
  <2>6. PolicyWrite(old, new)
    BY <2>3, <2>4 DEF PolicyWrite
  <2>7. policies' = Commit(policies, p, new)
    BY <2>2 DEF WritePolicy
  <2> QED BY <2>5, <2>6, <2>7
<1>3. CASE DeletePolicy(p)
  BY <1>3 DEF DeletePolicy, WritePolicy, PolicyWrite
<1> QED BY <1>1, <1>2, <1>3

\* Every step of the system leaves the policies alone, delivers one event,
\* restarts the informer, or is one of those writes to one policy as stored.
LEMMA PolicySteps ==
  ASSUME TypeOK, [Next]_vars
  PROVE  \/ UNCHANGED policies
         \/ InFlight(policies) /\ policies' = Tail(policies)
         \/ policies' = <<Stored(policies)>>
         \/ \E p \in Policies : \E new \in WorkloadPolicy \cup {Nil} :
              /\ policies' = Commit(policies, p, new)
              /\ PolicyWrite(Stored(policies)[p], new)
<1> DEFINE Goal == \E p \in Policies : \E new \in WorkloadPolicy \cup {Nil} :
                     /\ policies' = Commit(policies, p, new)
                     /\ PolicyWrite(Stored(policies)[p], new)
<1>1. ASSUME NEW p \in Policies, CreatePolicy(p) \/ UpdatePolicy(p) \/ DeletePolicy(p) PROVE Goal
  BY <1>1, PolicyEdits
<1>2. CASE UpdateStatus
  <2> DEFINE new == [policy EXCEPT !.observed = policy.generation]
  <2>1. req \in Policies /\ policy \in WorkloadPolicy
    BY <1>2 DEF TypeOK, UpdateStatus
  <2>2. new \in WorkloadPolicy /\ policy # Nil
    BY <2>1, WrittenPolicyType, NilIsNoObject
  <2>3. \/ UNCHANGED policies
        \/ Stored(policies)[req] = policy /\ policies' = Commit(policies, req, new)
    BY <1>2 DEF UpdateStatus
  <2>4. PolicyWrite(policy, new)
    BY <2>2 DEF PolicyWrite
  <2> QED BY <2>1, <2>2, <2>3, <2>4
<1>3. CASE DeliverPolicy \/ Restart
  BY <1>3 DEF DeliverPolicy, Restart
<1>4. CASE \/ \E d \in Deployments : WriteDeployment(d) \/ UserWritesHPA(d) \/ Visit(d)
           \/ \E h \in HPANames : Collect(h)
           \/ \E p \in Policies : Begin(p)
           \/ Rank \/ ListDeployments \/ CallFails
           \/ DeliverDeployment \/ DeliverHPA \/ Resync \/ UNCHANGED vars
  BY <1>4 DEF WriteDeployment, UserWritesHPA, Tamper, Visit, Collect, Begin, Rank,
              ListDeployments, CallFails, DeliverDeployment, DeliverHPA, Resync, vars, store
<1> QED BY <1>1, <1>2, <1>3, <1>4 DEF Next, User, Worker

--------------------------------------------------------------------------------
(* Policies, stored, cached or on their way, are what admission let in *)

AdmittedPolicy ==
  {pol \in WorkloadPolicy : Validate(pol.scaling)}

PolicySnapshots == [Policies -> AdmittedPolicy \cup {Nil}]

\* The inductive strengthening: not only the stored policies but every snapshot
\* and the worker's copy, which the next pass or status update works from.
PoliciesAdmitted ==
  /\ policies \in Seq(PolicySnapshots)
  /\ policy \in AdmittedPolicy \cup {Nil}

\* A user's write and a status update make an admitted policy of an admitted one.
LEMMA AdmittedWrite ==
  ASSUME NEW old \in AdmittedPolicy \cup {Nil}, NEW new \in WorkloadPolicy \cup {Nil},
         PolicyWrite(old, new)
  PROVE  new \in AdmittedPolicy \cup {Nil}
<1>1. CASE \E uid \in Nat, n \in Int, hs \in HorizontalScalingPolicy \cup {Nil} :
             Validate(hs) /\ new = NewPolicy(uid, n, hs)
  BY <1>1 DEF NewPolicy, AdmittedPolicy, WorkloadPolicy
<1>2. CASE /\ old # Nil
           /\ \E n \in Int, hs \in HorizontalScalingPolicy \cup {Nil} :
                /\ Validate(hs)
                /\ new = [old EXCEPT !.priority = n, !.scaling = hs, !.generation = old.generation + 1]
  <2>1. PICK n \in Int, hs \in HorizontalScalingPolicy \cup {Nil} :
          /\ Validate(hs)
          /\ new = [old EXCEPT !.priority = n, !.scaling = hs, !.generation = old.generation + 1]
    BY <1>2
  <2>2. old \in WorkloadPolicy
    BY <1>2 DEF AdmittedPolicy
  <2>3. new.scaling = hs
    BY <2>1, <2>2 DEF WorkloadPolicy
  <2>4. new \in WorkloadPolicy
    BY <2>1, <2>2, WrittenPolicyType
  <2> QED BY <2>1, <2>3, <2>4 DEF AdmittedPolicy
<1>3. CASE new = Nil
  BY <1>3
<1>4. CASE old # Nil /\ new = [old EXCEPT !.observed = old.generation]
  <2>1. old \in WorkloadPolicy /\ Validate(old.scaling)
    BY <1>4 DEF AdmittedPolicy
  <2>2. new.scaling = old.scaling
    BY <1>4, <2>1 DEF WorkloadPolicy
  <2>3. new \in WorkloadPolicy
    BY <1>4, <2>1, WrittenPolicyType
  <2> QED BY <2>1, <2>2, <2>3 DEF AdmittedPolicy
<1> QED BY <1>1, <1>2, <1>3, <1>4 DEF PolicyWrite

\* A write of an admitted policy adds an admitted snapshot.
LEMMA CommitAdmitted ==
  ASSUME TypeOK, PoliciesAdmitted, NEW p \in Policies, NEW new \in AdmittedPolicy \cup {Nil}
  PROVE  Commit(policies, p, new) \in Seq(PolicySnapshots)
<1> DEFINE x == [Stored(policies) EXCEPT ![p] = new]
<1>1. policies # << >> /\ policies \in Seq(PolicySnapshots)
  BY DEF TypeOK, PoliciesAdmitted
<1>2. Stored(policies) \in PolicySnapshots
  BY <1>1, StreamEnds
<1>3. x \in PolicySnapshots
  BY <1>2 DEF PolicySnapshots
<1> HIDE DEF x
<1>4. Append(policies, x) \in Seq(PolicySnapshots)
  BY <1>1, <1>3, StreamAppend
<1> QED BY <1>4 DEF Commit, x

\* The copy the worker holds comes from the cache or stays.
LEMMA WorkerCopy ==
  ASSUME TypeOK, [Next]_vars
  PROVE  policy' \in {policy, Nil} \/ \E p \in Policies : policy' = Cached(policies)[p]
<1>1. ASSUME NEW p \in Policies, Begin(p)
      PROVE  policy' = policy \/ policy' = Cached(policies)[p]
  BY <1>1 DEF Begin, worker
<1>2. CASE User \/ \E h \in HPANames : Collect(h)
  BY <1>2 DEF User, CreatePolicy, UpdatePolicy, DeletePolicy, WritePolicy, WriteDeployment,
              UserWritesHPA, Tamper, Collect, worker
<1>3. CASE \/ Rank \/ ListDeployments \/ CallFails \/ UpdateStatus
           \/ \E d \in Deployments : Visit(d)
  BY <1>3 DEF Rank, ListDeployments, CallFails, UpdateStatus, Visit, CreateHPA, RefuseHPA,
              UpdateHPA, DropHPA, Written, Proceed, Fail, Done, Idle
<1>4. CASE DeliverPolicy \/ DeliverDeployment \/ DeliverHPA \/ Resync \/ Restart \/ UNCHANGED vars
  BY <1>4 DEF DeliverPolicy, DeliverDeployment, DeliverHPA, Resync, Restart, Idle, worker, vars
<1> QED BY <1>1, <1>2, <1>3, <1>4 DEF Next, Worker

\* Whatever copy of a policy the worker acts on, admission let it in.
LEMMA AlwaysAdmitted == Spec => []PoliciesAdmitted
<1>1. Init => PoliciesAdmitted
  <2> SUFFICES ASSUME Init PROVE PoliciesAdmitted
    OBVIOUS
  <2>1. PICK f \in [Policies -> InitialPolicies \cup {Nil}] : policies = <<f>>
    BY DEF Init
  <2>2. InitialPolicies \subseteq AdmittedPolicy
    BY InitialPolicy DEF AdmittedPolicy
  <2>3. f \in PolicySnapshots
    BY <2>2 DEF PolicySnapshots
  <2>4. <<f>> \in Seq(PolicySnapshots)
    BY <2>3, StreamFresh
  <2> QED BY <2>1, <2>4 DEF Init, PoliciesAdmitted
<1>2. TypeOK /\ PoliciesAdmitted /\ [Next]_vars => PoliciesAdmitted'
  <2> SUFFICES ASSUME TypeOK, PoliciesAdmitted, [Next]_vars PROVE PoliciesAdmitted'
    OBVIOUS
  <2>1. /\ policies \in Seq(PolicySnapshots) /\ policies # << >>
        /\ Cached(policies) \in PolicySnapshots /\ Stored(policies) \in PolicySnapshots
    BY StreamEnds DEF TypeOK, PoliciesAdmitted
  <2>2. policies' \in Seq(PolicySnapshots)
    <3>1. CASE UNCHANGED policies
      BY <3>1, <2>1
    <3>2. CASE InFlight(policies) /\ policies' = Tail(policies)
      BY <3>2, <2>1, StreamTail
    <3>3. CASE policies' = <<Stored(policies)>>
      BY <3>3, <2>1, StreamFresh
    <3>4. ASSUME NEW p \in Policies, NEW new \in WorkloadPolicy \cup {Nil},
                 policies' = Commit(policies, p, new), PolicyWrite(Stored(policies)[p], new)
          PROVE  policies' \in Seq(PolicySnapshots)
      <4>1. Stored(policies)[p] \in AdmittedPolicy \cup {Nil}
        BY <2>1 DEF PolicySnapshots
      <4>2. new \in AdmittedPolicy \cup {Nil}
        BY <3>4, <4>1, AdmittedWrite
      <4> QED BY <3>4, <4>2, CommitAdmitted
    <3> QED BY <3>1, <3>2, <3>3, <3>4, PolicySteps
  <2>3. policy' \in AdmittedPolicy \cup {Nil}
    BY <2>1, WorkerCopy DEF PoliciesAdmitted, PolicySnapshots
  <2> QED BY <2>2, <2>3 DEF PoliciesAdmitted
<1> QED BY TypeCorrect, <1>1, <1>2, PTL DEF Spec

--------------------------------------------------------------------------------
(* What the operator, users and the garbage collector write to HPAs *)

\* A managed HPA in slot h as ManagedHPARealizable wants it.
SoundHPA(h, hpa) ==
  isManagedHPA(hpa) =>
    /\ Realizable(hpa.spec)
    /\ managedHPAName(hpa.spec.target) = h
    /\ hpa.owner # Nil /\ hpa.policy # Nil

HPASnapshots ==
  {f \in [HPANames -> HPA \cup {Nil}] : \A h \in HPANames : SoundHPA(h, f[h])}

\* The inductive strengthening: every snapshot of the HPAs is sound, because an
\* update starts from a cached one.
HPAsSound == hpas \in Seq(HPASnapshots)

\* The writes to slot h: only a missing HPA is created, only a managed one is
\* rewritten.
HPAWrite(h, old, new) ==
  /\ new = Nil \/ old = Nil \/ isManagedHPA(old)
  /\ SoundHPA(h, new)

\* A policy that admission let in wants sound HPAs.
LEMMA DesiredSound ==
  ASSUME NEW p \in Policies, NEW pol \in AdmittedPolicy, NEW d \in Deployments
  PROVE  /\ SoundHPA(managedHPAName(d), desiredHPA(p, pol, d))
         /\ Realizable(desiredHPA(p, pol, d).spec)
<1> DEFINE hs == Effective(pol.scaling)
           spec == [target |-> d, minReplicas |-> hs.minReplicas,
                    maxReplicas |-> hs.maxReplicas, targetCPU |-> hs.targetCPU]
           owner == [name |-> p, uid |-> pol.uid]
<1>1. Realizable(hs)
  BY ValidatedIsRealizable DEF AdmittedPolicy, WorkloadPolicy
<1>2. Realizable(spec) /\ spec.target = d
  BY <1>1 DEF Realizable
<1>3. owner \in OwnerRef
  BY DEF OwnerRef, AdmittedPolicy, WorkloadPolicy
<1>4. owner # Nil /\ p # Nil
  BY <1>3, NilIsNoObject, ConstantsAssumption
<1>5. /\ desiredHPA(p, pol, d).spec = spec
      /\ desiredHPA(p, pol, d).owner = owner
      /\ desiredHPA(p, pol, d).policy = p
  BY DEF desiredHPA
<1> QED BY <1>2, <1>4, <1>5 DEF SoundHPA

\* The update of the controller and the edits of users keep an HPA sound.
LEMMA EditedSound ==
  ASSUME NEW h \in HPANames, NEW old \in HPA, isManagedHPA(old), SoundHPA(h, old)
  PROVE  /\ \A p \in Policies, spec \in HPASpec :
              Realizable(spec) /\ managedHPAName(spec.target) = h =>
                SoundHPA(h, [old EXCEPT !.spec = spec, !.managed = TRUE, !.policy = p])
         /\ SoundHPA(h, [old EXCEPT !.managed = FALSE])
         /\ \A n \in Int : old.spec.minReplicas <= n => SoundHPA(h, [old EXCEPT !.spec.maxReplicas = n])
<1>1. ASSUME NEW p \in Policies, NEW spec \in HPASpec,
             Realizable(spec), managedHPAName(spec.target) = h
      PROVE  SoundHPA(h, [old EXCEPT !.spec = spec, !.managed = TRUE, !.policy = p])
  <2> DEFINE new == [old EXCEPT !.spec = spec, !.managed = TRUE, !.policy = p]
  <2>1. new.spec = spec /\ new.owner = old.owner /\ new.policy = p
    BY DEF HPA
  <2>2. p # Nil
    BY ConstantsAssumption
  <2>3. old.owner # Nil
    BY DEF SoundHPA
  <2> HIDE DEF new
  <2>4. SoundHPA(h, new)
    BY <1>1, <2>1, <2>2, <2>3 DEF SoundHPA
  <2> QED BY <2>4 DEF new
<1>2. SoundHPA(h, [old EXCEPT !.managed = FALSE])
  BY DEF SoundHPA, isManagedHPA, HPA
<1>3. ASSUME NEW n \in Int, old.spec.minReplicas <= n
      PROVE  SoundHPA(h, [old EXCEPT !.spec.maxReplicas = n])
  <2> DEFINE new == [old EXCEPT !.spec.maxReplicas = n]
  <2>1. /\ new.owner = old.owner /\ new.policy = old.policy
        /\ new.spec = [old.spec EXCEPT !.maxReplicas = n]
    BY DEF HPA
  <2>2. /\ new.spec.minReplicas = old.spec.minReplicas
        /\ new.spec.maxReplicas = n
        /\ new.spec.targetCPU = old.spec.targetCPU
        /\ new.spec.target = old.spec.target
    BY <2>1 DEF HPA, HPASpec
  <2> HIDE DEF new
  <2>3. SoundHPA(h, new)
    BY <1>3, <2>1, <2>2 DEF SoundHPA, Realizable
  <2> QED BY <2>3 DEF new
<1> QED BY <1>1, <1>2, <1>3

\* Every step leaves the HPAs alone, delivers one event, restarts the informer,
\* or is one of those writes to one HPA as stored. The optimistic lock makes the
\* HPA an update rewrites the one the cache shows.
LEMMA HPASteps ==
  ASSUME TypeOK, PoliciesAdmitted, HPAsSound, [Next]_vars
  PROVE  \/ UNCHANGED hpas
         \/ InFlight(hpas) /\ hpas' = Tail(hpas)
         \/ hpas' = <<Stored(hpas)>>
         \/ \E h \in HPANames : \E new \in HPA \cup {Nil} :
              /\ hpas' = Commit(hpas, h, new)
              /\ HPAWrite(h, Stored(hpas)[h], new)
<1> DEFINE Goal == \E h \in HPANames : \E new \in HPA \cup {Nil} :
                     /\ hpas' = Commit(hpas, h, new)
                     /\ HPAWrite(h, Stored(hpas)[h], new)
<1>1. /\ hpas # << >> /\ DOMAIN hpas = 1..Len(hpas) /\ Len(hpas) \in Nat \ {0}
      /\ Cached(hpas) \in HPASnapshots /\ Stored(hpas) \in HPASnapshots
      /\ Stored(hpas) = hpas[Len(hpas)]
  BY StreamEnds DEF TypeOK, HPAsSound
<1>2. \A h \in HPANames : SoundHPA(h, Nil)
  BY DEF SoundHPA, isManagedHPA
<1>3. ASSUME NEW d \in Deployments, UserWritesHPA(d) PROVE Goal
  <2> DEFINE h == managedHPAName(d)
             old == Stored(hpas)[h]
  <2>1. h \in HPANames
    BY DEF HPANames
  <2>2. /\ old # Nil => old \in HPA
        /\ SoundHPA(h, old)
    BY <1>1, <2>1 DEF HPASnapshots
  <2>3. \A n \in UserReplicas : n \in Int
    BY ConstantsAssumption
  <2>4. ASSUME NEW n \in UserReplicas PROVE UserHPA(d, n) \in HPA /\ SoundHPA(h, UserHPA(d, n))
    BY <2>3 DEF UserHPA, HPA, HPASpec, DefaultHPAMinReplicas, DefaultHPATargetCPU, SoundHPA,
                isManagedHPA
  <2>5. \E new \in HPA \cup {Nil} : Tamper(h, new) /\ HPAWrite(h, old, new)
    <3>1. CASE \E n \in UserReplicas : old = Nil /\ Tamper(h, UserHPA(d, n))
      BY <3>1, <2>4 DEF HPAWrite
    <3>2. CASE isManagedHPA(old) /\ \E n \in UserReplicas :
                 old.spec.minReplicas <= n /\ Tamper(h, [old EXCEPT !.spec.maxReplicas = n])
      <4>1. PICK n \in UserReplicas :
              old.spec.minReplicas <= n /\ Tamper(h, [old EXCEPT !.spec.maxReplicas = n])
        BY <3>2
      <4>2. old \in HPA /\ n \in Int
        BY <3>2, <2>2, <2>3 DEF isManagedHPA
      <4> HIDE DEF old, h
      <4>3. [old EXCEPT !.spec.maxReplicas = n] \in HPA
        BY <4>2, EditedHPAType
      <4>4. SoundHPA(h, [old EXCEPT !.spec.maxReplicas = n])
        BY <3>2, <4>1, <4>2, <2>1, <2>2, EditedSound
      <4> QED BY <3>2, <4>1, <4>3, <4>4 DEF HPAWrite
    <3>3. CASE isManagedHPA(old) /\ Tamper(h, [old EXCEPT !.managed = FALSE])
      <4>1. old \in HPA
        BY <3>3, <2>2 DEF isManagedHPA
      <4> HIDE DEF old, h
      <4>2. [old EXCEPT !.managed = FALSE] \in HPA
        BY <4>1, EditedHPAType
      <4>3. SoundHPA(h, [old EXCEPT !.managed = FALSE])
        BY <3>3, <4>1, <2>1, <2>2, EditedSound
      <4> QED BY <3>3, <4>2, <4>3 DEF HPAWrite
    <3>4. CASE Tamper(h, Nil)
      BY <3>4, <1>2, <2>1 DEF HPAWrite
    <3> QED BY <1>3, <3>1, <3>2, <3>3, <3>4 DEF UserWritesHPA
  <2> QED BY <2>1, <2>5 DEF Tamper
<1>4. ASSUME NEW h \in HPANames, Collect(h) PROVE Goal
  BY <1>4, <1>2 DEF Collect, Tamper, HPAWrite
<1>5. ASSUME NEW d \in Deployments, Visit(d) PROVE Goal \/ UNCHANGED hpas
  <2> DEFINE h == managedHPAName(d)
             old == Stored(hpas)[h]
             existing == Cached(hpas)[h]
             desired == desiredHPA(req, policy, d)
             updated == [existing EXCEPT !.spec = desired.spec, !.managed = TRUE, !.policy = req]
  <2>1. h \in HPANames
    BY DEF HPANames
  <2>2. req \in Policies /\ policy \in AdmittedPolicy
    <3>1. req \in Policies /\ policy \in WorkloadPolicy
      BY <1>5 DEF Visit, TypeOK
    <3> QED BY <3>1, NilIsNoObject DEF PoliciesAdmitted
  <2>3. desired \in HPA /\ SoundHPA(h, desired) /\ Realizable(desired.spec) /\ desired.spec.target = d
    <3>1. policy \in WorkloadPolicy
      BY <2>2 DEF AdmittedPolicy
    <3>2. desired.spec.target = d
      BY DEF desiredHPA
    <3> QED BY <2>2, <3>1, <3>2, DesiredType, DesiredSound
  <2>4. CASE hpas' = Commit(hpas, h, desired) /\ old = Nil
    BY <2>1, <2>3, <2>4 DEF HPAWrite
  <2>5. CASE hpas' = Commit(hpas, h, updated) /\ isManagedHPA(existing) /\ InSync(hpas, h)
    <3>1. existing \in HPA /\ SoundHPA(h, existing)
      BY <1>1, <2>1, <2>5 DEF HPASnapshots, isManagedHPA
    <3>2. old = existing
      BY <1>1, <2>5 DEF InSync
    <3>3. desired.spec \in HPASpec /\ managedHPAName(desired.spec.target) = h
      BY <2>3 DEF HPA
    <3> HIDE DEF existing, desired, h
    <3>4. updated \in HPA
      BY <2>2, <2>3, <3>1, EditedHPAType DEF AdmittedPolicy
    <3>5. SoundHPA(h, updated)
      BY <2>1, <2>2, <2>3, <2>5, <3>1, <3>3, EditedSound
    <3> HIDE DEF updated
    <3> QED BY <2>1, <2>5, <3>2, <3>4, <3>5 DEF HPAWrite
  <2>6. CASE hpas' = Commit(hpas, h, Nil)
    BY <1>2, <2>1, <2>6 DEF HPAWrite
  <2>7. CASE UNCHANGED hpas
    BY <2>7
  <2> QED BY <1>5, <2>4, <2>5, <2>6, <2>7 DEF Visit, CreateHPA, RefuseHPA, UpdateHPA, DropHPA
<1>6. CASE DeliverHPA \/ Restart
  BY <1>6 DEF DeliverHPA, Restart
<1>7. CASE \/ \E d \in Deployments : WriteDeployment(d)
           \/ \E p \in Policies : CreatePolicy(p) \/ UpdatePolicy(p) \/ DeletePolicy(p) \/ Begin(p)
           \/ Rank \/ ListDeployments \/ UpdateStatus \/ CallFails
           \/ DeliverPolicy \/ DeliverDeployment \/ Resync \/ UNCHANGED vars
  BY <1>7 DEF WriteDeployment, CreatePolicy, UpdatePolicy, DeletePolicy, WritePolicy, Begin, Rank,
              ListDeployments, UpdateStatus, CallFails, DeliverPolicy, DeliverDeployment, Resync,
              vars, store
<1> QED BY <1>3, <1>4, <1>5, <1>6, <1>7 DEF Next, User, Worker

\* A sound write adds a sound snapshot, and changes one slot of the stored HPAs.
LEMMA CommitSound ==
  ASSUME TypeOK, HPAsSound, NEW h \in HPANames, NEW new \in HPA \cup {Nil}, SoundHPA(h, new)
  PROVE  Commit(hpas, h, new) \in Seq(HPASnapshots)
<1> DEFINE x == [Stored(hpas) EXCEPT ![h] = new]
<1>1. hpas # << >> /\ hpas \in Seq(HPASnapshots)
  BY DEF TypeOK, HPAsSound
<1>2. Stored(hpas) \in HPASnapshots
  BY <1>1, StreamEnds
<1>3. x \in HPASnapshots
  BY <1>2 DEF HPASnapshots
<1> HIDE DEF x
<1>4. Append(hpas, x) \in Seq(HPASnapshots)
  BY <1>1, <1>3, StreamAppend
<1> QED BY <1>4 DEF Commit, x

\* Every HPA the cache may show or the API server stores is sound.
LEMMA AlwaysSound == Spec => []HPAsSound
<1>1. Init => HPAsSound
  <2>1. [h \in HPANames |-> Nil] \in HPASnapshots
    BY DEF HPASnapshots, SoundHPA, isManagedHPA
  <2> QED BY <2>1, StreamFresh DEF Init, HPAsSound
<1>2. TypeOK /\ PoliciesAdmitted /\ HPAsSound /\ [Next]_vars => HPAsSound'
  <2> SUFFICES ASSUME TypeOK, PoliciesAdmitted, HPAsSound, [Next]_vars PROVE HPAsSound'
    OBVIOUS
  <2>1. hpas \in Seq(HPASnapshots) /\ hpas # << >> /\ Stored(hpas) \in HPASnapshots
    BY StreamEnds DEF TypeOK, HPAsSound
  <2>2. CASE UNCHANGED hpas
    BY <2>2, <2>1 DEF HPAsSound
  <2>3. CASE InFlight(hpas) /\ hpas' = Tail(hpas)
    BY <2>3, <2>1, StreamTail DEF HPAsSound
  <2>4. CASE hpas' = <<Stored(hpas)>>
    BY <2>4, <2>1, StreamFresh DEF HPAsSound
  <2>5. ASSUME NEW h \in HPANames, NEW new \in HPA \cup {Nil},
               hpas' = Commit(hpas, h, new), HPAWrite(h, Stored(hpas)[h], new)
        PROVE  HPAsSound'
    BY <2>5, CommitSound DEF HPAsSound, HPAWrite
  <2> QED BY <2>2, <2>3, <2>4, <2>5, HPASteps
<1> QED BY TypeCorrect, AlwaysAdmitted, <1>1, <1>2, PTL DEF Spec

\* No managed HPA is ever one the autoscaling API refuses, names another
\* Deployment's slot or lacks an owner: admission's checks suffice for what
\* reconcileDeploymentHPAs writes, whichever policies come and go.
THEOREM ManagedRealizable == Spec => []ManagedHPARealizable
<1>1. TypeOK /\ HPAsSound => ManagedHPARealizable
  <2> SUFFICES ASSUME TypeOK, HPAsSound, NEW i \in DOMAIN hpas, NEW h \in HPANames
               PROVE  SoundHPA(h, hpas[i][h])
    BY DEF ManagedHPARealizable, SoundHPA
  <2>1. hpas # << >> /\ DOMAIN hpas = 1..Len(hpas)
    BY StreamEnds DEF TypeOK
  <2>2. hpas[i] \in HPASnapshots
    BY <2>1, ElementOfSeq DEF HPAsSound
  <2> QED BY <2>2 DEF HPASnapshots
<1> QED BY TypeCorrect, AlwaysSound, <1>1, PTL

\* An HPA of somebody else's is never rewritten, whatever the caches show: it
\* stays as it is or disappears.
THEOREM UnmanagedKept == Spec => UnmanagedNeverRewritten
<1> DEFINE Kept ==
      \A h \in HPANames :
        LET old == Stored(hpas)[h]
        IN old # Nil /\ ~isManagedHPA(old) => Stored(hpas')[h] \in {old, Nil}
<1>1. TypeOK /\ PoliciesAdmitted /\ HPAsSound /\ [Next]_vars => Kept
  <2> SUFFICES ASSUME TypeOK, PoliciesAdmitted, HPAsSound, [Next]_vars PROVE Kept
    OBVIOUS
  <2>1. hpas \in Seq([HPANames -> HPA \cup {Nil}]) /\ hpas # << >>
    BY DEF TypeOK
  <2>2. CASE UNCHANGED hpas
    BY <2>2 DEF Stored, Last
  <2>3. CASE InFlight(hpas) /\ hpas' = Tail(hpas)
    <3>1. Stored(hpas') = Stored(hpas)
      BY <2>1, <2>3, StreamTail
    <3> QED BY <3>1
  <2>4. CASE hpas' = <<Stored(hpas)>>
    <3>1. Stored(hpas') = Stored(hpas)
      BY <2>4, StreamFresh
    <3> QED BY <3>1
  <2>5. ASSUME NEW h \in HPANames, NEW new \in HPA \cup {Nil},
               hpas' = Commit(hpas, h, new), HPAWrite(h, Stored(hpas)[h], new)
        PROVE  Kept
    <3>1. Stored(hpas') = [Stored(hpas) EXCEPT ![h] = new] /\ Stored(hpas) \in [HPANames -> HPA \cup {Nil}]
      BY <2>5, CommitHPA, EndsType
    <3> QED BY <2>5, <3>1 DEF HPAWrite
  <2> QED BY <2>2, <2>3, <2>4, <2>5, HPASteps
<1>2. UnmanagedNeverRewritten <=> [][Kept]_vars
  BY DEF UnmanagedNeverRewritten
<1> HIDE DEF Kept
<1> QED BY TypeCorrect, AlwaysAdmitted, AlwaysSound, <1>1, <1>2, PTL DEF Spec

\* An unmanaged HPA the cache shows is not deleted by the controller, for it deletes
\* and rewrites only what the cache shows as managed, and creates only where nothing
\* is stored.
THEOREM UnmanagedDeleted == Spec => UnmanagedDeletedOnlyBehind
<1> DEFINE Deleted ==
      \A h \in HPANames :
        LET old == Stored(hpas)[h]
        IN old # Nil /\ ~isManagedHPA(old) /\ Stored(hpas')[h] = Nil =>
             edits' # edits \/ Orphaned(old) \/ ~InSync(hpas, h)
<1>1. TypeOK /\ [Next]_vars => Deleted
  <2> SUFFICES ASSUME TypeOK, [Next]_vars, NEW h \in HPANames,
                      Stored(hpas)[h] # Nil, ~isManagedHPA(Stored(hpas)[h]),
                      Stored(hpas')[h] = Nil, InSync(hpas, h),
                      edits' = edits, ~Orphaned(Stored(hpas)[h])
               PROVE  FALSE
    OBVIOUS
  <2>1. Stored(hpas') # Stored(hpas)
    OBVIOUS
  <2>2. ~UNCHANGED hpas
    BY <2>1
  <2>3. ~isManagedHPA(Cached(hpas)[h])
    BY StreamSynced DEF TypeOK
  <2>4. ASSUME NEW g \in HPANames, NEW obj, hpas' = Commit(hpas, g, obj) PROVE g = h
    BY <2>4, CommitStoresHPA, EndsType
  <2>5. ASSUME NEW d \in Deployments, UserWritesHPA(d) PROVE FALSE
    <3>1. edits \in Nat /\ edits' = edits + 1
      BY <2>5 DEF UserWritesHPA, Edit, TypeOK
    <3> QED BY <3>1
  <2>6. ASSUME NEW g \in HPANames, Collect(g) PROVE FALSE
    <3>1. hpas' = Commit(hpas, g, Nil) /\ Orphaned(Stored(hpas)[g])
      BY <2>6 DEF Collect, Tamper
    <3> QED BY <3>1, <2>4
  <2>7. ASSUME NEW d \in Deployments, Visit(d) PROVE FALSE
    <3> DEFINE g == managedHPAName(d)
    <3>1. /\ \E obj : hpas' = Commit(hpas, g, obj)
          /\ Stored(hpas)[g] = Nil \/ isManagedHPA(Cached(hpas)[g])
      BY <2>2, <2>7 DEF Visit, CreateHPA, RefuseHPA, UpdateHPA, DropHPA
    <3>2. g = h
      BY <2>4, <3>1 DEF HPANames
    <3> QED BY <2>3, <3>1, <3>2
  <2>8. CASE DeliverHPA \/ Restart
    <3>1. Stored(hpas') = Stored(hpas)
      BY <2>8, StreamTail, StreamFresh DEF DeliverHPA, Restart, TypeOK
    <3> QED BY <2>1, <3>1
  <2>9. CASE \/ \E d \in Deployments : WriteDeployment(d)
             \/ \E p \in Policies : CreatePolicy(p) \/ UpdatePolicy(p) \/ DeletePolicy(p) \/ Begin(p)
             \/ Rank \/ ListDeployments \/ UpdateStatus \/ CallFails
             \/ DeliverPolicy \/ DeliverDeployment \/ Resync \/ UNCHANGED vars
    BY <2>2, <2>9 DEF WriteDeployment, CreatePolicy, UpdatePolicy, DeletePolicy, WritePolicy, Begin,
         Rank, ListDeployments, UpdateStatus, CallFails, DeliverPolicy, DeliverDeployment, Resync,
         vars, store
  <2> QED BY <2>5, <2>6, <2>7, <2>8, <2>9 DEF Next, User, Worker
<1>2. UnmanagedDeletedOnlyBehind <=> [][Deleted]_vars
  BY DEF UnmanagedDeletedOnlyBehind
<1> HIDE DEF Deleted
<1> QED BY TypeCorrect, <1>1, <1>2, PTL DEF Spec

--------------------------------------------------------------------------------
(* The Available condition *)

\* In terms of what is stored: nothing happens, or one policy is written.
LEMMA StoredPolicySteps ==
  ASSUME TypeOK, [Next]_vars
  PROVE  \/ Stored(policies') = Stored(policies)
         \/ \E p \in Policies : \E new \in WorkloadPolicy \cup {Nil} :
              /\ Stored(policies') = [Stored(policies) EXCEPT ![p] = new]
              /\ PolicyWrite(Stored(policies)[p], new)
<1>1. policies \in Seq([Policies -> WorkloadPolicy \cup {Nil}]) /\ policies # << >>
  BY DEF TypeOK
<1>2. CASE UNCHANGED policies
  BY <1>2 DEF Stored, Last
<1>3. CASE InFlight(policies) /\ policies' = Tail(policies)
  BY <1>1, <1>3, StreamTail
<1>4. CASE policies' = <<Stored(policies)>>
  BY <1>4, StreamFresh
<1>5. ASSUME NEW p \in Policies, NEW new \in WorkloadPolicy \cup {Nil},
             policies' = Commit(policies, p, new), PolicyWrite(Stored(policies)[p], new)
      PROVE  /\ Stored(policies') = [Stored(policies) EXCEPT ![p] = new]
             /\ PolicyWrite(Stored(policies)[p], new)
  BY <1>5, CommitPolicy
<1> QED BY <1>2, <1>3, <1>4, <1>5, PolicySteps

\* The controller implements AvailableCondition: whatever is announced of a
\* policy is announced of the generation stored at that moment.
THEOREM ImplementsAvailableCondition == Spec => KeepsContract
<1>1. Init => Contract!Init
  <2> SUFFICES ASSUME Init, NEW p \in Policies, announced[p] # Nil
               PROVE  announced[p].generation = 1 /\ announced[p].observed = 0
    BY DEF Contract!Init
  <2>1. PICK f \in [Policies -> InitialPolicies \cup {Nil}] : policies = <<f>>
    BY DEF Init
  <2>2. Stored(policies) = f
    BY <2>1, StreamFresh
  <2>3. f[p] # Nil => f[p].generation = 1 /\ f[p].observed = 0
    BY InitialPolicy
  <2> QED BY <2>2, <2>3 DEF announced
<1>2. TypeOK /\ [Next]_vars => [Contract!Next]_announced
  <2> SUFFICES ASSUME TypeOK, [Next]_vars PROVE Contract!Next \/ UNCHANGED announced
    OBVIOUS
  <2>1. CASE Stored(policies') = Stored(policies)
    BY <2>1 DEF announced
  <2>2. ASSUME NEW p \in Policies, NEW new \in WorkloadPolicy \cup {Nil},
               Stored(policies') = [Stored(policies) EXCEPT ![p] = new],
               PolicyWrite(Stored(policies)[p], new)
        PROVE  Contract!Next
    <3> DEFINE old == Stored(policies)[p]
               View(pol) == IF pol = Nil THEN Nil
                            ELSE [uid |-> pol.uid, generation |-> pol.generation,
                                  observed |-> pol.observed]
    <3>1. /\ Stored(policies) \in [Policies -> WorkloadPolicy \cup {Nil}]
          /\ old \in WorkloadPolicy \cup {Nil}
      BY EndsType
    <3>2. announced = [q \in Policies |-> View(Stored(policies)[q])]
      BY DEF announced
    <3>3. announced' = [q \in Policies |-> View(Stored(policies')[q])]
      BY DEF announced
    <3>4. /\ announced \in [Policies -> {View(pol) : pol \in WorkloadPolicy \cup {Nil}}]
          /\ announced[p] = View(old)
          /\ announced' = [announced EXCEPT ![p] = View(new)]
      BY <2>2, <3>1, <3>2, <3>3
    <3>5. \A pol \in WorkloadPolicy : pol # Nil /\ View(pol) \in Announcement /\ View(pol) # Nil
      BY NilIsNoObject DEF WorkloadPolicy, Announcement
    <3>6. CASE old = Nil /\ \E uid \in Nat, n \in Int, hs \in HorizontalScalingPolicy \cup {Nil} :
                               Validate(hs) /\ new = NewPolicy(uid, n, hs)
      <4>1. PICK uid \in Nat, n \in Int, hs \in HorizontalScalingPolicy \cup {Nil} :
              new = NewPolicy(uid, n, hs)
        BY <3>6
      <4>2. new \in WorkloadPolicy
        BY <4>1, WrittenPolicyType
      <4>3. View(new) = [uid |-> View(new).uid, generation |-> 1, observed |-> 0]
        BY <4>1, <4>2, <3>5 DEF NewPolicy
      <4>4. announced'[p] = View(new) /\ announced[p] = Nil
        BY <3>4, <3>6
      <4>5. Contract!Create(p)
        BY <3>4, <3>5, <4>2, <4>3, <4>4 DEF Contract!Create
      <4> QED BY <4>5 DEF Contract!Next
    <3>7. CASE old # Nil /\ \E n \in Int, hs \in HorizontalScalingPolicy \cup {Nil} :
                 Validate(hs) /\ new = [old EXCEPT !.priority = n, !.scaling = hs,
                                                  !.generation = old.generation + 1]
      <4>1. PICK n \in Int, hs \in HorizontalScalingPolicy \cup {Nil} :
              new = [old EXCEPT !.priority = n, !.scaling = hs, !.generation = old.generation + 1]
        BY <3>7
      <4>2. old \in WorkloadPolicy /\ new \in WorkloadPolicy
        BY <2>2, <3>1, <3>7, <4>1, WrittenPolicyType
      <4>3. /\ new.uid = old.uid /\ new.observed = old.observed
            /\ new.generation = old.generation + 1
        BY <4>1, <4>2 DEF WorkloadPolicy
      <4>4. View(new) = [View(old) EXCEPT !.generation = @ + 1]
        BY <4>2, <4>3, <3>5
      <4>5. Contract!Change(p)
        BY <3>4, <3>5, <4>2, <4>4 DEF Contract!Change
      <4> QED BY <4>5 DEF Contract!Next
    <3>8. CASE old # Nil /\ new = Nil
      <4>1. Contract!Delete(p)
        BY <3>1, <3>4, <3>5, <3>8 DEF Contract!Delete
      <4> QED BY <4>1 DEF Contract!Next
    <3>9. CASE old # Nil /\ new = [old EXCEPT !.observed = old.generation]
      <4>1. old \in WorkloadPolicy /\ new \in WorkloadPolicy
        BY <3>1, <3>9, WrittenPolicyType
      <4>2. /\ new.uid = old.uid /\ new.observed = old.generation
            /\ new.generation = old.generation
        BY <3>9, <4>1 DEF WorkloadPolicy
      <4>3. View(new) = [View(old) EXCEPT !.observed = View(old).generation]
        BY <4>1, <4>2, <3>5
      <4>4. Contract!Observe(p)
        BY <3>4, <3>5, <4>1, <4>3 DEF Contract!Observe
      <4> QED BY <4>4 DEF Contract!Next
    <3> QED BY <2>2, <3>6, <3>7, <3>8, <3>9 DEF PolicyWrite
  <2> QED BY <2>1, <2>2, StoredPolicySteps
<1> QED BY TypeCorrect, <1>1, <1>2, PTL DEF Spec, KeepsContract, Contract!Spec

--------------------------------------------------------------------------------
(* No status update is lost *)

\* Why AtRestStatusCurrent holds: a cached policy that is behind on its condition
\* is queued, or is the very copy the worker is reconciling, or has a newer
\* version on its way, whose arrival will queue it.
Pending(p) ==
  LET c == Cached(policies)[p]
  IN c # Nil /\ c.observed # c.generation =>
       \/ p \in queue
       \/ pc # "idle" /\ req = p /\ policy = c
       \/ \E i \in DOMAIN policies : policies[i][p] # c

StatusPending == \A p \in Policies : Pending(p)

\* A step that leaves the policies alone and takes nothing from the queue may
\* take p from the worker only into the queue, or once it is announced.
LEMMA PendingKept ==
  ASSUME NEW p \in Policies, Pending(p), UNCHANGED policies, queue \subseteq queue',
         \/ UNCHANGED <<pc, req, policy>>
         \/ pc' # "idle" /\ UNCHANGED <<req, policy>>
         \/ req \in queue'
         \/ policy.observed = policy.generation
  PROVE  Pending(p)'
<1>1. Cached(policies') = Cached(policies)
  BY DEF Cached
<1> QED BY <1>1 DEF Pending

\* A new version of a policy is on its way after it is written.
LEMMA PendingWritten ==
  ASSUME TypeOK, NEW p \in Policies, NEW q \in Policies, NEW new \in WorkloadPolicy \cup {Nil},
         policies' = Commit(policies, q, new),
         Pending(p),
         \/ UNCHANGED queue /\ UNCHANGED worker
         \/ q = req /\ new # Nil /\ new.observed = new.generation /\ queue \subseteq queue'
  PROVE  Pending(p)'
<1>1. /\ Cached(policies') = Cached(policies)
      /\ Len(policies') = Len(policies) + 1
      /\ \A i \in 1..Len(policies) : policies'[i] = policies[i]
      /\ Stored(policies') = [Stored(policies) EXCEPT ![q] = new]
      /\ policies' \in Seq([Policies -> WorkloadPolicy \cup {Nil}]) /\ policies' # << >>
  BY CommitPolicy
<1>2. /\ DOMAIN policies = 1..Len(policies) /\ Len(policies) \in Nat
      /\ Stored(policies) \in [Policies -> WorkloadPolicy \cup {Nil}]
  BY StreamEnds DEF TypeOK
<1>3. DOMAIN policies' = 1..Len(policies') /\ Stored(policies') = policies'[Len(policies')]
      /\ Len(policies') \in Nat \ {0}
  BY <1>1, StreamEnds
<1> DEFINE c == Cached(policies)[p]
<1>4. SUFFICES ASSUME c # Nil, c.observed # c.generation
      PROVE  \/ p \in queue'
             \/ pc' # "idle" /\ req' = p /\ policy' = c
             \/ \E i \in DOMAIN policies' : policies'[i][p] # c
  BY <1>1 DEF Pending
<1>5. CASE \E i \in DOMAIN policies : policies[i][p] # c
  BY <1>1, <1>2, <1>3, <1>5
<1>6. CASE p \in queue
  BY <1>6
<1>7. CASE pc # "idle" /\ req = p /\ policy = c
  <2>1. CASE UNCHANGED worker
    BY <1>7, <2>1 DEF worker
  <2>2. CASE q = req /\ new # Nil /\ new.observed = new.generation
    <3>1. policies'[Len(policies')][p] = new
      BY <1>1, <1>2, <1>3, <1>7, <2>2
    <3>2. new # c
      BY <1>4, <2>2
    <3> QED BY <1>3, <3>1, <3>2
  <2> QED BY <2>1, <2>2
<1> QED BY <1>4, <1>5, <1>6, <1>7 DEF Pending

\* The arrival of a version queues the policy it is of.
LEMMA PendingDelivered ==
  ASSUME TypeOK, NEW p \in Policies, Pending(p), DeliverPolicy
  PROVE  Pending(p)'
<1>1. /\ policies' = Tail(policies) /\ UNCHANGED worker
      /\ queue' = queue \cup {q \in Policies : Cached(policies')[q] # Cached(policies)[q]}
  BY DEF DeliverPolicy
<1>2. /\ Len(policies') = Len(policies) - 1
      /\ \A i \in 1..Len(policies) - 1 : policies'[i] = policies[i + 1]
      /\ policies' \in Seq([Policies -> WorkloadPolicy \cup {Nil}]) /\ policies' # << >>
  BY <1>1, StreamTail DEF TypeOK, DeliverPolicy
<1>3. DOMAIN policies' = 1..Len(policies') /\ Len(policies') \in Nat \ {0}
  BY <1>2, StreamEnds
<1>4. DOMAIN policies = 1..Len(policies) /\ Len(policies) \in Nat \ {0}
      /\ Cached(policies) = policies[1]
  BY StreamEnds DEF TypeOK
<1> DEFINE c == Cached(policies)[p]
<1>5. CASE Cached(policies')[p] # c
  BY <1>1, <1>5 DEF Pending
<1>6. CASE Cached(policies')[p] = c
  <2>1. ASSUME NEW i \in DOMAIN policies, policies[i][p] # c
        PROVE  \E j \in DOMAIN policies' : policies'[j][p] # c
    <3>1. i # 1 /\ i - 1 \in 1..Len(policies) - 1
      BY <1>4, <2>1
    <3>2. policies'[i - 1] = policies[i]
      BY <1>2, <1>4, <3>1
    <3> QED BY <1>2, <1>3, <2>1, <3>1, <3>2
  <2> QED BY <1>1, <1>6, <2>1 DEF Pending, worker
<1> QED BY <1>5, <1>6

\* A step of Reconcile drops no request: a failed pass is queued again, and the
\* pass that ends well has announced the policy it read.
LEMMA PendingReconcile ==
  ASSUME TypeOK, NEW p \in Policies, Pending(p), Worker
  PROVE  Pending(p)'
<1>1. ASSUME NEW q \in Policies, Begin(q) PROVE Pending(p)'
  <2>1. UNCHANGED policies /\ Cached(policies') = Cached(policies)
    BY <1>1 DEF Begin, store, Cached
  <2>2. /\ pc = "idle" /\ queue' = queue \ {q}
        /\ \/ Cached(policies)[q] = Nil
           \/ pc' # "idle" /\ req' = q /\ policy' = Cached(policies)[q]
    BY <1>1 DEF Begin
  <2> QED BY <2>1, <2>2 DEF Pending
<1>2. CASE Rank
  <2>1. UNCHANGED <<policies, queue, req, policy>> /\ pc' # "idle"
    BY <1>2 DEF Rank, store
  <2> QED BY <2>1, PendingKept
<1>3. CASE ListDeployments
  <2>1. UNCHANGED <<policies, queue, req, policy>> /\ pc' # "idle"
    BY <1>3 DEF ListDeployments, PassOn, store
  <2> QED BY <2>1, PendingKept
<1>4. ASSUME NEW d \in Deployments, Visit(d) PROVE Pending(p)'
  <2>1. UNCHANGED policies
    BY <1>4 DEF Visit
  <2>2. CASE Proceed(d)
    <3>1. UNCHANGED <<queue, req, policy>> /\ pc' # "idle"
      BY <2>2 DEF Proceed, PassOn
    <3> QED BY <2>1, <3>1, PendingKept
  <2>3. CASE Fail
    <3>1. queue' = queue \cup {req}
      BY <2>3 DEF Fail
    <3> QED BY <2>1, <3>1, PendingKept
  <2> QED BY <1>4, <2>2, <2>3 DEF Visit, CreateHPA, RefuseHPA, UpdateHPA, DropHPA, Written
<1>5. CASE UpdateStatus
  <2>1. req \in Policies /\ policy \in WorkloadPolicy
    BY <1>5 DEF TypeOK, UpdateStatus
  <2>2. CASE policy.observed = policy.generation /\ Done /\ UNCHANGED policies
    <3>1. UNCHANGED queue
      BY <2>2 DEF Done
    <3> QED BY <2>2, <3>1, PendingKept
  <2>3. CASE Fail /\ UNCHANGED policies
    <3>1. queue' = queue \cup {req}
      BY <2>3 DEF Fail
    <3> QED BY <2>3, <3>1, PendingKept
  <2>4. CASE /\ policies' = Commit(policies, req, [policy EXCEPT !.observed = policy.generation])
             /\ (Done \/ Fail)
    <3> DEFINE new == [policy EXCEPT !.observed = policy.generation]
    <3>1. new \in WorkloadPolicy /\ new # Nil
      BY <2>1, WrittenPolicyType, NilIsNoObject
    <3>2. new.observed = new.generation
      BY <2>1 DEF WorkloadPolicy
    <3>3. queue \subseteq queue'
      BY <2>4 DEF Done, Fail
    <3>4. policies' = Commit(policies, req, new)
      BY <2>4 DEF new
    <3> HIDE DEF new
    <3> QED BY <2>1, <3>1, <3>2, <3>3, <3>4, PendingWritten
  <2> QED BY <1>5, <2>2, <2>3, <2>4 DEF UpdateStatus
<1>6. CASE CallFails
  <2>1. UNCHANGED policies /\ queue' = queue \cup {req}
    BY <1>6 DEF CallFails, Fail, store
  <2> QED BY <2>1, PendingKept
<1> QED BY <1>1, <1>2, <1>3, <1>4, <1>5, <1>6 DEF Worker

\* At rest every condition is current, after any history of conflicts, lost
\* replies, crashes and failed passes.
THEOREM NoStatusLost == Spec => []AtRestStatusCurrent
<1>1. Init => StatusPending
  BY DEF Init, StatusPending, Pending, Stored, Cached, Last
<1>2. TypeOK /\ StatusPending /\ [Next]_vars => StatusPending'
  <2> SUFFICES ASSUME TypeOK, StatusPending, [Next]_vars, NEW p \in Policies
               PROVE  Pending(p)'
    BY DEF StatusPending
  <2>1. Pending(p)
    BY DEF StatusPending
  <2>2. CASE Worker
    BY <2>1, <2>2, PendingReconcile
  <2>3. ASSUME NEW q \in Policies, CreatePolicy(q) \/ UpdatePolicy(q) \/ DeletePolicy(q)
        PROVE  Pending(p)'
    <3>1. \E new \in WorkloadPolicy \cup {Nil} : policies' = Commit(policies, q, new)
      BY <2>3, PolicyEdits
    <3>2. UNCHANGED queue /\ UNCHANGED worker
      BY <2>3 DEF CreatePolicy, UpdatePolicy, DeletePolicy, WritePolicy
    <3> QED BY <2>1, <3>1, <3>2, PendingWritten
  <2>4. CASE DeliverPolicy
    BY <2>1, <2>4, PendingDelivered
  <2>5. CASE \/ \E d \in Deployments : WriteDeployment(d) \/ UserWritesHPA(d)
             \/ \E h \in HPANames : Collect(h)
             \/ DeliverDeployment \/ DeliverHPA \/ Resync \/ UNCHANGED vars
    <3>1. UNCHANGED <<policies, pc, req, policy>> /\ queue \subseteq queue'
      BY <2>5 DEF WriteDeployment, UserWritesHPA, Tamper, Collect, DeliverDeployment, MapFails,
                  DeliverHPA, Resync, vars, store, worker
    <3> QED BY <2>1, <3>1, PendingKept
  <2>6. CASE Restart
    <3>1. Stored(policies) \in [Policies -> WorkloadPolicy \cup {Nil}]
      BY EndsType
    <3>2. Cached(policies') = Stored(policies) /\ Stored(policies') = Stored(policies)
      BY <2>6, <3>1, StreamFresh DEF Restart
    <3> QED BY <2>6, <3>2 DEF Restart, Pending
  <2> QED BY <2>2, <2>3, <2>4, <2>5, <2>6 DEF Next, User
<1>3. TypeOK /\ StatusPending => AtRestStatusCurrent
  <2> SUFFICES ASSUME TypeOK, StatusPending, AtRest, NEW p \in Policies, Stored(policies)[p] # Nil
               PROVE  Stored(policies)[p].observed = Stored(policies)[p].generation
    BY DEF AtRestStatusCurrent
  <2>1. /\ DOMAIN policies = 1..Len(policies) /\ Len(policies) \in Nat \ {0}
        /\ Cached(policies) = policies[1] /\ Stored(policies) = policies[Len(policies)]
    BY StreamEnds DEF TypeOK
  <2>2. Len(policies) = 1 /\ pc = "idle" /\ queue = {}
    BY <2>1 DEF AtRest, InFlight
  <2>3. Stored(policies) = Cached(policies) /\ \A i \in DOMAIN policies : policies[i] = Cached(policies)
    BY <2>1, <2>2
  <2> QED BY <2>2, <2>3 DEF StatusPending, Pending
<1> QED BY TypeCorrect, <1>1, <1>2, <1>3, PTL DEF Spec

--------------------------------------------------------------------------------
(* HPAs at rest *)

\* Only the enforcer passes over Deployments, with the copy the cache still shows
\* unless it is queued.
WorkerInv ==
  /\ pc # "apply" => listed = NoneListed
  /\ pc \in {"list", "apply"} => req = enforcer
  /\ pc # "idle" /\ req \notin queue => policy = Cached(policies)[req]

\* The worker is about to rank the enforcer or to list for it, or it has served
\* every Deployment it need not visit.
UnderWay ==
  \/ pc = "rank" /\ req = enforcer
  \/ pc = "list"
  \/ \A d \in Live(Cached(deployments)) : listed[d] # Nil \/ Served(d)

\* Why AtRestConverged holds: what the enforcer has not served yet is under way,
\* or something about it is still on its way.
Serving == enforcer # Nil /\ Quiet(enforcer) => UnderWay

\* A write to a policy leaves what is in sync after it as it was.
LEMMA SyncBeforeWrite ==
  ASSUME TypeOK, NEW p \in Policies, NEW q \in Policies, NEW new \in WorkloadPolicy \cup {Nil},
         policies' = Commit(policies, q, new), InSync(policies', p)
  PROVE  InSync(policies, p) /\ Cached(policies') = Cached(policies)
<1>1. /\ Cached(policies') = Cached(policies)
      /\ Len(policies') = Len(policies) + 1
      /\ \A i \in 1..Len(policies) : policies'[i] = policies[i]
      /\ policies' \in Seq([Policies -> WorkloadPolicy \cup {Nil}]) /\ policies' # << >>
  BY CommitPolicy
<1>2. DOMAIN policies = 1..Len(policies) /\ Len(policies) \in Nat
  BY StreamEnds DEF TypeOK
<1>3. DOMAIN policies' = 1..Len(policies')
  BY <1>1, StreamEnds
<1> QED BY <1>1, <1>2, <1>3 DEF InSync

\* A delivery that does not show in the cached policy leaves it in sync as it was.
LEMMA SyncBeforeDelivery ==
  ASSUME TypeOK, NEW p \in Policies, DeliverPolicy, InSync(policies', p),
         Cached(policies')[p] = Cached(policies)[p]
  PROVE  InSync(policies, p)
<1>1. /\ policies' = Tail(policies)
      /\ Len(policies') = Len(policies) - 1
      /\ \A i \in 1..Len(policies) - 1 : policies'[i] = policies[i + 1]
      /\ policies' \in Seq([Policies -> WorkloadPolicy \cup {Nil}]) /\ policies' # << >>
  BY StreamTail DEF TypeOK, DeliverPolicy
<1>2. /\ DOMAIN policies = 1..Len(policies) /\ Len(policies) \in Nat \ {0}
      /\ Cached(policies) = policies[1]
  BY StreamEnds DEF TypeOK
<1>3. DOMAIN policies' = 1..Len(policies')
  BY <1>1, StreamEnds
<1> SUFFICES ASSUME NEW i \in 1..Len(policies) PROVE policies[i][p] = Cached(policies)[p]
  BY <1>2 DEF InSync
<1>4. CASE i = 1
  BY <1>2, <1>4
<1>5. CASE i # 1
  <2>1. i - 1 \in 1..Len(policies) - 1 /\ i - 1 \in DOMAIN policies'
    BY <1>1, <1>2, <1>3, <1>5
  <2>2. policies'[i - 1] = policies[i]
    BY <1>1, <2>1
  <2> QED BY <2>1, <2>2 DEF InSync
<1> QED BY <1>4, <1>5

\* A visit ends in the next one, in the status, or in an error.
LEMMA VisitEnds ==
  ASSUME NEW d \in Deployments, Visit(d)
  PROVE  Proceed(d) \/ Fail
BY DEF Visit, CreateHPA, RefuseHPA, UpdateHPA, DropHPA, Written

\* A user's edit of a policy is a write.
LEMMA PolicyEditWrites ==
  ASSUME NEW q \in Policies, CreatePolicy(q) \/ UpdatePolicy(q) \/ DeletePolicy(q)
  PROVE  \E obj : WritePolicy(q, obj)
<1>1. CASE CreatePolicy(q)
  BY <1>1 DEF CreatePolicy
<1>2. CASE UpdatePolicy(q)
  <2> DEFINE old == Stored(policies)[q]
  <2>1. PICK n \in Priorities, raw \in RawScaling : \E hs \in Admitted(raw) :
          /\ <<n, hs>> # <<old.priority, old.scaling>>
          /\ WritePolicy(q, [old EXCEPT !.priority = n, !.scaling = hs, !.generation = @ + 1])
    BY <1>2, Zenon DEF UpdatePolicy
  <2> QED BY <2>1
<1>3. CASE DeletePolicy(q)
  BY <1>3 DEF DeletePolicy
<1> QED BY <1>1, <1>2, <1>3

\* Only Begin makes the enforcer quiet; every other step leaves its policy as it is
\* stored and the Deployments as they are cached, but for a lost event, or it was
\* not quiet before.
LEMMA QuietBefore ==
  ASSUME TypeOK, NEW p \in Policies, [Next]_vars, ~Begin(p), Quiet(p)'
  PROVE  /\ Quiet(p)
         /\ DeliverDeployment => MapFails
         /\ DeliverDeployment \/ Cached(deployments') = Cached(deployments)
         /\ Stored(policies')[p] = Stored(policies)[p]
         /\ Cached(policies')[p] = Cached(policies)[p]
<1> DEFINE Goal ==
      /\ Quiet(p)
      /\ DeliverDeployment \/ Cached(deployments') = Cached(deployments)
      /\ Cached(policies')[p] = Cached(policies)[p]
<1>1. /\ p \notin queue'
      /\ Cached(policies')[p] # Nil /\ Cached(policies')[p].scaling # Nil
      /\ InSync(policies', p)
  BY DEF Quiet
<1>2. ASSUME NEW q \in Policies, CreatePolicy(q) \/ UpdatePolicy(q) \/ DeletePolicy(q) PROVE Goal
  <2>1. \E new \in WorkloadPolicy \cup {Nil} : policies' = Commit(policies, q, new)
    BY <1>2, PolicyEdits
  <2>2. PICK obj : WritePolicy(q, obj)
    BY <1>2, PolicyEditWrites
  <2>3. UNCHANGED queue /\ UNCHANGED deployments
    BY <2>2 DEF WritePolicy
  <2>4. InSync(policies, p) /\ Cached(policies') = Cached(policies)
    BY <1>1, <2>1, SyncBeforeWrite
  <2> QED BY <1>1, <2>3, <2>4 DEF Quiet
<1>3. ASSUME NEW d \in Deployments, WriteDeployment(d) PROVE Goal
  <2>1. PICK v \in (Annotations \cup {Nil}) \ {Stored(deployments)[d]} :
          deployments' = Commit(deployments, d, v)
    BY <1>3 DEF WriteDeployment
  <2>2. v \in Annotation \cup {Nil}
    BY ConstantsAssumption
  <2>3. Cached(deployments') = Cached(deployments)
    BY <2>1, <2>2, CommitDeployment
  <2>4. UNCHANGED policies /\ UNCHANGED queue
    BY <1>3 DEF WriteDeployment
  <2> QED BY <1>1, <2>3, <2>4 DEF Quiet
<1>4. ASSUME DeliverPolicy PROVE Goal
  <2>1. /\ queue' = queue \cup {q \in Policies : Cached(policies')[q] # Cached(policies)[q]}
        /\ UNCHANGED deployments
    BY <1>4 DEF DeliverPolicy
  <2>2. p \notin queue /\ Cached(policies')[p] = Cached(policies)[p]
    BY <1>1, <2>1
  <2>3. InSync(policies, p)
    BY <1>1, <1>4, <2>2, SyncBeforeDelivery
  <2> QED BY <1>1, <2>1, <2>2, <2>3 DEF Quiet
<1>5. ASSUME DeliverDeployment PROVE Goal /\ MapFails
  <2>1. UNCHANGED policies /\ queue \subseteq queue'
    BY <1>5 DEF DeliverDeployment, MapFails
  <2>2. queue' = queue \cup {q \in Policies : Cached(policies)[q] # Nil} => p \in queue'
    BY <1>1, <2>1
  <2>3. MapFails
    BY <1>1, <1>5, <2>2 DEF DeliverDeployment
  <2> QED BY <1>1, <1>5, <2>1, <2>3 DEF Quiet
<1>6. ~Restart
  <2> SUFFICES ASSUME Restart PROVE FALSE
    OBVIOUS
  <2>1. policies' = <<Stored(policies)>> /\ queue' = {q \in Policies : Stored(policies)[q] # Nil}
    BY DEF Restart
  <2>2. Cached(policies') = Stored(policies)
    BY <2>1 DEF Cached
  <2> QED BY <1>1, <2>1, <2>2
<1>7. ASSUME UpdateStatus PROVE Goal
  <2> DEFINE new == [policy EXCEPT !.observed = policy.generation]
  <2>1. req \in Policies /\ new \in WorkloadPolicy
    <3>1. req \in Policies /\ policy \in WorkloadPolicy
      BY <1>7 DEF TypeOK, UpdateStatus
    <3>2. new \in WorkloadPolicy
      BY <3>1 DEF WorkloadPolicy
    <3> QED BY <3>1, <3>2
  <2>2. UNCHANGED deployments /\ queue \subseteq queue'
    BY <1>7 DEF UpdateStatus, Done, Fail
  <2>3. UNCHANGED policies \/ policies' = Commit(policies, req, new)
    BY <1>7 DEF UpdateStatus
  <2>4. InSync(policies, p) /\ Cached(policies') = Cached(policies)
    BY <1>1, <2>1, <2>3, SyncBeforeWrite
  <2> QED BY <1>1, <2>2, <2>4 DEF Quiet
<1>8. ASSUME UNCHANGED policies, UNCHANGED deployments, p \in queue => p \in queue' PROVE Goal
  BY <1>1, <1>8 DEF Quiet
<1>9. ASSUME \/ \E d \in Deployments : UserWritesHPA(d)
             \/ \E h \in HPANames : Collect(h)
             \/ Rank \/ ListDeployments \/ CallFails
             \/ DeliverHPA \/ Resync \/ UNCHANGED vars
      PROVE  Goal
  <2>1. UNCHANGED policies /\ UNCHANGED deployments /\ queue \subseteq queue'
    BY <1>9 DEF UserWritesHPA, Tamper, Fail, Collect, Rank, ListDeployments, CallFails,
                DeliverHPA, Resync, vars, store
  <2> QED BY <2>1, <1>8
<1>10. ASSUME NEW q \in Policies, Begin(q) PROVE Goal
  <2>1. UNCHANGED policies /\ UNCHANGED deployments /\ queue' = queue \ {q} /\ q # p
    BY <1>10 DEF Begin, store
  <2> QED BY <2>1, <1>8
<1>11. ASSUME NEW d \in Deployments, Visit(d) PROVE Goal
  <2>1. UNCHANGED policies /\ UNCHANGED deployments
    BY <1>11 DEF Visit
  <2>2. Proceed(d) \/ Fail
    BY <1>11, VisitEnds
  <2>3. queue \subseteq queue'
    BY <2>2 DEF Proceed, Fail
  <2> QED BY <2>1, <2>3, <1>8
<1>12. Goal
  <2> HIDE DEF Goal
  <2> QED BY <1>2, <1>3, <1>4, <1>5, <1>6, <1>7, <1>9, <1>10, <1>11 DEF Next, User, Worker
<1>13. TypeOK'
  BY TypeStep
<1>14. Stored(policies)[p] = Cached(policies)[p] /\ Stored(policies')[p] = Cached(policies')[p]
  BY <1>1, <1>12, <1>13, StreamSynced DEF TypeOK, Quiet
<1> QED BY <1>5, <1>12, <1>14

\* WorkerInv holds again once the worker is idle, and while nothing it depends on
\* moves but the queue, which may grow.
LEMMA WorkerUndisturbed ==
  ASSUME WorkerInv,
         \/ Idle
         \/ /\ UNCHANGED <<pc, req, policy, listed>> /\ UNCHANGED enforcer
            /\ queue \subseteq queue' /\ Cached(policies') = Cached(policies)
  PROVE  WorkerInv'
<1>1. CASE Idle
  BY <1>1 DEF Idle, WorkerInv, NoneListed
<1>2. CASE /\ UNCHANGED <<pc, req, policy, listed>> /\ UNCHANGED enforcer
           /\ queue \subseteq queue' /\ Cached(policies') = Cached(policies)
  BY <1>2 DEF WorkerInv, NoneListed
<1> QED BY <1>1, <1>2

\* Every step keeps WorkerInv: an event about the policy the worker has queues it.
LEMMA WorkerKept ==
  ASSUME TypeOK, WorkerInv, [Next]_vars
  PROVE  WorkerInv'
<1> USE DEF NoneListed
<1>1. ASSUME NEW q \in Policies, CreatePolicy(q) \/ UpdatePolicy(q) \/ DeletePolicy(q)
      PROVE  WorkerInv'
  <2>1. Cached(policies') = Cached(policies)
    <3>1. PICK new \in WorkloadPolicy \cup {Nil} : policies' = Commit(policies, q, new)
      BY <1>1, PolicyEdits
    <3> QED BY <3>1, CommitPolicy
  <2>2. PICK obj : WritePolicy(q, obj)
    BY <1>1, PolicyEditWrites
  <2>3. UNCHANGED <<pc, req, policy, listed>> /\ UNCHANGED enforcer /\ UNCHANGED queue
    BY <2>2 DEF WritePolicy, worker, history
  <2> QED BY <2>1, <2>3, WorkerUndisturbed
<1>2. CASE \/ \E d \in Deployments : WriteDeployment(d) \/ UserWritesHPA(d)
           \/ \E h \in HPANames : Collect(h)
           \/ DeliverDeployment \/ DeliverHPA \/ Resync \/ UNCHANGED vars
  <2>1. /\ UNCHANGED <<pc, req, policy, listed>> /\ UNCHANGED enforcer
        /\ queue \subseteq queue' /\ UNCHANGED policies
    BY <1>2 DEF WriteDeployment, UserWritesHPA, Tamper, Collect, DeliverDeployment, MapFails,
                DeliverHPA, Resync, vars, store, worker, history
  <2>2. Cached(policies') = Cached(policies)
    BY <2>1
  <2> QED BY <2>1, <2>2, WorkerUndisturbed
<1>3. CASE DeliverPolicy
  <2>1. /\ queue' = queue \cup {p \in Policies : Cached(policies')[p] # Cached(policies)[p]}
        /\ UNCHANGED <<pc, req, policy, listed>> /\ UNCHANGED enforcer
    BY <1>3 DEF DeliverPolicy, worker, history
  <2>2. pc # "idle" => req \in Policies
    BY DEF TypeOK
  <2> QED BY <2>1, <2>2 DEF WorkerInv
<1>4. CASE Restart
  BY <1>4, WorkerUndisturbed DEF Restart
<1>5. ASSUME NEW q \in Policies, Begin(q) PROVE WorkerInv'
  <2>1. pc = "idle" /\ UNCHANGED listed /\ UNCHANGED enforcer /\ Cached(policies') = Cached(policies)
    BY <1>5 DEF Begin, store, worker, history
  <2>2. CASE UNCHANGED worker
    BY <2>1, <2>2 DEF WorkerInv, worker
  <2>3. CASE req' = q /\ policy' = Cached(policies)[q] /\ pc' \in {"rank", "status"}
    BY <2>1, <2>3 DEF WorkerInv
  <2> QED BY <1>5, <2>2, <2>3 DEF Begin
<1>6. CASE Rank
  BY <1>6 DEF Rank, WorkerInv, store
<1>7. CASE ListDeployments
  BY <1>7 DEF ListDeployments, PassOn, WorkerInv, store, history
<1>8. ASSUME NEW d \in Deployments, Visit(d) PROVE WorkerInv'
  <2>1. UNCHANGED policies /\ UNCHANGED enforcer /\ pc = "apply"
    BY <1>8 DEF Visit
  <2>2. CASE Proceed(d)
    BY <2>1, <2>2 DEF Proceed, PassOn, WorkerInv
  <2>3. CASE Fail
    BY <2>3, WorkerUndisturbed DEF Fail
  <2> QED BY <1>8, <2>2, <2>3, VisitEnds
<1>9. CASE UpdateStatus \/ CallFails
  <2>1. Idle
    BY <1>9 DEF UpdateStatus, CallFails, Done, Fail
  <2> QED BY <2>1, WorkerUndisturbed
<1> QED BY <1>1, <1>2, <1>3, <1>4, <1>5, <1>6, <1>7, <1>8, <1>9 DEF Next, User, Worker

\* A served Deployment stays served while its HPA is left alone or becomes unseen,
\* and nothing else it depends on changes.
LEMMA ServedKept ==
  ASSUME NEW d \in Deployments, Served(d), UNCHANGED enforcer,
         Cached(deployments') = Cached(deployments),
         Stored(policies')[enforcer] = Stored(policies)[enforcer],
         \/ managedHPAName(d) \in unseen'
         \/ /\ Stored(hpas')[managedHPAName(d)] = Stored(hpas)[managedHPAName(d)]
            /\ managedHPAName(d) \notin unseen
  PROVE  Served(d)'
<1> DEFINE h == managedHPAName(d)
<1>1. CASE h \in unseen'
  BY <1>1 DEF Served
<1>2. CASE Stored(hpas')[h] = Stored(hpas)[h] /\ h \notin unseen
  <2>1. Settled(Cached(deployments), d, enforcer) => Settled(Cached(deployments), d, enforcer)'
    BY <1>2 DEF Settled
  <2> QED BY <1>2, <2>1 DEF Served
<1> QED BY <1>1, <1>2

\* A lost event makes the HPAs of its Deployments unseen and leaves the others served.
LEMMA LostEvent ==
  ASSUME TypeOK, DeliverDeployment, MapFails, NEW d \in Deployments,
         Served(d) \/ Cached(deployments')[d] # Cached(deployments)[d]
  PROVE  Served(d)'
<1> DEFINE h == managedHPAName(d)
           known == Cached(deployments)
<1>1. /\ UNCHANGED <<policies, hpas, enforcer>>
      /\ unseen' = unseen \cup Touched
  BY DEF DeliverDeployment, MapFails
<1>2. CASE h \in Touched
  BY <1>1, <1>2 DEF Served
<1>3. CASE h \notin Touched
  <2>1. \A e \in Deployments : managedHPAName(e) = h => known'[e] = known[e]
    BY <1>3 DEF Touched
  <2>2. Served(d) /\ known'[d] = known[d]
    BY <2>1
  <2>3. SharesHPA(known, d) => SharesHPA(known, d)'
    BY <2>1 DEF SharesHPA, Live
  <2>4. Settled(known, d, enforcer) => Settled(known, d, enforcer)'
    BY <1>1, <2>2 DEF Settled
  <2> QED BY <1>1, <2>2, <2>3, <2>4 DEF Served
<1> QED BY <1>2, <1>3

\* The visit of a Deployment with the current policy settles its HPA, or makes it
\* unseen because the cached HPA or the listed Deployment was behind.
LEMMA VisitServes ==
  ASSUME TypeOK, NEW d \in Deployments, Visit(d), Proceed(d),
         req = enforcer, policy = Stored(policies)[req]
  PROVE  Served(d)'
<1> DEFINE h == managedHPAName(d)
           existing == Cached(hpas)[h]
           desired == desiredHPA(req, policy, d)
<1>1. /\ h \in HPANames /\ req \in Policies /\ policy \in WorkloadPolicy
      /\ UNCHANGED <<policies, enforcer>> /\ Cached(deployments') = Cached(deployments)
  BY DEF Visit, TypeOK, HPANames
<1>2. ~Fail
  BY DEF Proceed, PassOn, Fail, Idle
<1>3. /\ listed[d] # "invalid" /\ Look(d, h)
      /\ IF hpaEnabled(listed[d], policy)
         THEN CreateHPA(d, h) \/ RefuseHPA(d, h) \/ UpdateHPA(d, h)
         ELSE DropHPA(d, h)
  BY <1>2 DEF Visit
<1>4. CASE ~InSync(hpas, h) \/ listed[d] # Cached(deployments)[d]
  BY <1>3, <1>4 DEF Look, Served
<1>5. CASE InSync(hpas, h) /\ listed[d] = Cached(deployments)[d]
  <2>1. Stored(hpas)[h] = existing
    BY <1>5, StreamSynced DEF TypeOK
  <2>2. /\ Cached(hpas)[h] \in HPA \cup {Nil} /\ desired \in HPA /\ desired # Nil
        /\ desired.managed
    BY <1>1, EndsType, DesiredType, NilIsNoObject DEF desiredHPA
  <2>3. \A obj : Stored(Commit(hpas, h, obj))[h] = obj
    BY <1>1, EndsType, CommitStoresHPA
  <2>4. CASE hpaEnabled(listed[d], policy)
    <3> SUFFICES isManagedHPA(Stored(hpas')[h]) /\ Stored(hpas')[h].spec = desired.spec
      BY <1>1, <1>3, <1>5, <2>4 DEF Served, Settled, desiredHPA
    <3>1. CASE CreateHPA(d, h)
      <4>1. hpas' = Commit(hpas, h, desired)
        BY <1>2, <3>1 DEF CreateHPA
      <4> QED BY <4>1, <2>2, <2>3 DEF isManagedHPA
    <3>2. CASE isManagedHPA(existing) /\ ~hpaSpecDrifted(existing, desired) /\ UNCHANGED hpas
      <4>1. Stored(hpas') = Stored(hpas)
        BY <3>2
      <4> QED BY <3>2, <4>1, <2>1 DEF hpaSpecDrifted
    <3> DEFINE updated == [existing EXCEPT !.spec = desired.spec, !.managed = TRUE, !.policy = req]
    <3>3. CASE isManagedHPA(existing) /\ hpas' = Commit(hpas, h, updated)
      <4>1. isManagedHPA(existing) /\ hpas' = Commit(hpas, h, updated)
        BY <3>3
      <4>2. existing \in HPA
        BY <4>1, <2>2 DEF isManagedHPA
      <4>3. updated.spec = desired.spec /\ updated.managed
        BY <4>2 DEF HPA
      <4>4. updated \in HPA
        BY <4>2, <2>2, <1>1 DEF HPA
      <4>5. updated # Nil
        BY <4>4, NilIsNoObject
      <4> HIDE DEF updated
      <4> QED BY <4>1, <4>3, <4>5, <2>3 DEF isManagedHPA
    <3>4. ~RefuseHPA(d, h)
      BY <1>2 DEF RefuseHPA
    <3>5. CASE UpdateHPA(d, h)
      <4>1. \/ isManagedHPA(existing) /\ ~hpaSpecDrifted(existing, desired) /\ UNCHANGED hpas
            \/ isManagedHPA(existing) /\ hpas' = Commit(hpas, h, updated)
        BY <1>2, <3>5 DEF UpdateHPA
      <4> QED BY <4>1, <3>2, <3>3
    <3> QED BY <1>3, <2>4, <3>1, <3>4, <3>5
  <2>5. CASE ~hpaEnabled(listed[d], policy)
    <3> SUFFICES ~isManagedHPA(Stored(hpas')[h])
      BY <1>1, <1>3, <1>5, <2>5 DEF Served, Settled
    <3>1. CASE ~isManagedHPA(existing) /\ UNCHANGED hpas
      <4>1. Stored(hpas') = Stored(hpas)
        BY <3>1
      <4> QED BY <3>1, <4>1, <2>1
    <3>2. CASE hpas' = Commit(hpas, h, Nil)
      BY <3>2, <2>3 DEF isManagedHPA
    <3>3. isManagedHPA(existing) => Stored(hpas)[h] # Nil
      BY <2>1 DEF isManagedHPA
    <3> QED BY <1>3, <2>5, <3>1, <3>2, <3>3 DEF DropHPA
  <2> QED BY <2>4, <2>5
<1> QED BY <1>4, <1>5

\* Steps of others than the worker leave every HPA but one as it is stored, and
\* that one becomes unseen.
LEMMA OthersTouchHPAs ==
  ASSUME TypeOK, NEW d \in Deployments,
         \/ \E e \in Deployments : UserWritesHPA(e)
         \/ \E h \in HPANames : Collect(h)
         \/ DeliverHPA
         \/ UNCHANGED <<hpas, unseen>>
  PROVE  \/ managedHPAName(d) \in unseen'
         \/ Stored(hpas')[managedHPAName(d)] = Stored(hpas)[managedHPAName(d)]
<1> DEFINE g == managedHPAName(d)
           Goal == g \in unseen' \/ Stored(hpas')[g] = Stored(hpas)[g]
<1>1. g \in HPANames
  BY DEF HPANames
<1>2. ASSUME NEW h \in HPANames, NEW obj, Tamper(h, obj) PROVE Goal
  <2>1. hpas' = Commit(hpas, h, obj) /\ unseen' = unseen \cup {h}
    BY <1>2 DEF Tamper
  <2>2. CASE h = g
    BY <2>1, <2>2
  <2>3. CASE h # g
    <3>1. Stored(hpas') = [Stored(hpas) EXCEPT ![h] = obj]
      BY <2>1, CommitStoresHPA
    <3>2. Stored(hpas')[g] = Stored(hpas)[g]
      BY <3>1, <2>3, <1>1, EndsType
    <3> QED BY <2>1, <2>3, <3>2
  <2> QED BY <2>2, <2>3
<1> HIDE DEF Goal
<1>3. ASSUME NEW e \in Deployments, UserWritesHPA(e) PROVE Goal
  <2>1. managedHPAName(e) \in HPANames
    BY DEF HPANames
  <2>2. \E obj : Tamper(managedHPAName(e), obj)
    BY <1>3 DEF UserWritesHPA
  <2> QED BY <1>2, <2>1, <2>2
<1>4. ASSUME NEW h \in HPANames, Collect(h) PROVE Goal
  BY <1>2, <1>4 DEF Collect
<1>5. ASSUME DeliverHPA PROVE Goal
  <2>1. Stored(hpas') = Stored(hpas)
    BY <1>5, StreamTail DEF DeliverHPA, TypeOK
  <2> QED BY <2>1 DEF Goal
<1>6. ASSUME UNCHANGED <<hpas, unseen>> PROVE Goal
  <2>1. Stored(hpas') = Stored(hpas)
    BY <1>6
  <2> QED BY <2>1 DEF Goal
<1>7. Goal
  BY <1>3, <1>4, <1>5, <1>6
<1> QED BY <1>7 DEF Goal

\* What is under way stays so while the worker, the cached Deployments and the enforcer's
\* policy are left alone, or when the worker goes idle or begins anew after its pass.
LEMMA UnderWayKept ==
  ASSUME TypeOK, WorkerInv, UnderWay,
         UNCHANGED enforcer, Cached(deployments') = Cached(deployments),
         Stored(policies')[enforcer] = Stored(policies)[enforcer],
         \/ UNCHANGED <<pc, req, listed>>
         \/ /\ pc # "apply" /\ pc # "list" /\ ~(pc = "rank" /\ req = enforcer)
            /\ pc' # "apply" /\ listed' = NoneListed,
         \/ \E e \in Deployments : UserWritesHPA(e)
         \/ \E h \in HPANames : Collect(h)
         \/ DeliverHPA
         \/ UNCHANGED <<hpas, unseen>>
  PROVE  UnderWay'
<1>1. Live(Cached(deployments')) = Live(Cached(deployments))
  BY DEF Live
<1>2. ASSUME NEW d \in Deployments, Served(d) PROVE Served(d)'
  <2> DEFINE g == managedHPAName(d)
  <2>1. CASE g \in unseen'
    BY <1>2, <2>1, ServedKept
  <2>2. CASE Stored(hpas')[g] = Stored(hpas)[g] /\ g \notin unseen
    BY <1>2, <2>2, ServedKept
  <2>3. g \in unseen => g \in unseen'
    BY DEF UserWritesHPA, Tamper, Collect, DeliverHPA, history
  <2> QED BY <2>1, <2>2, <2>3, OthersTouchHPAs
<1>3. Live(Cached(deployments)) \subseteq Deployments
  BY DEF Live
<1>4. CASE UNCHANGED <<pc, req, listed>>
  BY <1>1, <1>2, <1>3, <1>4 DEF UnderWay
<1>5. CASE /\ pc # "apply" /\ pc # "list" /\ ~(pc = "rank" /\ req = enforcer)
           /\ pc' # "apply" /\ listed' = NoneListed
  <2>1. \A d \in Live(Cached(deployments)) : Served(d)
    BY <1>3, <1>5 DEF UnderWay, WorkerInv, NoneListed
  <2> QED BY <1>1, <1>2, <1>3, <1>5, <2>1 DEF UnderWay
<1> QED BY <1>4, <1>5

\* It stays so when an event is lost.
LEMMA UnderWayLost ==
  ASSUME TypeOK, UnderWay, DeliverDeployment, MapFails
  PROVE  UnderWay'
<1>1. UNCHANGED <<pc, req, listed, enforcer>>
  BY DEF DeliverDeployment, worker
<1>2. CASE (pc = "rank" /\ req = enforcer) \/ pc = "list"
  BY <1>1, <1>2 DEF UnderWay
<1>3. CASE \A d \in Live(Cached(deployments)) : listed[d] # Nil \/ Served(d)
  <2> SUFFICES ASSUME NEW d \in Live(Cached(deployments')), listed[d] = Nil PROVE Served(d)'
    BY <1>1 DEF UnderWay
  <2>1. d \in Deployments /\ Cached(deployments')[d] # Nil
    BY DEF Live
  <2>2. CASE Cached(deployments')[d] # Cached(deployments)[d]
    BY <2>1, <2>2, LostEvent
  <2>3. CASE Cached(deployments')[d] = Cached(deployments)[d]
    <3>1. Served(d)
      BY <1>3, <2>1, <2>3 DEF Live
    <3> QED BY <2>1, <3>1, LostEvent
  <2> QED BY <2>2, <2>3
<1> QED BY <1>2, <1>3 DEF UnderWay

\* The visit of one Deployment leaves the others served that were.
LEMMA VisitKeepsOthers ==
  ASSUME TypeOK, NEW d \in Deployments, Visit(d), Proceed(d),
         NEW e \in Deployments, e # d, Served(e)
  PROVE  Served(e)'
<1> DEFINE g == managedHPAName(e)
           h == managedHPAName(d)
<1>1. /\ UNCHANGED enforcer /\ UNCHANGED policies
      /\ Cached(deployments') = Cached(deployments)
  BY DEF Visit
<1>2. g \in HPANames /\ h \in HPANames
  BY DEF HPANames
<1>3. CASE g = h
  <2>1. ~Fail
    BY DEF Proceed, PassOn, Fail, Idle
  <2>2. listed[d] # Nil /\ Look(d, h)
    BY <2>1 DEF Visit
  <2>3. CASE listed[d] = Cached(deployments)[d]
    <3>1. d \in Live(Cached(deployments)) \ {e}
      BY <2>2, <2>3 DEF Live
    <3>2. SharesHPA(Cached(deployments'), e)
      BY <1>1, <1>3, <3>1 DEF SharesHPA
    <3> QED BY <3>2 DEF Served, SharesHPA
  <2>4. CASE listed[d] # Cached(deployments)[d]
    BY <1>3, <2>2, <2>4 DEF Look, Served
  <2> QED BY <2>3, <2>4
<1>4. CASE g # h
  <2>1. g \in unseen <=> g \in unseen'
    BY <1>4 DEF Visit, Look
  <2>2. Stored(hpas')[g] = Stored(hpas)[g]
    <3>1. UNCHANGED hpas \/ \E obj : hpas' = Commit(hpas, h, obj)
      BY DEF Visit, CreateHPA, RefuseHPA, UpdateHPA, DropHPA
    <3>2. CASE UNCHANGED hpas
      BY <3>2
    <3>3. ASSUME NEW obj, hpas' = Commit(hpas, h, obj) PROVE Stored(hpas')[g] = Stored(hpas)[g]
      <4>1. Stored(hpas') = [Stored(hpas) EXCEPT ![h] = obj]
        BY <1>2, <3>3, CommitStoresHPA
      <4> QED BY <4>1, <1>2, <1>4, EndsType
    <3> QED BY <3>1, <3>2, <3>3
  <2>3. Stored(policies')[enforcer] = Stored(policies)[enforcer]
    BY <1>1
  <2> QED BY <1>1, <1>2, <2>1, <2>2, <2>3, ServedKept
<1> QED BY <1>3, <1>4

\* The visit of one Deployment keeps the pass under way.
LEMMA VisitUnderWay ==
  ASSUME TypeOK, WorkerInv, UnderWay, NEW d \in Deployments, Visit(d), Proceed(d),
         policy = Stored(policies)[req]
  PROVE  UnderWay'
<1>1. /\ pc = "apply" /\ req = enforcer /\ UNCHANGED enforcer
      /\ Cached(deployments') = Cached(deployments)
  BY DEF Visit, WorkerInv
<1>2. /\ \A e \in Live(Cached(deployments)) : listed[e] # Nil \/ Served(e)
      /\ listed \in [Deployments -> Annotation \cup {Nil}]
  BY <1>1 DEF UnderWay, TypeOK
<1>3. listed' = [listed EXCEPT ![d] = Nil]
  BY DEF Proceed, PassOn
<1>4. Served(d)'
  BY <1>1, VisitServes
<1> SUFFICES ASSUME NEW e \in Live(Cached(deployments)) PROVE listed'[e] # Nil \/ Served(e)'
  BY <1>1 DEF UnderWay, Live
<1>5. CASE e = d
  BY <1>4, <1>5
<1>6. CASE e # d
  <2>1. e \in Deployments
    BY DEF Live
  <2>2. listed'[e] = listed[e]
    BY <1>2, <1>3, <1>6, <2>1
  <2>3. Served(e) => Served(e)'
    BY <1>6, <2>1, VisitKeepsOthers
  <2> QED BY <1>2, <2>2, <2>3
<1> QED BY <1>5, <1>6

\* A ranking that goes well starts a pass; one that does not gives the HPAs up.
LEMMA RankUnderWay ==
  ASSUME TypeOK, WorkerInv, Serving, [Next]_vars, Rank,
         NEW e \in Policies, enforcer' = e, Quiet(e)'
  PROVE  UnderWay'
<1>1. /\ pc = "rank" /\ UNCHANGED <<hpas, unseen>> /\ UNCHANGED <<req, listed>>
      /\ \/ pc' = "list"
         \/ pc' = "status" /\ req # e /\ UNCHANGED enforcer
  <2>1. pc = "rank" /\ UNCHANGED <<hpas, unseen>> /\ UNCHANGED <<req, listed>>
    BY DEF Rank, store
  <2>2. CASE isHighestPriorityPolicy(Cached(policies), req)
    BY <2>1, <2>2 DEF Rank
  <2>3. CASE ~isHighestPriorityPolicy(Cached(policies), req)
    <3>1. pc' = "status"
      BY <2>3 DEF Rank
    <3>2. CASE enforcer = req
      <4>1. enforcer' = Nil
        BY <2>3, <3>2 DEF Rank
      <4> QED BY <4>1, ConstantsAssumption
    <3>3. CASE enforcer # req
      <4>1. UNCHANGED enforcer
        BY <2>3, <3>3 DEF Rank
      <4> QED BY <2>1, <3>1, <3>3, <4>1
    <3> QED BY <3>2, <3>3
  <2> QED BY <2>2, <2>3
<1>2. CASE pc' = "list"
  BY <1>2 DEF UnderWay
<1>3. CASE pc' = "status" /\ req # e /\ UNCHANGED enforcer
  <2>1. /\ Quiet(e) /\ Cached(deployments') = Cached(deployments)
        /\ Stored(policies')[e] = Stored(policies)[e]
    <3>1. ~Begin(e) /\ UNCHANGED deployments
      BY <1>1 DEF Begin, Rank, store
    <3> QED BY <3>1, QuietBefore
  <2>2. enforcer = e /\ enforcer # Nil
    BY <1>3, ConstantsAssumption
  <2>3. UnderWay
    BY <2>1, <2>2 DEF Serving
  <2>4. listed = NoneListed /\ listed' = NoneListed
    BY <1>1 DEF WorkerInv, NoneListed
  <2> QED BY <1>1, <1>3, <2>1, <2>2, <2>3, <2>4, UnderWayKept
<1> QED BY <1>1, <1>2, <1>3

\* The beginning of the enforcer's own reconciliation leads to a ranking.
LEMMA BeginUnderWay ==
  ASSUME NEW e \in Policies, enforcer' = e, Quiet(e)', Begin(e)
  PROVE  UnderWay'
<1>1. Cached(policies)[e] # Nil /\ Cached(policies)[e].scaling # Nil
  BY DEF Quiet, Begin, store
<1>2. pc' = "rank" /\ req' = e
  BY <1>1 DEF Begin
<1> QED BY <1>2 DEF UnderWay

\* Every step keeps Serving.
LEMMA ServingKept ==
  ASSUME TypeOK, WorkerInv, Serving, [Next]_vars
  PROVE  Serving'
<1> SUFFICES ASSUME NEW e \in Policies, enforcer' = e, Quiet(e)' PROVE UnderWay'
  <2>1. enforcer' \in Policies \cup {Nil}
    BY TypeStep DEF TypeOK
  <2> QED BY <2>1 DEF Serving, Quiet
<1>1. CASE Rank
  BY <1>1, RankUnderWay
<1>2. CASE Begin(e)
  BY <1>2, BeginUnderWay
<1> SUFFICES ASSUME ~Rank, ~Begin(e) PROVE UnderWay'
  BY <1>1, <1>2
<1>3. UNCHANGED enforcer
  <2>1. ASSUME NEW q \in Policies, CreatePolicy(q) \/ UpdatePolicy(q) \/ DeletePolicy(q)
        PROVE  UNCHANGED enforcer
    <3>1. PICK obj : WritePolicy(q, obj)
      BY <2>1, PolicyEditWrites
    <3> QED BY <3>1 DEF WritePolicy, history
  <2>2. ASSUME NEW d \in Deployments, WriteDeployment(d) \/ UserWritesHPA(d) \/ Visit(d)
        PROVE  UNCHANGED enforcer
    BY <2>2 DEF WriteDeployment, UserWritesHPA, Tamper, Visit, history
  <2>3. ASSUME NEW q \in Policies, Begin(q) PROVE UNCHANGED enforcer
    BY <2>3 DEF Begin, history
  <2>4. ASSUME NEW h \in HPANames, Collect(h) PROVE UNCHANGED enforcer
    BY <2>4 DEF Collect, Tamper
  <2>5. CASE ListDeployments \/ UpdateStatus \/ CallFails
    BY <2>5 DEF ListDeployments, UpdateStatus, CallFails, history
  <2>6. CASE DeliverPolicy \/ DeliverDeployment \/ DeliverHPA \/ Resync
    BY <2>6 DEF DeliverPolicy, DeliverDeployment, DeliverHPA, Resync, history
  <2>7. CASE Restart \/ UNCHANGED vars
    BY <2>7 DEF Restart, vars, history
  <2> QED BY <2>1, <2>2, <2>3, <2>4, <2>5, <2>6, <2>7 DEF Next, User, Worker
<1>4. /\ Quiet(e)
      /\ DeliverDeployment => MapFails
      /\ DeliverDeployment \/ Cached(deployments') = Cached(deployments)
      /\ Stored(policies')[e] = Stored(policies)[e]
      /\ Cached(policies')[e] = Cached(policies)[e]
  BY QuietBefore
<1>5. enforcer = e /\ enforcer # Nil /\ UnderWay
  BY <1>3, <1>4, ConstantsAssumption DEF Serving
<1> SUFFICES ASSUME ~DeliverDeployment PROVE UnderWay'
  BY <1>4, <1>5, UnderWayLost
<1>6. /\ Stored(policies)[e] = Cached(policies)[e]
      /\ e \notin queue /\ e \notin queue'
  BY <1>4, StreamSynced DEF Quiet, TypeOK
<1>7. ~(Fail /\ req = e)
  BY <1>6 DEF Fail
<1> DEFINE Frame == UNCHANGED <<pc, req, listed>>
<1>8. ASSUME NEW q \in Policies, CreatePolicy(q) \/ UpdatePolicy(q) \/ DeletePolicy(q)
      PROVE  UnderWay'
  <2>1. PICK obj : WritePolicy(q, obj)
    BY <1>8, PolicyEditWrites
  <2>2. Frame /\ UNCHANGED <<hpas, unseen>>
    BY <2>1 DEF WritePolicy, worker, history
  <2> QED BY <2>2, <1>3, <1>4, <1>5, UnderWayKept
<1>9. ASSUME NEW d \in Deployments, WriteDeployment(d) \/ UserWritesHPA(d) PROVE UnderWay'
  <2>1. Frame /\ (UserWritesHPA(d) \/ UNCHANGED <<hpas, unseen>>)
    BY <1>9 DEF WriteDeployment, UserWritesHPA, Tamper, worker, history
  <2> QED BY <2>1, <1>3, <1>4, <1>5, UnderWayKept
<1>10. ASSUME NEW h \in HPANames, Collect(h) PROVE UnderWay'
  <2>1. Frame
    BY <1>10 DEF Collect, Tamper, worker
  <2> QED BY <2>1, <1>10, <1>3, <1>4, <1>5, UnderWayKept
<1>11. CASE DeliverPolicy \/ Resync \/ UNCHANGED vars
  <2>1. Frame /\ UNCHANGED <<hpas, unseen>>
    BY <1>11 DEF DeliverPolicy, Resync, vars, store, worker, history
  <2> QED BY <2>1, <1>3, <1>4, <1>5, UnderWayKept
<1>12. CASE DeliverHPA
  <2>1. Frame
    BY <1>12 DEF DeliverHPA, worker
  <2> QED BY <2>1, <1>12, <1>3, <1>4, <1>5, UnderWayKept
<1>13. ASSUME NEW q \in Policies, Begin(q), q # e PROVE UnderWay'
  <2>1. /\ pc = "idle" /\ listed' = listed /\ UNCHANGED <<hpas, unseen>>
        /\ pc' # "apply"
    BY <1>13 DEF Begin, worker, store, history
  <2>2. listed' = NoneListed
    BY <2>1 DEF WorkerInv
  <2> QED BY <2>1, <2>2, <1>3, <1>4, <1>5, UnderWayKept
<1>14. CASE ListDeployments
  <2>1. listed' = Cached(deployments')
    BY <1>14 DEF ListDeployments, PassOn, store
  <2>2. \A d \in Live(Cached(deployments')) : listed'[d] # Nil
    BY <2>1 DEF Live
  <2> QED BY <2>2 DEF UnderWay
<1>15. ASSUME NEW d \in Deployments, Visit(d) PROVE UnderWay'
  <2>1. pc = "apply" /\ req = e
    BY <1>5, <1>15 DEF Visit, WorkerInv
  <2>2. policy = Stored(policies)[req]
    BY <1>6, <2>1 DEF WorkerInv
  <2>3. Proceed(d)
    BY <1>7, <1>15, <2>1, VisitEnds
  <2> QED BY <1>5, <1>15, <2>2, <2>3, VisitUnderWay
<1>16. CASE UpdateStatus \/ CallFails
  <2>1. /\ Idle /\ UNCHANGED <<hpas, unseen>>
        /\ pc = "status" \/ Fail
    BY <1>16 DEF UpdateStatus, CallFails, Done, Fail, store, history
  <2>2. pc # "apply" /\ pc # "list" /\ ~(pc = "rank" /\ req = e)
    BY <1>5, <1>7, <2>1 DEF WorkerInv
  <2>3. pc' # "apply" /\ listed' = NoneListed
    BY <2>1 DEF Idle
  <2> QED BY <2>1, <2>2, <2>3, <1>3, <1>4, <1>5, UnderWayKept
<1>17. ~Restart
  <2>1. Restart => e \in queue'
    BY <1>4, <1>6 DEF Restart, Quiet
  <2> QED BY <2>1, <1>6
<1> HIDE DEF Frame
<1> QED
  BY <1>8, <1>9, <1>10, <1>11, <1>12, <1>13, <1>14, <1>15, <1>16,
     <1>17 DEF Next, User, Worker

\* At rest the cache shows the Deployments that are stored.
LEMMA RestCached ==
  ASSUME TypeOK, AtRest
  PROVE  Stored(deployments) = Cached(deployments)
<1>1. /\ Len(deployments) \in Nat \ {0}
      /\ Cached(deployments) = deployments[1] /\ Stored(deployments) = deployments[Len(deployments)]
  BY StreamEnds DEF TypeOK
<1>2. ~(Len(deployments) > 1)
  BY DEF AtRest, InFlight
<1>3. Len(deployments) = 1
  BY <1>1, <1>2
<1> QED BY <1>1, <1>3

\* What follows from the invariants once nothing is left to do.
LEMMA RestServes ==
  ASSUME TypeOK, WorkerInv, Serving
  PROVE  AtRestConverged
<1> SUFFICES ASSUME AtRest, enforcer # Nil, isHighestPriorityPolicy(Stored(policies), enforcer),
                    NEW d \in Live(Stored(deployments))
             PROVE  Served(d)
  BY DEF AtRestConverged
<1>1. pc = "idle" /\ queue = {} /\ ~InFlight(policies) /\ ~InFlight(deployments)
  BY DEF AtRest
<1>2. Len(policies) = 1 /\ Stored(policies) = Cached(policies) /\ DOMAIN policies = {1}
      /\ Cached(policies) = policies[1]
  <2>1. /\ Len(policies) \in Nat \ {0} /\ DOMAIN policies = 1..Len(policies)
        /\ Cached(policies) = policies[1] /\ Stored(policies) = policies[Len(policies)]
    BY StreamEnds DEF TypeOK
  <2>2. ~(Len(policies) > 1)
    BY <1>1 DEF InFlight
  <2> QED BY <2>1, <2>2
<1>3. /\ enforcer \in Policies
      /\ Cached(policies)[enforcer] # Nil /\ Cached(policies)[enforcer].scaling # Nil
  BY <1>2 DEF isHighestPriorityPolicy, Scaling
<1>4. InSync(policies, enforcer)
  BY <1>2 DEF InSync
<1>5. UnderWay
  BY <1>1, <1>3, <1>4 DEF Quiet, Serving
<1>6. d \in Deployments /\ listed[d] = Nil
  BY <1>1 DEF Live, WorkerInv, NoneListed
<1>7. Stored(deployments) = Cached(deployments)
  BY RestCached
<1> QED BY <1>1, <1>5, <1>6, <1>7 DEF UnderWay

\* Every reachable state has the two invariants of the worker's pass.
LEMMA AlwaysServing == Spec => [](WorkerInv /\ Serving)
<1>1. Init => WorkerInv /\ Serving
  BY DEF Init, WorkerInv, Serving
<1>2. TypeOK /\ WorkerInv /\ Serving /\ [Next]_vars => (WorkerInv /\ Serving)'
  BY WorkerKept, ServingKept
<1> QED BY <1>1, <1>2, TypeCorrect, PTL DEF Spec

\* At rest, the Deployments have the HPAs the enforcer asks for: no conflict, lost
\* reply, stale cache, failed pass or restart leaves one behind without a request
\* waiting in the queue or an event on its way. An event the map function loses
\* leaves the HPAs of its own Deployments behind (unseen) and no others.
THEOREM RestConverged == Spec => []AtRestConverged
<1>1. TypeOK /\ WorkerInv /\ Serving => AtRestConverged
  BY RestServes
<1> QED BY <1>1, TypeCorrect, AlwaysServing, PTL

\* While the enforcer is quiet, what it was served with stays: the only steps that
\* write HPAs on the operator's behalf are visits of its own pass, whose copies are
\* the stored ones.
THEOREM NothingUndone == Spec => ServedStaysServed
<1> DEFINE Stays == enforcer # Nil /\ Quiet(enforcer) /\ enforcer' = enforcer /\ Quiet(enforcer)' =>
                      \A d \in Live(Cached(deployments)) : Served(d) => Served(d)'
<1>1. TypeOK /\ WorkerInv /\ Serving /\ [Next]_vars => Stays
  <2> SUFFICES ASSUME TypeOK, WorkerInv, Serving, [Next]_vars,
                      enforcer # Nil, Quiet(enforcer), enforcer' = enforcer, Quiet(enforcer)',
                      NEW d \in Live(Cached(deployments)), Served(d)
               PROVE  Served(d)'
    OBVIOUS
  <2> DEFINE e == enforcer
  <2>1. e \in Policies /\ d \in Deployments
    BY DEF TypeOK, Live
  <2>2. e \notin queue /\ e \notin queue' /\ Quiet(e)'
    BY DEF Quiet
  <2>3. ~Begin(e)
    BY <2>2 DEF Begin
  <2>4. /\ DeliverDeployment => MapFails
        /\ DeliverDeployment \/ Cached(deployments') = Cached(deployments)
        /\ Stored(policies')[e] = Stored(policies)[e]
    BY <2>1, <2>2, <2>3, QuietBefore
  <2> SUFFICES ASSUME ~DeliverDeployment PROVE Served(d)'
    BY <2>1, <2>4, LostEvent
  <2>5. /\ Stored(policies)[e] = Cached(policies)[e]
        /\ Cached(policies)[e] # Nil
    BY <2>1, StreamSynced DEF Quiet, TypeOK
  <2>6. ~Restart
    BY <2>1, <2>2, <2>5 DEF Restart
  <2>7. ASSUME NEW v \in Deployments, Visit(v) PROVE Served(d)'
    <3>1. pc = "apply" /\ req = e /\ policy = Stored(policies)[req]
      BY <2>2, <2>5, <2>7 DEF Visit, WorkerInv
    <3>2. Proceed(v)
      BY <2>2, <2>7, <3>1, VisitEnds DEF Fail
    <3>3. CASE v = d
      BY <2>7, <3>1, <3>2, <3>3, VisitServes
    <3>4. CASE v # d
      BY <2>1, <2>7, <3>2, <3>4, VisitKeepsOthers
    <3> QED BY <3>3, <3>4
  <2>8. ASSUME \/ \E v \in Deployments : UserWritesHPA(v)
               \/ \E h \in HPANames : Collect(h)
               \/ DeliverHPA
               \/ UNCHANGED <<hpas, unseen>>
        PROVE  Served(d)'
    <3> DEFINE g == managedHPAName(d)
    <3>1. g \in unseen' \/ Stored(hpas')[g] = Stored(hpas)[g]
      BY <2>1, <2>8, OthersTouchHPAs
    <3>2. g \in unseen => g \in unseen'
      BY <2>8 DEF UserWritesHPA, Tamper, Collect, DeliverHPA, history
    <3> QED BY <2>1, <2>4, <3>1, <3>2, ServedKept
  <2>9. ASSUME NEW q \in Policies, CreatePolicy(q) \/ UpdatePolicy(q) \/ DeletePolicy(q)
         PROVE  UNCHANGED <<hpas, unseen>>
    <3>1. PICK obj : WritePolicy(q, obj)
      BY <2>9, PolicyEditWrites
    <3> QED BY <3>1 DEF WritePolicy, history
  <2>10. CASE \/ \E v \in Deployments : WriteDeployment(v)
              \/ \E q \in Policies : Begin(q)
              \/ Rank \/ ListDeployments \/ UpdateStatus \/ CallFails
              \/ DeliverPolicy \/ Resync \/ UNCHANGED vars
    <3>1. UNCHANGED <<hpas, unseen>>
      BY <2>10 DEF WriteDeployment, Begin, Rank, ListDeployments, UpdateStatus, CallFails,
                   DeliverPolicy, Resync, vars, store, history
    <3> QED BY <3>1, <2>8
  <2> QED BY <2>6, <2>7, <2>8, <2>9, <2>10 DEF Next, User, Worker
<1>2. ServedStaysServed <=> [][Stays]_vars
  BY DEF ServedStaysServed
<1> HIDE DEF Stays
<1> QED BY TypeCorrect, AlwaysServing, <1>1, <1>2, PTL DEF Spec

\* Only UpdateStatus moves the observedGeneration of a policy that stays.
LEMMA StatusAnnounces ==
  ASSUME TypeOK, [Next]_vars, NEW p \in Policies,
         Stored(policies)[p] # Nil, Stored(policies')[p] # Nil,
         Stored(policies')[p].observed # Stored(policies)[p].observed
  PROVE  UpdateStatus
<1> DEFINE old == Stored(policies)[p]
<1>1. old \in WorkloadPolicy
  BY EndsType
<1>2. ASSUME Stored(policies') = Stored(policies) PROVE FALSE
  BY <1>2
<1>3. ASSUME NEW q \in Policies, CreatePolicy(q) \/ UpdatePolicy(q) \/ DeletePolicy(q)
      PROVE  FALSE
  <2>1. PICK new \in WorkloadPolicy \cup {Nil} : policies' = Commit(policies, q, new)
    BY <1>3, PolicyEdits
  <2>2. Stored(policies') = [Stored(policies) EXCEPT ![q] = new]
    BY <2>1, CommitPolicy
  <2>3. q = p /\ Stored(policies')[p] = new
    BY <1>2, <2>2, EndsType
  <2>4. UpdatePolicy(p)
    <3>1. ~CreatePolicy(p)
      BY DEF CreatePolicy
    <3>2. ASSUME DeletePolicy(p) PROVE FALSE
      <4>1. policies' = Commit(policies, p, Nil)
        BY <3>2 DEF DeletePolicy, WritePolicy
      <4>2. Stored(policies')[p] = Nil
        BY <4>1, CommitPolicy, EndsType
      <4> QED BY <4>2
    <3> QED BY <1>3, <2>3, <3>1, <3>2
  <2>5. PICK n \in Priorities, raw \in RawScaling : \E hs \in Admitted(raw) :
          WritePolicy(p, [old EXCEPT !.priority = n, !.scaling = hs, !.generation = @ + 1])
    BY <2>4 DEF UpdatePolicy
  <2>6. PICK hs \in Admitted(raw) :
          WritePolicy(p, [old EXCEPT !.priority = n, !.scaling = hs, !.generation = @ + 1])
    BY <2>5
  <2> DEFINE edited == [old EXCEPT !.priority = n, !.scaling = hs, !.generation = @ + 1]
  <2>7. edited.observed = old.observed
    BY <1>1 DEF WorkloadPolicy
  <2>8. policies' = Commit(policies, p, edited)
    BY <2>6 DEF WritePolicy
  <2>9. edited \in WorkloadPolicy
    <3>1. hs \in HorizontalScalingPolicy \cup {Nil} /\ n \in Int
      BY AdmittedType, ConstantsAssumption
    <3> QED BY <1>1, <3>1, WrittenPolicyType, Zenon
  <2> HIDE DEF edited
  <2>10. Stored(policies')[p] = edited
    BY <2>8, <2>9, CommitPolicy, EndsType
  <2> QED BY <2>7, <2>10
<1>4. CASE DeliverPolicy
  <2>1. Stored(policies') = Stored(policies)
    BY <1>4, StreamTail DEF DeliverPolicy, TypeOK
  <2> QED BY <1>2, <2>1
<1>5. CASE Restart
  <2>1. Stored(policies') = Stored(policies)
    BY <1>5, StreamFresh DEF Restart
  <2> QED BY <1>2, <2>1
<1>6. ASSUME NEW d \in Deployments, WriteDeployment(d) \/ UserWritesHPA(d) \/ Visit(d)
      PROVE  FALSE
  <2>1. UNCHANGED policies
    BY <1>6 DEF WriteDeployment, UserWritesHPA, Tamper, Visit
  <2> QED BY <1>2, <2>1
<1>7. CASE \/ \E q \in Policies : Begin(q)
           \/ \E h \in HPANames : Collect(h)
           \/ Rank \/ ListDeployments \/ CallFails
           \/ DeliverDeployment \/ DeliverHPA \/ Resync \/ UNCHANGED vars
  <2>1. UNCHANGED policies
    BY <1>7 DEF Begin, Collect, Tamper, Rank, ListDeployments, CallFails, DeliverDeployment,
                DeliverHPA, Resync, vars, store
  <2> QED BY <1>2, <2>1
<1> QED BY <1>3, <1>4, <1>5, <1>6, <1>7 DEF Next, User, Worker

\* The enforcer is announced only when nothing it knows of is left to serve: the
\* status comes after the pass, and a pass that fails does not get there. A lost
\* event is not known of, whether it is lost before or during the pass.
THEOREM AnnouncedAfterServing == Spec => AnnouncedOnceServed
<1> DEFINE Announced ==
      \A p \in Policies :
        LET old == Stored(policies)[p]
            new == Stored(policies')[p]
        IN /\ p = enforcer /\ Quiet(p)
           /\ old # Nil /\ new # Nil /\ old.uid = new.uid /\ old.observed # new.observed
           => \A d \in Live(Cached(deployments)) : Served(d)
<1>1. TypeOK /\ WorkerInv /\ Serving /\ [Next]_vars => Announced
  <2> SUFFICES ASSUME TypeOK, WorkerInv, Serving, [Next]_vars,
                      NEW p \in Policies, p = enforcer, Quiet(p),
                      Stored(policies)[p] # Nil, Stored(policies')[p] # Nil,
                      Stored(policies)[p].observed # Stored(policies')[p].observed,
                      NEW d \in Live(Cached(deployments))
               PROVE  Served(d)
    OBVIOUS
  <2>1. pc = "status"
    BY StatusAnnounces DEF UpdateStatus
  <2>2. UnderWay
    BY ConstantsAssumption DEF Serving
  <2>3. d \in Deployments /\ listed[d] = Nil
    BY <2>1 DEF Live, WorkerInv, NoneListed
  <2> QED BY <2>1, <2>2, <2>3 DEF UnderWay
<1>2. AnnouncedOnceServed <=> [][Announced]_vars
  BY DEF AnnouncedOnceServed
<1> HIDE DEF Announced
<1> QED BY TypeCorrect, AlwaysServing, <1>1, <1>2, PTL DEF Spec
================================================================================
