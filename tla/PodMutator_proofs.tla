--------------------------- MODULE PodMutator_proofs ---------------------------
(***************************************************************************)
(* What the Pod mutating webhook answers, for any number of policies,       *)
(* profiles, containers, keys and values.                                   *)
(***************************************************************************)
EXTENDS PodMutator, TLAPS

--------------------------------------------------------------------------------
(* Filling in defaults *)

\* now is own, with some of what own lacks taken from defaults.
Enriches(own, now, defaults) ==
  /\ Keeps(own, now)
  /\ \A k \in DOMAIN own : now[k] = own[k] \/ (own[k] = Nil /\ now[k] = defaults[k])

\* A map filled in has the type of both, differs from what it was only by
\* defaults, and has none of them left to fill in.
LEMMA FillFacts ==
  ASSUME NEW K, NEW V, Nil \notin V,
         NEW own \in [K -> V \cup {Nil}], NEW defaults \in [K -> V \cup {Nil}]
  PROVE  /\ Fill(own, defaults) \in [K -> V \cup {Nil}]
         /\ Enriches(own, Fill(own, defaults), defaults)
         /\ Missing(Fill(own, defaults), defaults) = {}
  BY DEF Fill, FillIn, Missing, Enriches, Keeps

\* The loop over a policy's quantities leaves no unparsed one behind, whichever
\* keys it got to; if none of those it wants is broken it misses none.
LEMMA RangedFacts ==
  ASSUME NEW own \in ResourceMap, NEW defaults \in DefaultMap,
         NEW now \in Ranged(own, defaults)
  PROVE  /\ now \in ResourceMap
         /\ Enriches(own, now, defaults)
         /\ Refused(own, defaults) = {} => Missing(now, defaults) = {}
  <1>1. Nil \notin Quantities /\ Invalid # Nil
    BY ObjectsAssumption, SpecsAssumption
  <1>2. PICK keys \in SUBSET Missing(own, defaults) :
          /\ now = FillIn(own, defaults, keys)
          /\ \A k \in keys : defaults[k] # Invalid
          /\ Refused(own, defaults) = {} => keys = Missing(own, defaults)
    <2>1. CASE Refused(own, defaults) = {}
      BY <2>1 DEF Ranged, Fill, Refused
    <2>2. CASE Refused(own, defaults) # {}
      BY <2>2 DEF Ranged, Refused
    <2> QED BY <2>1, <2>2
  <1>3. DOMAIN own = Resources
    BY DEF ResourceMap
  <1>4. \A k \in Resources :
          now[k] = own[k] \/ (own[k] = Nil /\ now[k] = defaults[k] /\ now[k] \in Quantities)
    BY <1>1, <1>2, <1>3 DEF FillIn, Missing, DefaultMap
  <1>5. now \in ResourceMap
    BY <1>2, <1>3, <1>4 DEF FillIn, ResourceMap
  <1>6. Refused(own, defaults) = {} => Missing(now, defaults) = {}
    BY <1>1, <1>2, <1>3 DEF FillIn, Missing
  <1> QED BY <1>3, <1>4, <1>5, <1>6 DEF Enriches, Keeps

\* What is complete stays complete as it grows.
LEMMA KeepsMissing ==
  ASSUME NEW own, NEW now, NEW defaults, DOMAIN now = DOMAIN own,
         Keeps(own, now), Missing(own, defaults) = {}
  PROVE  Missing(now, defaults) = {}
  BY DEF Keeps, Missing

\* Keeping what is set is transitive.
LEMMA KeepsTrans ==
  ASSUME NEW a, NEW b, NEW c, DOMAIN b = DOMAIN a, Keeps(a, b), Keeps(b, c)
  PROVE  Keeps(a, c)
  BY DEF Keeps

--------------------------------------------------------------------------------
(* One visit *)

\* The environment a profile offers is a map of values.
LEMMA TelemetryType ==
  ASSUME NEW profile \in TelemetryProfile
  PROVE  Telemetry(profile) \in EnvMap
  BY DEF Telemetry, EnvMap, TelemetryProfile

\* A profile that injects leaves nothing of its own to fill in, and touches
\* nothing but environments.
LEMMA TelemetryFacts ==
  ASSUME NEW p \in Pod, NEW profile \in TelemetryProfile
  PROVE  LET q == applyTelemetry(p, profile)
         IN /\ q \in Pod
            /\ q.labels = p.labels /\ q.requests = p.requests /\ q.limits = p.limits
            /\ Injects(profile) => \A c \in Containers :
                 /\ Enriches(p.env[c], q.env[c], Telemetry(profile))
                 /\ Missing(q.env[c], Telemetry(profile)) = {}
            /\ ~Injects(profile) => q = p
  <1> DEFINE filled(c) == Fill(p.env[c], Telemetry(profile))
  <1>1. \A c \in Containers : p.env[c] \in EnvMap
    BY DEF Pod
  <1>2. \A c \in Containers :
          /\ filled(c) \in EnvMap
          /\ Enriches(p.env[c], filled(c), Telemetry(profile))
          /\ Missing(filled(c), Telemetry(profile)) = {}
    BY <1>1, TelemetryType, FillFacts, ObjectsAssumption, SpecsAssumption DEF EnvMap
  <1>3. CASE ~Injects(profile)
    BY <1>3 DEF applyTelemetry
  <1>4. CASE Injects(profile)
    <2> DEFINE env == [c \in Containers |-> filled(c)]
    <2>1. env \in [Containers -> EnvMap] /\ \A c \in Containers : env[c] = filled(c)
      BY <1>2
    <2>2. applyTelemetry(p, profile) = [p EXCEPT !.env = env]
      BY <1>4 DEF applyTelemetry
    <2> HIDE DEF env, filled
    <2>3. LET q == [p EXCEPT !.env = env]
          IN q \in Pod /\ q.labels = p.labels /\ q.requests = p.requests
             /\ q.limits = p.limits /\ q.env = env
      BY <2>1 DEF Pod
    <2> QED BY <1>2, <1>4, <2>1, <2>2, <2>3
  <1> QED BY <1>3, <1>4

\* The labels of a policy are all there after its visit.
LEMMA LabelsFacts ==
  ASSUME NEW p \in Pod, NEW policy \in WorkloadPolicy
  PROVE  LET q == applyPolicyLabels(p, policy)
         IN /\ q \in Pod
            /\ q.env = p.env /\ q.requests = p.requests /\ q.limits = p.limits
            /\ Enriches(p.labels, q.labels, policy.labels)
            /\ Missing(q.labels, policy.labels) = {}
  <1> DEFINE filled == Fill(p.labels, policy.labels)
  <1>1. /\ filled \in LabelMap
        /\ Enriches(p.labels, filled, policy.labels)
        /\ Missing(filled, policy.labels) = {}
    BY FillFacts, ObjectsAssumption, SpecsAssumption DEF LabelMap, Pod, WorkloadPolicy
  <1>2. applyPolicyLabels(p, policy) = [p EXCEPT !.labels = filled]
    BY DEF applyPolicyLabels
  <1> HIDE DEF filled
  <1> QED BY <1>1, <1>2 DEF Pod

\* What the loop over the containers makes of the resources of p: each
\* container's are as they were or as the loop over its map left them.
Resourced(p, policy, q) ==
  /\ q \in Pod /\ q.labels = p.labels /\ q.env = p.env
  /\ \A c \in Containers :
       /\ Enriches(p.requests[c], q.requests[c], policy.requests)
       /\ Enriches(p.limits[c], q.limits[c], policy.limits)
       /\ RefusedAt(p, policy) = {} =>
            /\ Missing(q.requests[c], policy.requests) = {}
            /\ Missing(q.limits[c], policy.limits) = {}

\* Whatever container the loop fails at, the Pod it leaves is a Pod and has
\* gained defaults of the policy only; if it does not fail it misses none.
LEMMA ResourcesFacts ==
  ASSUME NEW p \in Pod, NEW policy \in WorkloadPolicy,
         NEW q \in applyPolicyResources(p, policy)
  PROVE  Resourced(p, policy, q)
  <1> DEFINE refused == RefusedAt(p, policy)
             R(c) == Ranged(p.requests[c], policy.requests)
             L(c) == Ranged(p.limits[c], policy.limits)
  <1>1. /\ \A c \in Containers : p.requests[c] \in ResourceMap /\ p.limits[c] \in ResourceMap
        /\ policy.requests \in DefaultMap /\ policy.limits \in DefaultMap
    BY DEF Pod, WorkloadPolicy
  <1>2. \A c \in Containers \ refused :
          /\ Refused(p.requests[c], policy.requests) = {}
          /\ Refused(p.limits[c], policy.limits) = {}
          /\ Fill(p.requests[c], policy.requests) \in R(c)
          /\ Fill(p.limits[c], policy.limits) \in L(c)
    BY DEF RefusedAt, Ranged
  <1>3. PICK f \in [Containers -> ResourceMap], g \in [Containers -> ResourceMap] :
          /\ q = [p EXCEPT !.requests = f, !.limits = g]
          /\ \A c \in Containers :
               /\ f[c] \in R(c) \cup {p.requests[c]}
               /\ g[c] \in L(c) \cup {p.limits[c]}
               /\ refused = {} => f[c] \in R(c) /\ g[c] \in L(c)
    <2> DEFINE RF(until) == [c \in Containers |->
                 IF c < until THEN Fill(p.requests[c], policy.requests) ELSE p.requests[c]]
               LF(until) == [c \in Containers |->
                 IF c < until THEN Fill(p.limits[c], policy.limits) ELSE p.limits[c]]
    <2>0. \A until : FilledBelow(p, policy, until) =
                       [p EXCEPT !.requests = RF(until), !.limits = LF(until)]
      BY DEF FilledBelow
    <2>1. CASE refused = {}
      <3>1. q = [p EXCEPT !.requests = RF(NumContainers + 1), !.limits = LF(NumContainers + 1)]
        BY <2>0, <2>1 DEF applyPolicyResources
      <3>2. \A c \in Containers : c < NumContainers + 1
        BY ObjectsAssumption, SpecsAssumption DEF Containers
      <3>3. \A c \in Containers : /\ RF(NumContainers + 1)[c] \in R(c)
                                  /\ LF(NumContainers + 1)[c] \in L(c)
        BY <1>2, <2>1, <3>2
      <3>4. /\ RF(NumContainers + 1) \in [Containers -> ResourceMap]
            /\ LF(NumContainers + 1) \in [Containers -> ResourceMap]
        <4>1. \A c \in Containers : /\ RF(NumContainers + 1)[c] \in ResourceMap
                                    /\ LF(NumContainers + 1)[c] \in ResourceMap
          BY <1>1, <3>3, RangedFacts
        <4> QED BY <4>1
      <3> HIDE DEF RF, LF, R, L, refused
      <3> QED BY <3>1, <3>3, <3>4
    <2>2. CASE refused # {}
      <3>1. PICK first \in refused :
              /\ \A b \in refused : first <= b
              /\ q \in StoppedAt(p, policy, first)
        BY <2>2 DEF applyPolicyResources
      <3>2. PICK r \in RangedContainer(p, policy, first) :
              q = [FilledBelow(p, policy, first) EXCEPT !.requests[first] = r[1],
                                                        !.limits[first] = r[2]]
        BY <3>1 DEF StoppedAt
      <3>3. first \in Containers
        BY DEF RefusedAt
      <3>4. r[1] \in R(first) /\ r[2] \in L(first) \cup {p.limits[first]}
        BY <3>2 DEF RangedContainer
      <3> DEFINE f == [RF(first) EXCEPT ![first] = r[1]]
                 g == [LF(first) EXCEPT ![first] = r[2]]
      <3>5. q = [p EXCEPT !.requests = f, !.limits = g]
        <4>1. FilledBelow(p, policy, first) =
                [p EXCEPT !.requests = RF(first), !.limits = LF(first)]
          BY <2>0
        <4> HIDE DEF RF, LF
        <4> QED BY <3>2, <4>1 DEF Pod
      <3>6. \A c \in Containers : c < first => c \notin refused
        BY <3>1, <3>3, ObjectsAssumption, SpecsAssumption DEF Containers
      <3>7. \A c \in Containers : /\ f[c] \in R(c) \cup {p.requests[c]}
                                  /\ g[c] \in L(c) \cup {p.limits[c]}
        BY <1>2, <3>3, <3>4, <3>6
      <3>8. \A c \in Containers : f[c] \in ResourceMap /\ g[c] \in ResourceMap
        BY <1>1, <3>7, RangedFacts
      <3>9. f \in [Containers -> ResourceMap] /\ g \in [Containers -> ResourceMap]
        BY <3>8
      <3> HIDE DEF f, g, R, L, refused, RF, LF
      <3> QED BY <2>2, <3>5, <3>7, <3>9
    <2> QED BY <2>1, <2>2
  <1>4. /\ q \in Pod /\ q.labels = p.labels /\ q.env = p.env
        /\ q.requests = f /\ q.limits = g
    BY <1>3 DEF Pod
  <1>5. ASSUME NEW c \in Containers
        PROVE  /\ Enriches(p.requests[c], f[c], policy.requests)
               /\ Enriches(p.limits[c], g[c], policy.limits)
               /\ refused = {} => /\ Missing(f[c], policy.requests) = {}
                                  /\ Missing(g[c], policy.limits) = {}
    <2>1. Enriches(p.requests[c], p.requests[c], policy.requests)
          /\ Enriches(p.limits[c], p.limits[c], policy.limits)
      BY DEF Enriches, Keeps
    <2>2. \A r \in R(c) : /\ Enriches(p.requests[c], r, policy.requests)
                          /\ refused = {} => Missing(r, policy.requests) = {}
      BY <1>1, <1>2, RangedFacts
    <2>3. \A r \in L(c) : /\ Enriches(p.limits[c], r, policy.limits)
                          /\ refused = {} => Missing(r, policy.limits) = {}
      BY <1>1, <1>2, RangedFacts
    <2> QED BY <1>3, <2>1, <2>2, <2>3
  <1> QED BY <1>4, <1>5 DEF Resourced

--------------------------------------------------------------------------------
(* Type correctness *)

\* Whatever is listed has the type of its kind.
LEMMA ListedType ==
  ASSUME TypeOK
  PROVE  /\ \A p \in Listed(policies) : p \in Policies /\ policies[p] \in WorkloadPolicy
         /\ \A t \in Listed(profiles) : t \in Profiles /\ profiles[t] \in TelemetryProfile
  BY ObjectsAssumption, SpecsAssumption DEF TypeOK, Listed

\* What a visit to a policy makes of the Pod, labels and resources together.
LEMMA VisitPolicyFacts ==
  ASSUME TypeOK, NEW p \in Policies, VisitPolicy(p)
  PROVE  /\ pc = "apply" /\ p \in Listed(policies) /\ p \in todo
         /\ pod \in Pod /\ pod' \in Pod /\ pod'.env = pod.env
         /\ Enriches(pod.labels, pod'.labels, policies[p].labels)
         /\ Missing(pod'.labels, policies[p].labels) = {}
         /\ \A c \in Containers :
              /\ Enriches(pod.requests[c], pod'.requests[c], policies[p].requests)
              /\ Enriches(pod.limits[c], pod'.limits[c], policies[p].limits)
              /\ ~Broken(policies[p]) =>
                   /\ Missing(pod'.requests[c], policies[p].requests) = {}
                   /\ Missing(pod'.limits[c], policies[p].limits) = {}
         /\ ~Broken(policies[p]) /\ ~mutated' => pod' = pod
  <1>1. pc = "apply" /\ p \in Listed(policies) /\ p \in todo /\ pod \in Pod
    BY DEF VisitPolicy, Highest, TypeOK
  <1>2. policies[p] \in WorkloadPolicy
    BY <1>1, ListedType
  <1> DEFINE labelled == applyPolicyLabels(pod, policies[p])
  <1>3. /\ labelled \in Pod
        /\ labelled.env = pod.env /\ labelled.requests = pod.requests
        /\ labelled.limits = pod.limits
        /\ Enriches(pod.labels, labelled.labels, policies[p].labels)
        /\ Missing(labelled.labels, policies[p].labels) = {}
    BY <1>1, <1>2, LabelsFacts
  <1>4. pod' \in applyPolicyResources(labelled, policies[p])
    BY DEF VisitPolicy
  <1>5. mutated' = (mutated \/ (RefusedAt(labelled, policies[p]) = {} /\ pod' # pod))
    BY DEF VisitPolicy
  <1> HIDE DEF labelled
  <1>6. Resourced(labelled, policies[p], pod')
    BY <1>2, <1>3, <1>4, ResourcesFacts
  <1>7. ~Broken(policies[p]) => RefusedAt(labelled, policies[p]) = {}
    BY <1>3 DEF Broken, RefusedAt, Refused, Missing, Pod, ResourceMap
  <1> QED BY <1>1, <1>3, <1>5, <1>6, <1>7 DEF Resourced

\* What a visit to a profile makes of the Pod.
LEMMA VisitProfileFacts ==
  ASSUME TypeOK, NEW t \in Profiles, VisitProfile(t)
  PROVE  /\ pc = "telemetry" /\ t \in Listed(profiles) /\ t \in todo
         /\ pod \in Pod /\ pod' \in Pod
         /\ pod'.labels = pod.labels /\ pod'.requests = pod.requests
         /\ pod'.limits = pod.limits
         /\ Injects(profiles[t]) => \A c \in Containers :
              /\ Enriches(pod.env[c], pod'.env[c], Telemetry(profiles[t]))
              /\ Missing(pod'.env[c], Telemetry(profiles[t])) = {}
         /\ ~Injects(profiles[t]) => pod' = pod
         /\ ~mutated' => ~mutated /\ pod' = pod
  <1>1. pc = "telemetry" /\ t \in Listed(profiles) /\ t \in todo /\ pod \in Pod
    BY DEF VisitProfile, Highest, TypeOK
  <1>2. profiles[t] \in TelemetryProfile
    BY <1>1, ListedType
  <1>3. pod' = applyTelemetry(pod, profiles[t]) /\ mutated' = (mutated \/ pod' # pod)
    BY DEF VisitProfile
  <1> QED BY <1>1, <1>2, <1>3, TelemetryFacts

\* Type correctness: in particular, no quantity that does not parse is ever
\* written into a Pod.
THEOREM TypeCorrect == Spec => []TypeOK
  <1>1. Init => TypeOK
    BY ObjectsAssumption, SpecsAssumption DEF Init, TypeOK, NoPolicies, NoProfiles
  <1>2. TypeOK /\ [Next]_vars => TypeOK'
    <2> SUFFICES ASSUME TypeOK, [Next]_vars
                 PROVE  TypeOK'
      OBVIOUS
    <2>1. CASE Errored
      BY <2>1 DEF Errored, Answer, TypeOK
    <2>2. CASE Decode
      BY <2>2 DEF Decode, TypeOK
    <2>3. CASE ListPolicies
      BY <2>3 DEF ListPolicies, TypeOK
    <2>4. CASE ListProfiles
      BY <2>4 DEF ListProfiles, TypeOK
    <2>5. ASSUME NEW t \in Profiles, VisitProfile(t)
          PROVE  TypeOK'
      <3>1. pc = "telemetry" /\ pod' \in Pod
        BY <2>5, VisitProfileFacts
      <3>2. /\ mutated' \in BOOLEAN /\ todo' \subseteq todo
            /\ UNCHANGED <<request, pc, policies, profiles, response>>
        BY <2>5 DEF VisitProfile, TypeOK
      <3> QED BY <3>1, <3>2 DEF TypeOK, Listed
    <2>6. CASE TelemetryApplied
      BY <2>6 DEF TelemetryApplied, TypeOK, Listed
    <2>7. ASSUME NEW p \in Policies, VisitPolicy(p)
          PROVE  TypeOK'
      <3>1. pc = "apply" /\ pod' \in Pod
        BY <2>7, VisitPolicyFacts
      <3>2. /\ mutated' \in BOOLEAN /\ todo' \subseteq todo
            /\ UNCHANGED <<request, pc, policies, profiles, response>>
        BY <2>7 DEF VisitPolicy, TypeOK
      <3> QED BY <3>1, <3>2 DEF TypeOK, Listed
    <2>8. CASE Respond
      BY <2>8 DEF Respond, Answer, TypeOK
    <2>9. CASE Submit
      BY <2>9, SpecsAssumption DEF Submit, TypeOK, NoPolicies, NoProfiles
    <2>10. CASE UNCHANGED vars
      BY <2>10 DEF vars, TypeOK, Listed
    <2> QED BY <2>1, <2>2, <2>3, <2>4, <2>5, <2>6, <2>7, <2>8, <2>9, <2>10 DEF Next, Work
  <1> QED BY <1>1, <1>2, PTL DEF Spec

--------------------------------------------------------------------------------
(* The loops *)

\* Nothing the visited objects offer is still to be filled in, apart from the
\* resources of broken policies.
Completed(q, seenProfiles, seenPolicies) ==
  /\ \A t \in seenProfiles :
       Injects(profiles[t]) =>
         \A c \in Containers : Missing(q.env[c], Telemetry(profiles[t])) = {}
  /\ \A p \in seenPolicies :
       /\ Missing(q.labels, policies[p].labels) = {}
       /\ ~Broken(policies[p]) => \A c \in Containers :
            /\ Missing(q.requests[c], policies[p].requests) = {}
            /\ Missing(q.limits[c], policies[p].limits) = {}

SeenProfiles == IF pc = "telemetry" THEN Listed(profiles) \ todo ELSE Listed(profiles)
SeenPolicies == IF pc = "apply" THEN Listed(policies) \ todo ELSE {}

\* The three properties of the answer, as the loops build them up, and what
\* mutated says of the copy.
LoopInv ==
  /\ pc \in {"policies", "profiles"} => pod = request /\ ~mutated
  /\ pc \in {"telemetry", "apply"} =>
       /\ PodKeeps(request, pod)
       /\ PodPrefers(request, pod)
       /\ Completed(pod, SeenProfiles, SeenPolicies)
       /\ ~mutated /\ (pc = "telemetry" \/ BrokenPolicies = {}) => pod = request

AnswerInv ==
  /\ pc # "done" => response = Nil
  /\ response # Nil =>
       /\ PodKeeps(request, response)
       /\ PodPrefers(request, response)
       /\ BrokenPolicies = {} => Completed(response, Listed(profiles), Listed(policies))

IInv == TypeOK /\ LoopInv /\ AnswerInv

\* A Pod keeps itself and what it kept before, and prefers nothing.
LEMMA PodReflexive ==
  ASSUME NEW p \in Pod
  PROVE  PodKeeps(p, p) /\ PodPrefers(p, p)
  BY DEF PodKeeps, Keeps, PodPrefers, Preferred

\* What keeps a Pod that kept the author's settings keeps the author's settings.
LEMMA PodKeepsTrans ==
  ASSUME NEW p \in Pod, NEW q \in Pod, NEW r \in Pod, PodKeeps(p, q), PodKeeps(q, r)
  PROVE  PodKeeps(p, r)
  BY DEF PodKeeps, Keeps, Pod, LabelMap, EnvMap, ResourceMap

\* What is complete for the visited objects stays so as the Pod grows.
LEMMA CompletedKept ==
  ASSUME NEW q \in Pod, NEW r \in Pod, PodKeeps(q, r),
         NEW seenT, NEW seenP, Completed(q, seenT, seenP)
  PROVE  Completed(r, seenT, seenP)
  <1>1. /\ DOMAIN r.labels = DOMAIN q.labels
        /\ \A c \in Containers : /\ DOMAIN r.env[c] = DOMAIN q.env[c]
                                 /\ DOMAIN r.requests[c] = DOMAIN q.requests[c]
                                 /\ DOMAIN r.limits[c] = DOMAIN q.limits[c]
    BY DEF Pod, LabelMap, EnvMap, ResourceMap
  <1>2. /\ Keeps(q.labels, r.labels)
        /\ \A c \in Containers : /\ Keeps(q.env[c], r.env[c])
                                 /\ Keeps(q.requests[c], r.requests[c])
                                 /\ Keeps(q.limits[c], r.limits[c])
    BY DEF PodKeeps
  <1> QED BY <1>1, <1>2, KeepsMissing DEF Completed

\* The value a visit fills in is the preferred one if everything before it in
\* priority offers none.
LEMMA PreferredFill ==
  ASSUME NEW list, NEW n \in Listed(list), NEW offer, NEW own, NEW now, NEW new,
         NEW leftOut, Preferred(list, offer, own, now, leftOut),
         \/ new = now
         \/ /\ new = offer[n]
            /\ \A m \in Listed(list) \ leftOut :
                 offer[m] # Nil => list[m].priority <= list[n].priority
  PROVE  Preferred(list, offer, own, new, leftOut)
  BY DEF Preferred

\* A profile that is visited has the highest priority of those that still offer
\* anything a container lacks.
LEMMA ProfilePreferred ==
  ASSUME IInv, NEW t \in Profiles, VisitProfile(t)
  PROVE  PodPrefers(request, pod')
  <1>1. /\ pc = "telemetry" /\ t \in Listed(profiles) /\ pod \in Pod
        /\ pod'.labels = pod.labels /\ pod'.requests = pod.requests
        /\ pod'.limits = pod.limits
        /\ Injects(profiles[t]) => \A c \in Containers :
              Enriches(pod.env[c], pod'.env[c], Telemetry(profiles[t]))
        /\ ~Injects(profiles[t]) => pod' = pod
    BY VisitProfileFacts DEF IInv
  <1>2. PodPrefers(request, pod) /\ Completed(pod, Listed(profiles) \ todo, {})
    BY <1>1 DEF IInv, LoopInv, SeenProfiles, SeenPolicies
  <1>3. \A m \in todo : profiles[m].priority <= profiles[t].priority
    BY DEF VisitProfile, Highest
  <1>4. ASSUME NEW c \in Containers, NEW v \in EnvVars
        PROVE  Preferred(profiles, EnvOffer(v), request.env[c][v], pod'.env[c][v], {})
    <2>1. Preferred(profiles, EnvOffer(v), request.env[c][v], pod.env[c][v], {})
      BY <1>2 DEF PodPrefers
    <2>2. DOMAIN pod.env[c] = EnvVars
      BY <1>1 DEF Pod, EnvMap
    <2>3. \/ pod'.env[c][v] = pod.env[c][v]
          \/ /\ Injects(profiles[t]) /\ pod.env[c][v] = Nil
             /\ pod'.env[c][v] = Telemetry(profiles[t])[v]
      BY <1>1, <2>2 DEF Enriches
    <2>4. ASSUME pod.env[c][v] = Nil, NEW m \in Listed(profiles), EnvOffer(v)[m] # Nil
          PROVE  profiles[m].priority <= profiles[t].priority
      <3>1. Injects(profiles[m]) /\ Telemetry(profiles[m])[v] # Nil
        BY <2>4 DEF EnvOffer
      <3>2. m \in todo
        BY <1>2, <2>2, <2>4, <3>1 DEF Completed, Missing
      <3> QED BY <1>3, <3>2
    <2>5. Injects(profiles[t]) => EnvOffer(v)[t] = Telemetry(profiles[t])[v]
      BY <1>1 DEF EnvOffer
    <2> QED BY <1>1, <2>1, <2>3, <2>4, <2>5, PreferredFill
  <1> QED BY <1>1, <1>2, <1>4 DEF PodPrefers

\* The same of a policy, for its labels, and for resources among the policies
\* that are not broken.
LEMMA PolicyPreferred ==
  ASSUME IInv, NEW p \in Policies, VisitPolicy(p)
  PROVE  PodPrefers(request, pod')
  <1>1. /\ pc = "apply" /\ p \in Listed(policies) /\ pod \in Pod
        /\ pod'.env = pod.env
        /\ Enriches(pod.labels, pod'.labels, policies[p].labels)
        /\ \A c \in Containers :
             /\ Enriches(pod.requests[c], pod'.requests[c], policies[p].requests)
             /\ Enriches(pod.limits[c], pod'.limits[c], policies[p].limits)
    BY VisitPolicyFacts DEF IInv
  <1>2. PodPrefers(request, pod) /\ Completed(pod, Listed(profiles), Listed(policies) \ todo)
    BY <1>1 DEF IInv, LoopInv, SeenProfiles, SeenPolicies
  <1>3. \A m \in todo : policies[m].priority <= policies[p].priority
    BY DEF VisitPolicy, Highest
  <1>4. \A m \in Listed(policies) \ BrokenPolicies : ~Broken(policies[m])
    BY DEF BrokenPolicies
  <1>5. ASSUME NEW k \in Labels
        PROVE  Preferred(policies, LabelOffer(k), request.labels[k], pod'.labels[k], {})
    <2>1. Preferred(policies, LabelOffer(k), request.labels[k], pod.labels[k], {})
      BY <1>2 DEF PodPrefers
    <2>2. DOMAIN pod.labels = Labels
      BY <1>1 DEF Pod, LabelMap
    <2>3. \/ pod'.labels[k] = pod.labels[k]
          \/ pod.labels[k] = Nil /\ pod'.labels[k] = policies[p].labels[k]
      BY <1>1, <2>2 DEF Enriches
    <2>4. ASSUME pod.labels[k] = Nil, NEW m \in Listed(policies), LabelOffer(k)[m] # Nil
          PROVE  policies[m].priority <= policies[p].priority
      <3>1. policies[m].labels[k] # Nil
        BY <2>4 DEF LabelOffer
      <3>2. m \in todo
        BY <1>2, <2>2, <2>4, <3>1 DEF Completed, Missing
      <3> QED BY <1>3, <3>2
    <2>5. LabelOffer(k)[p] = policies[p].labels[k]
      BY <1>1 DEF LabelOffer
    <2> QED BY <1>1, <2>1, <2>3, <2>4, <2>5, PreferredFill
  <1>6. ASSUME NEW c \in Containers, NEW r \in Resources
        PROVE  Preferred(policies, RequestOffer(r), request.requests[c][r],
                         pod'.requests[c][r], BrokenPolicies)
    <2>1. Preferred(policies, RequestOffer(r), request.requests[c][r],
                    pod.requests[c][r], BrokenPolicies)
      BY <1>2 DEF PodPrefers
    <2>2. DOMAIN pod.requests[c] = Resources
      BY <1>1 DEF Pod, ResourceMap
    <2>3. \/ pod'.requests[c][r] = pod.requests[c][r]
          \/ pod.requests[c][r] = Nil /\ pod'.requests[c][r] = policies[p].requests[r]
      BY <1>1, <2>2 DEF Enriches
    <2>4. ASSUME pod.requests[c][r] = Nil, NEW m \in Listed(policies) \ BrokenPolicies,
                 RequestOffer(r)[m] # Nil
          PROVE  policies[m].priority <= policies[p].priority
      <3>1. policies[m].requests[r] # Nil
        BY <2>4 DEF RequestOffer
      <3>2. m \in todo
        BY <1>2, <1>4, <2>2, <2>4, <3>1 DEF Completed, Missing
      <3> QED BY <1>3, <3>2
    <2>5. RequestOffer(r)[p] = policies[p].requests[r]
      BY <1>1 DEF RequestOffer
    <2> QED BY <1>1, <2>1, <2>3, <2>4, <2>5, PreferredFill
  <1>7. ASSUME NEW c \in Containers, NEW r \in Resources
        PROVE  Preferred(policies, LimitOffer(r), request.limits[c][r],
                         pod'.limits[c][r], BrokenPolicies)
    <2>1. Preferred(policies, LimitOffer(r), request.limits[c][r],
                    pod.limits[c][r], BrokenPolicies)
      BY <1>2 DEF PodPrefers
    <2>2. DOMAIN pod.limits[c] = Resources
      BY <1>1 DEF Pod, ResourceMap
    <2>3. \/ pod'.limits[c][r] = pod.limits[c][r]
          \/ pod.limits[c][r] = Nil /\ pod'.limits[c][r] = policies[p].limits[r]
      BY <1>1, <2>2 DEF Enriches
    <2>4. ASSUME pod.limits[c][r] = Nil, NEW m \in Listed(policies) \ BrokenPolicies,
                 LimitOffer(r)[m] # Nil
          PROVE  policies[m].priority <= policies[p].priority
      <3>1. policies[m].limits[r] # Nil
        BY <2>4 DEF LimitOffer
      <3>2. m \in todo
        BY <1>2, <1>4, <2>2, <2>4, <3>1 DEF Completed, Missing
      <3> QED BY <1>3, <3>2
    <2>5. LimitOffer(r)[p] = policies[p].limits[r]
      BY <1>1 DEF LimitOffer
    <2> QED BY <1>1, <2>1, <2>3, <2>4, <2>5, PreferredFill
  <1> QED BY <1>1, <1>2, <1>5, <1>6, <1>7 DEF PodPrefers

\* What holds of the Pod and the lists before a step that leaves the lists alone
\* holds of them after it.
LEMMA SameLists ==
  ASSUME UNCHANGED <<policies, profiles>>
  PROVE  /\ BrokenPolicies' = BrokenPolicies
         /\ PodPrefers(request', pod') => PodPrefers(request, pod)'
         /\ PodPrefers(request', response') => PodPrefers(request, response)'
  <1>1. BrokenPolicies' = BrokenPolicies
    BY DEF BrokenPolicies, Listed
  <1>2. \A k : LabelOffer(k)' = LabelOffer(k)
    BY DEF LabelOffer, Listed
  <1>3. \A r : RequestOffer(r)' = RequestOffer(r) /\ LimitOffer(r)' = LimitOffer(r)
    BY DEF RequestOffer, LimitOffer, Listed
  <1>4. \A v : EnvOffer(v)' = EnvOffer(v)
    BY DEF EnvOffer, Listed
  <1>5. PodPrefers(request', pod') => PodPrefers(request, pod)'
    BY <1>1, <1>2, <1>3, <1>4 DEF PodPrefers
  <1>6. PodPrefers(request', response') => PodPrefers(request, response)'
    BY <1>1, <1>2, <1>3, <1>4 DEF PodPrefers
  <1> QED BY <1>1, <1>5, <1>6

\* The loop invariant holds after the visit of a profile.
LEMMA LoopVisitProfile ==
  ASSUME IInv, NEW t \in Profiles, VisitProfile(t)
  PROVE  LoopInv' /\ AnswerInv'
  <1>1. /\ pc = "telemetry" /\ t \in Listed(profiles)
        /\ request \in Pod /\ pod \in Pod /\ pod' \in Pod
        /\ pod'.labels = pod.labels /\ pod'.requests = pod.requests
        /\ pod'.limits = pod.limits
        /\ Injects(profiles[t]) => \A c \in Containers :
              /\ Enriches(pod.env[c], pod'.env[c], Telemetry(profiles[t]))
              /\ Missing(pod'.env[c], Telemetry(profiles[t])) = {}
        /\ ~Injects(profiles[t]) => pod' = pod
        /\ ~mutated' => ~mutated /\ pod' = pod
    BY VisitProfileFacts DEF IInv, TypeOK
  <1>2. UNCHANGED <<request, pc, policies, profiles, response>> /\ todo' = todo \ {t}
    BY DEF VisitProfile
  <1>3. /\ PodKeeps(request, pod)
        /\ Completed(pod, Listed(profiles) \ todo, {})
        /\ ~mutated => pod = request
        /\ response = Nil
    BY <1>1 DEF IInv, LoopInv, AnswerInv, SeenProfiles, SeenPolicies
  <1>4. PodKeeps(pod, pod')
    BY <1>1 DEF PodKeeps, Enriches, Keeps
  <1>5. PodKeeps(request, pod')
    BY <1>1, <1>3, <1>4, PodKeepsTrans
  <1>6. Completed(pod', Listed(profiles) \ todo', {})
    <2>1. Completed(pod', Listed(profiles) \ todo, {})
      BY <1>1, <1>3, <1>4, CompletedKept
    <2> QED BY <1>1, <1>2, <2>1 DEF Completed
  <1>7. PodPrefers(request, pod')
    BY ProfilePreferred
  <1>8. LoopInv'
    <2>1. PodPrefers(request, pod)'
      BY <1>2, <1>7, SameLists
    <2>2. Completed(pod, SeenProfiles, SeenPolicies)'
      BY <1>1, <1>2, <1>6 DEF Completed, SeenProfiles, SeenPolicies, Listed
    <2>3. PodKeeps(request, pod)'
      BY <1>2, <1>5 DEF PodKeeps
    <2> QED BY <1>1, <1>2, <1>3, <2>1, <2>2, <2>3 DEF LoopInv
  <1> QED BY <1>1, <1>2, <1>3, <1>8 DEF AnswerInv

\* The loop invariant holds after the visit of a policy.
LEMMA LoopVisitPolicy ==
  ASSUME IInv, NEW p \in Policies, VisitPolicy(p)
  PROVE  LoopInv' /\ AnswerInv'
  <1>1. /\ pc = "apply" /\ p \in Listed(policies)
        /\ request \in Pod /\ pod \in Pod /\ pod' \in Pod /\ pod'.env = pod.env
        /\ Enriches(pod.labels, pod'.labels, policies[p].labels)
        /\ Missing(pod'.labels, policies[p].labels) = {}
        /\ \A c \in Containers :
             /\ Enriches(pod.requests[c], pod'.requests[c], policies[p].requests)
             /\ Enriches(pod.limits[c], pod'.limits[c], policies[p].limits)
             /\ ~Broken(policies[p]) =>
                  /\ Missing(pod'.requests[c], policies[p].requests) = {}
                  /\ Missing(pod'.limits[c], policies[p].limits) = {}
        /\ ~Broken(policies[p]) /\ ~mutated' => pod' = pod
    BY VisitPolicyFacts DEF IInv, TypeOK
  <1>2. /\ UNCHANGED <<request, pc, policies, profiles, response>> /\ todo' = todo \ {p}
        /\ mutated => mutated'
    BY DEF VisitPolicy
  <1>3. /\ PodKeeps(request, pod)
        /\ Completed(pod, Listed(profiles), Listed(policies) \ todo)
        /\ ~mutated /\ BrokenPolicies = {} => pod = request
        /\ response = Nil
    BY <1>1 DEF IInv, LoopInv, AnswerInv, SeenProfiles, SeenPolicies
  <1>4. PodKeeps(pod, pod')
    BY <1>1 DEF PodKeeps, Enriches, Keeps
  <1>5. PodKeeps(request, pod')
    BY <1>1, <1>3, <1>4, PodKeepsTrans
  <1>6. Completed(pod', Listed(profiles), Listed(policies) \ todo')
    <2>1. Completed(pod', Listed(profiles), Listed(policies) \ todo)
      BY <1>1, <1>3, <1>4, CompletedKept
    <2> QED BY <1>1, <1>2, <2>1 DEF Completed
  <1>7. PodPrefers(request, pod')
    BY PolicyPreferred
  <1>8. LoopInv'
    <2>1. PodPrefers(request, pod)' /\ BrokenPolicies' = BrokenPolicies
      BY <1>2, <1>7, SameLists
    <2>2. Completed(pod, SeenProfiles, SeenPolicies)'
      BY <1>1, <1>2, <1>6 DEF Completed, SeenProfiles, SeenPolicies, Listed
    <2>3. PodKeeps(request, pod)'
      BY <1>2, <1>5 DEF PodKeeps
    <2>4. ~mutated' /\ BrokenPolicies' = {} => pod' = request'
      BY <1>1, <1>2, <1>3, <2>1 DEF BrokenPolicies
    <2> QED BY <1>1, <1>2, <2>1, <2>2, <2>3, <2>4 DEF LoopInv
  <1> QED BY <1>1, <1>2, <1>3, <1>8 DEF AnswerInv

\* The invariant of the handler: type correctness, the loops and the answer.
LEMMA AlwaysIInv == Spec => []IInv
  <1>1. Init => IInv
    <2>1. Init => TypeOK
      BY ObjectsAssumption, SpecsAssumption DEF Init, TypeOK, NoPolicies, NoProfiles
    <2> QED BY <2>1 DEF Init, IInv, LoopInv, AnswerInv
  <1>2. IInv /\ TypeOK' /\ [Next]_vars => IInv'
    <2> SUFFICES ASSUME IInv, TypeOK', [Next]_vars
                 PROVE  LoopInv' /\ AnswerInv'
      BY DEF IInv
    <2>1. CASE Errored \/ Decode \/ ListPolicies \/ Submit
      BY <2>1 DEF Errored, Answer, Decode, ListPolicies, Submit, IInv, LoopInv, AnswerInv
    <2>2. CASE ListProfiles
      <3>1. /\ pc' = "telemetry" /\ pod' = request' /\ pod' \in Pod
            /\ todo' = Listed(profiles') /\ response' = Nil
        BY <2>2 DEF ListProfiles, IInv, LoopInv, AnswerInv, TypeOK
      <3>2. PodKeeps(request, pod)' /\ PodPrefers(request, pod)'
        BY <3>1 DEF PodKeeps, Keeps, PodPrefers, Preferred
      <3>3. Completed(pod, SeenProfiles, SeenPolicies)'
        BY <3>1 DEF Completed, SeenProfiles, SeenPolicies, Listed
      <3> QED BY <3>1, <3>2, <3>3 DEF LoopInv, AnswerInv
    <2>3. ASSUME NEW t \in Profiles, VisitProfile(t)
          PROVE  LoopInv' /\ AnswerInv'
      BY <2>3, LoopVisitProfile
    <2>4. CASE TelemetryApplied
      <3>1. /\ pc = "telemetry" /\ pc' = "apply" /\ todo = {} /\ todo' = Listed(policies)
            /\ UNCHANGED <<request, policies, profiles, pod, mutated, response>>
        BY <2>4 DEF TelemetryApplied
      <3>2. /\ PodKeeps(request, pod) /\ PodPrefers(request, pod)
            /\ Completed(pod, Listed(profiles), {})
            /\ ~mutated => pod = request
            /\ response = Nil
        BY <3>1 DEF IInv, LoopInv, AnswerInv, SeenProfiles, SeenPolicies
      <3>3. PodKeeps(request, pod)' /\ PodPrefers(request, pod)'
        BY <3>1, <3>2, SameLists DEF PodKeeps
      <3>4. Completed(pod, SeenProfiles, SeenPolicies)'
        BY <3>1, <3>2 DEF Completed, SeenProfiles, SeenPolicies, Listed
      <3> QED BY <3>1, <3>2, <3>3, <3>4 DEF LoopInv, AnswerInv
    <2>5. ASSUME NEW p \in Policies, VisitPolicy(p)
          PROVE  LoopInv' /\ AnswerInv'
      BY <2>5, LoopVisitPolicy
    <2>6. CASE Respond
      <3>1. /\ pc = "apply" /\ pc' = "done" /\ todo = {} /\ request \in Pod
            /\ response' = IF mutated THEN pod ELSE request
            /\ UNCHANGED <<request, policies, profiles, todo, pod, mutated>>
        BY <2>6 DEF Respond, Answer, IInv, TypeOK
      <3>2. /\ PodKeeps(request, pod) /\ PodPrefers(request, pod)
            /\ Completed(pod, Listed(profiles), Listed(policies))
            /\ ~mutated /\ BrokenPolicies = {} => pod = request
        BY <3>1 DEF IInv, LoopInv, SeenProfiles, SeenPolicies
      <3>3. PodKeeps(request, response') /\ PodPrefers(request, response')
        BY <3>1, <3>2, PodReflexive
      <3>4. PodKeeps(request, response)' /\ PodPrefers(request, response)'
        BY <3>1, <3>3, SameLists DEF PodKeeps
      <3>5. BrokenPolicies' = {} => Completed(response', Listed(profiles), Listed(policies))
        BY <3>1, <3>2, SameLists
      <3>6. BrokenPolicies' = {} => Completed(response, Listed(profiles), Listed(policies))'
        BY <3>1, <3>5 DEF Completed, Listed
      <3> QED BY <3>1, <3>4, <3>6 DEF LoopInv, AnswerInv
    <2>7. CASE UNCHANGED vars
      <3>1. UNCHANGED <<request, pc, policies, profiles, todo, pod, mutated, response>>
        BY <2>7 DEF vars
      <3>2. LoopInv'
        <4>1. /\ PodPrefers(request, pod) => PodPrefers(request, pod)'
              /\ BrokenPolicies' = BrokenPolicies
          BY <3>1, SameLists
        <4>2. Completed(pod, SeenProfiles, SeenPolicies) =>
                Completed(pod, SeenProfiles, SeenPolicies)'
          BY <3>1 DEF Completed, SeenProfiles, SeenPolicies, Listed
        <4> QED BY <3>1, <4>1, <4>2 DEF IInv, LoopInv, PodKeeps
      <3>3. AnswerInv'
        <4>1. /\ PodPrefers(request, response) => PodPrefers(request, response)'
              /\ BrokenPolicies' = BrokenPolicies
          BY <3>1, SameLists
        <4>2. Completed(response, Listed(profiles), Listed(policies)) =>
                Completed(response, Listed(profiles), Listed(policies))'
          BY <3>1 DEF Completed, Listed
        <4> QED BY <3>1, <4>1, <4>2 DEF IInv, AnswerInv, PodKeeps
      <3> QED BY <3>2, <3>3
    <2> QED BY <2>1, <2>2, <2>3, <2>4, <2>5, <2>6, <2>7 DEF Next, Work
  <1> QED BY <1>1, <1>2, TypeCorrect, PTL DEF Spec

--------------------------------------------------------------------------------
(* The properties of the answer *)

\* The defaults never change what the author of the Pod set.
THEOREM OwnSettings == Spec => []OwnSettingsKept
  <1>1. IInv => OwnSettingsKept
    BY DEF IInv, AnswerInv, OwnSettingsKept
  <1> QED BY <1>1, AlwaysIInv, PTL

\* Every default comes from the highest priority that offers it, whatever order
\* the sort gives to equals and Go to the keys of a map.
THEOREM Precedence == Spec => []HighestPriorityWins
  <1>1. IInv => HighestPriorityWins
    BY DEF IInv, AnswerInv, HighestPriorityWins
  <1> QED BY <1>1, AlwaysIInv, PTL

\* When every quantity parses no default is missed and no change goes without a
\* patch, so that a second pass over the same lists changes nothing.
THEOREM Complete == Spec => []NothingMissed
  <1>1. IInv => NothingMissed
    <2> SUFFICES ASSUME IInv, response # Nil, BrokenPolicies = {}
                 PROVE  NothingMissed
      BY DEF NothingMissed
    <2>1. Completed(response, Listed(profiles), Listed(policies))
      BY DEF IInv, AnswerInv
    <2>2. \A p \in Listed(policies) : ~Broken(policies[p])
      BY DEF BrokenPolicies
    <2> QED BY <2>1, <2>2 DEF NothingMissed, DefaultsIn, TelemetryIn, Completed
  <1> QED BY <1>1, AlwaysIInv, PTL
================================================================================
