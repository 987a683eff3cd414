------------------------------ MODULE PodMutator ------------------------------
(***************************************************************************)
(* One request to the mutating webhook for Pods: the defaults of every      *)
(* TelemetryProfile and WorkloadPolicy the cache lists for the namespace    *)
(* are filled into what the author of the Pod left open, the highest        *)
(* priority first.                                                          *)
(***************************************************************************)
EXTENDS PodObjects

CONSTANTS
  Policies, Profiles,         \* names of the objects in the namespace
  PolicySpecs, ProfileSpecs,  \* what the cache may list
  PodSpecs                    \* what users submit

ASSUME SpecsAssumption ==
  /\ PolicySpecs \subseteq WorkloadPolicy
  /\ ProfileSpecs \subseteq TelemetryProfile
  /\ PodSpecs \subseteq Pod

VARIABLES
  request,    \* the Pod as it was submitted
  pc,         \* where Handle is
  policies,   \* the WorkloadPolicies it listed
  profiles,   \* the TelemetryProfiles it listed
  todo,       \* names the loop it is in has yet to visit
  pod,        \* the copy it mutates
  mutated,    \* whether it will answer with a patch
  response    \* the Pod that goes on after its answer, Nil before or on an error

vars == <<request, pc, policies, profiles, todo, pod, mutated, response>>

--------------------------------------------------------------------------------
(* Filling in defaults *)

Missing(own, defaults) == {k \in DOMAIN own : own[k] = Nil /\ defaults[k] # Nil}

FillIn(own, defaults, keys) ==
  [k \in DOMAIN own |-> IF k \in keys THEN defaults[k] ELSE own[k]]

\* Seeded fault: the defaults win over what is set.
FillOver(own, defaults) ==
  [k \in DOMAIN own |-> IF defaults[k] # Nil THEN defaults[k] ELSE own[k]]

Fill(own, defaults) == FillIn(own, defaults, Missing(own, defaults))

\* Keys whose default is wanted and does not parse.
Refused(own, defaults) == {k \in Missing(own, defaults) : defaults[k] = Invalid}

\* Seeded fault: the error of the quantity parser is ignored.
RangedUnparsed(own, defaults) == {Fill(own, defaults)}

\* What a loop over the map defaults makes of own: Go visits the keys in any
\* order and the loop ends at the first quantity that does not parse.
Ranged(own, defaults) ==
  IF Refused(own, defaults) = {} THEN {Fill(own, defaults)}
  ELSE {FillIn(own, defaults, keys) :
          keys \in SUBSET (Missing(own, defaults) \ Refused(own, defaults))}

Injects(profile) == profile.injectEnvVars /\ profile.tracingEndpoint # Nil

\* The environment profile offers a container.
Telemetry(profile) ==
  [v \in EnvVars |-> IF v = "OTEL_EXPORTER_OTLP_ENDPOINT" THEN profile.tracingEndpoint
                                                           ELSE profile.samplingRate]

applyTelemetry(p, profile) ==
  IF Injects(profile)
  THEN [p EXCEPT !.env = [c \in Containers |-> Fill(p.env[c], Telemetry(profile))]]
  ELSE p

applyPolicyLabels(p, policy) == [p EXCEPT !.labels = Fill(p.labels, policy.labels)]

\* Containers of p that policy's quantities fail at.
RefusedAt(p, policy) ==
  {c \in Containers : \/ Refused(p.requests[c], policy.requests) # {}
                      \/ Refused(p.limits[c], policy.limits) # {}}

\* What the requests and limits of container c become: the limits are not
\* reached when the requests fail.
RangedContainer(p, policy, c) ==
  Ranged(p.requests[c], policy.requests) \X
    IF Refused(p.requests[c], policy.requests) # {} THEN {p.limits[c]}
    ELSE Ranged(p.limits[c], policy.limits)

\* Every container before number until has its requests and limits filled in.
FilledBelow(p, policy, until) ==
  [p EXCEPT !.requests = [c \in Containers |->
              IF c < until THEN Fill(p.requests[c], policy.requests) ELSE p.requests[c]],
            !.limits = [c \in Containers |->
              IF c < until THEN Fill(p.limits[c], policy.limits) ELSE p.limits[c]]]

\* The Pods the loop may leave when it fails at container c.
StoppedAt(p, policy, c) ==
  {[FilledBelow(p, policy, c) EXCEPT !.requests[c] = r[1], !.limits[c] = r[2]] :
     r \in RangedContainer(p, policy, c)}

\* The containers are visited in order, up to the first that fails.
applyPolicyResources(p, policy) ==
  LET refused == RefusedAt(p, policy)
  IN IF refused = {} THEN {FilledBelow(p, policy, NumContainers + 1)}
     ELSE UNION {StoppedAt(p, policy, c) : c \in {b \in refused : \A d \in refused : b <= d}}

Listed(list) == {n \in DOMAIN list : list[n] # Nil}

\* Seeded fault: the lists are sorted upwards.
Lowest(list) == {n \in todo : \A m \in todo : list[m].priority >= list[n].priority}

\* The visits go down in priority. Neither the cache nor sort.Slice gives equal
\* priorities an order.
Highest(list) == {n \in todo : \A m \in todo : list[m].priority <= list[n].priority}

NoPolicies == [p \in Policies |-> Nil]
NoProfiles == [t \in Profiles |-> Nil]

--------------------------------------------------------------------------------
(* Handle *)

Answer(answer) == pc' = "done" /\ response' = answer

\* The request does not decode, a list fails, or the patched Pod does not encode.
Errored ==
  /\ \/ pc \in {"decode", "policies", "profiles"}
     \/ pc = "apply" /\ todo = {} /\ mutated
  /\ Answer(Nil)
  /\ UNCHANGED <<request, policies, profiles, todo, pod, mutated>>

Decode ==
  /\ pc = "decode"
  /\ pc' = "policies"
  /\ pod' = request /\ mutated' = FALSE
  /\ UNCHANGED <<request, policies, profiles, todo, response>>

ListPolicies ==
  /\ pc = "policies"
  /\ pc' = "profiles"
  /\ policies' \in [Policies -> PolicySpecs \cup {Nil}]
  /\ UNCHANGED <<request, profiles, todo, pod, mutated, response>>

ListProfiles ==
  /\ pc = "profiles"
  /\ pc' = "telemetry"
  /\ profiles' \in [Profiles -> ProfileSpecs \cup {Nil}]
  /\ todo' = Listed(profiles')
  /\ UNCHANGED <<request, policies, pod, mutated, response>>

\* Seeded fault: only the last profile decides whether there is a patch.
VisitProfileLast(t) ==
  /\ pc = "telemetry" /\ t \in Highest(profiles)
  /\ pod' = applyTelemetry(pod, profiles[t])
  /\ mutated' = (pod' # pod)
  /\ todo' = todo \ {t}
  /\ UNCHANGED <<request, pc, policies, profiles, response>>

VisitProfile(t) ==
  /\ pc = "telemetry" /\ t \in Highest(profiles)
  /\ pod' = applyTelemetry(pod, profiles[t])
  /\ mutated' = (mutated \/ pod' # pod)
  /\ todo' = todo \ {t}
  /\ UNCHANGED <<request, pc, policies, profiles, response>>

TelemetryApplied ==
  /\ pc = "telemetry" /\ todo = {}
  /\ pc' = "apply" /\ todo' = Listed(policies)
  /\ UNCHANGED <<request, policies, profiles, pod, mutated, response>>

\* Seeded fault: only the last policy decides whether there is a patch.
VisitPolicyLast(p) ==
  /\ pc = "apply" /\ p \in Highest(policies)
  /\ pod' \in applyPolicyResources(applyPolicyLabels(pod, policies[p]), policies[p])
  /\ mutated' = (pod' # pod)
  /\ todo' = todo \ {p}
  /\ UNCHANGED <<request, pc, policies, profiles, response>>

\* A policy with a quantity that fails is left behind where it fails: what it
\* changed so far stays in the copy and does not count as a mutation.
VisitPolicy(p) ==
  /\ pc = "apply" /\ p \in Highest(policies)
  /\ LET labelled == applyPolicyLabels(pod, policies[p])
     IN /\ pod' \in applyPolicyResources(labelled, policies[p])
        /\ mutated' = (mutated \/ (RefusedAt(labelled, policies[p]) = {} /\ pod' # pod))
  /\ todo' = todo \ {p}
  /\ UNCHANGED <<request, pc, policies, profiles, response>>

Respond ==
  /\ pc = "apply" /\ todo = {}
  /\ Answer(IF mutated THEN pod ELSE request)
  /\ UNCHANGED <<request, policies, profiles, todo, pod, mutated>>

\* The next request, each with a Handle of its own, also when the caller gave up
\* on the last one: another Pod, or the same one again, because the API server
\* reinvokes the webhook or its author tries again or updates it.
Submit ==
  /\ request' \in PodSpecs \cup ({request, response} \ {Nil})
  /\ pc' = "decode" /\ pod' = Nil /\ mutated' = FALSE /\ response' = Nil
  /\ policies' = NoPolicies /\ profiles' = NoProfiles /\ todo' = {}

Init ==
  /\ request \in PodSpecs
  /\ pc = "decode" /\ pod = Nil /\ mutated = FALSE /\ response = Nil
  /\ policies = NoPolicies /\ profiles = NoProfiles /\ todo = {}

\* The steps of Handle that read no cache.
Work ==
  \/ Errored \/ Decode
  \/ \E t \in Profiles : VisitProfile(t)
  \/ TelemetryApplied
  \/ \E p \in Policies : VisitPolicy(p)
  \/ Respond

Next == ListPolicies \/ ListProfiles \/ Work \/ Submit

Spec == Init /\ [][Next]_vars

--------------------------------------------------------------------------------
(* Properties *)

\* Every variable has its type: in particular no quantity that does not parse
\* ever gets into the Pod.
TypeOK ==
  /\ request \in Pod
  /\ pc \in {"decode", "policies", "profiles", "telemetry", "apply", "done"}
  /\ policies \in [Policies -> PolicySpecs \cup {Nil}]
  /\ profiles \in [Profiles -> ProfileSpecs \cup {Nil}]
  /\ todo \subseteq CASE pc = "telemetry" -> Listed(profiles)
                      [] pc = "apply" -> Listed(policies)
                      [] OTHER -> {}
  /\ pod \in Pod \cup {Nil} /\ mutated \in BOOLEAN /\ response \in Pod \cup {Nil}
  /\ pc \in {"policies", "profiles", "telemetry", "apply"} => pod \in Pod

\* What own sets, now keeps: for a map, and for a Pod.
Keeps(own, now) == \A k \in DOMAIN own : own[k] # Nil => now[k] = own[k]

PodKeeps(own, now) ==
  /\ Keeps(own.labels, now.labels)
  /\ \A c \in Containers :
       /\ Keeps(own.env[c], now.env[c])
       /\ Keeps(own.requests[c], now.requests[c])
       /\ Keeps(own.limits[c], now.limits[c])

\* The Pod that goes on has every label, environment variable, request and limit
\* its author gave it, as he gave it: the defaults only fill what is absent.
OwnSettingsKept == response # Nil => PodKeeps(request, response)

\* A policy with a quantity that does not parse.
Broken(policy) ==
  \E r \in Resources : policy.requests[r] = Invalid \/ policy.limits[r] = Invalid

BrokenPolicies == {p \in Listed(policies) : Broken(policies[p])}

\* If now differs from own, it is the value of a listed object that offers one,
\* and no object before that one in priority offers any, unless it is left out.
Preferred(list, offer, own, now, leftOut) ==
  now # own =>
    \E n \in Listed(list) :
      /\ offer[n] = now
      /\ \A m \in Listed(list) \ leftOut :
           offer[m] # Nil => list[m].priority <= list[n].priority

\* What the listed objects offer for one key.
LabelOffer(k) == [p \in Listed(policies) |-> policies[p].labels[k]]
RequestOffer(r) == [p \in Listed(policies) |-> policies[p].requests[r]]
LimitOffer(r) == [p \in Listed(policies) |-> policies[p].limits[r]]
EnvOffer(v) ==
  [t \in Listed(profiles) |-> IF Injects(profiles[t]) THEN Telemetry(profiles[t])[v] ELSE Nil]

PodPrefers(own, now) ==
  /\ \A k \in Labels : Preferred(policies, LabelOffer(k), own.labels[k], now.labels[k], {})
  /\ \A c \in Containers, v \in EnvVars :
       Preferred(profiles, EnvOffer(v), own.env[c][v], now.env[c][v], {})
  /\ \A c \in Containers, r \in Resources :
       /\ Preferred(policies, RequestOffer(r), own.requests[c][r], now.requests[c][r],
                    BrokenPolicies)
       /\ Preferred(policies, LimitOffer(r), own.limits[c][r], now.limits[c][r],
                    BrokenPolicies)

\* "Higher numbers indicate higher priority": whatever is filled in comes from
\* an object of the highest priority among those that offer it, in whatever
\* order equals are visited. Only a policy with a broken quantity may lose a
\* resource to a lower one.
HighestPriorityWins == response # Nil => PodPrefers(request, response)

\* p lacks nothing policy defaults, or profile injects.
DefaultsIn(p, policy) ==
  /\ Missing(p.labels, policy.labels) = {}
  /\ \A c \in Containers : /\ Missing(p.requests[c], policy.requests) = {}
                          /\ Missing(p.limits[c], policy.limits) = {}

TelemetryIn(p, profile) ==
  Injects(profile) => \A c \in Containers : Missing(p.env[c], Telemetry(profile)) = {}

\* When every quantity parses, no default is missed and no change goes without
\* a patch: a second pass over the same lists would find nothing to fill in.
NothingMissed ==
  response # Nil /\ BrokenPolicies = {} =>
    /\ \A p \in Listed(policies) : DefaultsIn(response, policies[p])
    /\ \A t \in Listed(profiles) : TelemetryIn(response, profiles[t])

\* "Skipping resource defaults from WorkloadPolicy due to invalid
\* configuration": a Pod that met only broken policies has the requests and
\* limits its author gave it.
BrokenResourcesSkipped ==
  response # Nil /\ BrokenPolicies = Listed(policies) =>
    response.requests = request.requests /\ response.limits = request.limits
================================================================================
