----------------------------- MODULE PodAdmission -----------------------------
(***************************************************************************)
(* A Pod on its way into the API server of a namespace: through the         *)
(* mutating webhook, the API server's own rules, and the validating         *)
(* webhook, while users write the policies, profiles and baselines that     *)
(* both webhooks read from caches which lag the API server.                 *)
(***************************************************************************)
EXTENDS Streams, ResourceAdmission

CONSTANTS
  Policies, Profiles, Baselines,            \* names of the objects in the namespace
  Namespace,
  RawPolicies, RawProfiles, RawBaselines,   \* specs users try to store
  UserPods, UserSecurity, UserLabels,       \* what users submit and relabel
  LabelValues,  \* label values the API server accepts
  MaxEdits      \* bound: writes of policies, profiles and baselines

Names == Policies \cup Profiles \cup Baselines

ASSUME AdmissionAssumption ==
  /\ Namespace \in Namespaces
  /\ Policies \cap Profiles = {} /\ Baselines \cap (Policies \cup Profiles) = {}
  /\ RawPolicies \subseteq WorkloadPolicy /\ RawProfiles \subseteq TelemetryProfile
  /\ RawBaselines \subseteq SecurityBaseline
  /\ UserPods \subseteq Pod /\ UserSecurity \subseteq Security /\ UserLabels \subseteq LabelMap
  /\ Quantities \subseteq Int

VARIABLES
  policies, profiles, baselines,  \* streams of snapshots
  edits,                          \* writes to them so far
  request, security,              \* the Pod as it was submitted
  phase,                          \* where the request is, or how it ended
  stored,                         \* the Pod the API server stores, or Nil
  mpc, mpolicies, mprofiles, mtodo, mpod, mutated, response,  \* PodMutator
  vpc, vbaselines, vtodo, verdict,                            \* PodValidator
  \* History: the names not written since the request, those whose cached
  \* version was behind at the request, and those whose stored version was
  \* applied to the stored Pod.
  steady, lagging, applied

objects == <<policies, profiles, baselines, edits>>
mutator == <<mpc, mpolicies, mprofiles, mtodo, mpod, mutated, response>>
validator == <<vpc, vbaselines, vtodo, verdict>>
history == <<steady, lagging, applied>>
vars == <<objects, request, security, phase, stored, mutator, validator, history>>

Mutator == INSTANCE PodMutator WITH
  PolicySpecs <- WorkloadPolicy, ProfileSpecs <- TelemetryProfile, PodSpecs <- Pod,
  pc <- mpc, policies <- mpolicies, profiles <- mprofiles, todo <- mtodo, pod <- mpod

Validator == INSTANCE PodValidator WITH
  pod <- security, pc <- vpc, baselines <- vbaselines, todo <- vtodo

--------------------------------------------------------------------------------
(* Users write policies, profiles and baselines *)

\* The stream after the write of obj, a spec that was validated or Nil.
Write(stream, n, obj) ==
  /\ edits < MaxEdits /\ edits' = edits + 1
  /\ Room(stream) /\ obj # Stored(stream)[n]
  /\ steady' = steady \ {n} /\ applied' = applied \ {n}
  /\ UNCHANGED <<lagging, request, security, phase, stored, mutator, validator>>

WritePolicy(p) ==
  \E spec \in {raw \in RawPolicies : validateWorkloadPolicySpec(raw)} \cup {Nil} :
    /\ Write(policies, p, spec)
    /\ policies' = Commit(policies, p, spec) /\ UNCHANGED <<profiles, baselines>>

WriteProfile(t) ==
  \E spec \in {raw \in RawProfiles : validateTelemetryProfileSpec(raw)} \cup {Nil} :
    /\ Write(profiles, t, spec)
    /\ profiles' = Commit(profiles, t, spec) /\ UNCHANGED <<policies, baselines>>

WriteBaseline(b) ==
  \E spec \in {raw \in RawBaselines : validateSecurityBaselineSpec(raw)} \cup {Nil} :
    /\ Write(baselines, b, spec)
    /\ baselines' = Commit(baselines, b, spec) /\ UNCHANGED <<policies, profiles>>

\* Each kind has an informer of its own.
Deliver ==
  /\ \/ InFlight(policies) /\ policies' = Tail(policies) /\ UNCHANGED <<profiles, baselines>>
     \/ InFlight(profiles) /\ profiles' = Tail(profiles) /\ UNCHANGED <<policies, baselines>>
     \/ InFlight(baselines) /\ baselines' = Tail(baselines) /\ UNCHANGED <<policies, profiles>>
  /\ UNCHANGED <<edits, request, security, phase, stored, mutator, validator, history>>

--------------------------------------------------------------------------------
(* The API server *)

\* A request that is left out is the limit.
Defaulted(p) ==
  [p EXCEPT !.requests = [c \in Containers |-> [r \in Resources |->
     IF p.requests[c][r] = Nil THEN p.limits[c][r] ELSE p.requests[c][r]]]]

\* The label syntax is kept, no quantity is negative and no request exceeds its
\* limit.
Valid(p) ==
  /\ \A k \in Labels : p.labels[k] # Nil => k \notin Blanks /\ p.labels[k] \in LabelValues
  /\ \A c \in Containers, r \in Resources :
       /\ p.requests[c][r] # Nil => p.requests[c][r] >= 0
       /\ p.limits[c][r] # Nil => p.limits[c][r] >= p.requests[c][r]

\* An update may change the labels.
OnlyRelabelled(p, q) == [q EXCEPT !.labels = p.labels] = p

InProgress == phase \in {"mutating", "validating"}

Submit(p, s) ==
  /\ ~InProgress
  /\ request' = Defaulted(p) /\ security' = s
  /\ phase' = "mutating"
  /\ Mutator!Submit /\ Validator!Submit
  /\ steady' = Names
  /\ lagging' = {n \in Policies : ~InSync(policies, n)} \cup
                {n \in Profiles : ~InSync(profiles, n)} \cup
                {n \in Baselines : ~InSync(baselines, n)}
  /\ UNCHANGED <<objects, stored, applied>>

CreatePod == stored = Nil /\ \E p \in UserPods, s \in UserSecurity : Submit(p, s)

RelabelPod ==
  stored # Nil /\ \E l \in UserLabels : Submit([stored EXCEPT !.labels = l], security)

DeletePod ==
  /\ ~InProgress /\ stored # Nil
  /\ stored' = Nil /\ phase' = "idle" /\ applied' = {}
  /\ UNCHANGED <<objects, request, security, mutator, validator, steady, lagging>>

\* The webhook has answered and the API server looks at the outcome itself, a
\* new Pod as a whole, an updated one against the stored.
Mutated ==
  /\ phase = "mutating" /\ mpc = "done"
  /\ phase' = CASE response = Nil -> "failed"
                [] response # Nil /\ ~Valid(Defaulted(response)) -> "invalid"
                [] /\ response # Nil /\ Valid(Defaulted(response))
                   /\ stored # Nil /\ ~OnlyRelabelled(stored, Defaulted(response)) -> "immutable"
                [] OTHER -> "validating"
  /\ UNCHANGED <<objects, request, security, stored, mutator, validator, history>>

Store ==
  /\ phase' = "stored" /\ stored' = Defaulted(response)
  /\ applied' = steady \ lagging

Validated ==
  /\ phase = "validating" /\ vpc = "done"
  /\ \/ verdict = "allowed" /\ Store
     \/ verdict = "errored" /\ phase' = "failed" /\ UNCHANGED <<stored, applied>>
     \/ /\ verdict \in Validator!Rules
        /\ phase' = "denied" /\ UNCHANGED <<stored, applied>>
  /\ UNCHANGED <<objects, request, security, mutator, validator, steady, lagging>>

\* Seeded fault: failurePolicy Ignore, for the validating webhook.
CallIgnored ==
  /\ phase = "validating" /\ Store
  /\ UNCHANGED <<objects, request, security, mutator, validator, steady, lagging>>

\* A webhook cannot be reached or is not back in time: failurePolicy Fail.
CallFails ==
  /\ InProgress /\ phase' = "failed"
  /\ UNCHANGED <<objects, request, security, stored, mutator, validator, history>>

--------------------------------------------------------------------------------
(* The operator *)

\* Handle lists from the caches as they are when it gets there.
Mutate ==
  /\ phase = "mutating"
  /\ UNCHANGED request
  /\ \/ mpolicies' = Cached(policies) /\ Mutator!ListPolicies
     \/ mprofiles' = Cached(profiles) /\ Mutator!ListProfiles
     \/ Mutator!Work
  /\ UNCHANGED <<objects, security, phase, stored, validator, history>>

Validate ==
  /\ phase = "validating"
  /\ UNCHANGED security
  /\ \/ vbaselines' = Cached(baselines) /\ Validator!ListBaselines
     \/ Validator!Work
  /\ UNCHANGED <<objects, request, phase, stored, mutator, history>>

\* The process dies, and its calls with it; a fresh one starts over the stored
\* objects.
Restart ==
  /\ policies' = <<Stored(policies)>> /\ profiles' = <<Stored(profiles)>>
  /\ baselines' = <<Stored(baselines)>>
  /\ phase' = IF InProgress THEN "failed" ELSE phase
  /\ UNCHANGED <<edits, request, security, stored, mutator, validator, history>>

--------------------------------------------------------------------------------

\* The first Pod arrives in a namespace with some objects, every one of them
\* admitted.
Init ==
  /\ policies \in {<<f>> : f \in
       [Policies -> {raw \in RawPolicies : validateWorkloadPolicySpec(raw)} \cup {Nil}]}
  /\ profiles \in {<<f>> : f \in
       [Profiles -> {raw \in RawProfiles : validateTelemetryProfileSpec(raw)} \cup {Nil}]}
  /\ baselines \in {<<f>> : f \in
       [Baselines -> {raw \in RawBaselines : validateSecurityBaselineSpec(raw)} \cup {Nil}]}
  /\ request \in {Defaulted(p) : p \in UserPods} /\ security \in UserSecurity
  /\ phase = "mutating" /\ stored = Nil /\ edits = 0
  /\ Mutator!Init /\ Validator!Init
  /\ steady = Names /\ lagging = {} /\ applied = {}

Next ==
  \/ \E p \in Policies : WritePolicy(p)
  \/ \E t \in Profiles : WriteProfile(t)
  \/ \E b \in Baselines : WriteBaseline(b)
  \/ Deliver
  \/ CreatePod \/ RelabelPod \/ DeletePod
  \/ Mutated \/ Validated \/ CallFails
  \/ Mutate \/ Validate \/ Restart

Spec == Init /\ [][Next]_vars

--------------------------------------------------------------------------------
(* Properties *)

\* Every variable has its type, those of the two handlers included.
TypeOK ==
  /\ policies \in Seq([Policies -> WorkloadPolicy \cup {Nil}]) /\ policies # << >>
  /\ profiles \in Seq([Profiles -> TelemetryProfile \cup {Nil}]) /\ profiles # << >>
  /\ baselines \in Seq([Baselines -> SecurityBaseline \cup {Nil}]) /\ baselines # << >>
  /\ edits \in Nat
  /\ phase \in {"idle", "mutating", "validating",
                "stored", "failed", "invalid", "immutable", "denied"}
  /\ stored \in Pod \cup {Nil}
  /\ steady \subseteq Names /\ lagging \subseteq Names /\ applied \subseteq Names
  /\ Mutator!TypeOK /\ Validator!TypeOK

\* The stored version of every object in names has had its say about the stored
\* Pod: it lacks no default and no telemetry, and complies unless excluded.
GovernedBy(names) ==
  /\ \A p \in Policies \cap names :
       Stored(policies)[p] # Nil => Mutator!DefaultsIn(stored, Stored(policies)[p])
  /\ \A t \in Profiles \cap names :
       Stored(profiles)[t] # Nil => Mutator!TelemetryIn(stored, Stored(profiles)[t])
  /\ \A b \in Baselines \cap names :
       LET baseline == Stored(baselines)[b]
       IN baseline # Nil =>
            Namespace \in baseline.excludedNamespaces \/ Validator!Complies(security, baseline)

\* A Pod that is stored is governed by every object that was not written since
\* its request and had reached the cache by then, whatever fails on the way.
StoredGoverned == phase = "stored" => GovernedBy(steady \ lagging)

\* "No Pod can bypass the SecurityBaseline checks or miss the WorkloadPolicy
\* defaults": every object stored before the request governs the Pod.
NoneBypass == phase = "stored" => GovernedBy(steady)

\* An update is refused for what the mutating webhook adds to it only if a policy
\* or profile has changed since the one applied to the stored Pod, or had not
\* reached the cache then: the defaults are not filled in twice.
RefusedOnlyAfterChange ==
  phase = "immutable" => ~(Policies \cup Profiles \subseteq applied)

\* The mutating webhook lists no policy whose quantities fail half-way: the other
\* webhook has kept them all out.
NoneBroken == Mutator!BrokenPolicies = {}

\* What is injected has passed admission: labels that are not blank, endpoints of
\* HTTP collectors, and sampling rates that parse and, if they are numbers, are in
\* range. What is not a number is RatesInRange's subject.
InjectedAdmitted ==
  response # Nil =>
    /\ \A k \in Labels :
         response.labels[k] # request.labels[k] => {k, response.labels[k]} \cap Blanks = {}
    /\ \A c \in Containers, v \in EnvVars :
         response.env[c][v] # request.env[c][v] =>
           IF v = "OTEL_EXPORTER_OTLP_ENDPOINT"
           THEN \E url \in DOMAIN SchemeOf :
                  response.env[c][v] = url /\ SchemeOf[url] \in {"http", "https"}
           ELSE \E rate \in DOMAIN RateOf :
                  response.env[c][v] = rate /\ RateOf[rate] \in {NaN} \cup 0..100

\* "samplingRate must be between 0 and 1": every sampling rate that is injected is.
RatesInRange ==
  response # Nil =>
    \A c \in Containers :
      LET rate == response.env[c]["OTEL_TRACES_SAMPLER_ARG"]
      IN rate # request.env[c]["OTEL_TRACES_SAMPLER_ARG"] =>
           rate \in DOMAIN RateOf /\ RateOf[rate] \in 0..100

\* The requests a default limit may meet in container c: the Pod's own, or else
\* those the listed policies default.
RequestsMet(c, r) ==
  IF request.requests[c][r] # Nil THEN {request.requests[c][r]}
  ELSE {mpolicies[q].requests[r] : q \in Mutator!Listed(mpolicies)} \ {Nil}

\* A valid Pod is invalid once its defaults are filled in for no other reason
\* than a listed policy whose label is not in the syntax, whose limit is below a
\* request it meets, or whose quantity is negative. In particular no default
\* request meets a limit of the Pod's own.
InvalidOnlyForDefaults ==
  phase = "invalid" /\ Valid(request) =>
    \E p \in Mutator!Listed(mpolicies) : LET policy == mpolicies[p] IN
      \/ \E k \in Labels :
           request.labels[k] = Nil /\ policy.labels[k] \notin LabelValues \cup {Nil}
      \/ \E c \in Containers, r \in Resources :
           /\ request.limits[c][r] = Nil /\ policy.limits[r] # Nil
           /\ \E n \in RequestsMet(c, r) \cup {0} : policy.limits[r] < n
      \/ \E c \in Containers, r \in Resources :
           /\ request.requests[c][r] = Nil /\ policy.requests[r] # Nil
           /\ policy.requests[r] < 0

\* A Pod is only allowed if it complies with every listed baseline that does not
\* exclude its namespace, in whatever order the baselines come.
AllowedComplies == Validator!AllowedComplies

\* A denial has a reason: some listed baseline that does not exclude the
\* namespace asks for what the message says, and the Pod does not have it.
DenialJustified == Validator!DenialJustified
================================================================================
