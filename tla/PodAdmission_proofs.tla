-------------------------- MODULE PodAdmission_proofs --------------------------
(***************************************************************************)
(* Between two requests, failures and writes of users, each webhook behaves *)
(* as it does alone; from what is proved of it alone follows what holds of  *)
(* the Pods the API server stores and refuses.                              *)
(***************************************************************************)
EXTENDS PodAdmission, Streams_proofs

OfMutator == INSTANCE PodMutator_proofs WITH
  PolicySpecs <- WorkloadPolicy, ProfileSpecs <- TelemetryProfile, PodSpecs <- Pod,
  pc <- mpc, policies <- mpolicies, profiles <- mprofiles, todo <- mtodo, pod <- mpod

OfValidator == INSTANCE PodValidator_proofs WITH
  pod <- security, pc <- vpc, baselines <- vbaselines, todo <- vtodo

\* The proofs of the mutating webhook fill in as the webhook does.
LEMMA SameFilling ==
  /\ \A own, defaults : /\ Mutator!Missing(own, defaults) = OfMutator!Missing(own, defaults)
                        /\ Mutator!Fill(own, defaults) = OfMutator!Fill(own, defaults)
                        /\ Mutator!Refused(own, defaults) = OfMutator!Refused(own, defaults)
                        /\ Mutator!Ranged(own, defaults) = OfMutator!Ranged(own, defaults)
  /\ \A own, defaults, keys :
       Mutator!FillIn(own, defaults, keys) = OfMutator!FillIn(own, defaults, keys)
BY DEF Mutator!Missing, OfMutator!Missing, Mutator!Fill, OfMutator!Fill, Mutator!FillIn,
       OfMutator!FillIn, Mutator!Refused, OfMutator!Refused, Mutator!Ranged, OfMutator!Ranged

\* They visit profiles and policies as the webhook does.
LEMMA SameVisits ==
  /\ \A p, profile : Mutator!applyTelemetry(p, profile) = OfMutator!applyTelemetry(p, profile)
  /\ \A p, policy :
       /\ Mutator!applyPolicyLabels(p, policy) = OfMutator!applyPolicyLabels(p, policy)
       /\ Mutator!RefusedAt(p, policy) = OfMutator!RefusedAt(p, policy)
       /\ Mutator!applyPolicyResources(p, policy) = OfMutator!applyPolicyResources(p, policy)
<1>1. \A p, profile : Mutator!applyTelemetry(p, profile) = OfMutator!applyTelemetry(p, profile)
  BY SameFilling
  DEF Mutator!applyTelemetry, OfMutator!applyTelemetry, Mutator!Injects, OfMutator!Injects,
      Mutator!Telemetry, OfMutator!Telemetry, Mutator!Containers, OfMutator!Containers,
      Mutator!EnvVars, OfMutator!EnvVars
<1>2. \A p, policy :
        /\ Mutator!applyPolicyLabels(p, policy) = OfMutator!applyPolicyLabels(p, policy)
        /\ Mutator!RefusedAt(p, policy) = OfMutator!RefusedAt(p, policy)
  BY SameFilling
  DEF Mutator!applyPolicyLabels, OfMutator!applyPolicyLabels, Mutator!RefusedAt,
      OfMutator!RefusedAt, Mutator!Containers, OfMutator!Containers
<1>3. \A p, policy, n : Mutator!FilledBelow(p, policy, n) = OfMutator!FilledBelow(p, policy, n)
  BY SameFilling
  DEF Mutator!FilledBelow, OfMutator!FilledBelow, Mutator!Containers, OfMutator!Containers
<1>4. \A p, policy, c :
        Mutator!RangedContainer(p, policy, c) = OfMutator!RangedContainer(p, policy, c)
  BY SameFilling DEF Mutator!RangedContainer, OfMutator!RangedContainer
<1>5. \A p, policy, c : Mutator!StoppedAt(p, policy, c) = OfMutator!StoppedAt(p, policy, c)
  <2> SUFFICES ASSUME NEW p, NEW policy, NEW c
               PROVE  \A q : q \in Mutator!StoppedAt(p, policy, c) <=>
                             q \in OfMutator!StoppedAt(p, policy, c)
    OBVIOUS
  <2>1. /\ Mutator!FilledBelow(p, policy, c) = OfMutator!FilledBelow(p, policy, c)
        /\ Mutator!RangedContainer(p, policy, c) = OfMutator!RangedContainer(p, policy, c)
    BY <1>3, <1>4
  <2> QED BY <2>1 DEF Mutator!StoppedAt, OfMutator!StoppedAt
<1>6. \A p, policy :
        Mutator!applyPolicyResources(p, policy) = OfMutator!applyPolicyResources(p, policy)
  BY <1>2, <1>3, <1>5 DEF Mutator!applyPolicyResources, OfMutator!applyPolicyResources
<1> QED BY <1>1, <1>2, <1>6

\* Each step of the mutating webhook is a step of the webhook that was proved.
LEMMA SameMutator ==
  /\ Mutator!Init => OfMutator!Init
  /\ Mutator!Submit => OfMutator!Submit
  /\ Mutator!ListPolicies => OfMutator!ListPolicies
  /\ Mutator!ListProfiles => OfMutator!ListProfiles
  /\ Mutator!Work => OfMutator!Work
<1>1. /\ Mutator!Init => OfMutator!Init
      /\ Mutator!Submit => OfMutator!Submit
  BY DEF Mutator!Init, OfMutator!Init, Mutator!Submit, OfMutator!Submit,
         Mutator!NoPolicies, OfMutator!NoPolicies, Mutator!NoProfiles, OfMutator!NoProfiles
<1>2. /\ Mutator!ListPolicies => OfMutator!ListPolicies
      /\ Mutator!ListProfiles => OfMutator!ListProfiles
  BY DEF Mutator!ListPolicies, OfMutator!ListPolicies, Mutator!ListProfiles,
         OfMutator!ListProfiles, Mutator!Listed, OfMutator!Listed
<1>3. Mutator!Errored \/ Mutator!Decode \/ Mutator!TelemetryApplied \/ Mutator!Respond =>
        OfMutator!Work
  BY DEF Mutator!Errored, OfMutator!Errored, Mutator!Decode, OfMutator!Decode,
         Mutator!TelemetryApplied, OfMutator!TelemetryApplied, Mutator!Respond,
         OfMutator!Respond, Mutator!Answer, OfMutator!Answer, Mutator!Listed,
         OfMutator!Listed, OfMutator!Work
<1>4. \A list : Mutator!Highest(list) = OfMutator!Highest(list)
  BY DEF Mutator!Highest, OfMutator!Highest
<1>5. \A t \in Profiles : Mutator!VisitProfile(t) => OfMutator!Work
  BY <1>4, SameVisits DEF Mutator!VisitProfile, OfMutator!VisitProfile, OfMutator!Work
<1>6. \A p \in Policies : Mutator!VisitPolicy(p) => OfMutator!Work
  BY <1>4, SameVisits DEF Mutator!VisitPolicy, OfMutator!VisitPolicy, OfMutator!Work
<1> QED BY <1>1, <1>2, <1>3, <1>5, <1>6 DEF Mutator!Work

\* The same of the validating webhook.
LEMMA SameValidator ==
  /\ Validator!Init => OfValidator!Init
  /\ Validator!Submit => OfValidator!Submit
  /\ Validator!ListBaselines => OfValidator!ListBaselines
  /\ Validator!Work => OfValidator!Work
<1>1. /\ Validator!Init => OfValidator!Init
      /\ Validator!Submit => OfValidator!Submit
  BY DEF Validator!Init, OfValidator!Init, Validator!Submit, OfValidator!Submit,
         Validator!NoBaselines, OfValidator!NoBaselines, Validator!Security,
         OfValidator!Security, Validator!Setting, OfValidator!Setting,
         Validator!Containers, OfValidator!Containers
<1>2. Validator!ListBaselines => OfValidator!ListBaselines
  BY DEF Validator!ListBaselines, OfValidator!ListBaselines,
         Validator!SecurityBaseline, OfValidator!SecurityBaseline
<1>3. \A baseline : Validator!Denials(baseline) = OfValidator!Denials(baseline)
  BY DEF Validator!Denials, OfValidator!Denials, Validator!Excluded, OfValidator!Excluded,
         Validator!Demands, OfValidator!Demands, Validator!Breaks, OfValidator!Breaks,
         Validator!Order, OfValidator!Order, Validator!Containers, OfValidator!Containers
<1>4. \A b \in Baselines : Validator!VisitBaseline(b) => OfValidator!VisitBaseline(b)
  BY <1>3 DEF Validator!VisitBaseline, OfValidator!VisitBaseline, Validator!Answer,
              OfValidator!Answer
<1>5. Validator!Errored \/ Validator!Decode \/ Validator!Allow => OfValidator!Work
  BY DEF Validator!Errored, OfValidator!Errored, Validator!Decode, OfValidator!Decode,
         Validator!Allow, OfValidator!Allow, Validator!Answer, OfValidator!Answer,
         OfValidator!Work
<1> QED BY <1>1, <1>2, <1>4, <1>5 DEF Validator!Work, OfValidator!Work

\* Whatever happens around it, each webhook takes steps of its own or none.
THEOREM ImplementsHandlers == Spec => OfMutator!Spec /\ OfValidator!Spec
<1>1. Init => OfMutator!Init /\ OfValidator!Init
  BY SameMutator, SameValidator DEF Init
<1>2. [Next]_vars => [OfMutator!Next]_(OfMutator!vars)
  <2>1. CreatePod \/ RelabelPod => OfMutator!Submit
    BY SameMutator DEF CreatePod, RelabelPod, Submit
  <2>2. Mutate => OfMutator!ListPolicies \/ OfMutator!ListProfiles \/ OfMutator!Work
    BY SameMutator DEF Mutate
  <2>3. [Next]_vars => CreatePod \/ RelabelPod \/ Mutate \/ UNCHANGED <<request, mutator>>
    BY DEF Next, vars, WritePolicy, WriteProfile, WriteBaseline, Write, Deliver,
           DeletePod, Mutated, Validated, CallFails, Validate, Restart
  <2> QED BY <2>1, <2>2, <2>3 DEF OfMutator!Next, OfMutator!vars, mutator
<1>3. [Next]_vars => [OfValidator!Next]_(OfValidator!vars)
  <2>1. CreatePod \/ RelabelPod => OfValidator!Submit
    BY SameValidator DEF CreatePod, RelabelPod, Submit
  <2>2. Validate => OfValidator!ListBaselines \/ OfValidator!Work
    BY SameValidator DEF Validate
  <2>3. [Next]_vars => CreatePod \/ RelabelPod \/ Validate \/ UNCHANGED <<security, validator>>
    BY DEF Next, vars, WritePolicy, WriteProfile, WriteBaseline, Write, Deliver,
           DeletePod, Mutated, Validated, CallFails, Mutate, Restart
  <2> QED BY <2>1, <2>2, <2>3 DEF OfValidator!Next, OfValidator!vars, validator
<1> QED BY <1>1, <1>2, <1>3, PTL DEF Spec, OfMutator!Spec, OfValidator!Spec

\* The assumptions of those proofs hold here.
LEMMA MutatorAssumptions == OfMutator!ObjectsAssumption /\ OfMutator!SpecsAssumption
<1>1. OfMutator!ObjectsAssumption
  BY ObjectsAssumption
  DEF ObjectsAssumption, OfMutator!ObjectsAssumption, OfMutator!Pod, Pod,
      OfMutator!WorkloadPolicy, WorkloadPolicy, OfMutator!TelemetryProfile, TelemetryProfile,
      OfMutator!SecurityBaseline, SecurityBaseline, OfMutator!LabelMap, LabelMap,
      OfMutator!EnvMap, EnvMap, OfMutator!EnvVars, EnvVars, OfMutator!ResourceMap, ResourceMap,
      OfMutator!DefaultMap, DefaultMap, OfMutator!Containers, Containers
<1>2. OfMutator!SpecsAssumption
  BY DEF OfMutator!SpecsAssumption, OfMutator!Pod, Pod, OfMutator!WorkloadPolicy,
         WorkloadPolicy, OfMutator!TelemetryProfile, TelemetryProfile, OfMutator!LabelMap,
         LabelMap, OfMutator!EnvMap, EnvMap, OfMutator!EnvVars, EnvVars,
         OfMutator!ResourceMap, ResourceMap, OfMutator!DefaultMap, DefaultMap,
         OfMutator!Containers, Containers
<1> QED BY <1>1, <1>2

\* What is invariant of the mutating webhook alone is so here.
LEMMA MutatorKept == Spec => []OfMutator!IInv
BY OfMutator!AlwaysIInv, MutatorAssumptions, ImplementsHandlers, PTL

\* And of the validating webhook.
LEMMA ValidatorAssumption == OfValidator!ObjectsAssumption
BY ObjectsAssumption
DEF ObjectsAssumption, OfValidator!ObjectsAssumption, OfValidator!Pod, Pod,
    OfValidator!WorkloadPolicy, WorkloadPolicy, OfValidator!TelemetryProfile,
    TelemetryProfile, OfValidator!SecurityBaseline, SecurityBaseline,
    OfValidator!LabelMap, LabelMap, OfValidator!EnvMap, EnvMap, OfValidator!EnvVars,
    EnvVars, OfValidator!ResourceMap, ResourceMap, OfValidator!DefaultMap, DefaultMap,
    OfValidator!Containers, Containers

\* What is invariant of it is so here.
LEMMA ValidatorKept == Spec => []OfValidator!IInv
BY OfValidator!Invariance, ValidatorAssumption, ImplementsHandlers, PTL

--------------------------------------------------------------------------------
(* The streams *)

\* A stream is left alone, delivered, started afresh, or written, but not at keys.
Moves(s, t, F, keys) ==
  \/ t = s
  \/ InFlight(s) /\ t = Tail(s)
  \/ t = <<Stored(s)>>
  \/ \E x \in F : t = Append(s, x) /\ \A n \in keys : x[n] = Stored(s)[n]

\* What the cache shows at a key that is in sync is what is stored.
LEMMA InSyncEnds ==
  ASSUME NEW F, NEW s \in Seq(F), s # << >>, NEW n, InSync(s, n)
  PROVE  Cached(s)[n] = Stored(s)[n]
<1>1. Stored(s) = s[Len(s)] /\ Len(s) \in DOMAIN s
  BY StreamEnds
<1> QED BY <1>1 DEF InSync

\* A key that is in sync and not written stays in sync, and what is stored at it
\* stays the same.
LEMMA MovesKeep ==
  ASSUME NEW F, NEW s \in Seq(F), s # << >>, NEW keys, NEW t, Moves(s, t, F, keys)
  PROVE  /\ t \in Seq(F) /\ t # << >>
         /\ \A n \in keys : /\ Stored(t)[n] = Stored(s)[n]
                            /\ InSync(s, n) => InSync(t, n)
<1>1. CASE t = s
  BY <1>1
<1>2. CASE InFlight(s) /\ t = Tail(s)
  <2>1. /\ t \in Seq(F) /\ t # << >> /\ Len(t) = Len(s) - 1 /\ Stored(t) = Stored(s)
        /\ \A i \in 1..Len(s) - 1 : t[i] = s[i + 1]
    BY <1>2, StreamTail
  <2>2. Len(s) \in Nat \ {0} /\ DOMAIN s = 1..Len(s) /\ DOMAIN t = 1..Len(t) /\ Cached(t) = t[1]
        /\ Len(t) \in Nat \ {0}
    BY <2>1, StreamEnds
  <2>3. ASSUME NEW n, InSync(s, n)
        PROVE  InSync(t, n)
    <3>1. \A i \in DOMAIN t : t[i][n] = Cached(s)[n]
      BY <2>1, <2>2, <2>3 DEF InSync
    <3> QED BY <2>2, <3>1 DEF InSync
  <2> QED BY <2>1, <2>3
<1>3. CASE t = <<Stored(s)>>
  <2>1. Stored(s) \in F
    BY StreamEnds
  <2>2. t \in Seq(F) /\ t # << >> /\ Len(t) = 1 /\ Stored(t) = Stored(s)
    BY <1>3, <2>1, StreamFresh
  <2>3. DOMAIN t = 1..1 /\ Cached(t) = t[1]
    BY <2>2, StreamEnds
  <2> QED BY <2>2, <2>3 DEF InSync
<1>4. CASE \E x \in F : t = Append(s, x) /\ \A n \in keys : x[n] = Stored(s)[n]
  <2>1. PICK x \in F : t = Append(s, x) /\ \A n \in keys : x[n] = Stored(s)[n]
    BY <1>4
  <2>2. /\ t \in Seq(F) /\ t # << >> /\ Len(t) = Len(s) + 1
        /\ \A i \in 1..Len(s) : t[i] = s[i]
        /\ Cached(t) = Cached(s) /\ Stored(t) = x
    BY <2>1, StreamAppend
  <2>3. /\ Len(s) \in Nat \ {0} /\ DOMAIN s = 1..Len(s) /\ DOMAIN t = 1..Len(t)
        /\ t[Len(t)] = x
    BY <2>2, StreamEnds
  <2>4. ASSUME NEW n \in keys, InSync(s, n)
        PROVE  InSync(t, n)
    <3>1. x[n] = Cached(s)[n]
      BY <2>1, <2>4, InSyncEnds
    <3>2. \A i \in DOMAIN t : t[i][n] = Cached(s)[n]
      BY <2>2, <2>3, <2>4, <3>1 DEF InSync
    <3> QED BY <2>2, <3>2 DEF InSync
  <2> QED BY <2>1, <2>2, <2>4
<1> QED BY <1>1, <1>2, <1>3, <1>4 DEF Moves

\* The specs their webhooks let through.
AdmittedPolicies == {raw \in WorkloadPolicy : validateWorkloadPolicySpec(raw)}
AdmittedProfiles == {raw \in TelemetryProfile : validateTelemetryProfileSpec(raw)}

PolicyLists == [Policies -> AdmittedPolicies \cup {Nil}]
ProfileLists == [Profiles -> AdmittedProfiles \cup {Nil}]
BaselineLists == [Baselines -> SecurityBaseline \cup {Nil}]

\* Every kind's snapshots hold what was admitted.
StreamsInv ==
  /\ policies \in Seq(PolicyLists) /\ policies # << >>
  /\ profiles \in Seq(ProfileLists) /\ profiles # << >>
  /\ baselines \in Seq(BaselineLists) /\ baselines # << >>

\* A write stores what was admitted and leaves the other keys alone.
LEMMA WritesMove ==
  ASSUME StreamsInv
  PROVE  /\ \A p \in Policies :
              WritePolicy(p) => Moves(policies, policies', PolicyLists, Policies \ {p})
         /\ \A t \in Profiles :
              WriteProfile(t) => Moves(profiles, profiles', ProfileLists, Profiles \ {t})
         /\ \A b \in Baselines :
              WriteBaseline(b) => Moves(baselines, baselines', BaselineLists, Baselines \ {b})
<1>1. /\ Stored(policies) \in PolicyLists
      /\ Stored(profiles) \in ProfileLists
      /\ Stored(baselines) \in BaselineLists
  BY StreamEnds DEF StreamsInv
<1>2. ASSUME NEW p \in Policies, WritePolicy(p)
      PROVE  Moves(policies, policies', PolicyLists, Policies \ {p})
  <2>1. PICK spec \in AdmittedPolicies \cup {Nil} : policies' = Commit(policies, p, spec)
    BY <1>2, AdmissionAssumption DEF WritePolicy, AdmittedPolicies
  <2> DEFINE x == [Stored(policies) EXCEPT ![p] = spec]
  <2>2. x \in PolicyLists /\ \A n \in Policies \ {p} : x[n] = Stored(policies)[n]
    BY <1>1 DEF PolicyLists
  <2>3. policies' = Append(policies, x)
    BY <2>1 DEF Commit
  <2> QED BY <2>2, <2>3 DEF Moves
<1>3. ASSUME NEW t \in Profiles, WriteProfile(t)
      PROVE  Moves(profiles, profiles', ProfileLists, Profiles \ {t})
  <2>1. PICK spec \in AdmittedProfiles \cup {Nil} : profiles' = Commit(profiles, t, spec)
    BY <1>3, AdmissionAssumption DEF WriteProfile, AdmittedProfiles
  <2> DEFINE x == [Stored(profiles) EXCEPT ![t] = spec]
  <2>2. x \in ProfileLists /\ \A n \in Profiles \ {t} : x[n] = Stored(profiles)[n]
    BY <1>1 DEF ProfileLists
  <2>3. profiles' = Append(profiles, x)
    BY <2>1 DEF Commit
  <2> QED BY <2>2, <2>3 DEF Moves
<1>4. ASSUME NEW b \in Baselines, WriteBaseline(b)
      PROVE  Moves(baselines, baselines', BaselineLists, Baselines \ {b})
  <2>1. PICK spec \in SecurityBaseline \cup {Nil} : baselines' = Commit(baselines, b, spec)
    BY <1>4, AdmissionAssumption DEF WriteBaseline
  <2> DEFINE x == [Stored(baselines) EXCEPT ![b] = spec]
  <2>2. x \in BaselineLists /\ \A n \in Baselines \ {b} : x[n] = Stored(baselines)[n]
    BY <1>1 DEF BaselineLists
  <2>3. baselines' = Append(baselines, x)
    BY <2>1 DEF Commit
  <2> QED BY <2>2, <2>3 DEF Moves
<1> QED BY <1>2, <1>3, <1>4

\* No step changes what is stored under a name that it leaves steady.
LEMMA StreamsMove ==
  ASSUME StreamsInv, [Next]_vars
  PROVE  /\ Moves(policies, policies', PolicyLists, Policies \cap steady')
         /\ Moves(profiles, profiles', ProfileLists, Profiles \cap steady')
         /\ Moves(baselines, baselines', BaselineLists, Baselines \cap steady')
<1>1. ASSUME NEW p \in Policies, WritePolicy(p)
      PROVE  /\ Moves(policies, policies', PolicyLists, Policies \cap steady')
             /\ UNCHANGED <<profiles, baselines>>
  <2>1. Moves(policies, policies', PolicyLists, Policies \ {p})
    BY <1>1, WritesMove
  <2>2. steady' = steady \ {p} /\ UNCHANGED <<profiles, baselines>>
    BY <1>1 DEF WritePolicy, Write
  <2> QED BY <2>1, <2>2 DEF Moves
<1>2. ASSUME NEW t \in Profiles, WriteProfile(t)
      PROVE  /\ Moves(profiles, profiles', ProfileLists, Profiles \cap steady')
             /\ UNCHANGED <<policies, baselines>>
  <2>1. Moves(profiles, profiles', ProfileLists, Profiles \ {t})
    BY <1>2, WritesMove
  <2>2. steady' = steady \ {t} /\ UNCHANGED <<policies, baselines>>
    BY <1>2 DEF WriteProfile, Write
  <2> QED BY <2>1, <2>2 DEF Moves
<1>3. ASSUME NEW b \in Baselines, WriteBaseline(b)
      PROVE  /\ Moves(baselines, baselines', BaselineLists, Baselines \cap steady')
             /\ UNCHANGED <<policies, profiles>>
  <2>1. Moves(baselines, baselines', BaselineLists, Baselines \ {b})
    BY <1>3, WritesMove
  <2>2. steady' = steady \ {b} /\ UNCHANGED <<policies, profiles>>
    BY <1>3 DEF WriteBaseline, Write
  <2> QED BY <2>1, <2>2 DEF Moves
<1>4. CASE Deliver
  BY <1>4 DEF Deliver, Moves
<1>5. CASE Restart
  BY <1>5 DEF Restart, Moves
<1>6. CASE \/ CreatePod \/ RelabelPod \/ DeletePod \/ Mutated \/ Validated \/ CallFails
           \/ Mutate \/ Validate \/ UNCHANGED vars
  <2>1. UNCHANGED objects
    BY <1>6 DEF CreatePod, RelabelPod, Submit, DeletePod, Mutated, Validated, CallFails,
                Mutate, Validate, vars
  <2> QED BY <2>1 DEF objects, Moves
<1> QED BY <1>1, <1>2, <1>3, <1>4, <1>5, <1>6 DEF Next, Moves

--------------------------------------------------------------------------------
(* What the handlers listed *)

Current == steady \ lagging

PoliciesListed == mpc \in {"profiles", "telemetry", "apply"} \/ response # Nil
ProfilesListed == mpc \in {"telemetry", "apply"} \/ response # Nil
BaselinesListed == vpc = "check" \/ verdict = "allowed"

\* A current name is in sync, and a handler that has listed has listed what is
\* stored under it.
CurrentInv ==
  /\ \A p \in Policies \cap Current :
       InSync(policies, p) /\ (PoliciesListed => mpolicies[p] = Stored(policies)[p])
  /\ \A t \in Profiles \cap Current :
       InSync(profiles, t) /\ (ProfilesListed => mprofiles[t] = Stored(profiles)[t])
  /\ \A b \in Baselines \cap Current :
       InSync(baselines, b) /\ (BaselinesListed => vbaselines[b] = Stored(baselines)[b])

ListsInv ==
  /\ mpolicies \in PolicyLists /\ mprofiles \in ProfileLists /\ vbaselines \in BaselineLists
  /\ edits \in Nat
  /\ phase \in {"idle", "mutating", "validating",
                "stored", "failed", "invalid", "immutable", "denied"}
  /\ steady \subseteq Names /\ lagging \subseteq Names /\ applied \subseteq Current

\* The handlers as they are proved.
HandlersInv == OfMutator!IInv /\ OfValidator!IInv

\* What of them matters here.
LEMMA HandlersFacts ==
  ASSUME HandlersInv
  PROVE  /\ response # Nil => mpc = "done"
         /\ verdict = "allowed" => vpc = "done"
         /\ request \in Pod /\ response \in Pod \cup {Nil} /\ security \in Security
<1>1. OfMutator!TypeOK /\ OfMutator!AnswerInv /\ OfValidator!TypeOK
  BY DEF HandlersInv, OfMutator!IInv, OfValidator!IInv
<1>2. OfMutator!Pod = Pod /\ OfValidator!Security = Security
  BY DEF OfMutator!Pod, Pod, OfMutator!LabelMap, LabelMap, OfMutator!EnvMap, EnvMap,
         OfMutator!EnvVars, EnvVars, OfMutator!ResourceMap, ResourceMap,
         OfMutator!Containers, Containers, OfValidator!Security, Security,
         OfValidator!Setting, Setting, OfValidator!Containers
<1> QED BY <1>1, <1>2 DEF OfMutator!TypeOK, OfMutator!AnswerInv, OfValidator!TypeOK

\* How a step changes the lists: only listing and the next request do, and a
\* handler that has listed does not list again.
LEMMA ListsMove ==
  ASSUME HandlersInv, [Next]_vars
  PROVE  /\ PoliciesListed' =>
              \/ PoliciesListed /\ UNCHANGED <<mpolicies, lagging>> /\ steady' \subseteq steady
              \/ mpolicies' = Cached(policies) /\ UNCHANGED <<policies, history>>
         /\ ProfilesListed' =>
              \/ ProfilesListed /\ UNCHANGED <<mprofiles, lagging>> /\ steady' \subseteq steady
              \/ mprofiles' = Cached(profiles) /\ UNCHANGED <<profiles, history>>
         /\ BaselinesListed' =>
              \/ BaselinesListed /\ UNCHANGED <<vbaselines, lagging>> /\ steady' \subseteq steady
              \/ vbaselines' = Cached(baselines) /\ UNCHANGED <<baselines, history>>
<1>1. ASSUME NEW n \in Names, \/ n \in Policies /\ WritePolicy(n)
                              \/ n \in Profiles /\ WriteProfile(n)
                              \/ n \in Baselines /\ WriteBaseline(n)
      PROVE  UNCHANGED <<mutator, validator, lagging>> /\ steady' \subseteq steady
  BY <1>1 DEF WritePolicy, WriteProfile, WriteBaseline, Write
<1>2. CASE \/ Deliver \/ Restart \/ DeletePod \/ Mutated \/ Validated \/ CallFails
           \/ UNCHANGED vars
  <2>1. UNCHANGED <<mutator, validator, steady, lagging>>
    BY <1>2 DEF Deliver, Restart, DeletePod, Mutated, Validated, CallFails, vars, history
  <2> QED BY <2>1 DEF PoliciesListed, ProfilesListed, BaselinesListed, mutator, validator
<1>3. CASE CreatePod \/ RelabelPod
  <2>1. /\ mpc' = "decode" /\ response' = Nil
        /\ vpc' = "decode" /\ verdict' = "none"
    BY <1>3 DEF CreatePod, RelabelPod, Submit, Mutator!Submit, Validator!Submit
  <2> QED BY <2>1 DEF PoliciesListed, ProfilesListed, BaselinesListed
<1>4. CASE Mutate
  <2>1. UNCHANGED <<objects, validator, history>>
    BY <1>4 DEF Mutate
  <2>2. CASE mpolicies' = Cached(policies) /\ Mutator!ListPolicies
    BY <2>1, <2>2 DEF Mutator!ListPolicies, PoliciesListed, ProfilesListed,
                      BaselinesListed, objects, validator, history
  <2>3. CASE mprofiles' = Cached(profiles) /\ Mutator!ListProfiles
    BY <2>1, <2>3 DEF Mutator!ListProfiles, PoliciesListed, ProfilesListed,
                      BaselinesListed, objects, validator, history
  <2>4. CASE Mutator!Work
    <3>1. /\ UNCHANGED <<mpolicies, mprofiles>>
          /\ \/ UNCHANGED response /\ mpc # "done" /\ mpc' = mpc
             \/ UNCHANGED response /\ mpc = "decode" /\ mpc' = "policies"
             \/ UNCHANGED response /\ mpc = "telemetry" /\ mpc' = "apply"
             \/ response' = Nil /\ mpc' = "done"
             \/ mpc = "apply" /\ mpc' = "done"
      BY <2>4 DEF Mutator!Work, Mutator!Errored, Mutator!Answer, Mutator!Decode,
                  Mutator!VisitProfile, Mutator!TelemetryApplied, Mutator!VisitPolicy,
                  Mutator!Respond
    <3> QED BY <2>1, <3>1, HandlersFacts DEF PoliciesListed, ProfilesListed,
               BaselinesListed, objects, validator, history
  <2> QED BY <1>4, <2>2, <2>3, <2>4 DEF Mutate
<1>5. CASE Validate
  <2>1. UNCHANGED <<objects, mutator, history>>
    BY <1>5 DEF Validate
  <2>2. CASE vbaselines' = Cached(baselines) /\ Validator!ListBaselines
    BY <2>1, <2>2 DEF PoliciesListed, ProfilesListed, BaselinesListed, objects, mutator,
                      history
  <2>3. CASE Validator!Work
    <3>1. /\ UNCHANGED vbaselines
          /\ BaselinesListed' => BaselinesListed
      BY <2>3 DEF Validator!Work, Validator!Errored, Validator!Answer, Validator!Decode,
                  Validator!VisitBaseline, Validator!Allow, BaselinesListed
    <3> QED BY <2>1, <3>1 DEF PoliciesListed, ProfilesListed, objects, mutator, history
  <2> QED BY <1>5, <2>2, <2>3 DEF Validate
<1>6. Policies \subseteq Names /\ Profiles \subseteq Names /\ Baselines \subseteq Names
  BY DEF Names
<1>7. ASSUME NEW n \in Names, \/ n \in Policies /\ WritePolicy(n)
                              \/ n \in Profiles /\ WriteProfile(n)
                              \/ n \in Baselines /\ WriteBaseline(n)
      PROVE  /\ PoliciesListed' => PoliciesListed
             /\ ProfilesListed' => ProfilesListed
             /\ BaselinesListed' => BaselinesListed
             /\ UNCHANGED <<mpolicies, mprofiles, vbaselines, lagging>>
             /\ steady' \subseteq steady
  BY <1>1, <1>7 DEF PoliciesListed, ProfilesListed, BaselinesListed, mutator, validator
<1> QED BY <1>2, <1>3, <1>4, <1>5, <1>6, <1>7 DEF Next

\* The names that stay current keep what they hold: a step writes none of them,
\* and one that submits a request counts only those in sync.
LEMMA CurrentStep ==
  ASSUME StreamsInv, ListsInv, CurrentInv, HandlersInv, [Next]_vars
  PROVE  StreamsInv' /\ CurrentInv'
<1>1. /\ Moves(policies, policies', PolicyLists, Policies \cap steady')
      /\ Moves(profiles, profiles', ProfileLists, Profiles \cap steady')
      /\ Moves(baselines, baselines', BaselineLists, Baselines \cap steady')
  BY StreamsMove
<1>2. StreamsInv'
  BY <1>1, MovesKeep DEF StreamsInv
<1>3. /\ \A n \in Policies \cap steady' :
           /\ Stored(policies')[n] = Stored(policies)[n]
           /\ InSync(policies, n) => InSync(policies', n)
      /\ \A n \in Profiles \cap steady' :
           /\ Stored(profiles')[n] = Stored(profiles)[n]
           /\ InSync(profiles, n) => InSync(profiles', n)
      /\ \A n \in Baselines \cap steady' :
           /\ Stored(baselines')[n] = Stored(baselines)[n]
           /\ InSync(baselines, n) => InSync(baselines', n)
  BY <1>1, MovesKeep DEF StreamsInv
<1>4. \/ UNCHANGED lagging /\ steady' \subseteq steady
      \/ /\ UNCHANGED objects
         /\ lagging' = {n \in Policies : ~InSync(policies, n)} \cup
                       {n \in Profiles : ~InSync(profiles, n)} \cup
                       {n \in Baselines : ~InSync(baselines, n)}
  BY DEF Next, WritePolicy, WriteProfile, WriteBaseline, Write, Deliver, CreatePod,
         RelabelPod, Submit, DeletePod, Mutated, Validated, CallFails, Mutate, Validate,
         Restart, vars, history
<1>5. /\ \A n \in Policies \cap Current' : InSync(policies', n)
      /\ \A n \in Profiles \cap Current' : InSync(profiles', n)
      /\ \A n \in Baselines \cap Current' : InSync(baselines', n)
  <2>1. CASE UNCHANGED lagging /\ steady' \subseteq steady
    BY <1>3, <2>1 DEF CurrentInv, Current
  <2>2. CASE /\ UNCHANGED objects
             /\ lagging' = {n \in Policies : ~InSync(policies, n)} \cup
                           {n \in Profiles : ~InSync(profiles, n)} \cup
                           {n \in Baselines : ~InSync(baselines, n)}
    BY <2>2 DEF Current, objects
  <2> QED BY <1>4, <2>1, <2>2
<1>6. ASSUME NEW p \in Policies \cap Current', PoliciesListed'
      PROVE  mpolicies'[p] = Stored(policies')[p]
  <2>1. CASE PoliciesListed /\ UNCHANGED <<mpolicies, lagging>> /\ steady' \subseteq steady
    BY <1>3, <1>6, <2>1 DEF CurrentInv, Current
  <2>2. CASE mpolicies' = Cached(policies) /\ UNCHANGED <<policies, history>>
    <3>1. InSync(policies, p)
      BY <1>6, <2>2 DEF CurrentInv, Current, history
    <3> QED BY <2>2, <3>1, InSyncEnds DEF StreamsInv
  <2> QED BY <1>6, <2>1, <2>2, ListsMove
<1>7. ASSUME NEW t \in Profiles \cap Current', ProfilesListed'
      PROVE  mprofiles'[t] = Stored(profiles')[t]
  <2>1. CASE ProfilesListed /\ UNCHANGED <<mprofiles, lagging>> /\ steady' \subseteq steady
    BY <1>3, <1>7, <2>1 DEF CurrentInv, Current
  <2>2. CASE mprofiles' = Cached(profiles) /\ UNCHANGED <<profiles, history>>
    <3>1. InSync(profiles, t)
      BY <1>7, <2>2 DEF CurrentInv, Current, history
    <3> QED BY <2>2, <3>1, InSyncEnds DEF StreamsInv
  <2> QED BY <1>7, <2>1, <2>2, ListsMove
<1>8. ASSUME NEW b \in Baselines \cap Current', BaselinesListed'
      PROVE  vbaselines'[b] = Stored(baselines')[b]
  <2>1. CASE BaselinesListed /\ UNCHANGED <<vbaselines, lagging>> /\ steady' \subseteq steady
    BY <1>3, <1>8, <2>1 DEF CurrentInv, Current
  <2>2. CASE vbaselines' = Cached(baselines) /\ UNCHANGED <<baselines, history>>
    <3>1. InSync(baselines, b)
      BY <1>8, <2>2 DEF CurrentInv, Current, history
    <3> QED BY <2>2, <3>1, InSyncEnds DEF StreamsInv
  <2> QED BY <1>8, <2>1, <2>2, ListsMove
<1> QED BY <1>2, <1>5, <1>6, <1>7, <1>8 DEF CurrentInv

\* The lists keep their type, and what was applied to the stored Pod is current.
LEMMA ListsStep ==
  ASSUME StreamsInv, ListsInv, CurrentInv, HandlersInv, [Next]_vars
  PROVE  ListsInv'
<1>1. /\ Cached(policies) \in PolicyLists
      /\ Cached(profiles) \in ProfileLists
      /\ Cached(baselines) \in BaselineLists
  BY StreamEnds DEF StreamsInv
<1>2. ASSUME NEW n \in Names, \/ n \in Policies /\ WritePolicy(n)
                              \/ n \in Profiles /\ WriteProfile(n)
                              \/ n \in Baselines /\ WriteBaseline(n)
      PROVE  ListsInv'
  <2>1. /\ UNCHANGED <<mutator, validator, phase, lagging>> /\ edits' = edits + 1
        /\ steady' = steady \ {n} /\ applied' = applied \ {n}
    BY <1>2 DEF WritePolicy, WriteProfile, WriteBaseline, Write
  <2> QED BY <2>1 DEF ListsInv, Current, mutator, validator
<1>3. CASE Deliver \/ DeletePod \/ Mutated \/ CallFails \/ Restart \/ UNCHANGED vars
  <2>1. /\ UNCHANGED <<mutator, validator, edits, steady, lagging>>
        /\ applied' \in {applied, {}}
        /\ phase' \in {phase, "idle", "validating", "failed", "invalid", "immutable"}
    BY <1>3 DEF Deliver, DeletePod, Mutated, CallFails, Restart, vars, objects, history
  <2> QED BY <2>1 DEF ListsInv, Current, mutator, validator
<1>4. CASE Validated
  <2>1. /\ UNCHANGED <<mutator, validator, edits, steady, lagging>>
        /\ applied' \in {applied, Current}
        /\ phase' \in {"stored", "failed", "denied"}
    BY <1>4 DEF Validated, Store, Current, objects
  <2> QED BY <2>1 DEF ListsInv, Current, mutator, validator
<1>5. CASE CreatePod \/ RelabelPod
  <2>1. /\ UNCHANGED <<objects, applied>> /\ phase' = "mutating" /\ steady' = Names
        /\ lagging' = {n \in Policies : ~InSync(policies, n)} \cup
                      {n \in Profiles : ~InSync(profiles, n)} \cup
                      {n \in Baselines : ~InSync(baselines, n)}
        /\ mpolicies' = [p \in Policies |-> Nil] /\ mprofiles' = [t \in Profiles |-> Nil]
        /\ vbaselines' = [b \in Baselines |-> Nil]
    BY <1>5 DEF CreatePod, RelabelPod, Submit, Mutator!Submit, Mutator!NoPolicies,
                Mutator!NoProfiles, Validator!Submit, Validator!NoBaselines
  <2>2. applied \subseteq Names /\ lagging' \subseteq Names
    BY <2>1 DEF ListsInv, Current, Names
  <2>3. applied \cap lagging' = {}
    BY <2>1, AdmissionAssumption DEF ListsInv, CurrentInv
  <2> QED BY <2>1, <2>2, <2>3
          DEF ListsInv, Current, PolicyLists, ProfileLists, BaselineLists, objects
<1>6. CASE Mutate
  <2>1. UNCHANGED <<edits, phase, steady, lagging, applied, vbaselines>>
    BY <1>6 DEF Mutate, objects, validator, history
  <2>2. mpolicies' \in {mpolicies, Cached(policies)} /\ mprofiles' \in {mprofiles, Cached(profiles)}
    BY <1>6 DEF Mutate, Mutator!ListPolicies, Mutator!ListProfiles, Mutator!Work,
                Mutator!Errored, Mutator!Decode, Mutator!VisitProfile,
                Mutator!TelemetryApplied, Mutator!VisitPolicy, Mutator!Respond
  <2> QED BY <1>1, <2>1, <2>2 DEF ListsInv, Current
<1>7. CASE Validate
  <2>1. UNCHANGED <<edits, phase, steady, lagging, applied, mpolicies, mprofiles>>
    BY <1>7 DEF Validate, objects, mutator, history
  <2>2. vbaselines' \in {vbaselines, Cached(baselines)}
    BY <1>7 DEF Validate, Validator!ListBaselines, Validator!Work, Validator!Errored,
                Validator!Decode, Validator!VisitBaseline, Validator!Allow
  <2> QED BY <1>1, <2>1, <2>2 DEF ListsInv, Current
<1>8. Policies \subseteq Names /\ Profiles \subseteq Names /\ Baselines \subseteq Names
  BY DEF Names
<1> QED BY <1>2, <1>3, <1>4, <1>5, <1>6, <1>7, <1>8 DEF Next

--------------------------------------------------------------------------------
(* What the mutating webhook answered *)

\* The lists as the proofs of the mutating webhook name them.
LEMMA SameLists ==
  /\ \A list : Mutator!Listed(list) = OfMutator!Listed(list)
  /\ Mutator!BrokenPolicies = OfMutator!BrokenPolicies
  /\ \A profile : /\ Mutator!Injects(profile) = OfMutator!Injects(profile)
                  /\ Mutator!Telemetry(profile) = OfMutator!Telemetry(profile)
BY DEF Mutator!Listed, OfMutator!Listed, Mutator!BrokenPolicies, OfMutator!BrokenPolicies,
       Mutator!Broken, OfMutator!Broken, Mutator!Injects, OfMutator!Injects,
       Mutator!Telemetry, OfMutator!Telemetry, Mutator!EnvVars, OfMutator!EnvVars

\* No policy it listed is broken.
LEMMA ListedAdmitted ==
  ASSUME ListsInv
  PROVE  OfMutator!BrokenPolicies = {}
<1>1. ASSUME NEW p \in OfMutator!Listed(mpolicies)
      PROVE  ~OfMutator!Broken(mpolicies[p])
  <2>1. mpolicies[p] \in AdmittedPolicies
    BY <1>1 DEF ListsInv, PolicyLists, OfMutator!Listed
  <2> QED BY <2>1 DEF AdmittedPolicies, validateWorkloadPolicySpec, OfMutator!Broken
<1> QED BY <1>1 DEF OfMutator!BrokenPolicies

\* The answer lacks nothing the listed objects offer.
LEMMA AnswerComplete ==
  ASSUME HandlersInv, ListsInv, response # Nil
  PROVE  /\ \A p \in Policies :
              mpolicies[p] # Nil => Mutator!DefaultsIn(response, mpolicies[p])
         /\ \A t \in Profiles :
              mprofiles[t] # Nil => Mutator!TelemetryIn(response, mprofiles[t])
<1>1. OfMutator!Completed(response, OfMutator!Listed(mprofiles), OfMutator!Listed(mpolicies))
  BY ListedAdmitted DEF HandlersInv, OfMutator!IInv, OfMutator!AnswerInv
<1>2. DOMAIN mpolicies = Policies /\ DOMAIN mprofiles = Profiles
  BY DEF ListsInv, PolicyLists, ProfileLists
<1>3. \A p \in Policies : mpolicies[p] # Nil => ~OfMutator!Broken(mpolicies[p])
  BY <1>2, ListedAdmitted DEF OfMutator!BrokenPolicies, OfMutator!Listed
<1>4. ASSUME NEW p \in Policies, mpolicies[p] # Nil
      PROVE  Mutator!DefaultsIn(response, mpolicies[p])
  <2>1. p \in OfMutator!Listed(mpolicies) /\ ~OfMutator!Broken(mpolicies[p])
    BY <1>2, <1>3, <1>4 DEF OfMutator!Listed
  <2> QED BY <1>1, <2>1, SameFilling
          DEF OfMutator!Completed, Mutator!DefaultsIn, OfMutator!Containers, Mutator!Containers
<1>5. ASSUME NEW t \in Profiles, mprofiles[t] # Nil
      PROVE  Mutator!TelemetryIn(response, mprofiles[t])
  <2>1. t \in OfMutator!Listed(mprofiles)
    BY <1>2, <1>5 DEF OfMutator!Listed
  <2> QED BY <1>1, <2>1, SameFilling, SameLists
          DEF OfMutator!Completed, Mutator!TelemetryIn, OfMutator!Containers, Mutator!Containers
<1> QED BY <1>4, <1>5

\* What the answer adds to the request was left out there and comes from a listed
\* object.
LEMMA AnswerAdds ==
  ASSUME HandlersInv, ListsInv, response # Nil
  PROVE  /\ \A k \in Labels : response.labels[k] # request.labels[k] =>
              /\ request.labels[k] = Nil
              /\ \E p \in Policies : /\ mpolicies[p] # Nil
                                     /\ mpolicies[p].labels[k] = response.labels[k]
         /\ \A c \in Containers, v \in EnvVars : response.env[c][v] # request.env[c][v] =>
              /\ request.env[c][v] = Nil
              /\ \E t \in Profiles : /\ mprofiles[t] # Nil /\ Mutator!Injects(mprofiles[t])
                                     /\ Mutator!Telemetry(mprofiles[t])[v] = response.env[c][v]
         /\ \A c \in Containers, r \in Resources :
              /\ response.requests[c][r] # request.requests[c][r] =>
                   /\ request.requests[c][r] = Nil
                   /\ \E p \in Policies : /\ mpolicies[p] # Nil
                                          /\ mpolicies[p].requests[r] = response.requests[c][r]
              /\ response.limits[c][r] # request.limits[c][r] =>
                   /\ request.limits[c][r] = Nil
                   /\ \E p \in Policies : /\ mpolicies[p] # Nil
                                          /\ mpolicies[p].limits[r] = response.limits[c][r]
<1>1. OfMutator!PodKeeps(request, response) /\ OfMutator!PodPrefers(request, response)
  BY DEF HandlersInv, OfMutator!IInv, OfMutator!AnswerInv
<1>2. /\ \A p \in OfMutator!Listed(mpolicies) : p \in Policies /\ mpolicies[p] # Nil
      /\ \A t \in OfMutator!Listed(mprofiles) : t \in Profiles /\ mprofiles[t] # Nil
  BY DEF ListsInv, PolicyLists, ProfileLists, OfMutator!Listed
<1>3. request \in Pod /\ OfMutator!Containers = Containers /\ OfMutator!EnvVars = EnvVars
  BY HandlersFacts DEF OfMutator!Containers, Containers, OfMutator!EnvVars, EnvVars
<1>4. /\ DOMAIN request.labels = Labels
      /\ \A c \in Containers : /\ DOMAIN request.env[c] = EnvVars
                               /\ DOMAIN request.requests[c] = Resources
                               /\ DOMAIN request.limits[c] = Resources
  BY <1>3 DEF Pod, LabelMap, EnvMap, ResourceMap
<1>5. ASSUME NEW k \in Labels, response.labels[k] # request.labels[k]
      PROVE  /\ request.labels[k] = Nil
             /\ \E p \in Policies : /\ mpolicies[p] # Nil
                                    /\ mpolicies[p].labels[k] = response.labels[k]
  <2>1. request.labels[k] = Nil
    BY <1>1, <1>4, <1>5 DEF OfMutator!PodKeeps, OfMutator!Keeps
  <2>2. PICK p \in OfMutator!Listed(mpolicies) :
          OfMutator!LabelOffer(k)[p] = response.labels[k]
    BY <1>1, <1>5 DEF OfMutator!PodPrefers, OfMutator!Preferred
  <2> QED BY <1>2, <2>1, <2>2 DEF OfMutator!LabelOffer
<1>6. ASSUME NEW c \in Containers, NEW v \in EnvVars,
             response.env[c][v] # request.env[c][v]
      PROVE  /\ request.env[c][v] = Nil
             /\ \E t \in Profiles : /\ mprofiles[t] # Nil /\ Mutator!Injects(mprofiles[t])
                                    /\ Mutator!Telemetry(mprofiles[t])[v] = response.env[c][v]
  <2>1. request.env[c][v] = Nil
    BY <1>1, <1>3, <1>4, <1>6 DEF OfMutator!PodKeeps, OfMutator!Keeps
  <2>2. PICK t \in OfMutator!Listed(mprofiles) :
          OfMutator!EnvOffer(v)[t] = response.env[c][v]
    BY <1>1, <1>3, <1>6 DEF OfMutator!PodPrefers, OfMutator!Preferred
  <2>3. /\ OfMutator!Injects(mprofiles[t])
        /\ OfMutator!Telemetry(mprofiles[t])[v] = response.env[c][v]
    BY <1>6, <2>1, <2>2 DEF OfMutator!EnvOffer
  <2> QED BY <1>2, <2>1, <2>3, SameLists
<1>7. ASSUME NEW c \in Containers, NEW r \in Resources,
             response.requests[c][r] # request.requests[c][r]
      PROVE  /\ request.requests[c][r] = Nil
             /\ \E p \in Policies : /\ mpolicies[p] # Nil
                                    /\ mpolicies[p].requests[r] = response.requests[c][r]
  <2>1. request.requests[c][r] = Nil
    BY <1>1, <1>3, <1>4, <1>7 DEF OfMutator!PodKeeps, OfMutator!Keeps
  <2>2. PICK p \in OfMutator!Listed(mpolicies) :
          OfMutator!RequestOffer(r)[p] = response.requests[c][r]
    BY <1>1, <1>3, <1>7 DEF OfMutator!PodPrefers, OfMutator!Preferred
  <2> QED BY <1>2, <2>1, <2>2 DEF OfMutator!RequestOffer
<1>8. ASSUME NEW c \in Containers, NEW r \in Resources,
             response.limits[c][r] # request.limits[c][r]
      PROVE  /\ request.limits[c][r] = Nil
             /\ \E p \in Policies : /\ mpolicies[p] # Nil
                                    /\ mpolicies[p].limits[r] = response.limits[c][r]
  <2>1. request.limits[c][r] = Nil
    BY <1>1, <1>3, <1>4, <1>8 DEF OfMutator!PodKeeps, OfMutator!Keeps
  <2>2. PICK p \in OfMutator!Listed(mpolicies) :
          OfMutator!LimitOffer(r)[p] = response.limits[c][r]
    BY <1>1, <1>3, <1>8 DEF OfMutator!PodPrefers, OfMutator!Preferred
  <2> QED BY <1>2, <2>1, <2>2 DEF OfMutator!LimitOffer
<1> QED BY <1>5, <1>6, <1>7, <1>8

--------------------------------------------------------------------------------
(* The Pod that is stored *)

\* The requests after the API server's own defaults.
DefaultedRequests(p) ==
  [c \in Containers |-> [r \in Resources |->
     IF p.requests[c][r] = Nil THEN p.limits[c][r] ELSE p.requests[c][r]]]

\* Those defaults change no label, variable or limit, and no request that is set.
LEMMA DefaultedFacts ==
  ASSUME NEW p \in Pod
  PROVE  /\ Defaulted(p) \in Pod
         /\ Defaulted(p).labels = p.labels /\ Defaulted(p).env = p.env
         /\ Defaulted(p).limits = p.limits
         /\ Defaulted(p).requests = DefaultedRequests(p)
<1>1. \A c \in Containers : p.requests[c] \in ResourceMap /\ p.limits[c] \in ResourceMap
  BY DEF Pod
<1>2. DefaultedRequests(p) \in [Containers -> ResourceMap]
  BY <1>1 DEF DefaultedRequests, ResourceMap
<1>3. Defaulted(p) = [p EXCEPT !.requests = DefaultedRequests(p)]
  BY DEF Defaulted, DefaultedRequests
<1> QED BY <1>2, <1>3 DEF Pod

\* They depend on requests and limits alone.
LEMMA DefaultedSame ==
  ASSUME NEW p \in Pod, NEW q \in Pod, p.requests = q.requests, p.limits = q.limits
  PROVE  Defaulted(p).requests = Defaulted(q).requests
<1>1. DefaultedRequests(p) = DefaultedRequests(q)
  BY DEF DefaultedRequests
<1> QED BY <1>1, DefaultedFacts

\* What was filled in stays filled in under the API server's defaults.
LEMMA DefaultedKeeps ==
  ASSUME NEW p \in Pod
  PROVE  /\ \A policy : Mutator!DefaultsIn(p, policy) => Mutator!DefaultsIn(Defaulted(p), policy)
         /\ \A profile :
              Mutator!TelemetryIn(p, profile) => Mutator!TelemetryIn(Defaulted(p), profile)
<1>1. ASSUME NEW c \in Containers
      PROVE  \A d : Mutator!Missing(p.requests[c], d) = {} =>
                      Mutator!Missing(Defaulted(p).requests[c], d) = {}
  <2>1. DOMAIN p.requests[c] = Resources
    BY DEF Pod, ResourceMap
  <2>2. /\ DOMAIN Defaulted(p).requests[c] = Resources
        /\ \A r \in Resources : p.requests[c][r] # Nil => Defaulted(p).requests[c][r] # Nil
    <3>1. Defaulted(p).requests = DefaultedRequests(p)
      BY DefaultedFacts
    <3>2. DefaultedRequests(p)[c] = [r \in Resources |->
            IF p.requests[c][r] = Nil THEN p.limits[c][r] ELSE p.requests[c][r]]
      BY DEF DefaultedRequests
    <3> QED BY <3>1, <3>2
  <2> QED BY <2>1, <2>2 DEF Mutator!Missing
<1>2. Mutator!Containers = Containers
  BY DEF Mutator!Containers, Containers
<1> QED BY <1>1, <1>2, DefaultedFacts DEF Mutator!DefaultsIn, Mutator!TelemetryIn

\* A request that only relabels a stored Pod arrives as it was sent.
LEMMA RelabelledFacts ==
  ASSUME NEW p \in Pod, Defaulted(p) = p, NEW l \in LabelMap
  PROVE  LET q == Defaulted([p EXCEPT !.labels = l])
         IN q.env = p.env /\ q.requests = p.requests /\ q.limits = p.limits
<1> DEFINE r == [p EXCEPT !.labels = l]
<1>1. /\ r \in Pod /\ r.env = p.env
      /\ r.requests = p.requests /\ r.limits = p.limits
  BY DEF Pod
<1> HIDE DEF r
<1>2. Defaulted(r).requests = Defaulted(p).requests
  BY <1>1, DefaultedSame
<1>3. Defaulted(r).env = p.env /\ Defaulted(r).requests = p.requests
      /\ Defaulted(r).limits = p.limits
  BY <1>1, <1>2, DefaultedFacts
<1> QED BY <1>3 DEF r

\* The stored versions of the policies and profiles in names lack nothing in the
\* stored Pod.
FilledBy(names) ==
  /\ \A p \in Policies \cap names :
       Stored(policies)[p] # Nil => Mutator!DefaultsIn(stored, Stored(policies)[p])
  /\ \A t \in Profiles \cap names :
       Stored(profiles)[t] # Nil => Mutator!TelemetryIn(stored, Stored(profiles)[t])

\* The stored Pod is filled in by what was applied to it, and what an update
\* changes of it.
PodInv ==
  /\ stored \in Pod \cup {Nil}
  /\ stored # Nil => Defaulted(stored) = stored /\ FilledBy(applied)
  /\ phase = "mutating" /\ stored # Nil =>
       /\ request.env = stored.env
       /\ request.requests = stored.requests /\ request.limits = stored.limits
  /\ phase = "validating" => response # Nil
  /\ phase = "stored" => stored # Nil /\ verdict = "allowed" /\ applied = Current
  /\ phase = "immutable" => ~(Policies \cup Profiles \subseteq applied)

Inv == StreamsInv /\ ListsInv /\ CurrentInv /\ PodInv

\* At first nothing is stored and no write is lost on the way.
LEMMA InvInit == Init => Inv
<1> SUFFICES ASSUME Init PROVE Inv
  OBVIOUS
<1>1. PICK f \in PolicyLists : policies = <<f>>
  BY AdmissionAssumption DEF Init, PolicyLists, AdmittedPolicies
<1>2. PICK g \in ProfileLists : profiles = <<g>>
  BY AdmissionAssumption DEF Init, ProfileLists, AdmittedProfiles
<1>3. PICK h \in BaselineLists : baselines = <<h>>
  BY AdmissionAssumption DEF Init, BaselineLists
<1>4. StreamsInv
  BY <1>1, <1>2, <1>3 DEF StreamsInv
<1>5. /\ mpc = "decode" /\ response = Nil /\ vpc = "decode" /\ verdict = "none"
      /\ mpolicies = [p \in Policies |-> Nil] /\ mprofiles = [t \in Profiles |-> Nil]
      /\ vbaselines = [b \in Baselines |-> Nil]
      /\ phase = "mutating" /\ stored = Nil /\ edits = 0
      /\ steady = Names /\ lagging = {} /\ applied = {}
  BY DEF Init, Mutator!Init, Mutator!NoPolicies, Mutator!NoProfiles, Validator!Init,
         Validator!NoBaselines
<1>6. CurrentInv
  <2>1. /\ \A p \in Policies : InSync(policies, p)
        /\ \A t \in Profiles : InSync(profiles, t)
        /\ \A b \in Baselines : InSync(baselines, b)
    BY <1>1, <1>2, <1>3 DEF InSync, Cached
  <2> QED BY <1>5, <2>1 DEF CurrentInv, PoliciesListed, ProfilesListed, BaselinesListed
<1>7. ListsInv
  BY <1>5 DEF ListsInv, PolicyLists, ProfileLists, BaselineLists, Current
<1>8. PodInv
  BY <1>5 DEF PodInv
<1> QED BY <1>4, <1>6, <1>7, <1>8 DEF Inv

\* What was applied and stays applied was not written.
LEMMA FilledKept ==
  ASSUME StreamsInv, ListsInv, ListsInv', [Next]_vars, UNCHANGED stored,
         applied' \subseteq applied, FilledBy(applied)
  PROVE  FilledBy(applied)'
<1>1. /\ Moves(policies, policies', PolicyLists, Policies \cap steady')
      /\ Moves(profiles, profiles', ProfileLists, Profiles \cap steady')
  BY StreamsMove
<1>2. applied' \subseteq steady'
  BY DEF ListsInv, Current
<1>3. /\ \A p \in Policies \cap applied' : Stored(policies')[p] = Stored(policies)[p]
      /\ \A t \in Profiles \cap applied' : Stored(profiles')[t] = Stored(profiles)[t]
  BY <1>1, <1>2, MovesKeep DEF StreamsInv
<1> QED BY <1>3 DEF FilledBy, Mutator!DefaultsIn, Mutator!TelemetryIn

\* When all policies and profiles were applied to the stored Pod, an update of
\* its labels comes out of the webhook as such.
LEMMA UpdateKept ==
  ASSUME ListsInv, CurrentInv, HandlersInv, PodInv, phase = "mutating", response # Nil,
         stored # Nil, Policies \cup Profiles \subseteq applied
  PROVE  OnlyRelabelled(stored, Defaulted(response))
<1>1. /\ \A p \in Policies : mpolicies[p] = Stored(policies)[p]
      /\ \A t \in Profiles : mprofiles[t] = Stored(profiles)[t]
  BY DEF ListsInv, CurrentInv, PoliciesListed, ProfilesListed
<1>2. /\ \A p \in Policies : mpolicies[p] # Nil => Mutator!DefaultsIn(stored, mpolicies[p])
      /\ \A t \in Profiles : mprofiles[t] # Nil => Mutator!TelemetryIn(stored, mprofiles[t])
  BY <1>1 DEF PodInv, FilledBy
<1>3. request \in Pod /\ response \in Pod /\ stored \in Pod /\ Defaulted(stored) = stored
  BY HandlersFacts DEF PodInv
<1>4. /\ request.env = stored.env /\ request.requests = stored.requests
      /\ request.limits = stored.limits
  BY DEF PodInv
<1>5. Mutator!Containers = Containers
  BY DEF Mutator!Containers, Containers
<1>6. \A c \in Containers : /\ DOMAIN stored.env[c] = EnvVars
                            /\ DOMAIN stored.requests[c] = Resources
                            /\ DOMAIN stored.limits[c] = Resources
  BY <1>3 DEF Pod, EnvMap, ResourceMap
<1>7. \A c \in Containers, v \in EnvVars : response.env[c][v] = stored.env[c][v]
  <2> SUFFICES ASSUME NEW c \in Containers, NEW v \in EnvVars,
                      response.env[c][v] # request.env[c][v]
               PROVE  FALSE
    BY <1>4
  <2>1. PICK t \in Profiles :
          /\ mprofiles[t] # Nil /\ Mutator!Injects(mprofiles[t])
          /\ Mutator!Telemetry(mprofiles[t])[v] = response.env[c][v]
    BY AnswerAdds
  <2>2. request.env[c][v] = Nil
    BY AnswerAdds
  <2>3. Mutator!Missing(stored.env[c], Mutator!Telemetry(mprofiles[t])) = {}
    BY <1>2, <1>5, <2>1 DEF Mutator!TelemetryIn
  <2> QED BY <1>4, <1>6, <2>1, <2>2, <2>3 DEF Mutator!Missing
<1>8. \A c \in Containers, r \in Resources : response.requests[c][r] = stored.requests[c][r]
  <2> SUFFICES ASSUME NEW c \in Containers, NEW r \in Resources,
                      response.requests[c][r] # request.requests[c][r]
               PROVE  FALSE
    BY <1>4
  <2>1. PICK p \in Policies : /\ mpolicies[p] # Nil
                              /\ mpolicies[p].requests[r] = response.requests[c][r]
    BY AnswerAdds
  <2>2. request.requests[c][r] = Nil
    BY AnswerAdds
  <2>3. Mutator!Missing(stored.requests[c], mpolicies[p].requests) = {}
    BY <1>2, <1>5, <2>1 DEF Mutator!DefaultsIn
  <2> QED BY <1>4, <1>6, <2>1, <2>2, <2>3 DEF Mutator!Missing
<1>9. \A c \in Containers, r \in Resources : response.limits[c][r] = stored.limits[c][r]
  <2> SUFFICES ASSUME NEW c \in Containers, NEW r \in Resources,
                      response.limits[c][r] # request.limits[c][r]
               PROVE  FALSE
    BY <1>4
  <2>1. PICK p \in Policies : /\ mpolicies[p] # Nil
                              /\ mpolicies[p].limits[r] = response.limits[c][r]
    BY AnswerAdds
  <2>2. request.limits[c][r] = Nil
    BY AnswerAdds
  <2>3. Mutator!Missing(stored.limits[c], mpolicies[p].limits) = {}
    BY <1>2, <1>5, <2>1 DEF Mutator!DefaultsIn
  <2> QED BY <1>4, <1>6, <2>1, <2>2, <2>3 DEF Mutator!Missing
<1>10. /\ response.env = stored.env /\ response.requests = stored.requests
       /\ response.limits = stored.limits
  BY <1>3, <1>7, <1>8, <1>9 DEF Pod, EnvMap, ResourceMap
<1>11. /\ Defaulted(response).env = stored.env
       /\ Defaulted(response).requests = stored.requests
       /\ Defaulted(response).limits = stored.limits
       /\ Defaulted(response) \in Pod
  <2>1. Defaulted(response).requests = Defaulted(stored).requests
    BY <1>3, <1>10, DefaultedSame
  <2> QED BY <1>3, <1>10, <2>1, DefaultedFacts
<1> QED BY <1>3, <1>11 DEF OnlyRelabelled, Pod

\* A Pod that is stored lacks nothing of what is current.
LEMMA StoreFills ==
  ASSUME ListsInv, CurrentInv, HandlersInv, PodInv, HandlersInv', Validated, phase' = "stored"
  PROVE  PodInv'
<1>1. /\ phase = "validating" /\ verdict = "allowed" /\ stored' = Defaulted(response)
      /\ applied' = Current /\ UNCHANGED <<policies, profiles, steady, lagging, verdict>>
  BY DEF Validated, Store, Current, objects, validator
<1>2. response # Nil /\ response \in Pod
  BY <1>1, HandlersFacts DEF PodInv
<1>3. /\ Defaulted(response) \in Pod
      /\ Defaulted(Defaulted(response)) = Defaulted(response)
  <2>1. Defaulted(response) \in Pod
    BY <1>2, DefaultedFacts
  <2>2. DefaultedRequests(Defaulted(response)) = DefaultedRequests(response)
    <3>1. /\ Defaulted(response).requests = DefaultedRequests(response)
          /\ Defaulted(response).limits = response.limits
      BY <1>2, DefaultedFacts
    <3>2. \A c \in Containers, r \in Resources :
            DefaultedRequests(response)[c][r] =
              IF response.requests[c][r] = Nil THEN response.limits[c][r]
              ELSE response.requests[c][r]
      BY DEF DefaultedRequests
    <3>3. \A c \in Containers, r \in Resources :
            DefaultedRequests(Defaulted(response))[c][r] =
              IF DefaultedRequests(response)[c][r] = Nil THEN response.limits[c][r]
              ELSE DefaultedRequests(response)[c][r]
      BY <3>1 DEF DefaultedRequests
    <3>4. \A c \in Containers, r \in Resources :
            DefaultedRequests(Defaulted(response))[c][r] = DefaultedRequests(response)[c][r]
      BY <3>2, <3>3
    <3>5. /\ DefaultedRequests(Defaulted(response)) \in [Containers -> ResourceMap]
          /\ DefaultedRequests(response) \in [Containers -> ResourceMap]
      <4>1. \A p \in Pod : Defaulted(p).requests \in [Containers -> ResourceMap]
        BY DefaultedFacts DEF Pod
      <4> QED BY <1>2, <2>1, <4>1, DefaultedFacts
    <3> QED BY <3>4, <3>5 DEF ResourceMap
  <2>3. /\ Defaulted(Defaulted(response)) \in Pod
        /\ Defaulted(Defaulted(response)).labels = Defaulted(response).labels
        /\ Defaulted(Defaulted(response)).env = Defaulted(response).env
        /\ Defaulted(Defaulted(response)).limits = Defaulted(response).limits
        /\ Defaulted(Defaulted(response)).requests = Defaulted(response).requests
    BY <1>2, <2>1, <2>2, DefaultedFacts
  <2> QED BY <2>1, <2>3 DEF Pod
<1>4. /\ \A p \in Policies \cap Current : mpolicies[p] = Stored(policies)[p]
      /\ \A t \in Profiles \cap Current : mprofiles[t] = Stored(profiles)[t]
  BY <1>2 DEF CurrentInv, PoliciesListed, ProfilesListed
<1>5. /\ \A p \in Policies \cap Current : Stored(policies)[p] # Nil =>
           Mutator!DefaultsIn(stored', Stored(policies)[p])
      /\ \A t \in Profiles \cap Current : Stored(profiles)[t] # Nil =>
           Mutator!TelemetryIn(stored', Stored(profiles)[t])
  BY <1>1, <1>2, <1>4, AnswerComplete, DefaultedKeeps
<1>6. FilledBy(applied)'
  BY <1>1, <1>5 DEF FilledBy, Mutator!DefaultsIn, Mutator!TelemetryIn
<1>7. stored' \in Pod /\ stored' # Nil /\ (Defaulted(stored) = stored)'
  <2>1. stored' \in Pod /\ stored' # Nil
    BY <1>1, <1>3, ObjectsAssumption
  <2>2. Defaulted(stored') = stored'
    BY <1>1, <1>3
  <2> QED BY <2>1, <2>2
<1>8. (applied = Current)'
  BY <1>1 DEF Current
<1> QED BY <1>1, <1>6, <1>7, <1>8 DEF PodInv

\* The step of the inductive invariant that is about the stored Pod.
LEMMA PodStep ==
  ASSUME StreamsInv, ListsInv, CurrentInv, HandlersInv, PodInv,
         ListsInv', HandlersInv', [Next]_vars
  PROVE  PodInv'
<1>1. ASSUME UNCHANGED stored, applied' \subseteq applied
      PROVE  /\ stored' \in Pod \cup {Nil}
             /\ stored' # Nil => (Defaulted(stored) = stored)' /\ FilledBy(applied)'
  BY <1>1, FilledKept DEF PodInv, Defaulted
<1>2. ASSUME NEW n \in Names, \/ n \in Policies /\ WritePolicy(n)
                              \/ n \in Profiles /\ WriteProfile(n)
                              \/ n \in Baselines /\ WriteBaseline(n)
      PROVE  PodInv'
  <2>1. /\ UNCHANGED <<request, stored, phase, lagging, response, verdict>>
        /\ steady' = steady \ {n} /\ applied' = applied \ {n}
    BY <1>2 DEF WritePolicy, WriteProfile, WriteBaseline, Write, mutator, validator
  <2>2. /\ stored' \in Pod \cup {Nil}
        /\ stored' # Nil => (Defaulted(stored) = stored)' /\ FilledBy(applied)'
    BY <1>1, <2>1
  <2> QED BY <2>1, <2>2 DEF PodInv, Current
<1>3. CASE Deliver \/ CallFails \/ Restart \/ UNCHANGED vars
  <2>1. /\ UNCHANGED <<request, stored, steady, lagging, applied, response, verdict>>
        /\ phase' \in {phase, "failed"}
    BY <1>3 DEF Deliver, CallFails, Restart, vars, history, mutator, validator
  <2>2. /\ stored' \in Pod \cup {Nil}
        /\ stored' # Nil => (Defaulted(stored) = stored)' /\ FilledBy(applied)'
    BY <1>1, <2>1
  <2> QED BY <2>1, <2>2 DEF PodInv, Current
<1>4. CASE CreatePod \/ RelabelPod
  <2>1. /\ UNCHANGED <<stored, applied>> /\ phase' = "mutating"
        /\ \/ stored = Nil
           \/ stored # Nil /\ \E l \in UserLabels :
                request' = Defaulted([stored EXCEPT !.labels = l])
    BY <1>4 DEF CreatePod, RelabelPod, Submit
  <2>2. /\ stored' \in Pod \cup {Nil}
        /\ stored' # Nil => (Defaulted(stored) = stored)' /\ FilledBy(applied)'
    BY <1>1, <2>1
  <2>3. stored' # Nil => /\ request'.env = stored'.env
                         /\ request'.requests = stored'.requests
                         /\ request'.limits = stored'.limits
    <3> SUFFICES ASSUME stored # Nil
                 PROVE  /\ request'.env = stored.env
                        /\ request'.requests = stored.requests
                        /\ request'.limits = stored.limits
      BY <2>1
    <3>1. PICK l \in UserLabels : request' = Defaulted([stored EXCEPT !.labels = l])
      BY <2>1
    <3>2. l \in LabelMap /\ stored \in Pod /\ Defaulted(stored) = stored
      BY AdmissionAssumption DEF PodInv
    <3> QED BY <3>1, <3>2, RelabelledFacts
  <2> QED BY <2>1, <2>2, <2>3 DEF PodInv
<1>5. CASE DeletePod
  BY <1>5 DEF DeletePod, PodInv
<1>6. CASE Mutated
  <2>1. /\ UNCHANGED <<request, stored, steady, lagging, applied, response, verdict>>
        /\ phase = "mutating"
        /\ \/ phase' \in {"failed", "invalid"}
           \/ phase' = "validating" /\ response # Nil
           \/ /\ phase' = "immutable" /\ response # Nil /\ stored # Nil
              /\ ~OnlyRelabelled(stored, Defaulted(response))
    BY <1>6 DEF Mutated, history, mutator, validator
  <2>2. /\ stored' \in Pod \cup {Nil}
        /\ stored' # Nil => (Defaulted(stored) = stored)' /\ FilledBy(applied)'
    BY <1>1, <2>1
  <2>3. phase' = "immutable" => ~(Policies \cup Profiles \subseteq applied')
    BY <2>1, UpdateKept
  <2> QED BY <2>1, <2>2, <2>3 DEF PodInv
<1>7. CASE Validated
  <2>1. CASE phase' = "stored"
    BY <1>7, <2>1, StoreFills
  <2>2. CASE phase' # "stored"
    <3>1. UNCHANGED <<stored, applied>> /\ phase' \in {"failed", "denied"}
      BY <1>7, <2>2 DEF Validated, Store
    <3>2. /\ stored' \in Pod \cup {Nil}
          /\ stored' # Nil => (Defaulted(stored) = stored)' /\ FilledBy(applied)'
      BY <1>1, <3>1
    <3> QED BY <3>1, <3>2 DEF PodInv
  <2> QED BY <2>1, <2>2
<1>8. CASE Mutate
  <2>1. /\ phase = "mutating" /\ UNCHANGED <<request, phase, stored, applied>>
    BY <1>8 DEF Mutate, history
  <2>2. /\ stored' \in Pod \cup {Nil}
        /\ stored' # Nil => (Defaulted(stored) = stored)' /\ FilledBy(applied)'
    BY <1>1, <2>1
  <2> QED BY <2>1, <2>2 DEF PodInv
<1>9. CASE Validate
  <2>1. /\ phase = "validating" /\ UNCHANGED <<request, phase, stored, applied, response>>
    BY <1>9 DEF Validate, history, mutator
  <2>2. /\ stored' \in Pod \cup {Nil}
        /\ stored' # Nil => (Defaulted(stored) = stored)' /\ FilledBy(applied)'
    BY <1>1, <2>1
  <2> QED BY <2>1, <2>2 DEF PodInv
<1>10. Policies \subseteq Names /\ Profiles \subseteq Names /\ Baselines \subseteq Names
  BY DEF Names
<1> QED BY <1>2, <1>3, <1>4, <1>5, <1>6, <1>7, <1>8, <1>9, <1>10 DEF Next

\* What holds of the streams, the lists and the stored Pod in every state, next to
\* what holds of the webhooks.
THEOREM Invariance == Spec => [](Inv /\ HandlersInv)
<1>1. Spec => []HandlersInv
  BY MutatorKept, ValidatorKept, PTL DEF HandlersInv
<1>2. Inv /\ HandlersInv /\ HandlersInv' /\ [Next]_vars => Inv'
  BY CurrentStep, ListsStep, PodStep DEF Inv
<1> QED BY InvInit, <1>1, <1>2, PTL DEF Spec

--------------------------------------------------------------------------------
(* The Pod that the API server refuses *)

\* A request has what the API server defaults, and a Pod found invalid is.
RefusalInv ==
  /\ \A c \in Containers, r \in Resources :
       request.limits[c][r] # Nil => request.requests[c][r] # Nil
  /\ phase = "invalid" => response # Nil /\ ~Valid(Defaulted(response))

\* With the API server's defaults every limit has a request next to it.
LEMMA DefaultedPairs ==
  ASSUME NEW p \in Pod, NEW c \in Containers, NEW r \in Resources
  PROVE  /\ Defaulted(p).requests[c][r] = IF p.requests[c][r] = Nil THEN p.limits[c][r]
                                                                    ELSE p.requests[c][r]
         /\ Defaulted(p).limits[c][r] # Nil => Defaulted(p).requests[c][r] # Nil
<1>1. Defaulted(p).requests = DefaultedRequests(p) /\ Defaulted(p).limits = p.limits
  BY DefaultedFacts
<1>2. DefaultedRequests(p)[c][r] = IF p.requests[c][r] = Nil THEN p.limits[c][r]
                                                             ELSE p.requests[c][r]
  BY DEF DefaultedRequests
<1> QED BY <1>1, <1>2

\* Only a submission changes the request, and only the look at a webhook's answer
\* finds a Pod invalid.
LEMMA RefusalStep ==
  ASSUME PodInv, RefusalInv, [Next]_vars
  PROVE  RefusalInv'
<1>1. \/ UNCHANGED request
      \/ phase' = "mutating" /\ \E p \in Pod : request' = Defaulted(p)
  <2>1. CASE CreatePod
    BY <2>1, AdmissionAssumption DEF CreatePod, Submit
  <2>2. CASE RelabelPod
    <3>1. PICK l \in UserLabels :
            phase' = "mutating" /\ request' = Defaulted([stored EXCEPT !.labels = l])
      BY <2>2 DEF RelabelPod, Submit
    <3>2. stored \in Pod /\ l \in LabelMap
      BY <2>2, AdmissionAssumption DEF RelabelPod, PodInv
    <3>3. [stored EXCEPT !.labels = l] \in Pod
      BY <3>2 DEF Pod
    <3> QED BY <3>1, <3>3
  <2>3. CASE ~CreatePod /\ ~RelabelPod
    BY <2>3 DEF Next, vars, WritePolicy, WriteProfile, WriteBaseline, Write, Deliver, DeletePod,
                Mutated, Validated, CallFails, Restart, Mutate, Validate
  <2> QED BY <2>1, <2>2, <2>3
<1>2. (\A c \in Containers, r \in Resources :
         request.limits[c][r] # Nil => request.requests[c][r] # Nil)'
  <2>1. CASE UNCHANGED request
    BY <2>1 DEF RefusalInv
  <2>2. CASE \E p \in Pod : request' = Defaulted(p)
    BY <2>2, DefaultedPairs
  <2> QED BY <1>1, <2>1, <2>2
<1>3. (phase = "invalid" => response # Nil /\ ~Valid(Defaulted(response)))'
  <2> SUFFICES ASSUME phase' = "invalid" PROVE response' # Nil /\ ~Valid(Defaulted(response'))
    BY DEF Valid, Defaulted
  <2>1. CASE Mutated
    BY <2>1 DEF Mutated, mutator
  <2>2. CASE ~Mutated
    <3>1. phase = "invalid" /\ UNCHANGED response
      BY <2>2 DEF Next, vars, WritePolicy, WriteProfile, WriteBaseline, Write, Deliver, DeletePod,
                  CreatePod, RelabelPod, Submit, Validated, Store, CallFails, Restart, Mutate,
                  Validate, InProgress, mutator, Validator!Rules
    <3> QED BY <3>1 DEF RefusalInv
  <2> QED BY <2>1, <2>2
<1> QED BY <1>2, <1>3 DEF RefusalInv

\* In every state.
LEMMA AlwaysRefusal == Spec => []RefusalInv
<1>1. Init => RefusalInv
  <2> SUFFICES ASSUME Init PROVE RefusalInv
    OBVIOUS
  <2>1. \E p \in Pod : request = Defaulted(p)
    BY AdmissionAssumption DEF Init
  <2> QED BY <2>1, DefaultedPairs DEF Init, RefusalInv
<1>2. PodInv /\ RefusalInv /\ [Next]_vars => RefusalInv'
  BY RefusalStep
<1>3. Inv /\ HandlersInv => PodInv
  BY DEF Inv
<1> QED BY <1>1, <1>2, <1>3, Invariance, PTL DEF Spec

\* What a listed policy offers is a label that is not blank and quantities.
LEMMA ListedOffers ==
  ASSUME ListsInv, NEW p \in Policies, mpolicies[p] # Nil
  PROVE  /\ p \in Mutator!Listed(mpolicies)
         /\ \A k \in Labels : mpolicies[p].labels[k] # Nil =>
              k \notin Blanks /\ mpolicies[p].labels[k] \notin Blanks
         /\ \A r \in Resources : /\ mpolicies[p].requests[r] \in Int \cup {Nil}
                                 /\ mpolicies[p].limits[r] \in Int \cup {Nil}
<1>1. mpolicies[p] \in AdmittedPolicies /\ p \in DOMAIN mpolicies
  BY DEF ListsInv, PolicyLists
<1> QED BY <1>1, AdmissionAssumption
        DEF AdmittedPolicies, validateWorkloadPolicySpec, WorkloadPolicy, DefaultMap,
            Mutator!Listed

--------------------------------------------------------------------------------
(* The properties *)

\* Every variable has its type, those of the two handlers included.
THEOREM TypeCorrect == Spec => []TypeOK
<1>1. Inv /\ HandlersInv => TypeOK
  <2> SUFFICES ASSUME Inv, HandlersInv PROVE TypeOK
    OBVIOUS
  <2>1. /\ PolicyLists \subseteq [Policies -> WorkloadPolicy \cup {Nil}]
        /\ ProfileLists \subseteq [Profiles -> TelemetryProfile \cup {Nil}]
    BY DEF PolicyLists, ProfileLists, AdmittedPolicies, AdmittedProfiles
  <2>2. /\ policies \in Seq([Policies -> WorkloadPolicy \cup {Nil}]) /\ policies # << >>
        /\ profiles \in Seq([Profiles -> TelemetryProfile \cup {Nil}]) /\ profiles # << >>
        /\ baselines \in Seq([Baselines -> SecurityBaseline \cup {Nil}]) /\ baselines # << >>
    BY <2>1 DEF Inv, StreamsInv, BaselineLists
  <2>3. Mutator!TypeOK
    <3>1. OfMutator!TypeOK
      BY DEF HandlersInv, OfMutator!IInv
    <3>2. OfMutator!Pod = Mutator!Pod
      BY DEF OfMutator!Pod, Mutator!Pod, OfMutator!LabelMap, Mutator!LabelMap,
             OfMutator!EnvMap, Mutator!EnvMap, OfMutator!EnvVars, Mutator!EnvVars,
             OfMutator!ResourceMap, Mutator!ResourceMap, OfMutator!Containers,
             Mutator!Containers
    <3> QED BY <3>1, <3>2, SameLists DEF OfMutator!TypeOK, Mutator!TypeOK
  <2>4. Validator!TypeOK
    <3>1. OfValidator!TypeOK
      BY DEF HandlersInv, OfValidator!IInv
    <3> QED BY <3>1 DEF OfValidator!TypeOK, Validator!TypeOK, OfValidator!Security,
               Validator!Security, OfValidator!Setting, Validator!Setting,
               OfValidator!Containers, Validator!Containers, OfValidator!SecurityBaseline,
               Validator!SecurityBaseline, OfValidator!Listed, Validator!Listed,
               OfValidator!Verdict, Validator!Verdict, OfValidator!Rules, Validator!Rules
  <2>5. /\ edits \in Nat
        /\ phase \in {"idle", "mutating", "validating",
                      "stored", "failed", "invalid", "immutable", "denied"}
        /\ stored \in Pod \cup {Nil}
        /\ steady \subseteq Names /\ lagging \subseteq Names /\ applied \subseteq Names
    BY DEF Inv, ListsInv, PodInv, Current
  <2> QED BY <2>2, <2>3, <2>4, <2>5 DEF TypeOK
<1> QED BY <1>1, Invariance, PTL

\* The validating webhook allows no Pod that breaks a listed baseline.
THEOREM NoneBypasses == Spec => []AllowedComplies
<1>1. Spec => []OfValidator!AllowedComplies
  BY OfValidator!NoneBypasses, ImplementsHandlers, ValidatorAssumption, PTL
<1>2. OfValidator!AllowedComplies => AllowedComplies
  BY DEF AllowedComplies, OfValidator!AllowedComplies, Validator!AllowedComplies,
         OfValidator!Listed, Validator!Listed, OfValidator!Complies, Validator!Complies,
         OfValidator!Containers, Validator!Containers
<1> QED BY <1>1, <1>2, PTL

\* It denies none without the reason it gives.
THEOREM ReasonsHold == Spec => []DenialJustified
<1>1. Spec => []OfValidator!DenialJustified
  BY OfValidator!ReasonsHold, ImplementsHandlers, ValidatorAssumption, PTL
<1>2. OfValidator!DenialJustified => DenialJustified
  BY DEF DenialJustified, OfValidator!DenialJustified, Validator!DenialJustified,
         OfValidator!Listed, Validator!Listed, OfValidator!Rules, Validator!Rules,
         OfValidator!Containers, Validator!Containers
<1> QED BY <1>1, <1>2, PTL

\* No policy with a quantity that does not parse reaches the mutating webhook.
THEOREM NoneIsBroken == Spec => []NoneBroken
<1>1. Inv /\ HandlersInv => NoneBroken
  BY ListedAdmitted, SameLists DEF Inv, NoneBroken
<1> QED BY <1>1, Invariance, PTL

\* Whatever fails and is written on the way, a Pod that is stored is governed by
\* every object that was in sync at its request and has not changed since.
THEOREM Governed == Spec => []StoredGoverned
<1>1. Inv /\ HandlersInv /\ AllowedComplies => StoredGoverned
  <2> SUFFICES ASSUME Inv, HandlersInv, AllowedComplies, phase = "stored"
               PROVE  GovernedBy(Current)
    BY DEF StoredGoverned, Current
  <2>1. FilledBy(Current) /\ verdict = "allowed"
    BY DEF Inv, PodInv
  <2>2. ASSUME NEW b \in Baselines \cap Current, Stored(baselines)[b] # Nil
        PROVE  \/ Namespace \in Stored(baselines)[b].excludedNamespaces
               \/ Validator!Complies(security, Stored(baselines)[b])
    <3>1. vbaselines[b] = Stored(baselines)[b]
      BY <2>1 DEF Inv, CurrentInv, BaselinesListed
    <3>2. b \in Validator!Listed
      BY <2>2, <3>1 DEF Inv, ListsInv, BaselineLists, Validator!Listed
    <3> QED BY <2>1, <3>1, <3>2 DEF AllowedComplies, Validator!AllowedComplies
  <2> QED BY <2>1, <2>2 DEF GovernedBy, FilledBy
<1> QED BY <1>1, Invariance, NoneBypasses, PTL

\* An update of a Pod is only refused for the defaults that would be added to it
\* if a policy or profile is not the one applied when the Pod was stored.
THEOREM RefusedForChange == Spec => []RefusedOnlyAfterChange
<1>1. Inv => RefusedOnlyAfterChange
  BY DEF Inv, PodInv, RefusedOnlyAfterChange
<1> QED BY <1>1, Invariance, PTL

\* A valid Pod that the API server refuses with its defaults met a default that is
\* not valid next to what the Pod or another policy gives.
THEOREM RefusedForDefaults == Spec => []InvalidOnlyForDefaults
<1>1. Inv /\ HandlersInv /\ RefusalInv => InvalidOnlyForDefaults
  <2> SUFFICES ASSUME Inv, HandlersInv, RefusalInv, phase = "invalid", Valid(request)
               PROVE  InvalidOnlyForDefaults
    BY DEF InvalidOnlyForDefaults
  <2>1. ListsInv /\ request \in Pod /\ response \in Pod /\ response # Nil
    BY HandlersFacts DEF Inv, RefusalInv
  <2> DEFINE sent == Defaulted(response)
  <2>2. ~Valid(sent) /\ sent.labels = response.labels
    BY <2>1, DefaultedFacts DEF RefusalInv
  <2>3. ASSUME NEW k \in Labels, sent.labels[k] # Nil,
               k \in Blanks \/ sent.labels[k] \notin LabelValues
        PROVE  InvalidOnlyForDefaults
    <3>1. sent.labels[k] = response.labels[k] /\ response.labels[k] # request.labels[k]
      BY <2>2, <2>3 DEF Valid
    <3>2. request.labels[k] = Nil
      BY <2>1, <3>1, AnswerAdds
    <3>3. PICK p \in Policies : mpolicies[p] # Nil /\ mpolicies[p].labels[k] = response.labels[k]
      BY <2>1, <3>1, AnswerAdds
    <3>4. p \in Mutator!Listed(mpolicies) /\ k \notin Blanks
      BY <2>1, <2>3, <3>1, <3>3, ListedOffers
    <3> QED BY <2>3, <3>1, <3>2, <3>3, <3>4 DEF InvalidOnlyForDefaults
  <2>4. ASSUME NEW c \in Containers, NEW r \in Resources,
               \/ sent.requests[c][r] # Nil /\ ~(sent.requests[c][r] >= 0)
               \/ sent.limits[c][r] # Nil /\ ~(sent.limits[c][r] >= sent.requests[c][r])
        PROVE  InvalidOnlyForDefaults
    <3> DEFINE ownRequest == request.requests[c][r]
               ownLimit == request.limits[c][r]
               newRequest == response.requests[c][r]
               newLimit == response.limits[c][r]
    <3>1. /\ sent.limits[c][r] = newLimit
          /\ sent.requests[c][r] = IF newRequest = Nil THEN newLimit ELSE newRequest
      BY <2>1, DefaultedFacts, DefaultedPairs
    <3>2. /\ newRequest # ownRequest =>
               ownRequest = Nil /\ \E q \in Policies : /\ mpolicies[q] # Nil
                                                      /\ mpolicies[q].requests[r] = newRequest
          /\ newLimit # ownLimit =>
               ownLimit = Nil /\ \E p \in Policies : /\ mpolicies[p] # Nil
                                                    /\ mpolicies[p].limits[r] = newLimit
      BY <2>1, AnswerAdds
    <3>3. /\ ownRequest # Nil => ownRequest >= 0
          /\ ownLimit # Nil => ownRequest # Nil /\ ownLimit >= ownRequest
      BY DEF Valid, RefusalInv
    <3>4. /\ ownRequest \in Int \cup {Nil} /\ ownLimit \in Int \cup {Nil}
          /\ newRequest \in Int \cup {Nil} /\ newLimit \in Int \cup {Nil}
      <4>1. /\ request.requests[c] \in ResourceMap /\ request.limits[c] \in ResourceMap
            /\ response.requests[c] \in ResourceMap /\ response.limits[c] \in ResourceMap
        BY <2>1 DEF Pod
      <4> QED BY <4>1, AdmissionAssumption DEF ResourceMap
    <3> HIDE DEF ownRequest, ownLimit, newRequest, newLimit, sent
    <3>5. CASE newLimit = ownLimit
      \* The request is filled in next to no limit, and is negative.
      <4>1. ownRequest = Nil /\ newRequest # Nil /\ newRequest < 0
        BY <2>4, <3>1, <3>2, <3>3, <3>4, <3>5
      <4>2. PICK q \in Policies : mpolicies[q] # Nil /\ mpolicies[q].requests[r] = newRequest
        BY <3>2, <4>1
      <4>3. q \in Mutator!Listed(mpolicies)
        BY <2>1, <4>2, ListedOffers
      <4> QED BY <4>1, <4>2, <4>3 DEF InvalidOnlyForDefaults, ownRequest
    <3>6. CASE newLimit # ownLimit
      <4>1. PICK p \in Policies : mpolicies[p] # Nil /\ mpolicies[p].limits[r] = newLimit
        BY <3>2, <3>6
      <4>2. p \in Mutator!Listed(mpolicies) /\ ownLimit = Nil /\ newLimit # Nil
        BY <2>1, <3>2, <3>6, <4>1, ListedOffers
      <4>3. CASE newLimit < 0
        BY <4>1, <4>2, <4>3 DEF InvalidOnlyForDefaults, ownLimit
      <4>4. CASE ~(newLimit < 0)
        <5>1. newRequest # Nil /\ (newRequest < 0 \/ newLimit < newRequest)
          BY <2>4, <3>1, <3>4, <4>2, <4>4
        <5>2. CASE newRequest = ownRequest
          <6>1. newLimit < ownRequest /\ ownRequest # Nil
            BY <3>3, <3>4, <5>1, <5>2
          <6>2. ownRequest \in RequestsMet(c, r)
            BY <6>1 DEF RequestsMet, ownRequest
          <6> QED BY <4>1, <4>2, <6>1, <6>2 DEF InvalidOnlyForDefaults, ownLimit
        <5>3. CASE newRequest # ownRequest
          <6>1. PICK q \in Policies : mpolicies[q] # Nil /\ mpolicies[q].requests[r] = newRequest
            BY <3>2, <5>3
          <6>2. q \in Mutator!Listed(mpolicies) /\ ownRequest = Nil
            BY <2>1, <3>2, <5>3, <6>1, ListedOffers
          <6>3. newRequest \in RequestsMet(c, r)
            BY <5>1, <6>1, <6>2 DEF RequestsMet, ownRequest
          <6>4. CASE newRequest < 0
            BY <5>1, <6>1, <6>2, <6>4 DEF InvalidOnlyForDefaults, ownRequest
          <6>5. CASE newLimit < newRequest
            BY <4>1, <4>2, <6>3, <6>5 DEF InvalidOnlyForDefaults, ownLimit
          <6> QED BY <5>1, <6>4, <6>5
        <5> QED BY <5>2, <5>3
      <4> QED BY <4>3, <4>4
    <3> QED BY <3>5, <3>6
  <2> QED BY <2>2, <2>3, <2>4 DEF Valid
<1> QED BY <1>1, Invariance, AlwaysRefusal, PTL

\* Every label, endpoint and sampling rate that is injected has passed admission.
THEOREM InjectionsAdmitted == Spec => []InjectedAdmitted
<1>1. Inv /\ HandlersInv => InjectedAdmitted
  <2> SUFFICES ASSUME Inv, HandlersInv, response # Nil
               PROVE  InjectedAdmitted
    BY DEF InjectedAdmitted
  <2>1. /\ \A p \in Policies : mpolicies[p] # Nil => mpolicies[p] \in AdmittedPolicies
        /\ \A t \in Profiles : mprofiles[t] # Nil => mprofiles[t] \in AdmittedProfiles
    BY DEF Inv, ListsInv, PolicyLists, ProfileLists
  <2>2. ListsInv /\ request \in Pod /\ response \in Pod
    BY HandlersFacts DEF Inv
  <2>3. ASSUME NEW k \in Labels, response.labels[k] # request.labels[k]
        PROVE  {k, response.labels[k]} \cap Blanks = {}
    <3>1. PICK p \in Policies : /\ mpolicies[p] # Nil
                                /\ mpolicies[p].labels[k] = response.labels[k]
      BY <2>2, <2>3, AnswerAdds
    <3>2. response.labels[k] # Nil
      BY <2>2, <2>3, AnswerAdds
    <3> QED BY <2>1, <3>1, <3>2 DEF AdmittedPolicies, validateWorkloadPolicySpec
  <2>4. ASSUME NEW c \in Containers, NEW v \in EnvVars,
               response.env[c][v] # request.env[c][v]
        PROVE  IF v = "OTEL_EXPORTER_OTLP_ENDPOINT"
               THEN \E url \in DOMAIN SchemeOf :
                      response.env[c][v] = url /\ SchemeOf[url] \in {"http", "https"}
               ELSE \E rate \in DOMAIN RateOf :
                      response.env[c][v] = rate /\ RateOf[rate] \in {NaN} \cup 0..100
    <3>1. /\ request.env[c][v] = Nil
          /\ \E t \in Profiles :
               /\ mprofiles[t] # Nil /\ Mutator!Injects(mprofiles[t])
               /\ Mutator!Telemetry(mprofiles[t])[v] = response.env[c][v]
      BY <2>2, <2>4, AnswerAdds
    <3>2. PICK t \in Profiles :
            /\ mprofiles[t] # Nil
            /\ Mutator!Telemetry(mprofiles[t])[v] = response.env[c][v]
      BY <3>1
    <3>3. response.env[c][v] # Nil
      BY <2>4, <3>1
    <3>4. mprofiles[t] \in AdmittedProfiles
      BY <2>1, <3>2
    <3>5. response.env[c][v] = IF v = "OTEL_EXPORTER_OTLP_ENDPOINT"
                               THEN mprofiles[t].tracingEndpoint
                               ELSE mprofiles[t].samplingRate
      BY <3>2 DEF Mutator!Telemetry, Mutator!EnvVars, EnvVars
    <3> QED BY <3>3, <3>4, <3>5, RatesAssumption
            DEF AdmittedProfiles, validateTelemetryProfileSpec, OutOfRange
  <2> QED BY <2>3, <2>4 DEF InjectedAdmitted
<1> QED BY <1>1, Invariance, PTL
================================================================================
