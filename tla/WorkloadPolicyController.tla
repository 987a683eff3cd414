----------------------- MODULE WorkloadPolicyController -----------------------
(***************************************************************************)
(* The WorkloadPolicy controller of one namespace: it keeps one HPA per     *)
(* Deployment in line with the highest-priority WorkloadPolicy.             *)
(*                                                                          *)
(* The controller reads from informer caches and writes to the API server:  *)
(* each kind it reads is a stream of snapshots of the namespace.            *)
(***************************************************************************)
EXTENDS Streams, HorizontalScaling

CONSTANTS
  Policies,       \* names of WorkloadPolicies, as their ranks in string order
  Deployments,    \* names of Deployments, as sequences of characters
  MaxBaseLen,     \* characters of a Deployment's name an HPA's name keeps (55)
  Priorities,     \* values users give spec.priority
  RawScaling,     \* values users give spec.horizontalScaling, or Nil
  Annotations,    \* hpa-enabled annotations users put on Deployments
  UserHPAActs,    \* what users do to HPAs behind the controller's back
  UserReplicas,   \* maxReplicas users give an HPA
  MaxEdits, MaxFaults  \* bounds: user edits, faults

\* How the hpa-enabled annotation of a Deployment reads.
Annotation == {"unset", "true", "false", "invalid"}

ASSUME ConstantsAssumption ==
  /\ Policies \subseteq Int /\ Nil \notin Policies
  /\ Deployments \subseteq Seq(STRING)
  /\ MaxBaseLen \in Nat
  /\ Priorities \subseteq Int
  /\ RawScaling \subseteq HorizontalScalingPolicy \cup {Nil}
  /\ Annotations \subseteq Annotation /\ Nil \notin Annotation
  /\ UserHPAActs \subseteq {"create", "edit", "release", "delete"}
  /\ \A n \in UserReplicas : n \in Int /\ n >= DefaultHPAMinReplicas
  /\ MaxEdits \in Nat /\ MaxFaults \in Nat

VARIABLES
  policies, deployments, hpas,  \* streams of snapshots, one per kind
  queue,      \* the workqueue: names of policies to reconcile
  pc,         \* where the one worker is in Reconcile
  req,        \* the name it reconciles
  policy,     \* its copy of the policy
  listed,     \* annotations of the listed Deployments it has yet to visit
  enforcer,   \* history: the policy whose latest ranking made it apply its HPAs
  unseen,     \* history: HPAs that the worker has not looked at since they changed or
              \* their Deployment did unnoticed, or looked at with stale copies only
  edits,      \* user edits so far
  faults      \* failed calls and restarts so far

store == <<policies, deployments, hpas>>
worker == <<pc, req, policy, listed>>
history == <<enforcer, unseen>>
vars == <<store, queue, worker, history, edits, faults>>

--------------------------------------------------------------------------------
(* Objects *)

managedHPAName(d) == IF Len(d) > MaxBaseLen THEN SubSeq(d, 1, MaxBaseLen) ELSE d

HPANames == {managedHPAName(d) : d \in Deployments}

\* A name cut behind a "." is no object name once the suffix follows ("a.-pgo-hpa").
ValidHPAName(h) == h[Len(h)] # "."

\* A policy, with the observedGeneration of its Available condition (0: none).
WorkloadPolicy ==
  [uid: Nat, generation: Nat \ {0}, priority: Int,
   scaling: HorizontalScalingPolicy \cup {Nil}, observed: Nat]

OwnerRef == [name: Policies, uid: Nat]

\* The fields of an HPA the controller writes and compares.
HPASpec == [target: Deployments, minReplicas: Int, maxReplicas: Int, targetCPU: Int]

HPA == [managed: BOOLEAN, policy: Policies \cup {Nil}, owner: OwnerRef \cup {Nil},
        spec: HPASpec]

\* Users who create an HPA by hand label nothing and own it by no policy.
UserHPA(d, max) ==
  [managed |-> FALSE, policy |-> Nil, owner |-> Nil,
   spec |-> [target |-> d, minReplicas |-> DefaultHPAMinReplicas,
             maxReplicas |-> max, targetCPU |-> DefaultHPATargetCPU]]

\* What a policy announces of itself: the generation, and the one observed.
Announcement == [uid: Nat, generation: Nat \ {0}, observed: Nat]

ASSUME NilIsNoObject == Nil \notin WorkloadPolicy \cup Announcement \cup OwnerRef \cup HPA

\* The HPA policy p, with content pol, wants for Deployment d.
desiredHPA(p, pol, d) ==
  LET hs == Effective(pol.scaling)
  IN [managed |-> TRUE, policy |-> p, owner |-> [name |-> p, uid |-> pol.uid],
      spec |-> [target |-> d, minReplicas |-> hs.minReplicas,
                maxReplicas |-> hs.maxReplicas, targetCPU |-> hs.targetCPU]]

isManagedHPA(hpa) == hpa # Nil /\ hpa.managed

hpaSpecDrifted(existing, desired) == existing.spec # desired.spec

\* Whether Deployments with (valid) annotation ann get an HPA under pol.
hpaEnabled(ann, pol) ==
  IF ann = "unset" THEN Effective(pol.scaling).enabledByDefault ELSE ann = "true"

\* The policies of a listing that configure HPAs, and their order.
Scaling(list) == {p \in Policies : list[p] # Nil /\ list[p].scaling # Nil}

Outranks(list, p, q) ==
  \/ list[p].priority > list[q].priority
  \/ list[p].priority = list[q].priority /\ p < q

\* What the loop that looks for the highest policy keeps after candidate p.
Higher(list, highest, p) ==
  IF p \in Scaling(list) /\ (highest = Nil \/ Outranks(list, p, highest)) THEN p ELSE highest

\* What that loop finds, in whatever order the cache lists the policies
\* (ScanFindsHighest).
isHighestPriorityPolicy(list, p) ==
  /\ p \in Scaling(list)
  /\ \A q \in Scaling(list) \ {p} : Outranks(list, p, q)

\* The Deployments of a listing.
Live(list) == {d \in Deployments : list[d] # Nil}

NoneListed == [d \in Deployments |-> Nil]

--------------------------------------------------------------------------------
(* Users: every spec passes the defaulting and the validating webhook *)

Edit == edits < MaxEdits /\ edits' = edits + 1

Admitted(raw) == IF raw = Nil THEN {Nil} ELSE {hs \in {Default(raw)} : Validate(hs)}

NewPolicy(uid, priority, scaling) ==
  [uid |-> uid, generation |-> 1, priority |-> priority, scaling |-> scaling, observed |-> 0]

WritePolicy(p, obj) ==
  /\ Edit
  /\ Room(policies)
  /\ policies' = Commit(policies, p, obj)
  /\ UNCHANGED <<deployments, hpas, queue, worker, history, faults>>

CreatePolicy(p) ==
  /\ Stored(policies)[p] = Nil
  /\ \E priority \in Priorities, raw \in RawScaling : \E scaling \in Admitted(raw) :
       WritePolicy(p, NewPolicy(edits + 1, priority, scaling))

UpdatePolicy(p) ==
  LET old == Stored(policies)[p]
  IN /\ old # Nil
     /\ \E priority \in Priorities, raw \in RawScaling : \E scaling \in Admitted(raw) :
          /\ <<priority, scaling>> # <<old.priority, old.scaling>>
          /\ WritePolicy(p, [old EXCEPT !.priority = priority, !.scaling = scaling,
                                        !.generation = @ + 1])

DeletePolicy(p) == Stored(policies)[p] # Nil /\ WritePolicy(p, Nil)

\* Creation, annotation or deletion of a Deployment.
WriteDeployment(d) ==
  /\ Edit
  /\ Room(deployments)
  /\ \E v \in (Annotations \cup {Nil}) \ {Stored(deployments)[d]} :
       deployments' = Commit(deployments, d, v)
  /\ UNCHANGED <<policies, hpas, queue, worker, history, faults>>

\* Another hand than the controller's changes HPA h.
Tamper(h, obj) ==
  /\ Room(hpas)
  /\ hpas' = Commit(hpas, h, obj)
  /\ unseen' = unseen \cup {h}
  /\ UNCHANGED <<policies, deployments, queue, worker, enforcer, faults>>

UserWritesHPA(d) ==
  LET h == managedHPAName(d)
      old == Stored(hpas)[h]
  IN /\ Edit
     /\ \/ /\ "create" \in UserHPAActs /\ old = Nil /\ ValidHPAName(h)
           /\ \E max \in UserReplicas : Tamper(h, UserHPA(d, max))
        \/ /\ "edit" \in UserHPAActs /\ isManagedHPA(old)
           /\ \E max \in UserReplicas :
                old.spec.minReplicas <= max /\ max # old.spec.maxReplicas
                  /\ Tamper(h, [old EXCEPT !.spec.maxReplicas = max])
        \/ /\ "release" \in UserHPAActs /\ isManagedHPA(old)
           /\ Tamper(h, [old EXCEPT !.managed = FALSE])
        \/ /\ "delete" \in UserHPAActs /\ old # Nil
           /\ Tamper(h, Nil)

\* The policy that owns hpa is gone, or is another one of the same name.
Orphaned(hpa) ==
  /\ hpa # Nil /\ hpa.owner # Nil
  /\ LET owner == Stored(policies)[hpa.owner.name]
     IN owner # Nil => owner.uid # hpa.owner.uid

\* The garbage collector.
Collect(h) == Orphaned(Stored(hpas)[h]) /\ Tamper(h, Nil) /\ UNCHANGED edits

--------------------------------------------------------------------------------
(* Informers and the events they raise *)

Fault == faults < MaxFaults /\ faults' = faults + 1

\* Seeded fault: an event filter lets only creations through.
DeliverNewPolicies ==
  /\ InFlight(policies)
  /\ policies' = Tail(policies)
  /\ queue' = queue \cup {p \in Policies : Cached(policies)[p] = Nil /\ Cached(policies')[p] # Nil}
  /\ UNCHANGED <<deployments, hpas, worker, history, edits, faults>>

DeliverPolicy ==
  /\ InFlight(policies)
  /\ policies' = Tail(policies)
  /\ queue' = queue \cup {p \in Policies : Cached(policies')[p] # Cached(policies)[p]}
  /\ UNCHANGED <<deployments, hpas, worker, history, edits, faults>>

\* The HPAs of the Deployments that the next event is about.
Touched == {managedHPAName(d) : d \in {e \in Deployments :
              Cached(deployments')[e] # Cached(deployments)[e]}}

\* The map function fails to list the policies and returns none: the event is lost.
MapFails == Fault /\ unseen' = unseen \cup Touched /\ UNCHANGED queue

\* Seeded fault: an event filter on generations, which annotations do not raise.
DeliverDeploymentFiltered ==
  /\ InFlight(deployments)
  /\ deployments' = Tail(deployments)
  /\ \/ /\ queue' = IF Live(Cached(deployments')) # Live(Cached(deployments))
                     THEN queue \cup {p \in Policies : Cached(policies)[p] # Nil}
                     ELSE queue
        /\ UNCHANGED <<unseen, faults>>
     \/ MapFails
  /\ UNCHANGED <<policies, hpas, worker, enforcer, edits>>

\* Every policy in the namespace of a changed Deployment is enqueued.
DeliverDeployment ==
  /\ InFlight(deployments)
  /\ deployments' = Tail(deployments)
  /\ \/ /\ queue' = queue \cup {p \in Policies : Cached(policies)[p] # Nil}
        /\ UNCHANGED <<unseen, faults>>
     \/ MapFails
  /\ UNCHANGED <<policies, hpas, worker, enforcer, edits>>

\* No handler: the controller does not watch the HPAs it writes.
DeliverHPA ==
  /\ InFlight(hpas)
  /\ hpas' = Tail(hpas)
  /\ UNCHANGED <<policies, deployments, queue, worker, history, edits, faults>>

\* The informers' periodic resync replays the cached objects as events.
Resync ==
  /\ queue' = queue \cup {p \in Policies : Cached(policies)[p] # Nil}
  /\ UNCHANGED <<store, worker, history, edits, faults>>

--------------------------------------------------------------------------------
(* Reconcile *)

Idle == pc' = "idle" /\ req' = Nil /\ policy' = Nil /\ listed' = NoneListed

Done == Idle /\ UNCHANGED queue

\* Reconcile returns an error and the workqueue takes the request back.
Fail == Idle /\ queue' = queue \cup {req}

\* Seeded fault: no return when the policy is not found.
BeginWithoutReturn(p) ==
  /\ pc = "idle" /\ p \in queue
  /\ queue' = queue \ {p}
  /\ LET got == Cached(policies)[p]
         scaled == IF got = Nil THEN FALSE ELSE got.scaling # Nil
     IN req' = p /\ policy' = got /\ pc' = IF scaled THEN "rank" ELSE "status"
  /\ UNCHANGED <<store, listed, history, edits, faults>>

\* The Get at the start of Reconcile.
Begin(p) ==
  /\ pc = "idle" /\ p \in queue
  /\ queue' = queue \ {p}
  /\ LET got == Cached(policies)[p]
     IN \/ got = Nil /\ UNCHANGED worker
        \/ /\ got # Nil
           /\ req' = p /\ policy' = got
           /\ pc' = IF got.scaling # Nil THEN "rank" ELSE "status"
           /\ UNCHANGED listed
  /\ UNCHANGED <<store, history, edits, faults>>

\* Seeded faults: every policy applies its HPAs; a lower policy is never announced.
RankUnchecked ==
  /\ pc = "rank"
  /\ pc' = "list" /\ enforcer' = req
  /\ UNCHANGED <<store, queue, req, policy, listed, unseen, edits, faults>>

RankReturnsEarly ==
  /\ pc = "rank"
  /\ \/ /\ isHighestPriorityPolicy(Cached(policies), req)
        /\ pc' = "list" /\ enforcer' = req
        /\ UNCHANGED <<queue, req, policy, listed>>
     \/ /\ ~isHighestPriorityPolicy(Cached(policies), req)
        /\ Done /\ UNCHANGED enforcer
  /\ UNCHANGED <<store, unseen, edits, faults>>

\* Seeded fault: every policy applies its HPAs, the highest one's or not.
RankIgnored ==
  /\ pc = "rank"
  /\ pc' = "list"
  /\ enforcer' = IF isHighestPriorityPolicy(Cached(policies), req) THEN req ELSE enforcer
  /\ UNCHANGED <<store, queue, req, policy, listed, unseen, edits, faults>>

Rank ==
  /\ pc = "rank"
  /\ LET highest == isHighestPriorityPolicy(Cached(policies), req)
     IN /\ pc' = IF highest THEN "list" ELSE "status"
        /\ enforcer' = CASE highest -> req
                         [] ~highest /\ enforcer = req -> Nil
                         [] OTHER -> enforcer
  /\ UNCHANGED <<store, queue, req, policy, listed, unseen, edits, faults>>

\* The pass goes on to the Deployments rest, or to the status when none is left.
PassOn(rest) == listed' = rest /\ pc' = IF rest = NoneListed THEN "status" ELSE "apply"

ListDeployments ==
  /\ pc = "list"
  /\ PassOn(Cached(deployments))
  /\ UNCHANGED <<store, queue, req, policy, history, edits, faults>>

Proceed(d) ==
  PassOn([listed EXCEPT ![d] = Nil]) /\ UNCHANGED <<queue, req, policy>>

\* What follows a write that took effect: the worker proceeds, or never hears
\* of the success and fails.
Written(d) ==
  \/ Proceed(d) /\ UNCHANGED faults
  \/ Fail /\ Fault

Look(d, h) ==
  unseen' = IF InSync(hpas, h) /\ listed[d] = Cached(deployments)[d]
            THEN unseen \ {h} ELSE unseen \cup {h}

\* The rest of the loop body once the cached HPA of d is read.
CreateHPA(d, h) ==
  /\ Cached(hpas)[h] = Nil
  /\ \/ /\ Stored(hpas)[h] = Nil /\ ValidHPAName(h)
        /\ Room(hpas)
        /\ hpas' = Commit(hpas, h, desiredHPA(req, policy, d))
        /\ Written(d)
     \/ /\ Stored(hpas)[h] # Nil \/ ~ValidHPAName(h)  \* AlreadyExists or Invalid
        /\ Fail /\ UNCHANGED <<hpas, faults>>

\* Seeded fault: an unmanaged HPA is skipped.
SkipHPA(d, h) ==
  /\ Cached(hpas)[h] # Nil /\ ~isManagedHPA(Cached(hpas)[h])
  /\ Proceed(d) /\ UNCHANGED <<hpas, faults>>

RefuseHPA(d, h) ==
  /\ Cached(hpas)[h] # Nil /\ ~isManagedHPA(Cached(hpas)[h])
  /\ Fail /\ UNCHANGED <<hpas, faults>>

\* Seeded fault: the update carries no resourceVersion.
UpdateHPAUnlocked(d, h) ==
  LET existing == Cached(hpas)[h]
      desired == desiredHPA(req, policy, d)
  IN /\ isManagedHPA(existing)
     /\ \/ /\ ~hpaSpecDrifted(existing, desired)
           /\ Proceed(d) /\ UNCHANGED <<hpas, faults>>
        \/ /\ hpaSpecDrifted(existing, desired)
           /\ Room(hpas)
           /\ hpas' = Commit(hpas, h, [existing EXCEPT !.spec = desired.spec,
                                                       !.managed = TRUE, !.policy = req])
           /\ Written(d)

UpdateHPA(d, h) ==
  LET existing == Cached(hpas)[h]
      desired == desiredHPA(req, policy, d)
  IN /\ isManagedHPA(existing)
     /\ \/ /\ ~hpaSpecDrifted(existing, desired)
           /\ Proceed(d) /\ UNCHANGED <<hpas, faults>>
        \/ /\ hpaSpecDrifted(existing, desired) /\ InSync(hpas, h)
           /\ Room(hpas)
           /\ hpas' = Commit(hpas, h, [existing EXCEPT !.spec = desired.spec,
                                                       !.managed = TRUE, !.policy = req])
           /\ Written(d)
        \/ /\ hpaSpecDrifted(existing, desired) /\ ~InSync(hpas, h)  \* Conflict
           /\ Fail /\ UNCHANGED <<hpas, faults>>

\* Seeded fault: the label is not looked at.
DropAnyHPA(d, h) ==
  \/ /\ Cached(hpas)[h] = Nil \/ Stored(hpas)[h] = Nil
     /\ Proceed(d) /\ UNCHANGED <<hpas, faults>>
  \/ /\ Cached(hpas)[h] # Nil /\ Stored(hpas)[h] # Nil
     /\ Room(hpas)
     /\ hpas' = Commit(hpas, h, Nil)
     /\ Written(d)

DropHPA(d, h) ==
  LET existing == Cached(hpas)[h]
  IN \/ /\ ~isManagedHPA(existing)
        /\ Proceed(d) /\ UNCHANGED <<hpas, faults>>
     \/ /\ isManagedHPA(existing)
        /\ \/ /\ Stored(hpas)[h] = Nil  \* NotFound, ignored
              /\ Proceed(d) /\ UNCHANGED <<hpas, faults>>
           \/ /\ Stored(hpas)[h] # Nil
              /\ Room(hpas)
              /\ hpas' = Commit(hpas, h, Nil)
              /\ Written(d)

\* One iteration of the loop; the cache lists Deployments in no fixed order.
Visit(d) ==
  LET h == managedHPAName(d)
  IN /\ pc = "apply" /\ listed[d] # Nil
     /\ \/ /\ listed[d] = "invalid"
           /\ Fail /\ UNCHANGED <<hpas, unseen, faults>>
        \/ /\ listed[d] # "invalid"
           /\ Look(d, h)
           /\ IF hpaEnabled(listed[d], policy)
              THEN CreateHPA(d, h) \/ RefuseHPA(d, h) \/ UpdateHPA(d, h)
              ELSE DropHPA(d, h)
     /\ UNCHANGED <<policies, deployments, enforcer, edits>>

\* Seeded fault: the copy is written back whatever is stored.
UpdateStatusUnchecked ==
  /\ pc = "status"
  /\ \/ /\ policy.observed = policy.generation
        /\ Done /\ UNCHANGED <<policies, faults>>
     \/ /\ policy.observed # policy.generation
        /\ Stored(policies)[req] # Nil
        /\ Room(policies)
        /\ policies' = Commit(policies, req, [policy EXCEPT !.observed = policy.generation])
        /\ Done /\ UNCHANGED faults
     \/ /\ policy.observed # policy.generation
        /\ Stored(policies)[req] = Nil
        /\ Fail /\ UNCHANGED <<policies, faults>>
  /\ UNCHANGED <<deployments, hpas, history, edits>>

\* The Available condition is written, unless it is already current, over the
\* version of the policy that was read.
UpdateStatus ==
  /\ pc = "status"
  /\ \/ /\ policy.observed = policy.generation
        /\ Done /\ UNCHANGED <<policies, faults>>
     \/ /\ policy.observed # policy.generation
        /\ Stored(policies)[req] = policy
        /\ Room(policies)
        /\ policies' = Commit(policies, req, [policy EXCEPT !.observed = policy.generation])
        /\ \/ Done /\ UNCHANGED faults
           \/ Fail /\ Fault
     \/ /\ policy.observed # policy.generation
        /\ Stored(policies)[req] # policy  \* Conflict or NotFound
        /\ Fail /\ UNCHANGED <<policies, faults>>
  /\ UNCHANGED <<deployments, hpas, history, edits>>

\* A list, a get or a write of Reconcile fails and has no effect.
CallFails ==
  /\ pc \in {"rank", "list", "apply", "status"}
  /\ pc = "status" => policy.observed # policy.generation
  /\ Fault /\ Fail
  /\ UNCHANGED <<store, history, edits>>

\* The operator dies, or loses the lease, and a fresh one takes over: its caches
\* start from the stored objects, and every one of them raises an event.
Restart ==
  /\ Fault /\ Idle
  /\ policies' = <<Stored(policies)>>
  /\ deployments' = <<Stored(deployments)>>
  /\ hpas' = <<Stored(hpas)>>
  /\ queue' = {p \in Policies : Stored(policies)[p] # Nil}
  /\ UNCHANGED <<history, edits>>

--------------------------------------------------------------------------------

InitialPolicies ==
  {NewPolicy(0, n, hs) : n \in Priorities, hs \in UNION {Admitted(raw) : raw \in RawScaling}}

\* The operator starts in a namespace that has policies and Deployments already.
Init ==
  /\ policies \in {<<f>> : f \in [Policies -> InitialPolicies \cup {Nil}]}
  /\ deployments \in {<<f>> : f \in [Deployments -> Annotations \cup {Nil}]}
  /\ hpas = << [h \in HPANames |-> Nil] >>
  /\ queue = {p \in Policies : Stored(policies)[p] # Nil}
  /\ pc = "idle" /\ req = Nil /\ policy = Nil /\ listed = NoneListed
  /\ enforcer = Nil /\ unseen = {}
  /\ edits = 0 /\ faults = 0

User ==
  \/ \E p \in Policies : CreatePolicy(p) \/ UpdatePolicy(p) \/ DeletePolicy(p)
  \/ \E d \in Deployments : WriteDeployment(d) \/ UserWritesHPA(d)

Worker ==
  \/ \E p \in Policies : Begin(p)
  \/ Rank \/ ListDeployments
  \/ \E d \in Deployments : Visit(d)
  \/ UpdateStatus \/ CallFails

Next ==
  \/ User
  \/ Worker
  \/ \E h \in HPANames : Collect(h)
  \/ DeliverPolicy \/ DeliverDeployment \/ DeliverHPA
  \/ Resync \/ Restart

Spec == Init /\ [][Next]_vars

\* The worker and the informers keep running, and the workqueue passes no
\* request over for ever. Users and faults owe nothing.
Fairness ==
  /\ \A p \in Policies : SF_vars(Begin(p))
  /\ WF_vars(Rank) /\ WF_vars(ListDeployments)
  /\ WF_vars(\E d \in Deployments : Visit(d))
  /\ WF_vars(UpdateStatus)
  /\ WF_vars(DeliverPolicy) /\ WF_vars(DeliverDeployment) /\ WF_vars(DeliverHPA)
  /\ WF_vars(\E h \in HPANames : Collect(h))
  /\ WF_vars(Resync)

FairSpec == Spec /\ Fairness

--------------------------------------------------------------------------------
(* Properties *)

\* Every variable has its type; the content of a policy stays within what
\* admission let in, so that every number in an HPA is an integer.
TypeOK ==
  /\ policies \in Seq([Policies -> WorkloadPolicy \cup {Nil}]) /\ policies # << >>
  /\ deployments \in Seq([Deployments -> Annotation \cup {Nil}]) /\ deployments # << >>
  /\ hpas \in Seq([HPANames -> HPA \cup {Nil}]) /\ hpas # << >>
  /\ queue \subseteq Policies
  /\ pc \in {"idle", "rank", "list", "apply", "status"}
  /\ req \in Policies \cup {Nil}
  /\ policy \in WorkloadPolicy \cup {Nil}
  /\ listed \in [Deployments -> Annotation \cup {Nil}]
  /\ enforcer \in Policies \cup {Nil} /\ unseen \subseteq HPANames
  /\ edits \in Nat /\ faults \in Nat
  /\ pc # "idle" => req \in Policies /\ policy \in WorkloadPolicy

\* Nothing is left to do: the worker is idle, no request waits and every watch
\* event has arrived. Only a user, a fault, the garbage collector or the next
\* resync can change anything.
AtRest ==
  /\ pc = "idle" /\ queue = {}
  /\ ~InFlight(policies) /\ ~InFlight(deployments) /\ ~InFlight(hpas)

\* At rest, every policy's Available condition speaks of the generation that is
\* stored: no conflict, lost reply, crash or failed pass loses the update.
AtRestStatusCurrent ==
  AtRest => \A p \in Policies : LET pol == Stored(policies)[p]
                                IN pol # Nil => pol.observed = pol.generation

\* Another Deployment's name is cut to the same HPA name.
SharesHPA(list, d) == \E e \in Live(list) \ {d} : managedHPAName(e) = managedHPAName(d)

\* The HPA of Deployment d is what policy p asks for.
Settled(list, d, p) ==
  LET ann == list[d]
      pol == Stored(policies)[p]
      hpa == Stored(hpas)[managedHPAName(d)]
  IN /\ ann # "invalid"
     /\ IF hpaEnabled(ann, pol)
        THEN isManagedHPA(hpa) /\ hpa.spec = desiredHPA(p, pol, d).spec
        ELSE ~isManagedHPA(hpa)

\* The HPA of Deployment d, as the cache shows d, is what the enforcer asks for, but
\* for one the worker could not know about (unseen) and one two Deployments fight over.
Served(d) ==
  LET known == Cached(deployments)
  IN managedHPAName(d) \in unseen \/ SharesHPA(known, d) \/ Settled(known, d, enforcer)

\* Nothing about scaling policy p waits or is on its way.
Quiet(p) ==
  /\ p \notin queue
  /\ Cached(policies)[p] # Nil /\ Cached(policies)[p].scaling # Nil
  /\ InSync(policies, p)

\* At rest, if the last policy to rank first still does, every Deployment is served.
\* The one event that may be lost leaves none but its own Deployments behind.
AtRestConverged ==
  AtRest /\ enforcer # Nil /\ isHighestPriorityPolicy(Stored(policies), enforcer) =>
    \A d \in Live(Stored(deployments)) : Served(d)

\* What the enforcer was served with stays: as long as nothing new about it or a
\* Deployment it knows of has come up, no pass, of whichever policy and however
\* stale its copies, undoes an HPA that is as the enforcer asks for.
ServedStaysServed ==
  [][enforcer # Nil /\ Quiet(enforcer) /\ enforcer' = enforcer /\ Quiet(enforcer)' =>
       \A d \in Live(Cached(deployments)) : Served(d) => Served(d)']_vars

\* "Available" comes last: the status of the enforcer is written only when every
\* Deployment it knows of is served. A failed call of the pass, a refused HPA or a
\* bad annotation on the way keeps it back; a lost event does not (unseen).
AnnouncedOnceServed ==
  [][\A p \in Policies :
       LET old == Stored(policies)[p]
           new == Stored(policies')[p]
       IN /\ p = enforcer /\ Quiet(p)
          /\ old # Nil /\ new # Nil /\ old.uid = new.uid /\ old.observed # new.observed
          => \A d \in Live(Cached(deployments)) : Served(d)]_vars

\* The stored policies as their users see them announced.
announced ==
  [p \in Policies |->
     LET pol == Stored(policies)[p]
     IN IF pol = Nil THEN Nil
        ELSE [uid |-> pol.uid, generation |-> pol.generation, observed |-> pol.observed]]

\* The controller keeps the promise of AvailableCondition: an update over a stale
\* copy, a retry or a restart never announces a generation that is not stored.
Contract == INSTANCE AvailableCondition WITH Objects <- Policies, objects <- announced

KeepsContract == Contract!Spec

\* An HPA the operator does not manage is never rewritten: it stays as its
\* owner left it until it is deleted, even when the cache still shows a managed
\* HPA in its place.
UnmanagedNeverRewritten ==
  [][\A h \in HPANames :
       LET old == Stored(hpas)[h]
       IN old # Nil /\ ~isManagedHPA(old) => Stored(hpas')[h] \in {old, Nil}]_vars

\* An HPA the operator does not manage is deleted by a user or the garbage
\* collector, or else while the cache does not show it yet: Delete carries no
\* precondition, so nothing but the cached label keeps it.
UnmanagedDeletedOnlyBehind ==
  [][\A h \in HPANames :
       LET old == Stored(hpas)[h]
       IN old # Nil /\ ~isManagedHPA(old) /\ Stored(hpas')[h] = Nil =>
            edits' # edits \/ Orphaned(old) \/ ~InSync(hpas, h)]_vars

\* Every HPA the operator wrote is one the autoscaling API accepts, targets a
\* Deployment of its name and belongs to a policy: what admission lets through
\* needs no second check at reconcile time.
ManagedHPARealizable ==
  \A i \in DOMAIN hpas : \A h \in HPANames :
    LET hpa == hpas[i][h]
    IN isManagedHPA(hpa) =>
         /\ Realizable(hpa.spec)
         /\ managedHPAName(hpa.spec.target) = h
         /\ hpa.owner # Nil /\ hpa.policy # Nil

\* What stops a pass of the top policy for ever: an annotation that does not
\* parse, a contested name, and in the place of a wanted HPA an unmanaged one or a
\* name that the API server refuses.
Blocked(p) ==
  LET list == Stored(deployments)
  IN \E d \in Live(list) :
       \/ list[d] = "invalid"
       \/ SharesHPA(list, d)
       \/ /\ hpaEnabled(list[d], Stored(policies)[p])
          /\ LET h == managedHPAName(d)
                 hpa == Stored(hpas)[h]
             IN ~ValidHPAName(h) \/ (hpa # Nil /\ ~isManagedHPA(hpa))

\* Once users and faults stop, the highest-priority policy gets every Deployment
\* the HPA it asks for and keeps it so, unless something blocks it.
EventuallyConverged ==
  <>[](\A p \in Policies :
         isHighestPriorityPolicy(Stored(policies), p) /\ ~Blocked(p) =>
           \A d \in Live(Stored(deployments)) : Settled(Stored(deployments), d, p))

\* Once users and faults stop, every policy is announced in its last generation,
\* except a highest-priority one that something blocks.
EventuallyAnnounced ==
  <>[](\A p \in Policies : LET pol == Stored(policies)[p]
         IN \/ pol = Nil \/ pol.observed = pol.generation
            \/ isHighestPriorityPolicy(Stored(policies), p) /\ Blocked(p))

\* "Higher numbers indicate higher priority": at rest, every Deployment has the
\* HPA the highest-priority policy asks for. (Nobody wakes the policy that moves
\* up when the one above it is demoted or deleted.)
AtRestFollowsPriority ==
  AtRest /\ unseen = {} =>
    \A p \in Policies : isHighestPriorityPolicy(Stored(policies), p) =>
      \A d \in Live(Stored(deployments)) :
        SharesHPA(Stored(deployments), d) \/ Settled(Stored(deployments), d, p)

\* "managed HPA must be deleted when annotation disables it": at rest, a
\* Deployment that opts out has no managed HPA.
AtRestOptOutHonoured ==
  AtRest /\ (\E p \in Policies : isHighestPriorityPolicy(Stored(policies), p)) =>
    \A d \in Live(Stored(deployments)) :
      LET hpa == Stored(hpas)[managedHPAName(d)]
      IN Stored(deployments)[d] = "false" =>
           SharesHPA(Stored(deployments), d) \/ ~isManagedHPA(hpa)

\* "To explicitly opt-in/out HPA per Deployment": at rest, a Deployment that opts
\* in has a managed HPA that scales it. (Two Deployments whose names are cut to
\* the same HPA name have one HPA between them.)
AtRestOptInHonoured ==
  AtRest /\ unseen = {} /\ (\E p \in Policies : isHighestPriorityPolicy(Stored(policies), p)) =>
    \A d \in Live(Stored(deployments)) :
      LET hpa == Stored(hpas)[managedHPAName(d)]
      IN Stored(deployments)[d] = "true" => isManagedHPA(hpa) /\ hpa.spec.target = d
================================================================================
