# TLA+ models of platform-governance-operator

The operator governs the namespaces of a Kubernetes cluster through three custom
resources: `WorkloadPolicy`, `SecurityBaseline` and `TelemetryProfile`. This
directory models it in TLA+, checks the models with TLC on small instances, and
proves theorems about them with TLAPS for every instance.

## 1. Inventory

| Component | Code | State it keeps | Operations | Talks to |
|---|---|---|---|---|
| WorkloadPolicy controller | `internal/controller/workloadpolicy_controller.go`, `reconcile_status_helper.go` | none of its own: informer caches, a workqueue, a local copy of the policy for the length of one `Reconcile` | `Reconcile`, the Deployment map function | API server (Get/List from caches; Create/Update/Delete/status Update) |
| horizontalScaling block | `api/v1alpha1/workloadpolicy_types.go`, `internal/webhook/v1alpha1/workloadpolicy_webhook.go`, `effectiveHorizontalScalingPolicy` | fields of `spec` | defaulting, validation, defaulting again in the controller | admission webhooks, controller |
| WorkloadPolicy admission, the rest | `workloadpolicy_webhook.go` | none | checks quantities and labels | API server; the Pod mutating webhook relies on it |
| SecurityBaseline / TelemetryProfile controllers | `securitybaseline_controller.go`, `telemetryprofile_controller.go`, `reconcile_status_helper.go` | as the first controller, in the same process | `Reconcile`: the Available condition only | API server |
| SecurityBaseline / TelemetryProfile admission | `securitybaseline_webhook.go`, `telemetryprofile_webhook.go` | none | check excluded namespaces, endpoints, sampling rates | API server; the Pod webhooks rely on them |
| Pod mutating webhook | `internal/webhook/core/pod_mutating_webhook.go` | a copy of the Pod for one request | `Handle` | caches of policies and profiles |
| Pod validating webhook | `internal/webhook/core/pod_webhook.go` | none | `Handle` | cache of baselines |
| Admission chain | the five webhooks, `config/webhook/` (`failurePolicy: Fail`, CREATE and UPDATE) | the Pod in flight, the stored Pod | create, update, delete a Pod; write the three kinds | API server between the webhooks |
| Process | `cmd/main.go` | leader lease | start, stop | all controllers and webhooks live and die with it |
| Generated code, manifests, scripts | `zz_generated.deepcopy.go`, `config/`, `Makefile` | none | - | - |

What is hard in this code is never in one function. It lies between them:

* **Stale reads.** Every Get and List answers from an informer cache that lags
  the API server by any number of watch events; writes go to the API server.
  `Reconcile` ranks its policy against a List taken later than its Get, decides
  per Deployment on a cached HPA, and all three controllers write the status over
  the copy they read at the start. Both Pod webhooks decide on cached lists.
* **Missing wake-ups.** The controller watches policies and Deployments, not
  HPAs, a change of one policy enqueues that policy only, and when the List in the
  map function of a Deployment event fails, the event is lost.
* **Partial failure.** A pass over the Deployments ends at the first error, and
  the status is only written after a whole pass. A crash or lost reply may fall
  between any two writes, and takes all controllers down at once. One of a Pod's
  two webhooks may answer and the other not.
* **Other hands.** Users edit, release, delete and create HPAs; the garbage
  collector deletes those whose owning policy is gone.
* **Order.** The Pod webhook sorts with an unstable sort, Go visits maps in any
  order, and a policy whose quantities do not parse is abandoned half-way.
* **Trust between webhooks.** What reaches a Pod was checked, if at all, by the
  webhook of another kind, when the policy was written; what the mutating webhook
  adds must still please the API server's own rules, on a first request and on an
  update of a stored Pod.

What makes each component correct:

* controller: at rest the HPAs are what the highest-priority policy asks for, the
  status speaks of the stored generation; it converges once users stop; it never
  rewrites an HPA that is not its own;
* scaling block: what admission lets through needs no further check when an HPA is
  built from it;
* status-only controllers: every object is announced in the end, and only ever in the
  generation that is stored, whichever controller took the process down;
* Pod mutator: only what is absent is filled in, from the highest priority that
  offers it, nothing is missed, and a second pass changes nothing;
* Pod validator: allowed only if every applicable baseline is met, denied only for the
  reason given, which is the first of some baseline's demands the Pod does not meet, in whatever order the cache lists the baselines;
* admission chain: a stored Pod is governed by every object that had reached the caches, what
  is injected was admitted, and an update is not refused for what was added twice.

`PROJECT.json` lists the hazards with their lines and the properties about them.

## 2. Modules

    Streams            what lies between the API server and an informer's cache
    AvailableCondition what a reconciler promises about the condition (abstract)

    HorizontalScaling <--EXTENDS-- WorkloadPolicyController --EXTENDS--> Streams
                                        | implements AvailableCondition
    StatusObjects     <--EXTENDS-- StatusReconciler --EXTENDS--> Streams
                                        | implements AvailableCondition
                                        ^ two instances
                                   StatusControllers

    PodObjects <--EXTENDS-- PodMutator, PodValidator, ResourceAdmission
    PodAdmission --EXTENDS--> Streams, ResourceAdmission
                 --INSTANCE--> PodMutator, PodValidator

`MCWorkloadPolicyController`, `MCPodMutator` and `MCPodAdmission` hold the small
inputs of the runs; `X_proofs` holds the theorems about `X`.

### Streams

A kind of object is a sequence of snapshots: the first is what the informer's cache
holds, the last what the API server stores, those between are watch events
still on their way. A cache is so always some earlier state of the store, which is
what an informer guarantees, and the kinds lag independently. `InSync(stream, k)`
says that no event on its way concerns `k`: the cached object carries the stored
resourceVersion.

### HorizontalScaling

Pure operators: `Default` is the mutating webhook, `Validate` the validating one,
`Effective` the defaulting inside the controller, `Realizable` what the
autoscaling API demands of an HPA. An omitted number is 0, as in Go.

### WorkloadPolicyController

One namespace, one worker (`MaxConcurrentReconciles` is left at 1).

* `policies`, `deployments` and `hpas` are streams.
* A policy has a `uid`, the `generation` the API server counts, `priority`,
  `scaling` (the block after defaulting and validation) and `observed`, the
  `observedGeneration` of its Available condition (0: no condition). The
  condition's other fields never change once written. Names are their ranks in
  string order, by which `isHighestPriorityPolicy` breaks ties.
* A Deployment is its annotation: unset, true, false or one that does not parse.
  Names are sequences of characters, so that truncation is what the code does;
  `MaxBaseLen` stands for the 55 characters it keeps. What the API server makes of
  the result is `ValidHPAName`: a name cut behind a dot is refused.
* An HPA is its managed label, policy annotation, owner reference, and the spec
  fields the controller writes and compares.
* `queue` is the workqueue (a set: it deduplicates); `pc`, `req`, `policy` and
  `listed` are the worker in `Reconcile`.

| Action | Code |
|---|---|
| `Begin(p)` | the Get, the early return on NotFound, the test of `spec.horizontalScaling` |
| `Rank` | `isHighestPriorityPolicy` over the cache as it is now: the policy no other scaling policy outranks. `Higher` is one iteration of the code's loop, proved to find the same |
| `ListDeployments`, `Visit(d)` | `reconcileDeploymentHPAs`, one iteration per step in the arbitrary order of the cache: `CreateHPA`, `RefuseHPA`, `UpdateHPA`, `DropHPA` are its branches with the answers the API server may give (AlreadyExists, Invalid, Conflict, NotFound) |
| `UpdateStatus` | `updateAvailableStatusIfChanged`: skip, write, or Conflict/NotFound |
| `CallFails`, `Written` | a call fails without effect; a write takes effect and its reply is lost |
| `Restart` | process death or lost lease: caches start from the store, every policy is enqueued |
| `DeliverPolicy`, `DeliverDeployment` | watch events with their handlers (`SetupWithManager`). A Deployment event enqueues every cached policy, or none if the map function fails to list them (`MapFails`) |
| `DeliverHPA` | the cache of HPAs advances; there is no handler |
| `Resync` | the informers' periodic resync |
| `CreatePolicy`, `UpdatePolicy`, `DeletePolicy`, `WriteDeployment`, `UserWritesHPA`, `Collect` | users behind the admission webhooks, and the garbage collector |

A visit reads the cached HPA and writes in one step. The read only concerns
the cache, and any interleaving of other actors between read and write is
covered: whatever they do before the write can only make the cache the worker read
staler, and the model lets the cache be that stale.

Two variables are history. `enforcer` is the policy whose last ranking made it
apply its HPAs. `unseen` holds the HPAs that the worker has something to learn about and nothing to
tell it: another hand changed them, the event of their Deployment was lost, or the worker
visited them with a cached HPA or a listed annotation that was behind. It ends with a visit
of current copies. Together they state what convergence can be expected *at rest*: the
worker cannot know of an HPA it does not watch, or of an event it never heard of.

### AvailableCondition

The promise in four actions: objects are created, changed and deleted by their
users, and the only thing a reconciler does is to announce an object in the
generation that is stored at that moment. `Contract` in both controller modules
maps the stored objects to these; `KeepsContract` is the refinement.

### StatusReconciler, StatusControllers

The SecurityBaseline and TelemetryProfile reconcilers are the same code over two
kinds: Get, return on NotFound (`Begin`), `updateAvailableStatusIfChanged`
(`UpdateStatus`, `CallFails`), with a watch that enqueues every changed object
(`Deliver`). `StatusReconciler` is one of them; `StatusControllers` puts two
instances in one process. Their steps interleave; `Restart` is the one step they
take together, because the manager of `cmd/main.go` starts and stops both.

### PodObjects, PodMutator

`PodObjects` holds what Pods, policies, profiles and baselines are to the
webhooks. A Pod is four maps (labels; environment variables, requests and limits per
container), with `Nil` where a key is absent, and its security settings apart; a
quantity is a number, or `Invalid` where it does not parse.

`PodMutator` is one request to `/mutate-core-v1-pod`, then the next for the Pod
that came out of it. `policies` and `profiles` are what the two Lists returned
(anything the caches may hold, `\E` over `PolicySpecs` and `ProfileSpecs`), `todo`
what the current loop has yet to visit. All four maps are filled by the same
`Fill`. `Ranged` is a Go loop over a map that stops at the first quantity that does
not parse: any subset of the good keys may have been filled by then. `VisitPolicy`
keeps the order and the scope of `mutated` as the code has them. `Errored` is every
answer without a Pod: a request that does not decode, a List that fails, a patch that
does not encode. The events and
the JSON patch are left out: the answer is the Pod that goes on.

### PodValidator

One request to `/validate-core-v1-pod` after another. A setting of the Pod is a Go
pointer to a boolean, so it may be unset, true or false, and only true obeys.
`Denials` keeps the order of the checks within a baseline; `VisitBaseline` is one
iteration, `Errored` both early returns. `Complies` restates what a baseline asks
for without the order of the code, and the properties compare the two. Events
are left out.

### ResourceAdmission

`validateWorkloadPolicySpec` (quantities and labels), `validateTelemetryProfileSpec`
and `validateSecurityBaselineSpec`, as predicates over the objects of `PodObjects`.
What `strings.TrimSpace`, `url.ParseRequestURI` and `strconv.ParseFloat` make of a text are
constants (`Blanks`, `SchemeOf`, `RateOf`); a parsed rate may be `NaN`, of which both
`rate < 0` and `rate > 1` are false, so it passes.

### PodAdmission

One Pod of one namespace, and everything that decides about it. Users write
policies, profiles and baselines through `ResourceAdmission` into streams, and
create, relabel and delete the Pod. `Submit` starts a request, `Mutate` runs the
steps of `PodMutator` over lists taken from the caches at that moment,
`Mutated` applies the API server's own rules (requests default to limits and may not exceed
them, label syntax, an update may change nothing but labels), `Validate` runs
`PodValidator`, and `Validated` stores the Pod or not. `CallFails` is a webhook that
cannot be reached (`failurePolicy: Fail`), and `Restart` takes the calls down
with the process. Both webhooks are INSTANCEs with their variables renamed, so the
composition adds no second version of them.

`steady`, `lagging` and `applied` are history: the objects not written since the
request, those whose cached version was behind when it was made, and those whose
stored version had its say about the stored Pod.

Operators whose comment starts with "Seeded fault" are plausible wrong versions of
the definition after them. No specification uses them; each is there to show
that a property notices the fault.

## 3. Runs

| Run | Bounds | What it shows |
|---|---|---|
| `priorities` | 2 policies of 2 priorities and 2 blocks, 1 Deployment, 2 edits, lag 1 | types; at rest the HPAs are those of the policy that last ranked first, if it still does; what that policy was served with is not undone by any pass (`ServedStaysServed`); the loop over the listed policies, in every order, against its declarative meaning (`ScanAgrees`, an assumption of `MCWorkloadPolicyController` that TLC evaluates in all its runs) |
| `tampering` | 1 policy (no block, a full one, or one that admission must refuse), 2 Deployments whose names are cut to the same HPA name, 2 edits on policy, Deployment or HPA, 1 fault (a failed call, of `Reconcile` or of the map function, a lost reply or a restart), lag 2 | repair of managed HPAs, hands off unmanaged ones, which are deleted only while the cache does not show them (`UnmanagedDeletedOnlyBehind`), every managed HPA realizable, condition current at rest and never ahead of the work (`AnnouncedOnceServed`), refinement of `AvailableCondition` (in particular the observed generation never goes back) |
| `convergence` | any 2 policies of equal priority (ranked by name) and 2 blocks, 2 Deployments, one of them with a name cut behind its dot, 1 edit on policy, Deployment or HPA, 1 fault, lag 1, fairness | eventually settled and announced for good |
| `announcements` | 1 baseline and 1 profile, 2 edits and 1 fault each, lag 2, fairness | both status-only controllers in one process: every object announced at rest and in the end, refinement of `AvailableCondition` |
| `pod_defaults` | 2 policies of 5 contents (2 broken), 2 profiles of 4, 2 containers, 2 Pods | own settings kept, highest priority wins, nothing missed |
| `pod_admission` | 1 policy of 6 contents (2 refused, 1 with a limit below its own request), 1 profile of 4 (2 refused, 1 with a rate in range, 1 with NaN), 2 baselines of 4 (1 refused, 1 that excludes the namespace, 1 with both demands, 1 with a read-only filesystem only), 1 container and 1 init container, 2 Pods with 5 security settings, 1 edit, lag 1; the baselines are interchangeable (SYMMETRY) | a stored Pod is governed by every object in sync at its request; updates refused only after a change, valid Pods only for a default that does not fit (`InvalidOnlyForDefaults`); nothing broken is listed, nothing unadmitted injected; allowed only if compliant, denied only for the reason given |
| `follows_priority`, `opt_out`, `opt_in`, `broken_resources`, `bypass`, `sampling_rate` | smallest that show it | the disagreements of section 6 |

Why these bounds: two policies are the least that can compete, and ranking
compares pairs. One Deployment is enough where Deployments do not interact, and
where they do (shared names, an invalid annotation that ends the pass) there are
two. Two edits allow a delete and a create with the same name; lag 2 lets a worker
write over a copy two versions old. Two containers are what a policy failing in the
second, after filling the first, needs. Two baselines are the least with an order, and
with the settings of `SomeSecurity` every rule a Pod may be denied for is the answer
of some behaviour. In
`pod_admission` one edit between any two steps is enough for a Pod whose lists
straddle a write; objects of one kind meet in `pod_defaults`, so one policy and
one profile do. A Pod is resubmitted without end in both Pod runs, and the phases
of a request repeat, so the runs cover updates of a stored Pod.

`convergence` uses one priority because 2 policies of 2 priorities are covered for
safety by `priorities`, and temporal checking is the dearest thing here: a tie broken
by name exercises the same branch, one policy above another.

The API server, the watch and the users can always take a further step (a
resync, the next request), so deadlock checking is on everywhere.

## 4. Fairness

`Fairness` of `WorkloadPolicyController` asks for what controller-runtime gives: the
worker goes on (weak fairness of each step of `Reconcile`), informers deliver, the
garbage collector collects and the informers resync (weak fairness), and the
workqueue, which is first-in first-out, passes no request over for ever (strong
fairness of `Begin(p)`, as one policy's turn comes between those of others). Users,
failing calls and restarts have none, and their number is bounded by `MaxEdits` and
`MaxFaults`, so every behaviour has a last edit and a last fault. `Resync` is
what makes convergence of the HPAs possible at all, see the findings:
controller-runtime's default period is about ten hours.

`StatusReconciler` asks for less: begin, write, deliver. Its objects are all
watched, so announcements do not need the resync, and `EventuallyAnnounced` holds
without it. Both controllers have this fairness separately, as goroutines of their own.

## 5. Proofs

All theorems are for any values of the constants that satisfy the named
assumptions of the modules (`ConstantsAssumption`, `NilIsNoObject`,
`MaxLagAssumption`, `AdmissionAssumption`, `RatesAssumption`, and those of `PodObjects`).

`HorizontalScaling_proofs`: for every block of integers, the controller's own
defaulting is the identity on what the webhook stored (`DefaultedIsEffective`),
and what both webhooks let through is realizable (`ValidatedIsRealizable`).

`Streams_proofs`: what Head, Last, Append and Tail do to a stream, its type, and
`InSync`; cited by the three modules that are built on streams.

`WorkloadPolicyController_proofs`:

* `TypeCorrect`: `TypeOK` is inductive, proved per group of actions.
* `ManagedRealizable`: strengthened to hold of every snapshot in the stream and of
  the worker's copy. `PoliciesAdmitted` (every block in every snapshot, and in the
  worker's hands, is an admitted one) is proved first; `HPAsSound` then follows,
  with `ValidatedIsRealizable` at the places where HPAs are written.
* `UnmanagedKept`: an action property from `TypeOK` alone; the one interesting step
  is `UpdateHPA`, where `InSync` makes the stored HPA the cached, managed one.
* `UnmanagedDeleted`: of the steps that delete, only the worker's needs an argument:
  it deletes what its cache shows as managed, so if the stored HPA is not, the two
  differ and the cache is behind.
* `ScanFindsHighest`: the loop over the listed policies, for any number of them in
  any order, ends with the one that `isHighestPriorityPolicy` names. `HigherStep` is one
  iteration; the induction over the candidates goes by the least one that fails
  (`LeastNumber`, which follows from the well-foundedness of `<` on the naturals),
  as the library's induction theorems cannot be instantiated here.
* `ImplementsAvailableCondition`: from `StoredPolicySteps`,
  which says what any step may do to the stored policies. The refinement proof maps each kind of step to
  `Create`, `Change`, `Delete`, `Observe` or a stutter.
* `NoStatusLost`: `AtRestStatusCurrent` is not inductive. `StatusPending` says why
  it holds: a policy whose stored version is not announced is in the queue, or in
  the worker's hands, or a newer version of it is still on its way to the cache,
  whose delivery will enqueue it. That is preserved by every action, restarts and
  failed calls included.
* `RestConverged`: `AtRestConverged` rests on `Serving`. While the enforcer is `Quiet`
  (not queued, its policy in sync), the worker is about to rank it, is about to list for
  it, or every Deployment the cache shows is `Served` but those still listed in its pass
  (`UnderWay`). A Deployment event either queues the enforcer or is lost, and then makes
  the HPAs of its Deployments unseen and leaves the others served (`LostEvent`); a visit
  with an annotation listed before it leaves them so. At rest the cached Deployments are
  the stored ones (`RestCached`). `WorkerInv` is what makes the pass reliable: unless the enforcer is
  queued, the worker's copy is the cached policy. `QuietBefore` shows that only the
  `Begin` of the enforcer can make it quiet, and `VisitServes` that a visit with current
  copies settles the HPA or finds its cache behind.
* `NothingUndone` and `AnnouncedAfterServing` speak of the time between two rests, from
  the same invariant (`AlwaysServing`). A write of the worker can only hit a served HPA
  in the enforcer's own pass, as no other policy's ranking leads to a pass
  without becoming the enforcer; that pass writes what the stored objects ask for
  (`ServedKept`, `VisitServes`). And the enforcer's status is written from `status` only,
  where by `Serving` no Deployment is left to serve.

`StatusReconciler_proofs`: the same three results (types, `NoStatusLost` by its own
`Pending`, the refinement) for a status-only controller. `StatusControllers_proofs`
first shows that every step of the process is a step of each controller or leaves it
alone (`ImplementsBoth`), and carries the results over to both in one process.

`PodMutator_proofs`: type correctness, and the three properties of the
`pod_defaults` run, for any number of policies, profiles, containers, keys and
values. They rest on one invariant of the two loops (`LoopInv`): the copy keeps what
the author set; what differs from the request is the offer of a highest-priority
object; a visited object, unless it is a policy with a broken quantity, has
nothing left to fill in; and while nothing counts as mutated and no policy is
broken, the copy equals the request. That the visits descend in priority is the
guard of the visit (`Highest`), and with what visited objects left unfilled it
gives `Precedence`.

`PodValidator_proofs`: type correctness, and the verdict for any number of baselines
and containers. The invariant is that the visited baselines have nothing against
the Pod and that a denial has a witness; `DenialsFaithful` ties the ordered checks
of the code to what a baseline asks for.

`PodAdmission_proofs`: every property of the `pod_admission` run. `ImplementsHandlers`
shows that, whatever goes on around them, the two webhooks behave as `PodMutator` and
`PodValidator` specify, so that their invariants hold here (`HandlersInv`). Next to
them `Inv` holds of

* the streams: every snapshot holds admitted objects only (`StreamsInv`), of which
  `NoneIsBroken` and `InjectionsAdmitted` are consequences, as the lists come
  from snapshots (`ListsInv`);
* the objects neither written since the request nor behind at the time: they are in
  sync still, and what the handler listed of them is what is stored (`CurrentInv`);
* the Pod: a stored one lacks nothing that an `applied` object offers, a request to update it differs
  in labels only, and a refusal of the update means that something not applied was filled in
  (`PodInv`). The last is why a second pass over the same objects changes nothing.

`RefusedForDefaults` adds `RefusalInv`: a request carries what the API server defaults, so
that every limit in it has a request next to it, and a Pod found invalid is. With `AnswerAdds`
(whatever the answer adds was left out and is some listed policy's) a case split over what
was filled in next to what leaves the three reasons of `InvalidOnlyForDefaults`, and rules out
the fourth, a default request above the Pod's own limit.

`Governed` then joins what the mutator leaves unfilled (nothing), what the validator
allowed, and `CurrentInv`.

Only model-checked: the liveness properties (`EventuallyConverged` and the two
`EventuallyAnnounced`), which are beyond the prover. Every
invariant and action property of a passing run is proved; every finding is a TLC
counterexample.

## 6. Disagreements between code and text

* `follows_priority`: "Higher numbers indicate higher priority"
  (`workloadpolicy_types.go:37`), but after a demotion or deletion of the top
  policy nobody wakes its successor.
* `opt_out`: "managed HPA must be deleted when annotation disables it"
  (`workloadpolicy_hpa_test.go:266`), but a stale NotFound skips the deletion and
  HPAs are not watched.
* `opt_in`: "To explicitly opt-in/out HPA per Deployment" (`README.md:131`), but
  two long names may be cut to one HPA.
* `broken_resources`: "Skipping resource defaults from WorkloadPolicy due to invalid
  configuration" (`pod_mutating_webhook.go:80`), but those visited before the
  failure are kept. `NoneBroken` of `pod_admission` shows that the validating webhook
  keeps such policies out; they exist if they were stored while `ENABLE_WEBHOOKS`
  was `false`, and the code and its test
  `TestPodMutatorHandleSkipsInvalidPolicyAndAppliesValid` provide for them.
* `bypass`: "No Pod can bypass the SecurityBaseline checks or miss the WorkloadPolicy
  defaults" (`docs/adrs/0002-webhook-failure-policy-fail.md:21`), but the webhooks list
  from caches. `StoredGoverned` is what is true: no failure, timeout or restart lets a
  Pod past an object that had reached the cache and did not change meanwhile.
* `sampling_rate`: "samplingRate must be between 0 and 1"
  (`telemetryprofile_webhook.go:101`), but of `NaN`, which `ParseFloat` accepts, both
  comparisons are false, and it is injected. `InjectedAdmitted` of `pod_admission` shows that
  nothing else out of range is.

The models also show, without contradicting a text:

* a released or replaced HPA may be deleted because Delete carries no
  precondition (`UnmanagedDeletedOnlyBehind` says that a cache that is behind is the
  only way), and an HPA taken over from another policy keeps that policy's
  owner reference, so it is collected with it;
* labels of a policy with a broken quantity are dropped if nothing else mutates the Pod;
* a Deployment event whose map function fails to list the policies is lost, and the
  Deployment keeps the HPA it has, or none, until another event or a resync
  (`AtRestConverged` says that it leaves no other Deployment behind, `EventuallyConverged`
  that the resync heals it);
* a Deployment whose name is cut behind a dot (`a.-pgo-hpa`) has its HPA refused for
  ever, and with it every pass of the first policy and its announcement (`Blocked`);
* a default limit below the Pod's own request makes the API server refuse a Pod that is valid
  without it; a mandatory label whose value is not in the label syntax (`x/y` passes
  `validateWorkloadPolicySpec`, which only looks for blanks), a policy whose own limit is
  below its own request, and a negative quantity do the same. `InvalidOnlyForDefaults`
  says that these are the only ways;
* once a policy or profile has changed, updates of Pods stored before may be
  refused for what the mutating webhook adds to them (`RefusedOnlyAfterChange`
  says that this is the only reason).

One hazard has no property: that HPAs of a Deployment which is gone, or of a policy
that dropped its block, stay. It contradicts nothing the repository states; the model
behaves so.

## 7. Not modelled

* API server, informers, workqueue and garbage collector appear as the operator
  uses them. Back-off delays have no duration. Two leaders at once are left
  out: the old one's late writes would be those of a stale worker. A second replica
  that serves webhooks from caches of its own is left out: its staleness is that of the
  one modelled, but the two webhooks of one request would read different caches.
* HPA fields the controller neither writes nor compares; metrics other than the
  one it writes.
* Of admission: dry runs, ephemeral containers, subresources, and the API server's
  rules on Pods beyond quantities, labels and immutability. Namespaces do not
  interact, so there is one.
* `cmd/main.go` beyond start and restart: flags, TLS, metrics and probes keep no
  state the rest reads, and `ENABLE_WEBHOOKS=false` is only the source of broken
  policies above. RBAC and CRD manifests, generated code and scripts hold no state
  of their own.
* The text forms that `resource.ParseQuantity`, `url.ParseRequestURI` and
  `strconv.ParseFloat` accept: libraries, modelled by their outcomes.

## 8. Plan

1. (done) `HorizontalScaling`, `WorkloadPolicyController`, `AvailableCondition`,
   `PodMutator`, `PodValidator`, their runs and proofs.
2. (done) `Streams`, `StatusReconciler`, `StatusControllers`: the other two
   controllers, with proofs.
3. (done) `PodObjects`, `ResourceAdmission`, `PodAdmission`: all webhooks and the API
   server between them over lagging caches, with proofs.
4. (done) `RestConverged`, with an invariant over queue, events, worker and pass in
   the manner of `StatusPending`.
5. (done) The loop of `isHighestPriorityPolicy` (`ScanFindsHighest`), the action properties
   `ServedStaysServed`, `AnnouncedOnceServed` and `UnmanagedDeletedOnlyBehind`, and
   `InvalidOnlyForDefaults`, with proofs.
6. The steps `EventuallyConverged` rests on, as safety facts: what a pass of the highest
   policy with current copies leaves settled.
