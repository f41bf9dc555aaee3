# The Sail Operator in TLA+

This directory is a formal model of the Sail Operator, the Kubernetes operator
that installs, upgrades and removes Istio control planes.  The TLA+ modules are
translated from the Go code under `src/`; TLC checks them on small instances
and TLAPS proves the most important properties for every value of the
constants.  `PROJECT.json` names, for each definition, the lines of code it
stands for.

## 1. The system

The operator is one process (`cmd/main.go`) that runs six controllers on
controller-runtime, under leader election.  A controller owns a work queue of
object names.  Watch handlers put names into the queue, a worker takes one,
reads objects **from informer caches**, writes to the API server and may ask to
be called again.  One name is never processed by two workers at a time; by
default each controller has one worker (`--max-concurrent-reconciles`,
`main.go:59`).

| Component | State it keeps | Operations | Talks to |
|---|---|---|---|
| **Istio controller** `controllers/istio` | `Istio.status` | create/update the active IstioRevision, prune inactive ones, report status | IstioRevisions (API), its own requeue timer |
| **Revision helpers** `pkg/revision` | none | CreateOrUpdate, PruneInactive, ListOwned, reference detection, ComputeValues | called by the Istio, IstioRevision and tag controllers |
| **IstioRevision controller** `controllers/istiorevision` | `IstioRevision.status`, finalizer | install/upgrade charts, uninstall, conditions Reconciled/Ready/DependenciesHealthy/InUse | chart manager; Namespaces, Pods, tags, IstioCNI, Deployments (caches) |
| **IstioRevisionTag controller** `controllers/istiorevisiontag` | tag status (`istioRevision`, `istiodNamespace`), finalizer | resolve the target, install the tag chart, report InUse | Istio and IstioRevision (caches), chart manager |
| **IstioCNI controller** `controllers/istiocni` | IstioCNI status, finalizer | install the CNI chart, readiness of the DaemonSet | chart manager |
| **ZTunnel controller** `controllers/ztunnel` | ZTunnel status, finalizer | install the ztunnel chart, readiness of the DaemonSet | chart manager |
| **Webhook controller** `controllers/webhook` | annotations on the MutatingWebhookConfiguration | probe a remote istiod periodically, record the result | HTTP, IstioRevision controller (through the annotation) |
| **StandardReconciler** `pkg/reconciler`, `pkg/kube` | finalizer | fetch, add finalizer, finalize, remove finalizer, classify errors | wraps every controller |
| **Chart manager** `pkg/helm` | Helm release records | UpgradeOrInstallChart, UninstallChart, repair of interrupted operations | Helm SDK |
| **Values and versions** `pkg/istiovalues`, `pkg/istioversion` | none | profiles, vendor defaults, digests, FIPS, version aliases | Istio, IstioCNI and ZTunnel controllers |
| **Predicates and handlers** `pkg/predicate`, `pkg/enqueuelogger`, `pkg/validation`, `pkg/errlist` | none | filter events, log enqueues, check names and namespaces | every controller |
| **API types** `api/v1`, `api/v1alpha1` | spec and status | GetCondition, SetCondition | every controller |

### What is hard here

* **Stale reads.**  Every read is served by a cache that lags behind the
  server, and different kinds lag independently.  Updates of a spec carry a
  resourceVersion and are refused when outdated; status patches
  (`pkg/kube/status_patch.go`) and deletions carry none.
* **Missed wake-ups.**  A condition is recomputed only when some event puts the
  object's name into a queue.  Which events do, and which are filtered out
  (`ignoreStatusChange`, `IgnoreUpdate`, the map functions), decides whether a
  status can stay wrong.
* **Chains of statuses.**  The state of an Istio is a copy of its revision's,
  which depends on that of the IstioCNI, which depends on a DaemonSet.  Every
  link is a cache, an event and a work queue.
* **Partial failure and crashes.**  A reconcile makes several writes; it may
  stop after any of them.  Finalizers and Helm's release records are what the
  next attempt starts from.
* **Time.**  Pruning waits for a grace period that is computed from a status
  condition, a cached copy and two readings of the clock; a remote control plane
  is probed periodically.
* **Errors as control flow.**  Whether a failed reconcile is tried again depends
  on the class of its error, which is inspected after wrapping, joining and, in
  the tag controller, unwrapping.
* **Shared names.**  A tag and an IstioRevision may have the same name, and if it
  is `default` the same Helm release; the two controllers exclude each other by
  looking into each other's caches.
* **Layers of values.**  Four sources may set a Helm value, three controllers
  layer them, and the result is computed twice.

## 2. Modules

Sources are paths below `src/`.  `PROJECT.json` maps every definition to its
lines.

```
 users, workloads                            users, other controllers
        |                                             |
 RevisionLifecycle <-- InUse -- InUseDetection   SharedName  (tag and namesake)
        |                                             |  EXTENDS
        |            Readiness (statuses)         RevisionTag
        |               |  EXTENDS                    |
        |            NodeComponents                   |
        |  one value per release                      |
        +-------------------> ChartRelease <----------+
                                   ^
                                   |  implements
                              HelmRelease            Values (a computation)

 RevisionLifecycle, NodeComponents -- implement --> FinalizedRelease
```

| Module | Models | Read with |
|---|---|---|
| `RevisionLifecycle` | Istio and IstioRevision controllers sharing the API server: creation, update, pruning, finalization, installation, statuses, grace period | `MCRevisionLifecycle`, `RevisionLifecycleProofs` |
| `InUseDetection` | how the InUse condition follows tags, namespaces and pods | `MCInUseDetection`, `InUseDetectionProofs` |
| `NodeComponents` | the IstioCNI and ZTunnel controllers | `NodeComponentsProofs` |
| `Readiness` | how the states of IstioCNI, IstioRevision and Istio follow the cluster, with the webhook controller; composes `NodeComponents` with the rest | `MCReadiness`, `ReadinessProofs` |
| `RevisionTag` | the IstioRevisionTag controller, for one tag | `SharedName`, `RevisionTagProofs` |
| `SharedName` | a tag and an IstioRevision of the same name, and the base chart of those named `default`; composes `RevisionTag` with the IstioRevision controller | `MCSharedName`, `SharedNameProofs` |
| `Values` | the Helm values that each controller installs, and versions | `MCValues`, `ValuesProofs` |
| `ChartRelease` | the contract of the chart manager: what its callers rely on | `HelmRelease` |
| `FinalizedRelease` | the contract of `StandardReconciler`'s finalizer: what holds between an object's life and what is installed for it | `RevisionLifecycle`, `NodeComponents` |
| `HelmRelease` | `UpgradeOrInstallChart`, `UninstallChart` and the Helm operations below them, write by write | `HelmReleaseProofs` |

`Readiness` and `SharedName` are compositions with shared variables: their
`Next` contains every step of the module they extend, extended by what that step
means for the other side, and TLAPS proves that they implement it.  The other
modules are composed by contract: `RevisionLifecycle` takes from
`InUseDetection` the single Boolean `used[n]` ("the caches reference revision
n") and from `ChartRelease` the single Boolean `release[n]`; `RevisionTag` takes
from `ChartRelease` the content of one release per namespace, `NodeComponents`
and `Readiness` that a chart is installed or not.  What a module assumes of
another is stated where it does so below.

### 2.1 RevisionLifecycle

*State.*  `istio`, `rev` are the objects on the API server; `cIstio`, `cRev` the
informer caches; `queue` both work queues, `timer` the delayed re-enqueue
(`RequeueAfter`); `iw` and `rw[n]` the workers, each with the copy it read from the
cache; `release[n]` whether the charts are installed; `used[n]` whether the pod,
namespace and tag caches reference n.  `fresh[n]` says which of the cache and the
worker hold n at its current resourceVersion: it replaces the version number, so
that the number of writes need not be bounded.  A uid tells incarnations of a
name apart.

*Ghosts.*  `sinceUse[n]` is the seconds since the server last reported n in use.
`overwritten[n]` says that the transition time on the server was taken from a copy
that did not show the server's InUse condition when it was read (`old`, a field of
the copy that `InstallCharts` captures; `Shows` compares the two).  No guard
reads either.

*Time* passes in whole seconds, the unit of `inactiveRevisionDeletionGracePeriodSeconds`.
A transition time is kept as the age it has now, up to the grace period.

*Actions.*

| Action | Code |
|---|---|
| `CreateActiveRevision`, `UpdateActiveRevision` | `istio_controller.go` `reconcileActiveRevision`, `pkg/revision` `CreateOrUpdate` |
| `PruneInactive` | `pkg/revision/prune.go` with `ListOwned`; deletions go out one by one, and the first that fails ends the call |
| `UpdateIstioStatus` | `istio_controller.go` `determineStatus`, `updateStatus`, and the Result the reconcile returns |
| `AddFinalizer`, `Finalize`, `RemoveFinalizer`, `RevisionNotFound` | `pkg/reconciler/reconciler.go` around `Finalize` of `istiorevision_controller.go` |
| `InstallCharts`, `UpdateRevisionStatus` | `istiorevision_controller.go` `Reconcile`: the captured copy is used for the status written after the installation |
| `DeliverIstio`, `DeliverRevision`, `TimerFires`, `Crash` | informers, watch handlers and restart |
| `CollectGarbage` | the API server's garbage collector (external) |

A reconcile of an Istio has three steps (create or update; prune; status), a
reconcile of a revision two: these are the points between which another actor
writes something the code reads or overwrites.  A spec update is refused unless
its holder is in `fresh[n]`; status patches and deletions are not.

*Lag.*  Every cache may be behind for as long as it takes; the module has no mode
without lag.  `SlowPrune` is the one constant that selects behaviour: it lets a second
pass between the two clock readings of `PruneInactive`.

*Assumption on InUseDetection.*  `ChangeUsage` enqueues the revision whose use
changes.  The deviations of 4.2 are the cases in which the code does not.

### 2.2 InUseDetection

`namespaces`, `pods` and `tags` are the contents of the informer caches; a change
of one and the event it raises are one step, because client-go updates the
store before it calls the handler.  `cInUse` lags behind `inUse`.  A reconcile takes
the key and the cached copy (`TakeKey`), then lists tags, namespaces and pods in
three steps, then patches (`PatchStatus`); each list may fail.  The early `return`s of
`isRevisionReferenced` are the branches that go straight to the patch.

`missed` is a history variable, which no guard reads: the revisions for which a
change of a namespace or a pod changed the pods that a reconcile would count
(`Recounted`, with the cached namespaces or with the list the worker already
has) and that were not queued by that change or since.  It is what `AccurateAtRest`
excuses, and `OnlyKnownMisses` says exactly which changes can put a revision there.

The reference helpers and the map functions keep the names they have in
`pkg/revision/references.go` and `istiorevision_controller.go`.  A pod is its labels and
its injection annotation (`AllShapes`); `InOrder` says that a pod is seen after its
namespace and gone before it, which separate informers do not guarantee across
a namespace's creation but nearly always deliver; only `NoForgottenReference`
depends on it.  With `Completes` a pod may run to completion, an update that
`ignoreStatusChange` drops.  The revisions exist throughout: their creation and
deletion are in `RevisionLifecycle`.

### 2.3 HelmRelease and ChartRelease

`history` is what Helm's Secret storage holds, by version; `objects` are the
objects on the cluster, each named by the one chart that contains it (objects
that two charts share never need removing and are left out).  `call.pc` is the
write the call has reached.  `UnlockRelease`, `ReadRelease` and `Switch` are
`pkg/helm/chartmanager.go`; the other actions are Helm's
install, upgrade, rollback and uninstall, modelled from how the chart manager
parameterises them (`MaxHistory = 1`, no wait, no hooks of its own) and marked
external.  `Crash` stops a call between any two writes; `ApplyFails` is a manifest
that cannot be applied, which Helm records.  Errors of Helm's own record
writes that Helm only logs are not modelled.

One assumption about Helm's client, which is not part of the repository, matters to
a property: an upgrade that cannot remove an object that the new manifest has
dropped is taken to fail and to be recorded as failed.  A client that logs such a
failure and goes on would complete the upgrade, and the object would stay with no
record of it.  `NothingUntracked` and its theorem hold under this assumption; the
owner reference still lets the garbage collector remove the object with the
resource.

`stray` is a ghost: the objects that `UninstallChart` does not find in the latest
manifest when it removes a release whose upgrade had failed.  They carry owner
references to the deleted resource, so the garbage collector removes them.

### 2.4 NodeComponents

The IstioCNI and ZTunnel controllers are the same program but for names and Helm
values, so a resource is its kind, and `Kinds` says which exist.  `ns`, `node`,
`daemon` are the shared target namespace, the resources and their DaemonSets;
`cNs`, `cNode`, `cDaemon` the caches of each, `pending` the events under way.  A
reconcile has three shapes, decided by the cached copy as in
`pkg/reconciler/reconciler.go`: `AddFinalizer`; `UninstallChart` then
`RemoveFinalizer`; or `InstallChart` (with `validate`) then `UpdateStatus`
(`determineReconciledCondition`, `determineReadyCondition`, `deriveState` and the
patch).  `Update` is an Update of a copy, refused when the server has another
version.  `masked` is a ghost: the kinds whose last reconcile joined another error
to a validation error, which makes `StandardReconciler` return none of them.
That a namespace is gone with everything in it (`NamespaceGone`) is the
namespace controller's doing.

### 2.5 Readiness

Adds to `NodeComponents` one revision (local with `istiod`, or remote with an
injection webhook `hook` and a remote istiod that is `remoteUp` or not), the Istio
that owns it, and three controllers.  Only statuses are modelled: creation,
pruning and finalization of revisions are in `RevisionLifecycle`.

| Action | Code |
|---|---|
| `ReconcileRevision`, `UpdateRevisionStatus` | `istiorevision_controller.go` `doReconcile`, `determineReadyCondition`, `determineDependenciesHealthyCondition` and the patch |
| `DeliverIstiod`, `DeliverHook`, `DeliverToAll` | the watches of the three controllers with their predicates; `mapIstioCniToReconcileRequests` |
| `Probe`, `RecordProbe`, `TimerFires` | `webhook_controller.go`: the HTTP exchange takes its time, and the annotation is an Update of the copy that was probed |
| `ReconcileIstio`, `UpdateIstioStatus` | `istio_controller.go`: an update of the revision that may be refused, and the state copied from the cached revision |
| `Crash` | all work queues, workers, timers and caches at once |

`ChangeRemote` raises no event: only the next probe notices.  `lost` is for the
revision what `masked` is for node components.

### 2.6 RevisionTag and SharedName

`RevisionTag` is one tag, one Istio, any number of revisions, each in a fixed
namespace.  The tag is installed in the namespace of the revision its `targetRef`
stands for; `release` says what the tag's release holds in each namespace (the
name of the revision is all its charts depend on).  Each kind is read from a
cache of its own.  `validate`, `Resolve`, `UninstallFormer`, `installHelmCharts`,
`InstallBase` and `UpdateStatus` are the parts of `Reconcile` in
`istiorevisiontag_controller.go` between which the caches move; the target is
resolved anew in three of them, as in the code.  `Unwrapped` is what
`errors.Unwrap(reconcileErr)` leaves of each error, and `Selects` is
`mapOperatorResourceToReconcileRequest`, which selects tags by the revision in
their cached status.  `UninstallChart` without a namespace on record finds no
release.  `gen` and `observed` are the generation and `observedGeneration`, which make
a status patch go out although no condition changed.  Equality of objects
stands for equality of resourceVersions.  `ChangeReference` enqueues the tag: the
changes of namespaces and pods that the map functions miss are the subject of
`InUseDetection`, whose handlers are built the same way.  A tag named `default` is
also in use if the values of its revision enable injection in all namespaces
(`UsedByDefault`): which revisions do is the constant `EnabledByDefault`, so their
values do not change.

`TagSpec` is the tag by itself.  What the IstioRevision of its name (the
*namesake*) and that one's controller may do to it is the environment action
`Elsewhere`.  `SharedName` makes it concrete: users create and delete the
namesake, whose controller adds the finalizer, refuses or installs
(`InstallRevision`), updates its status and finalizes.
`ResourceTakesPrecedence` compares creation times, which have a resolution of
one second, then uids.  If both are named `default` they share the release
`default-base`: `base` says whose version of the chart it holds.  The IstioRevision
controller watches the base chart's one object, a ServiceAccount, for deletion
(`BaseEvent`); the tag controller does not watch it.  `takenOver` is a ghost: the
tag has become the owner of what the namesake had installed.

### 2.7 Values

Values are typed structures, of which only the fields matter that the code reads
or writes itself; `AllValues` maps each field to its content or `Unset`.
`mergeOverwrite`, `SetIfAbsent`, `ApplyDigests`, `ApplyVendorDefaults`, `resolve`,
`getValuesFromProfiles`, `ApplyProfilesAndPlatform`, `ApplyFipsValues` and
`ApplyOverrides` keep their names from `pkg/istiovalues` and `pkg/helm/values.go`.
`ComputeValues`, `installIstioCNI` and `installZTunnel` are the orders in which the
three controllers apply them.  `Computed` also resolves the version
(`pkg/istioversion`).  `validateRevision` and `DependsOnIstioCNI` are what the
IstioRevision controller does with the result.  The only step of the state
machine is the computation: the states are its inputs and outputs.

### 2.8 FinalizedRelease

What `pkg/reconciler/reconciler.go` promises of every object that stands for a
Helm release, with no queue, cache or worker: `stage` is how far an object is in
its life, `installed` whether anything is installed for it.  An object is `New`
until it has the finalizer, then `Guarded`; only then may a reconcile install.  A
deletion makes it `Doomed`, which reconciles that work with an old copy do not
know: they may still install.  When the operator has noticed, it is `Leaving`:
from then on nothing is installed, and the object goes once nothing is left.

`RevisionLifecycle` and `NodeComponents` implement it (`KeepsFinalizerContract`).
`Stage` maps an object with finalizer and deletion mark to `Leaving` when the
cache shows the mark, which is when the code begins to finalize.  An installation
counts when the reconcile reads its copy: both modules read and install in one
step, since a name has one worker at a time and nobody else touches its release.
A slow installation may still be running when the cache learns of the deletion;
the worker finalizes after it.  `RevisionTag` does not implement the contract: its
release in a namespace that the tag has left may stay (4.2).

## 3. Fairness

| Assumption | Why the code justifies it |
|---|---|
| WF of each controller | a worker goroutine takes a key that is in the queue and runs the reconcile to its end; a call that fails returns, and the number of failures is bounded |
| SF of `TakeKey(r)` in `InUseDetection` | the work queue is first in, first out: a key that stays queued is reached although the queue is never empty |
| WF of deliveries | informers reconnect and relist |
| WF of `TimerFires` | the delaying queue adds a key when its time has come |
| WF of `SkipMissing` in `Readiness` | dropping the key of a missing object is a reconcile like any other |
| WF of `Tick`, `CollectGarbage` | time passes; Kubernetes' garbage collector works |
| none for users, kubelets, remote control planes, crashes, faults | they owe nothing, and are bounded |

No run relies on the ten-hour resync of informers: it would hide every missed
wake-up below it.

## 4. Runs

Deadlock is not checked: every instance may come to rest once the bounded
disturbances are used up, which is what the liveness properties are about.

### 4.1 Passing

| Run | Shows | Bounds |
|---|---|---|
| `lifecycle_incarnations` | `NoOrphanRelease`, `PruneDeletesWhatItJudged`: no Helm release outlives its revision, and pruning, which judges a cached copy and deletes by name, never hits a later incarnation or another Istio's revision; `RevisionsReconciled`, `IstioReconciled`, `SettledAtRest`: no work is forgotten, so that the operator rests only in the state users want; `KeepsFinalizerContract`; `EventuallySettled` | two names, both strategies; an Istio created twice, a change of its spec, a deletion, a use, a crash and a fault, three of these in all; caches lag (below); grace of 0 s, so that every unused inactive revision is pruned, also by its outdated copy |
| `lifecycle_grace` | `TypeOK`, `GraceClockHonest`, `PruneWaitsOutGrace`: the grace period counts from the last time the revision was recorded in use, and is cut short only by a reconcile that read an outdated condition; `PruneScheduled`: a requeue is set for no later than its end; `EventuallySettled`: the unused revision is pruned in the end, which takes the requeue | two names, both strategies; a change of the spec, two changes of use, one other event, one crash, the creation and three of these in all; grace of 1 s, one cache behind at a time |
| `inuse_accurate` | `TypeOK`; `NoForgottenReference` and `AccurateAtRest`: when nothing is pending, no reference is forgotten, and the condition is right unless `missed` says that a change passed unnoticed; `OnlyKnownMisses`: that takes one of the three kinds of changes of 4.2; `EventuallyAccurateIfTold`: otherwise it becomes right | two revisions, one of them for all namespaces; one namespace, one pod with every combination of label and annotation that the code tells apart (12 shapes) and which may complete, one tag; three changes, one fault |
| `helm_release` | `TypeOK`, `AlwaysRepairable`, `NothingUntracked`, `EventuallyDelivered`, `ImplementsContract` | three charts, four requests, three interruptions, at most 15 record versions |
| `tag_status` | `TypeOK`, `HonestStatus`, `FailuresRetried`: at rest, what a tag reports is true of the cluster and of its current generation, and a missing reference or a failed installation is still being retried; `BaseRemoved`, `RevisionServed`: of a tag and an IstioRevision both named `default`, nothing is left when both are gone, and the IstioRevision is served in the end | two kinds of clusters, four disturbances of any kind in each: a tag of another name, with three revisions, one of them remote, in two namespaces; a tag named `default`, of one revision, with its namesake, created within the same second or the next |
| `readiness` | `TypeOK`, `NodeHonest`, `RevisionHonest`, `IstioHonest`: at rest no status is stale; `NothingLeftBehind`, `KeepsFinalizerContract`; `EventuallyTrue`: every state ends up true of the cluster, over the whole chain | three kinds of clusters: node components (three disturbances for IstioCNI, two for ZTunnel); a revision, local or remote, with the IstioCNI it may depend on (one); an Istio with a local revision (one) or a remote one (none) |
| `values` | `UserWins`, `DigestsRespectUser`, `VendorBeforeProfiles`, `RevisionAccepted`, `DependencyAsInstalled` | every combination of up to two user fields, one vendor default, digests, four profiles, platform, FIPS mode, two names, an alias, a supported and an unsupported version |

*Lag in the `lifecycle` runs.*  A cache counts as behind when it does not hold what
the server has (that of the Istio counts double); at most `MaxBehind` may be.  While
one is, anything may happen as long as the disturbances so far and the caches
behind stay within `Effort`, where a change of the spec counts three times; beyond,
only deliveries and crashes happen until the caches have caught up.  A step
that finds all caches equal to the server is never held back, so every history
of disturbances is explored; the bound limits how many of them may overlap with
how much lag.  Both excuses of `PruneWaitsOutGrace` are needed within these
bounds: without either, TLC finds a counterexample.  A change of the spec and a
spurious event do not occur in the same history.  The proofs have no such
bounds.

One version gives two revision names, because the name of an in-place revision
is that of the Istio; two names are what an active and an inactive revision, or
a name that comes back, need.  Three uids suffice for the objects of one name
that exist at the same time: on the server, in the cache and in a worker's
hands.  With three charts an upgrade can fail on the way from the first to the
second while the third is asked for.  With three interruptions no operation
needs a version number above 15: it would be stuck, and `EventuallyDelivered`
would fail.  In `readiness` becoming ready costs nothing, so that one disturbance
is a creation, a deletion, a crash, a failing call or a change for the worse; the
revision and the Istio exist from the start.  Two controllers of the same code
are not disturbed as often as one.  Two user fields are what a wrong priority
between an image and a hub or tag needs; no step of the computation relates
more.  What longer histories could add is the business of the proofs, which have
no bounds.

### 4.2 Findings

| Run | The code | What is said of it |
|---|---|---|
| `lifecycle_slow_prune` | if a deadline passes between the two clock readings of `PruneInactive`, `RequeueAfter` is not positive and no timer is set (`pkg/revision/prune.go:81`) | the comment on line 83: "requeue so that we prune the next revision at the right time" |
| `inuse_namespace_relabelled` | a namespace label decides whether its pods' labels count, but a change of it enqueues only the revisions named in the label (`istiorevision_controller.go:628`) | `docs/README.adoc:311` |
| `tag_follows` | `errors.Unwrap` makes nil of the error "no active revision", and the event that brings the revision does not select the tag (`istiorevisiontag_controller.go:93`, 463) | `docs/README.adoc:162`, `pkg/reconciler/errors.go:36` |
| `tag_refusal` | nor does a refused tag get another chance when the IstioRevision that it was refused for is gone (`istiorevisiontag_controller.go:93`, 463) | `api/v1/istiorevisiontags_types.go:148` |
| `nodes_masked_error` | a status patch or readiness check that fails in the same reconcile as a validation error is not tried again, because the errors are joined (`pkg/reconciler/reconciler.go:108`) | the status field of IstioCNI and ZTunnel: "Reports the current state of the object" |

In each of them the resource stays as it is until another event, the ten-hour
resync or a restart.  `tag_follows` has an exception in practice: a tag that
nothing references meets the same error a second time in
`isRevisionTagReferencedByWorkloads`, where it is retried (unless the cache
changes between the two).

Deviations seen while modelling that have no run of their own:

*Grace period and use of revisions*

* The grace period that `api/v1/istio_types.go:86` and
  `docs/update-strategy/update-strategy.adoc:165` promise can be cut short in two
  ways.  A status patch derived from an old copy sets the transition time back to
  that copy's (`SetCondition`, and no resourceVersion in the patch); and
  `PruneInactive` may judge a cached copy that does not show the latest use.
  `GraceClockHonest` and `PruneWaitsOutGrace` name these two and exclude every other.
* Three changes of a workload do not enqueue a revision that they concern; what is
  reported then stays wrong until another event.  These are the cases of
  `OnlyKnownMisses`.
  * A namespace's label changes while it has a pod whose label names the revision,
    or a namespace appears after its pod or goes before it: only the revisions
    named in namespace labels are enqueued (`istiorevision_controller.go:628`, run
    `inuse_namespace_relabelled`).  With `InOrder = FALSE` the second even forgets a
    reference.
  * A pod changes whose injection annotation and label name different revisions:
    only the former is enqueued (`istiorevision_controller.go:638`).
  * A pod completes: it no longer references its revision, but the update that says
    so is dropped by `ignoreStatusChange` (`istiorevision_controller.go:321`, 551);
    `istiorevision_controller_test.go:716` expects otherwise.  Pods of Jobs are
    exempt in practice: the Job controller removes a finalizer from them
    afterwards, and that update is not dropped.
* `UpdateWorkloads` is documented (`api/v1/istio_types.go:93`) and never read.

*Tags and shared names*

* If a tag is retargeted between the installation and the status patch, or a
  status is patched from an old copy, the release in the former namespace stays.
* `enhancements/SEP2-revision-tags.md:103` says that the names of tags and
  revisions "must never overlap"; both are Reconciled=True at once if neither
  controller's cache had the other resource when it validated its own, or if
  they were created within one second and the one with the greater uid was
  validated first.
* A refused tag is not woken when its reason goes away (`tag_refusal`); if the
  IstioRevision is created again meanwhile, each refuses its own resource for
  the sake of the other, and only the IstioRevision tries again.  Nor is a refused
  tag named `default` told when the revision in its status goes or comes that is
  enabled for all namespaces: it may report InUse wrongly, which `HonestStatus`
  excuses (`InUseTrue`).
* Deleting a refused IstioRevision named `default` uninstalls `default-base`, which
  the tag had installed.  The tag controller watches no object of that chart, so
  the chart stays missing until the tag's next event.  In the other direction
  the watch on ServiceAccounts brings it back, unless the tag had taken the
  object over; `RevisionServed` says so.

*Statuses*

* A probe period of zero or less in the annotation stops the probing
  (`webhook_controller.go:230`).
* A revision whose profile changes from a local to a remote control plane is
  probed only from the webhook's next event on; one that changes back keeps
  being probed, because only events are filtered by the owner, not the requeue.
* The Istio's DependenciesHealthy condition is not reset when its revision is
  missing or the reconcile failed; the state of an IstioCNI is used without
  comparing `observedGeneration`; a ZTunnel is not a dependency of any revision.
* `sailoperator.io/ignore` on the istiod Deployment hides its status updates, too.
* The namespace watch (`istiorevision_controller.go:318`) is given two `WithPredicates`
  options, of which the builder keeps the last.
* `clearIgnoredFields` (`istiorevision_controller.go:729`) modifies objects of the
  informer cache, and clears only `failurePolicy` though its comment names
  `caBundle` as well.

*Values and versions*

* The vendor's defaults are applied after the digests, so a vendor's `pilot.image`
  or `cni.image` has no effect when there are digests.  The comment on
  `vendor_defaults.go:95` says the opposite of the code about who wins; the code
  agrees with `README.md:313`.
* `DeepCopyJSON` (`vendor_defaults.go:117`) panics on an integer, which is what the
  YAML decoder makes of a whole number.
* The check "profile name cannot be empty" in `getValuesFromProfiles` is
  unreachable; `ApplyDigests` modifies the values it is passed.
* `DependsOnIstioCNI` computes the values again without the user's profile.  It
  agrees with the installed values for the shipped profiles
  (`DependencyIsAsInstalled`); it would not if a vendor's `openshift` profile set
  `pilot.cni.enabled` and the user set `global.platform` together with another
  profile.
* An alias moves to another version when the operator is upgraded; an alias of an
  unsupported version makes the operator panic when it starts.

## 5. Proofs

TLAPS proves the theorems below for every value of the constants, from the
`ASSUME`s of the modules only: names that stand for "nothing" are not names of
something, bounds are natural numbers, inputs are well typed, and in `Values`
what the profiles that the operator ships have in common.  No bound has a
particular value, so the safety theorems hold for any number of disturbances.

| Theorem | States |
|---|---|
| `RevisionLifecycleProofs!TypeCorrect` | `Spec => []TypeOK` |
| `RevisionLifecycleProofs!NoOrphans` | `Spec => []NoOrphanRelease` |
| `RevisionLifecycleProofs!PruneHitsItsTarget` | `Spec => PruneDeletesWhatItJudged` |
| `RevisionLifecycleProofs!GraceClockRuns` | `Spec => []GraceClockHonest` |
| `RevisionLifecycleProofs!GraceIsGranted` | `Spec => PruneWaitsOutGrace` |
| `RevisionLifecycleProofs!NoRevisionForgotten` | `Spec => []RevisionsReconciled` |
| `RevisionLifecycleProofs!NoIstioForgotten` | `Spec => []IstioReconciled` |
| `RevisionLifecycleProofs!PruneIsScheduled` | `~ SlowPrune` and `Spec` imply `[]PruneScheduled` |
| `RevisionLifecycleProofs!RestsOnlyWhenSettled` | `~ SlowPrune` and `Spec` imply `[]SettledAtRest` |
| `RevisionLifecycleProofs!FinalizersKept` | `Spec => KeepsFinalizerContract` |
| `InUseDetectionProofs!TypeCorrect` | `Spec => []TypeOK` |
| `InUseDetectionProofs!NothingForgotten` | `InOrder` and `Spec` imply `[]NoForgottenReference` |
| `InUseDetectionProofs!AccurateWhenAtRest` | `Spec => []AccurateAtRest` |
| `InUseDetectionProofs!MissesKnown` | `Spec => OnlyKnownMisses` |
| `HelmReleaseProofs!TypeCorrect` | `Spec => []TypeOK` |
| `HelmReleaseProofs!Repairable` | `Spec => []AlwaysRepairable` |
| `HelmReleaseProofs!NothingForgotten` | `Spec => []NothingUntracked` |
| `HelmReleaseProofs!ContractHolds` | `Spec => ImplementsContract` |
| `NodeComponentsProofs!NodeTypeCorrect` | `NodeSpec => []NodeTypeOK` |
| `NodeComponentsProofs!NothingLeft` | `NodeSpec => []NothingLeftBehind` |
| `NodeComponentsProofs!NodesHonest` | `NodeSpec => []NodeHonest` |
| `NodeComponentsProofs!NodeFinalizersKept` | `NodeSpec => KeepsFinalizerContract` |
| `ReadinessProofs!ImplementsNodes` | `Spec => NodeSpec` |
| `ReadinessProofs!TypeCorrect` | `Spec => []TypeOK` |
| `ReadinessProofs!RevisionIsHonest` | `Spec => []RevisionHonest` |
| `ReadinessProofs!IstioIsHonest` | `Spec => []IstioHonest` |
| `ReadinessProofs!NothingLeftInComposition` | `Spec => []NothingLeftBehind` |
| `ReadinessProofs!NodesHonestInComposition` | `Spec => []NodeHonest` |
| `ReadinessProofs!FinalizersKeptInComposition` | `Spec => KeepsFinalizerContract` |
| `ValuesProofs!TheUserWins` | `Spec => []UserWins` |
| `ValuesProofs!DigestsYieldToUser` | `Spec => []DigestsRespectUser` |
| `ValuesProofs!VendorsPrecedeProfiles` | `Spec => []VendorBeforeProfiles` |
| `ValuesProofs!RevisionsAreAccepted` | `Spec => []RevisionAccepted` |
| `ValuesProofs!DependencyIsAsInstalled` | `Spec => []DependencyAsInstalled` |
| `RevisionTagProofs!TagTypeCorrect` | `TagSpec => []TagTypeOK` |
| `RevisionTagProofs!StatusIsHonest` | `TagSpec => []HonestStatus` |
| `RevisionTagProofs!FailuresAreRetried` | `TagSpec => []FailuresRetried` |
| `SharedNameProofs!TypeCorrect` | `Spec => []TypeOK` |
| `SharedNameProofs!ImplementsTagSpec` | `Spec => TagSpec` |
| `SharedNameProofs!HonestBesideNamesake` | `Spec => [](HonestStatus /\ FailuresRetried)` |
| `SharedNameProofs!NothingLeft` | `Spec => []BaseRemoved` |
| `SharedNameProofs!RevisionIsServed` | `Spec => []RevisionServed` |

**No orphan release.**  `NoOrphanRelease` is not inductive: a worker installs from
an old copy, and why the revision still exists then is history.  `IInv` adds
that the cache, however old, is of the existing incarnation and shows no
finalizer or deletion mark the server does not (`CacheFollows`; a name is
re-created only once it is out of the cache); that a copy with the finalizer
and without the mark means the revision exists (`FinalizerHolds`); and that a
worker about to remove the finalizer has uninstalled, and every copy of what it
finalizes shows the mark (`Unfinalizing`), so nobody can install behind its back.
Most actions preserve it for one reason, `GentleStep`: they keep identity,
finalizer and mark of every revision, or drop one without a finalizer.
`PruneHitsItsTarget` follows from `CacheFollows`.

**Nothing forgotten.**  The safety half of `EventuallySettled`: whatever is wrong,
something is pending that will look at it.  `Kept(n)` says of every revision that a
cache marked fresh is the server's object, that a worker whose key has not come
back works with the cached copy and what it found out is still so
(`RevisionWorker`), and that with no worker and no key everything has been done
(`RevisionTold`).  A conflict, a failed call, a crash or an event in between must
put the key back for this to be inductive, and that is what is being claimed.
`Seen` says the same of the Istio (`IstioWorker`, `IstioTold`), where it is subtler:
the status is patched only if it differs from that of the worker's copy, so that
`StatusTold` must hold of copies whose uid is the server's while the spec on the
server differs, or differs and comes to be the same again; hence `UidsPast`.
`KeyAssumption` (no revision has the name that stands for the Istio's key) only
keeps the two work queues apart, which the model has in one set.
`PruneIsScheduled` and with it `RestsOnlyWhenSettled` need `~ SlowPrune`: if a second
passes between the two clock readings of `PruneInactive`, no timer is set, which
the run `lifecycle_slow_prune` shows.

**Finalizer contract.**  What a step does to a revision, its cached copy and its
release is one of a few changes (`Change`), each of which is a step or a stutter
of the contract (`ChangeIsAllowed`); several revisions change in one step only
when time passes or caches are filled after a crash.  Needed from the
invariants: a worker that installs has a copy from before the deletion only as
long as the cache shows none (`Unfinalizing`, `CacheFollows`), and one more,
`Known`: the operator adds its finalizer only to what its cache shows.  In
`NodeComponents` one kind changes at a time; `FinalizersKeptInComposition`
is `NodeFinalizersKept` through `ImplementsNodes`.

**Grace period.**  `Clocks` adds to `GraceClockHonest` that the captured copy a worker
computes its status from still shows the server's condition and its age when the
patch goes out, unless it was `old` from the start (`CopyTells`): nobody else writes
the condition, and the finalizer keeps the revision the same.  So a transition
time that is kept is the server's own, and one that is set is the present.  A cached
copy that shows the server's condition has the server's age, so `PruneInactive`
judges that age, which gives `GraceIsGranted`.  Neither theorem has a hypothesis:
lag is in both, and what it can do is in the statement.

**No forgotten reference.**  The strengthening says what a worker in the middle of
its lists has seen (`WorkerKeepsUp`): whatever references its revision now and
was not there when its list was taken has put the key back into the queue.
`PodsHaveNamespace` is what `InOrder` gives.

**Accurate at rest.**  `AInv` says of every revision that is neither queued nor in
`missed`: if no worker is on it, what the status says is so; if one is, what its
lists have found so far is so (`WorkerIsRight`, `StillTrue`), and the copy it will
compare with is the cached one (`CopyIsCached`).  A change of a workload
either enqueues a revision, or puts it into `missed`, or leaves alone everything
that a reconcile of it would count, with the cached namespaces and with the list
in the worker's hands (`WorkloadsMove`, `Unmoved`).  The theorem has no hypothesis on
the pods or on the order of events.  What `missed` may hold is the other half,
`MissesKnown`: going through the handlers one by one, a revision gets there only
by a change of a namespace around a pod (`OnlyByNamespace`), or of a pod whose
annotation hides its label or that completes (`OnlyHidden`).

**Helm.**  The inductive invariant has the numbering of the records
(`LatestIsHighest`), that a failed record with a number above 1 has a
predecessor to roll back to (`HasPredecessor`), what each `pc` says of the latest
record (`CallAgrees`), and which records keep track of which objects
(`ObjectsAgree`).  The refinement maps `latest` and its record to the content of
`ChartRelease`: every write is a `Work` or stuttering step, the last one `Succeed`, an
interruption `Fail`.

**Honest statuses of node components.**  `IInv` is `NodeTypeOK` and, for each kind,
`Held` (a DaemonSet has a resource whose finalizer will remove it, no copy that
could bring the chart back is ahead of the server) and `Told`: what the worker has
found out so far, or else the status on the server, is true of the caches, unless
the key is queued; and the caches are true of the server, unless an event is
pending that will queue the key.  A controller's step leaves the other kind
alone (`HeldFrame`, `ToldFrame`), so that each kind is proved by itself.

**Readiness.**  `ImplementsNodes` maps every step of the composition to a step or a
stutter of `NodeComponents`, which carries its theorems over.  For the rest the
argument is the same, link by link: `AllInv` says of the revision (`PlaneKnown`,
`RevisionKeepsUp`, `RevisionTold`) and of the Istio (`IstioKeepsUp`, `IstioTold`)
that what is reported, or about to be, is true of the cache or the key is
queued, and that the cache is true or an event is pending.

**Values.**  Three lemmas follow the layers: what digests and vendor defaults do to
the user's values (`Defaults`), what profiles and platform do to the result
(`Filled`), and what FIPS mode and overrides leave of it (`Kept`).  The theorems
are about all profiles, user values and vendor defaults, not the sampled ones.
`DependencyIsAsInstalled` compares the installed values with a second computation
that starts from them but leaves out the user's profile.  The second can only
differ in what the first left unset, which on OpenShift is what the user's
profile shadowed of the profile `openshift`; of the two fields that decide, that
one has the platform, which is never left unset there, and not
`pilot.cni.enabled`.  The latter is `OpenShiftAssumption`: it is true of every
`openshift.yaml` below `resources/`, and need not be of a vendor's (4.2).

**Honest tags.**  `TrueAtRest` says of every tag in the cache what `HonestStatus` says of
a quiet one.  A reconcile gets there if no event brought the key back: then its
copy is the cached tag (`CopyCurrent`).  The revision it resolved, if it is the one
in the copy's status, is then still what the target stands for
(`RevisionFound`), because the status selects the events of exactly that revision;
and it is installed (`RevisionInstalled`).  If it is another, the status changes,
the server's tag differs from the cache, and the event of that update brings the
key back: which is the case that makes the invariant hold although the events of
the revision just found are still ignored (`StatusTrue` is claimed for
`cTag = tag` only).  `GenerationCached` tells a user's change from what the cache has.

**Shared names.**  That every installed object has an owner (`ReleasesHeld`) is the
heart of `NothingLeft`: as long as the base chart is there, the tag or the
namesake has our finalizer and is not about to lose it (`TagHolds`,
`NamesakeHolds`).  A controller that works with an old copy needs it to be true
still: `TagCached`, `TagPresent`, `TagUnfinalizing` and their counterparts for
the namesake relate copy, cache and server.  For `RevisionIsServed`, `Concluded`
says that what a reconcile of the namesake found out still holds or its key is
queued.

Only model-checked: all liveness (`EventuallySettled`, `EventuallyAccurateIfTold`,
`EventuallyDelivered`, `EventuallyTrue`), which is out of this prover's reach, as is
`ENABLED`.  Of the first two the safety half is proved: `RestsOnlyWhenSettled` and
`AccurateWhenAtRest` say that there is no wrong state to rest in; that the
operator comes to rest is left to TLC.

## 6. Not modelled

* Generated code: the deep copies (`api/v1/zz_generated.deepcopy.go`), the value
  types (`api/v1/values_types.gen.go`) and the program that generates the latter
  (`hack/api_transformer`).  They are 11800 of the 18900 lines of the
  implementation and hold no state, no decision at run time and no interaction.
* Rendering of charts; the post-renderer, which adds an owner reference and a label
  to each rendered object: the models take its outcome, that events of owned
  objects find their owner.
* Process set-up: flags, scheme, metrics, leader election, certificates.  The models
  take its outcome: one process, one worker per controller, a restart that
  begins with filled caches and all keys queued.
* More than one worker per controller: the default is one, and a name is never
  given to two.
* Resources managed outside the operator (`managesExternalRevision`), which differ in
  not being pruned, `sailoperator.io/ignore`, and the wording of messages and logs.
* The content of a probe (URL, certificates, DNS): it is one answer.
* A List that fails inside a map function: it is only logged, and the event is lost
  (`istiocni_controller.go:362`, `ztunnel_controller.go:352`,
  `istiorevision_controller.go:616` and 670, `istiorevisiontag_controller.go:459`).
  These lists are served by an informer cache that has synced before the
  controllers start, and do not fail then.
* In `RevisionLifecycle`: validation failures of a revision (a missing or terminating
  namespace), which are not retried; they are in `Readiness`.
* In `Values`: aliases that refer to an earlier alias, which `version.go:140` accepts;
  `VersionAssumption` asks for aliases of versions.
* In `Readiness`: a change of a revision's profile, creation and deletion of
  revisions (those are in `RevisionLifecycle`).

## 7. Plan

Done: the ten models above, with the theorems of section 5.

1. Composition of `RevisionLifecycle` with `RevisionTag`: a tag keeps its former
   revision in use through its status, which is written after the new
   installation; in between the revision may be pruned under the tag's webhook.
2. A run on the release that stays in a namespace a tag has left.
