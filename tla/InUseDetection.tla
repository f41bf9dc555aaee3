--------------------------- MODULE InUseDetection ---------------------------
(***************************************************************************)
(* How the IstioRevision controller finds out whether workloads use a      *)
(* revision.                                                               *)
(*                                                                         *)
(* A revision is in use if a tag, a namespace or a pod references it.  The *)
(* InUse condition is recomputed when the revision's key is in the work    *)
(* queue; watch handlers map an event on a tag, a namespace or a pod to    *)
(* the keys it may concern, and predicates drop some events altogether.    *)
(* The controller lists tags, then namespaces, then pods, one after the    *)
(* other, while the caches it lists from keep changing.                    *)
(*                                                                         *)
(* namespaces, pods and tags are the contents of the informer caches.      *)
(***************************************************************************)
EXTENDS Naturals, FiniteSets

CONSTANTS
  Revs,            \* names of the IstioRevisions, which exist throughout
  Default,         \* "default", the revision that generic labels refer to
  Namespaces, Pods, Tags,
  NoRev,           \* no revision: an empty label, annotation or status field
  Absent,          \* a namespace or pod that is not in the cache
  PodShapes,       \* the labels and annotations pods may have
  InstalledIn,     \* spec.namespace of each revision
  DefaultForAll,   \* sidecarInjectorWebhook.enableNamespacesByDefault
  InOrder,         \* TRUE: a pod is seen after its namespace, and gone before it
  Completes,       \* TRUE: pods may run to completion
  MaxChanges, MaxFaults

Labels == [inject: BOOLEAN, rev: Revs \cup {NoRev}]

\* sidecar.istio.io/inject, istio.io/rev and, once injected, the annotation.
AllShapes == [inject: {"unset", "true", "false"}, rev: Revs \cup {NoRev},
              injectedBy: Revs \cup {NoRev}]

ASSUME NameAssumption == NoRev \notin Revs
ASSUME ShapeAssumption == PodShapes \subseteq AllShapes
ASSUME AbsentAssumption ==
  Absent \notin Labels /\ Absent \notin [ns: Namespaces, shape: AllShapes, done: BOOLEAN]
ASSUME ModeAssumption ==
  DefaultForAll \in BOOLEAN /\ InOrder \in BOOLEAN /\ Completes \in BOOLEAN
ASSUME InstallAssumption == InstalledIn \in [Revs -> Namespaces \cup {Absent}]
ASSUME BoundAssumption == MaxChanges \in Nat /\ MaxFaults \in Nat

PodObjects == [ns: Namespaces, shape: PodShapes, done: BOOLEAN]
Conditions == {"Unknown", "True", "False"}

VARIABLES
  namespaces,  \* labels of each namespace
  pods,        \* the pods
  tags,        \* status.istioRevision of each IstioRevisionTag
  inUse,       \* InUse condition of each revision on the API server
  cInUse,      \* the same in the informer cache
  queue,       \* keys in the work queue
  worker,      \* the reconcile in progress
  missed,      \* history: revisions whose pods changed since they were last queued
  changes, faults

vars == <<namespaces, pods, tags, inUse, cInUse, queue, worker, missed, changes, faults>>

-----------------------------------------------------------------------------
(* References, as pkg/revision/references.go reads them.                   *)

GetReferencedRevisionFromNamespace(labels) ==
  IF labels.inject THEN Default ELSE labels.rev

GetReferencedRevisionFromPod(shape) ==
  IF shape.inject = "false" THEN NoRev
  ELSE IF shape.rev # NoRev THEN shape.rev
  ELSE IF shape.inject = "true" THEN Default ELSE NoRev

GetInjectedRevisionFromPod(shape) == shape.injectedBy

namespaceReferencesRevision(nss, ns, r) ==
  nss[ns] # Absent /\ GetReferencedRevisionFromNamespace(nss[ns]) = r

podReferencesRevision(pod, nss, r) ==
  \/ GetInjectedRevisionFromPod(pod.shape) = r
  \/ /\ GetReferencedRevisionFromNamespace(nss[pod.ns]) = NoRev
     /\ GetReferencedRevisionFromPod(pod.shape) = r

\* The pod counts only if it has not completed and its namespace was listed.
PodCounts(pod, nss) == pod # Absent /\ ~ pod.done /\ nss[pod.ns] # Absent

ReferencedByTag(r) == \E t \in Tags : tags[t] = r
ReferencedByNamespace(nss, r) ==
  \E ns \in Namespaces : namespaceReferencesRevision(nss, ns, r)
CountedPods(nss, r) ==
  {p \in Pods : PodCounts(pods[p], nss) /\ podReferencesRevision(pods[p], nss, r)}
ReferencedByPod(nss, r) == CountedPods(nss, r) # {}
UsedByDefault(r) == DefaultForAll /\ r = Default

-----------------------------------------------------------------------------
(* Watch handlers: the keys that an event on an object puts in the queue.  *)
(* An update is mapped twice, for the old object and for the new one.      *)

BugOnlyInstallNamespace(ns, labels) ==
  IF labels = Absent THEN {} ELSE {r \in Revs : InstalledIn[r] = ns}
mapNamespaceToReconcileRequest(ns, labels) ==
  IF labels = Absent THEN {}
  ELSE {r \in Revs : \/ InstalledIn[r] = ns
                     \/ GetReferencedRevisionFromNamespace(labels) = r}

BugAnnotationIgnored(pod) ==
  IF pod = Absent THEN {} ELSE {GetReferencedRevisionFromPod(pod.shape)} \cap Revs
mapPodToReconcileRequest(pod) ==
  IF pod = Absent THEN {}
  ELSE LET injected == GetInjectedRevisionFromPod(pod.shape)
       IN  {IF injected # NoRev THEN injected ELSE GetReferencedRevisionFromPod(pod.shape)}
             \cap Revs

BugEmptyNameEnqueued(rev) == {rev}
mapRevisionTagToReconcileRequest(rev) == {rev} \cap Revs

-----------------------------------------------------------------------------
IdleWorker == [pc |-> "idle"]
NotListed  == [ns \in Namespaces |-> Absent]

Init ==
  /\ namespaces = [ns \in Namespaces |-> Absent]
  /\ pods = [p \in Pods |-> Absent]
  /\ tags = [t \in Tags |-> NoRev]
  /\ inUse = [r \in Revs |-> "Unknown"]
  /\ cInUse = [r \in Revs |-> "Unknown"]
  /\ queue = Revs
  /\ worker = IdleWorker
  /\ missed = {}
  /\ changes = 0 /\ faults = 0

-----------------------------------------------------------------------------
(* Changes that reach the caches, with the events they raise.              *)

\* The namespaces by which pods are judged: those a reconcile has listed already.
Listed == IF worker.pc = "pods" THEN worker.nss ELSE namespaces

\* Other pods than before reference r, as things are or as a reconcile under way
\* will judge them.
Recounted(r) ==
  \/ CountedPods(namespaces, r)' # CountedPods(namespaces, r)
  \/ CountedPods(Listed, r)' # CountedPods(Listed, r)

\* What is queued will be looked at.
Heard == missed' = missed \ queue'

Changes ==
  /\ changes < MaxChanges
  /\ changes' = changes + 1
  /\ missed' = (missed \cup {r \in Revs : Recounted(r)}) \ queue'

controllerVars == <<inUse, cInUse, worker, faults>>

ChangeNamespace(ns) ==
  /\ \E labels \in Labels \cup {Absent} :
       /\ labels # namespaces[ns]
       /\ InOrder /\ labels = Absent => \A p \in Pods : pods[p] # Absent => pods[p].ns # ns
       /\ namespaces' = [namespaces EXCEPT ![ns] = labels]
       /\ queue' = queue \cup mapNamespaceToReconcileRequest(ns, namespaces[ns])
                         \cup mapNamespaceToReconcileRequest(ns, labels)
  /\ UNCHANGED <<pods, tags, controllerVars>>
  /\ Changes

CreatePod(p) ==
  /\ pods[p] = Absent
  /\ \E ns \in Namespaces, shape \in PodShapes :
       /\ InOrder => namespaces[ns] # Absent
       /\ pods' = [pods EXCEPT ![p] = [ns |-> ns, shape |-> shape, done |-> FALSE]]
  /\ queue' = queue \cup mapPodToReconcileRequest(pods'[p])
  /\ UNCHANGED <<namespaces, tags, controllerVars>>
  /\ Changes

\* The labels of a running pod change.
RelabelPod(p) ==
  /\ pods[p] # Absent
  /\ \E shape \in PodShapes \ {pods[p].shape} :
       /\ shape.injectedBy = pods[p].shape.injectedBy
       /\ pods' = [pods EXCEPT ![p].shape = shape]
  /\ queue' = queue \cup mapPodToReconcileRequest(pods[p]) \cup mapPodToReconcileRequest(pods'[p])
  /\ UNCHANGED <<namespaces, tags, controllerVars>>
  /\ Changes

\* ignoreStatusChange drops the update that moves a pod to Succeeded.
CompletePod(p) ==
  /\ Completes
  /\ pods[p] # Absent /\ ~ pods[p].done
  /\ pods' = [pods EXCEPT ![p].done = TRUE]
  /\ UNCHANGED <<namespaces, tags, queue, controllerVars>>
  /\ Changes

DeletePod(p) ==
  /\ pods[p] # Absent
  /\ pods' = [pods EXCEPT ![p] = Absent]
  /\ queue' = queue \cup mapPodToReconcileRequest(pods[p])
  /\ UNCHANGED <<namespaces, tags, controllerVars>>
  /\ Changes

\* The tag controller reports another revision in the tag's status.
ChangeTag(t) ==
  /\ \E rev \in (Revs \cup {NoRev}) \ {tags[t]} :
       /\ tags' = [tags EXCEPT ![t] = rev]
       /\ queue' = queue \cup mapRevisionTagToReconcileRequest(tags[t])
                         \cup mapRevisionTagToReconcileRequest(rev)
  /\ UNCHANGED <<namespaces, pods, controllerVars>>
  /\ Changes

\* The controller's own status update comes back: mainObjectHandler.
DeliverRevision(r) ==
  /\ cInUse[r] # inUse[r]
  /\ cInUse' = [cInUse EXCEPT ![r] = inUse[r]]
  /\ queue' = queue \cup {r}
  /\ Heard
  /\ UNCHANGED <<namespaces, pods, tags, inUse, worker, changes, faults>>

-----------------------------------------------------------------------------
(* The reconcile: the cached copy, then three lists, then the patch.       *)

workloadVars == <<namespaces, pods, tags, cInUse, changes>>

TakeKey(r) ==
  /\ worker = IdleWorker
  /\ r \in queue
  /\ queue' = queue \ {r}
  /\ worker' = [pc |-> "tags", rev |-> r, copy |-> cInUse[r],
                nss |-> NotListed, result |-> "Unknown"]
  /\ Heard
  /\ UNCHANGED <<inUse, faults, workloadVars>>

Concludes(result) ==
  worker' = [worker EXCEPT !.pc = "patch", !.nss = NotListed, !.result = result]

ListTags ==
  /\ worker.pc = "tags"
  /\ IF ReferencedByTag(worker.rev) THEN Concludes("True")
     ELSE worker' = [worker EXCEPT !.pc = "namespaces"]
  /\ UNCHANGED <<inUse, queue, missed, faults, workloadVars>>

ListNamespaces ==
  /\ worker.pc = "namespaces"
  /\ IF ReferencedByNamespace(namespaces, worker.rev) THEN Concludes("True")
     ELSE worker' = [worker EXCEPT !.pc = "pods", !.nss = namespaces]
  /\ UNCHANGED <<inUse, queue, missed, faults, workloadVars>>

ListPods ==
  /\ worker.pc = "pods"
  /\ IF ReferencedByPod(worker.nss, worker.rev) \/ UsedByDefault(worker.rev)
     THEN Concludes("True") ELSE Concludes("False")
  /\ UNCHANGED <<inUse, queue, missed, faults, workloadVars>>

\* A list that fails leaves the condition Unknown and is an error.
ListFails ==
  /\ worker.pc \in {"tags", "namespaces", "pods"}
  /\ faults < MaxFaults
  /\ faults' = faults + 1
  /\ Concludes("Unknown")
  /\ UNCHANGED <<inUse, queue, missed, workloadVars>>

BugUnknownAccepted(w, failed) == failed
Retries(w, failed) == failed \/ w.result = "Unknown"

\* updateStatus compares with the cached copy it started from: no difference,
\* no patch (but another condition may have changed).
PatchStatus ==
  /\ worker.pc = "patch"
  /\ worker' = IdleWorker
  /\ \/ /\ worker.result = worker.copy
        /\ UNCHANGED <<inUse, faults>>
        /\ queue' = IF Retries(worker, FALSE) THEN queue \cup {worker.rev} ELSE queue
     \/ /\ inUse' = [inUse EXCEPT ![worker.rev] = worker.result]
        /\ UNCHANGED faults
        /\ queue' = IF Retries(worker, FALSE) THEN queue \cup {worker.rev} ELSE queue
     \/ /\ faults < MaxFaults
        /\ faults' = faults + 1
        /\ queue' = IF Retries(worker, TRUE) THEN queue \cup {worker.rev} ELSE queue
        /\ UNCHANGED inUse
  /\ Heard
  /\ UNCHANGED workloadVars

-----------------------------------------------------------------------------
Workloads ==
  \/ \E ns \in Namespaces : ChangeNamespace(ns)
  \/ \E p \in Pods : CreatePod(p) \/ RelabelPod(p) \/ CompletePod(p) \/ DeletePod(p)
  \/ \E t \in Tags : ChangeTag(t)

Reconcile ==
  \/ \E r \in Revs : TakeKey(r)
  \/ ListTags \/ ListNamespaces \/ ListPods \/ ListFails \/ PatchStatus

Next == Workloads \/ Reconcile \/ \E r \in Revs : DeliverRevision(r)

Spec == Init /\ [][Next]_vars

\* The worker runs, takes every key in turn, and events are delivered.
FairSpec ==
  /\ Spec
  /\ WF_vars(Reconcile)
  /\ \A r \in Revs : SF_vars(TakeKey(r)) /\ WF_vars(DeliverRevision(r))

-----------------------------------------------------------------------------
(* Properties.                                                             *)

WorkerStates ==
  {IdleWorker} \cup
  [pc: {"tags", "namespaces", "pods", "patch"}, rev: Revs, copy: Conditions,
   nss: [Namespaces -> Labels \cup {Absent}], result: Conditions]

TypeOK ==
  /\ namespaces \in [Namespaces -> Labels \cup {Absent}]
  /\ pods \in [Pods -> PodObjects \cup {Absent}]
  /\ tags \in [Tags -> Revs \cup {NoRev}]
  /\ inUse \in [Revs -> Conditions] /\ cInUse \in [Revs -> Conditions]
  /\ queue \subseteq Revs
  /\ worker \in WorkerStates
  /\ missed \subseteq Revs
  /\ changes \in 0 .. MaxChanges /\ faults \in 0 .. MaxFaults

\* What references r right now, by a tag, a namespace or an injected sidecar.
Injected(r) ==
  \E p \in Pods : PodCounts(pods[p], namespaces) /\ pods[p].shape.injectedBy = r
FirmlyReferenced(r) ==
  ReferencedByTag(r) \/ ReferencedByNamespace(namespaces, r) \/ Injected(r)

Referenced(r) ==
  \/ ReferencedByTag(r) \/ ReferencedByNamespace(namespaces, r)
  \/ ReferencedByPod(namespaces, r) \/ UsedByDefault(r)

Accurate(r) == inUse[r] = IF Referenced(r) THEN "True" ELSE "False"

AtRest(r) == r \notin queue /\ cInUse[r] = inUse[r] /\ (worker = IdleWorker \/ worker.rev # r)

(***************************************************************************)
(* No firm reference is forgotten: when nothing is pending for a revision  *)
(* that a tag, a namespace label or an injected sidecar references, its    *)
(* InUse condition is True.  The three lists are taken at different times  *)
(* and the patch is skipped when the cached copy already agrees, so this   *)
(* holds only because every such change also enqueues the revision.        *)
(***************************************************************************)
NoForgottenReference ==
  \A r \in Revs : FirmlyReferenced(r) /\ AtRest(r) => inUse[r] = "True"

(***************************************************************************)
(* Neither forgotten nor imagined: when nothing is pending for a revision, *)
(* its InUse condition is True or False and says whether the revision is   *)
(* referenced, unless the pods that reference it became other ones without *)
(* an event that enqueued it.  A reference that goes away between two      *)
(* lists, or after them, and a list or patch that fails must enqueue the   *)
(* revision as well.                                                       *)
(***************************************************************************)
AccurateAtRest ==
  \A r \in Revs :
    AtRest(r) /\ r \notin missed => Accurate(r)

\* The changes of which the watch handlers do not tell a revision they concern.
NamespaceDecides(p, r) ==  \* whether the label of a pod counts, or the pod itself
  /\ pods[p] # Absent
  /\ LET ns == pods[p].ns
     IN  /\ namespaces'[ns] # namespaces[ns]
         /\ \/ GetReferencedRevisionFromPod(pods[p].shape) = r
            \/ /\ GetInjectedRevisionFromPod(pods[p].shape) = r
               /\ Absent \in {namespaces[ns], namespaces'[ns]}
AnnotationHidesLabel(p, r) ==
  /\ pods'[p] # pods[p]
  /\ \E pod \in {pods[p], pods'[p]} \ {Absent} :
       /\ GetReferencedRevisionFromPod(pod.shape) = r
       /\ GetInjectedRevisionFromPod(pod.shape) \notin {NoRev, r}
RunsToCompletion(p) ==
  pods[p] # Absent /\ pods'[p] # Absent /\ pods'[p].done # pods[p].done

(***************************************************************************)
(* The events that AccurateAtRest excuses are these and no others: a       *)
(* change of a namespace with a pod in it whose label names the revision,  *)
(* or that comes or goes around an injected pod; a change of a pod whose   *)
(* annotation names another revision than its label; and the completion of *)
(* a pod.  Every other change of a namespace or pod reaches whom it        *)
(* concerns, also one whose list of namespaces is already out of date.     *)
(***************************************************************************)
OnlyKnownMisses ==
  [][\A r \in missed' \ missed :
       \E p \in Pods :
         NamespaceDecides(p, r) \/ AnnotationHidesLabel(p, r) \/ RunsToCompletion(p)]_vars

(***************************************************************************)
(* Once the workloads stop changing, the InUse condition says whether the  *)
(* revision is referenced (docs/README.adoc:311).                          *)
(***************************************************************************)
EventuallyAccurate == <>[](\A r \in Revs : Accurate(r))

(***************************************************************************)
(* It does so for every revision that was told of the last change of its   *)
(* pods, although lists and patches fail on the way.                       *)
(***************************************************************************)
EventuallyAccurateIfTold == <>[](\A r \in Revs : r \in missed \/ Accurate(r))
=============================================================================
