--------------------------- MODULE NodeComponents ---------------------------
(***************************************************************************)
(* The IstioCNI and ZTunnel controllers.                                   *)
(*                                                                         *)
(* Each installs one chart, whose DaemonSet runs a pod on every node, and  *)
(* reports in the status of its resource whether that worked (Reconciled)  *)
(* and whether the pods are ready (Ready).  The two controllers are the    *)
(* same program but for names and Helm values, so a resource is identified *)
(* by its kind.  All components share one target namespace.                *)
(*                                                                         *)
(* Namespace, resource and DaemonSet are read from caches that lag behind, *)
(* each at its own pace.  Equality of resources stands for equality of     *)
(* their resourceVersions.  The chart manager keeps the contract of        *)
(* ChartRelease: a call that was interrupted is repaired by the next.      *)
(***************************************************************************)
EXTENDS Naturals

CONSTANTS
  Kinds,   \* the resources that may exist, each the only one of its kind
  None,    \* no such object
  Bound    \* how often users, kubelets, crashes and faults may interfere

ASSUME KindAssumption == Kinds \subseteq {"IstioCNI", "ZTunnel"}
ASSUME BoundAssumption == Bound \in Nat

Phases  == {"Missing", "Active", "Terminating"}
Daemons == {"Missing", "NotReady", "Ready"}

\* A condition is "True", "Unset", or the reason why it is not true.
Nodes == [fin: BOOLEAN, deleting: BOOLEAN,
          reconciled: {"Unset", "True", "ReconcileError"},
          ready: {"Unset", "True", "DaemonSetNotReady", "ReadinessCheckFailed"}]

ASSUME NoneAssumption == None \notin Nodes

VARIABLES
  ns, node, daemon,      \* the namespace, the resources, their DaemonSets on the server
  cNs, cNode, cDaemon,   \* the same in the informer caches
  pending,               \* the namespace and DaemonSets with events under way
  queue,                 \* the keys in the work queues
  worker,                \* the reconcile in progress in each controller
  masked,                \* kinds whose last reconcile lost an error (see UpdateStatus)
  spent                  \* disturbances so far

nodeVars == <<ns, node, daemon, cNs, cNode, cDaemon, pending, queue, worker, masked>>

cacheVars  == <<cNs, cNode, cDaemon>>
workerVars == <<queue, worker, masked>>

Idle == [pc |-> "idle"]

NodeInit ==
  /\ ns \in {"Missing", "Active"} /\ cNs = ns
  /\ node = [k \in Kinds |-> None] /\ cNode = node
  /\ daemon = [k \in Kinds |-> "Missing"] /\ cDaemon = daemon
  /\ pending = {} /\ queue = {} /\ worker = [k \in Kinds |-> Idle] /\ masked = {}
  /\ spent = 0

Spend == spent < Bound /\ spent' = spent + 1
CallSucceeds == UNCHANGED spent
CallFails    == Spend

-----------------------------------------------------------------------------
(* Users, kubelets and the namespace controller.                           *)

\* A second resource of a kind comes only after the first is out of the cache.
CreateNode(k) ==
  /\ node[k] = None /\ cNode[k] = None
  /\ Spend
  /\ node' = [node EXCEPT ![k] = [fin |-> FALSE, deleting |-> FALSE,
                                  reconciled |-> "Unset", ready |-> "Unset"]]
  /\ UNCHANGED <<ns, daemon, cacheVars, pending, workerVars>>

DeleteNode(k) ==
  /\ node[k] # None /\ ~ node[k].deleting
  /\ Spend
  /\ node' = [node EXCEPT ![k] = IF node[k].fin THEN [@ EXCEPT !.deleting = TRUE] ELSE None]
  /\ UNCHANGED <<ns, daemon, cacheVars, pending, workerVars>>

\* All scheduled pods become ready, which is the normal course; none is scheduled,
\* or some are not ready; someone deletes the DaemonSet.
ChangeDaemon(k, d) ==
  /\ daemon[k] # "Missing" /\ d # daemon[k]
  /\ IF d = "Ready" THEN CallSucceeds ELSE Spend
  /\ daemon' = [daemon EXCEPT ![k] = d] /\ pending' = pending \cup {k}
  /\ UNCHANGED <<ns, node, cacheVars, workerVars>>

ChangeNamespace ==
  /\ ns # "Terminating"
  /\ Spend
  /\ ns' = IF ns = "Missing" THEN "Active" ELSE "Terminating"
  /\ pending' = pending \cup {"Namespace"}
  /\ UNCHANGED <<node, daemon, cacheVars, workerVars>>

\* A namespace that is being deleted goes with everything in it, or never goes.
NamespaceGone ==
  /\ ns = "Terminating"
  /\ ns' = "Missing"
  /\ daemon' = [k \in Kinds |-> "Missing"]
  /\ pending' = pending \cup {"Namespace"} \cup {k \in Kinds : daemon[k] # "Missing"}
  /\ UNCHANGED <<node, cacheVars, workerVars, spent>>

-----------------------------------------------------------------------------
(* Informers.  None of these watches has a predicate.                      *)

DeliverNamespace ==
  /\ "Namespace" \in pending
  /\ cNs' = ns /\ pending' = pending \ {"Namespace"}
  /\ queue' = queue \cup {k \in Kinds : cNode[k] # None}
  /\ UNCHANGED <<ns, node, daemon, cNode, cDaemon, worker, masked, spent>>

DeliverNode(k) ==
  /\ cNode[k] # node[k]
  /\ cNode' = [cNode EXCEPT ![k] = node[k]]
  /\ queue' = queue \cup {k}
  /\ UNCHANGED <<ns, node, daemon, cNs, cDaemon, pending, worker, masked, spent>>

BugDaemonUnwatched(k) ==
  /\ k \in pending
  /\ cDaemon' = [cDaemon EXCEPT ![k] = daemon[k]] /\ pending' = pending \ {k}
  /\ UNCHANGED <<ns, node, daemon, cNs, cNode, queue, worker, masked, spent>>

DeliverDaemon(k) ==
  /\ k \in pending
  /\ cDaemon' = [cDaemon EXCEPT ![k] = daemon[k]] /\ pending' = pending \ {k}
  /\ queue' = queue \cup {k}
  /\ UNCHANGED <<ns, node, daemon, cNs, cNode, worker, masked, spent>>

-----------------------------------------------------------------------------
(* StandardReconciler: what is done with a key depends on the cached copy. *)

BugFinalizerTakenForGranted(n) == TRUE
HasFinalizer(n) == n.fin

TakeKey(k) ==
  /\ k \in queue /\ worker[k] = Idle

\* "Resource not found", or it is on its way out without our finalizer.
SkipKey(k) ==
  /\ TakeKey(k)
  /\ \/ cNode[k] = None
     \/ cNode[k] # None /\ cNode[k].deleting /\ ~ HasFinalizer(cNode[k])
  /\ queue' = queue \ {k}
  /\ UNCHANGED <<ns, node, daemon, cacheVars, pending, worker, masked, spent>>

\* kube.AddFinalizer and the end of kube.RemoveFinalizer: an Update of copy,
\* which is refused when the server has another version of the object.  A
\* conflict or an error brings the key back.
Update(k, copy, new) ==
  \/ /\ node[k] = copy /\ CallSucceeds
     /\ node' = [node EXCEPT ![k] = new]
     /\ queue' = queue \ {k}
  \/ /\ node[k] = None /\ CallSucceeds
     /\ queue' = queue \ {k} /\ UNCHANGED node
  \/ /\ node[k] \notin {copy, None} /\ CallSucceeds
     /\ queue' = queue \cup {k} /\ UNCHANGED node
  \/ /\ CallFails
     /\ queue' = queue \cup {k} /\ UNCHANGED node

AddFinalizer(k) ==
  /\ TakeKey(k)
  /\ cNode[k] # None /\ ~ cNode[k].deleting /\ ~ HasFinalizer(cNode[k])
  /\ Update(k, cNode[k], [cNode[k] EXCEPT !.fin = TRUE])
  /\ UNCHANGED <<ns, daemon, cacheVars, pending, worker, masked>>

(***************************************************************************)
(* validate and installHelmChart.  A namespace that the cache shows as     *)
(* missing or terminating is a validation error.  If the cache is wrong    *)
(* Helm is refused, which is an error like any other.  A chart that could  *)
(* not be applied in full may or may not have its DaemonSet.               *)
(***************************************************************************)
ApplyChart(k) ==
  IF daemon[k] = "Missing"
  THEN daemon' = [daemon EXCEPT ![k] = "NotReady"] /\ pending' = pending \cup {k}
  ELSE UNCHANGED <<daemon, pending>>

InstallChart(k) ==
  /\ TakeKey(k)
  /\ cNode[k] # None /\ ~ cNode[k].deleting /\ HasFinalizer(cNode[k])
  /\ \E err \in {"none", "validation", "failed"} :
       /\ (err = "validation") <=> (cNs # "Active")
       /\ \/ err = "validation" /\ CallSucceeds /\ UNCHANGED <<daemon, pending>>
          \/ err = "none" /\ ns = "Active" /\ CallSucceeds /\ ApplyChart(k)
          \/ err = "failed" /\ ns # "Active" /\ CallSucceeds /\ UNCHANGED <<daemon, pending>>
          \/ /\ err = "failed" /\ ns = "Active" /\ CallFails
             /\ ApplyChart(k) \/ UNCHANGED <<daemon, pending>>
       /\ worker' = [worker EXCEPT ![k] = [pc |-> "status", copy |-> cNode[k], err |-> err]]
  /\ queue' = queue \ {k}
  /\ UNCHANGED <<ns, node, cacheVars, masked>>

RemoveChart(k) ==
  IF daemon[k] # "Missing"
  THEN daemon' = [daemon EXCEPT ![k] = "Missing"] /\ pending' = pending \cup {k}
  ELSE UNCHANGED <<daemon, pending>>

\* Finalize.  A failed uninstallation is tried again.
BugUninstallErrorIgnored(k) ==
  /\ TakeKey(k)
  /\ cNode[k] # None /\ cNode[k].deleting /\ HasFinalizer(cNode[k])
  /\ (CallSucceeds /\ RemoveChart(k)) \/ (CallFails /\ UNCHANGED <<daemon, pending>>)
  /\ worker' = [worker EXCEPT ![k] = [pc |-> "unfinalize", copy |-> cNode[k]]]
  /\ queue' = queue \ {k}
  /\ UNCHANGED <<ns, node, cacheVars, masked>>

UninstallChart(k) ==
  /\ TakeKey(k)
  /\ cNode[k] # None /\ cNode[k].deleting /\ HasFinalizer(cNode[k])
  /\ \/ /\ CallSucceeds
        /\ RemoveChart(k)
        /\ worker' = [worker EXCEPT ![k] = [pc |-> "unfinalize", copy |-> cNode[k]]]
        /\ queue' = queue \ {k}
     \/ /\ CallFails
        /\ RemoveChart(k) \/ UNCHANGED <<daemon, pending>>
        /\ UNCHANGED <<queue, worker>>
  /\ UNCHANGED <<ns, node, cacheVars, masked>>

\* The API server removes the object with its last finalizer.
RemoveFinalizer(k) ==
  /\ worker[k].pc = "unfinalize"
  /\ Update(k, worker[k].copy, None)
  /\ worker' = [worker EXCEPT ![k] = Idle]
  /\ UNCHANGED <<ns, daemon, cacheVars, pending, masked>>

-----------------------------------------------------------------------------
(* determineStatus and updateStatus.                                       *)

determineReconciledCondition(err) == IF err = "none" THEN "True" ELSE "ReconcileError"

determineReadyCondition(d) == IF d = "Ready" THEN "True" ELSE "DaemonSetNotReady"

\* The state is the reason of the first condition that is not true.
BugFirstTrue(conditions) ==
  LET good == {i \in DOMAIN conditions : conditions[i] = "True"}
  IN IF good = {} THEN "Healthy" ELSE conditions[CHOOSE i \in good : \A j \in good : i <= j]

deriveState(conditions) ==
  LET bad == {i \in DOMAIN conditions : conditions[i] # "True"}
  IN IF bad = {} THEN "Healthy" ELSE conditions[CHOOSE i \in bad : \A j \in bad : i <= j]

NodeState(n) == deriveState(<<n.reconciled, n.ready>>)

WithConditions(n, reconciled, ready) ==
  [fin |-> n.fin, deleting |-> n.deleting, reconciled |-> reconciled, ready |-> ready]

(***************************************************************************)
(* The status is patched if it differs from that of the copy the reconcile *)
(* began with; the patch is not conditional on a resourceVersion.  Reading *)
(* the DaemonSet may fail, and so may the patch.  Reconcile joins all      *)
(* errors, and a validation error among them makes StandardReconciler      *)
(* return none of them ("masked"), unless the resource is gone.            *)
(***************************************************************************)
UpdateStatus(k) ==
  LET w == worker[k]
  IN /\ w.pc = "status"
     /\ \E read, patch \in {"ok", "failed"} :
          LET reconciled == determineReconciledCondition(w.err)
              ready   == IF read = "ok" THEN determineReadyCondition(cDaemon[k])
                                        ELSE "ReadinessCheckFailed"
              patched == WithConditions(w.copy, reconciled, ready) # w.copy
              gone    == patched /\ patch = "ok" /\ node[k] = None
              fails   == {read, patch} # {"ok"}
          IN /\ (patch = "failed") => patched
             /\ IF fails THEN CallFails ELSE CallSucceeds
             /\ node' = IF patched /\ patch = "ok" /\ ~ gone
                        THEN [node EXCEPT ![k] = WithConditions(@, reconciled, ready)]
                        ELSE node
             /\ queue' = IF (w.err = "failed") \/ gone \/ (fails /\ w.err # "validation")
                         THEN queue \cup {k} ELSE queue
             /\ masked' = IF fails /\ w.err = "validation" THEN masked \cup {k} ELSE masked \ {k}
     /\ worker' = [worker EXCEPT ![k] = Idle]
     /\ UNCHANGED <<ns, daemon, cacheVars, pending>>

NodeController(k) ==
  \/ SkipKey(k) \/ AddFinalizer(k) \/ InstallChart(k)
  \/ UninstallChart(k) \/ RemoveFinalizer(k) \/ UpdateStatus(k)

IstioCNIController == "IstioCNI" \in Kinds /\ NodeController("IstioCNI")
ZTunnelController  == "ZTunnel" \in Kinds /\ NodeController("ZTunnel")

\* The informers of the new process list everything, which enqueues everything.
NodeCrash ==
  /\ Spend
  /\ cNs' = ns /\ cNode' = node /\ cDaemon' = daemon /\ pending' = {}
  /\ queue' = {k \in Kinds : node[k] # None}
  /\ worker' = [k \in Kinds |-> Idle]
  /\ UNCHANGED <<ns, node, daemon, masked>>

NodeUsers ==
  \/ \E k \in Kinds : CreateNode(k) \/ DeleteNode(k) \/ \E d \in Daemons : ChangeDaemon(k, d)
  \/ ChangeNamespace

\* What the rest of the operator and its surroundings do.
Elsewhere == UNCHANGED nodeVars /\ (CallSucceeds \/ Spend)

NodeNext ==
  \/ NodeUsers \/ NamespaceGone
  \/ DeliverNamespace \/ \E k \in Kinds : DeliverNode(k) \/ DeliverDaemon(k)
  \/ IstioCNIController \/ ZTunnelController
  \/ NodeCrash \/ Elsewhere

NodeSpec == NodeInit /\ [][NodeNext]_<<nodeVars, spent>>

-----------------------------------------------------------------------------

Calls ==
  {Idle} \cup [pc: {"unfinalize"}, copy: Nodes]
    \cup [pc: {"status"}, copy: Nodes, err: {"none", "validation", "failed"}]

NodeTypeOK ==
  /\ ns \in Phases /\ cNs \in Phases
  /\ node \in [Kinds -> Nodes \cup {None}] /\ cNode \in [Kinds -> Nodes \cup {None}]
  /\ daemon \in [Kinds -> Daemons] /\ cDaemon \in [Kinds -> Daemons]
  /\ pending \subseteq Kinds \cup {"Namespace"}
  /\ queue \subseteq Kinds /\ masked \subseteq Kinds
  /\ worker \in [Kinds -> Calls]
  /\ spent \in 0 .. Bound

\* Nothing is left to do for k, and no event is under way.
AtRest(k) ==
  /\ k \notin queue /\ worker[k] = Idle
  /\ cNode[k] = node[k] /\ pending \cap {"Namespace", k} = {}

\* What the status should say of the cluster as it is.
TrueReconciled == IF ns = "Active" THEN "True" ELSE "ReconcileError"

(***************************************************************************)
(* At rest, a resource has its finalizer, is not waiting to be deleted,    *)
(* its chart is installed if the namespace admits it, and its status is    *)
(* true of the namespace and the DaemonSet: whatever order the events came *)
(* in, whichever calls failed, none was the last that could correct it.    *)
(* The exception is a reconcile in which an error was masked.              *)
(***************************************************************************)
NodeHonest ==
  \A k \in Kinds : AtRest(k) /\ node[k] # None =>
    /\ node[k].fin /\ ~ node[k].deleting
    /\ (ns = "Active") => (daemon[k] # "Missing")
    /\ (k \notin masked) =>
         /\ node[k].reconciled = TrueReconciled
         /\ node[k].ready = determineReadyCondition(daemon[k])

\* The same without the exception: "Reports the current state of the object"
\* (the status field of IstioCNI and ZTunnel).
ReportsCurrentState ==
  \A k \in Kinds : AtRest(k) /\ node[k] # None =>
    NodeState(node[k]) = deriveState(<<TrueReconciled, determineReadyCondition(daemon[k])>>)

\* No DaemonSet outlives its resource: the finalizer holds the resource until
\* its chart is gone, and no reconcile of an old copy brings the chart back.
NothingLeftBehind == \A k \in Kinds : (node[k] = None) => (daemon[k] = "Missing")

(***************************************************************************)
(* The resources keep the contract of StandardReconciler.  The namespace   *)
(* controller, too, only ever takes away what is installed.                *)
(***************************************************************************)
Stage(k) ==
  CASE node[k] = None -> "Absent"
    [] node[k] # None /\ ~ node[k].fin -> "New"
    [] node[k] # None /\ node[k].fin /\ ~ node[k].deleting -> "Guarded"
    [] node[k] # None /\ node[k].fin /\ node[k].deleting ->
         IF cNode[k] = None \/ ~ cNode[k].deleting THEN "Doomed" ELSE "Leaving"

Finalization ==
  INSTANCE FinalizedRelease WITH Names <- Kinds,
    stage <- [k \in Kinds |-> Stage(k)],
    installed <- [k \in Kinds |-> daemon[k] # "Missing"]

KeepsFinalizerContract == Finalization!FinSpec
=============================================================================
