----------------------------- MODULE Readiness -----------------------------
(***************************************************************************)
(* How the state that an Istio reports comes about.                        *)
(*                                                                         *)
(* The IstioRevision controller installs the control plane and reports     *)
(* Reconciled, Ready and DependenciesHealthy: it reads the istiod          *)
(* Deployment, or, if the control plane is in another cluster, the         *)
(* annotation that the webhook controller leaves on the injection webhook  *)
(* after probing it; and the state of the IstioCNI, which NodeComponents   *)
(* describes.  The Istio controller copies what the revision reports.  A   *)
(* change at one end reaches the other only by events that put keys into   *)
(* the work queues, and every reader reads a cache.                        *)
(*                                                                         *)
(* There is one Istio and its active revision.  Creation, pruning and      *)
(* finalization of revisions are in RevisionLifecycle, the condition InUse *)
(* is in InUseDetection.                                                   *)
(***************************************************************************)
EXTENDS NodeComponents

ASSUME DependencyAssumption == "IstioCNI" \in Kinds

Istiods == {"Missing", "NotReady", "Ready"}

\* The injection webhook: whether it has a CA bundle, and its probe annotation.
Hooks == [ca: BOOLEAN, probe: {"Unset", "true", "false"}]

RevConditions ==
  [reconciled: {"Unset", "True", "ReconcileError"},
   ready: {"Unset", "True", "IstiodNotReady", "RemoteIstiodNotReady", "ReadinessCheckFailed"},
   deps: {"Unset", "True", "IstioCNINotFound", "IstioCNINotHealthy", "DependencyCheckFailed"}]

ASSUME NoneIsNothing == None \notin Hooks \cup RevConditions

VARIABLES
  remote,         \* values.profile is "remote" (IsUsingRemoteControlPlane)
  needsCNI,       \* DependsOnIstioCNI
  istiod, hook,   \* the Deployment of a local control plane, the webhook of a remote one
  remoteUp,       \* the remote istiod answers a probe with 200
  rev,            \* status.conditions of the IstioRevision, None if there is none
  istio,          \* status.state of the Istio that owns it, None if there is none
  cIstiod, cHook, cRev, cIstio,  \* the same in the informer caches
  events,         \* which of "istiod" and "hook" have events under way
  keys,           \* which of "istio", "rev" and "hook" are in their work queues
  timer,          \* the webhook controller's RequeueAfter
  iw, rw, hw,     \* the reconciles of the Istio, the revision and the webhook in progress
  lost            \* the last reconcile of the revision lost an error, as in masked

planeVars == <<istiod, hook, remoteUp>>
planeCaches == <<cIstiod, cHook, events>>
statusVars == <<rev, istio, cRev, cIstio>>
ctlVars == <<keys, timer, iw, rw, hw, lost>>
ownVars == <<remote, needsCNI, planeVars, planeCaches, statusVars, ctlVars>>
vars == <<nodeVars, spent, ownVars>>

NoStatus == [reconciled |-> "Unset", ready |-> "Unset", deps |-> "Unset"]

\* The keys that an event on, or for, the revision in the cache enqueues.
RevisionKey(affected) == IF affected /\ cRev # None THEN {"rev"} ELSE {}
OwnerKey == IF istio = None THEN {} ELSE {"istio"}

\* The operator starts on a cluster with no control plane, but with an Istio, or
\* an IstioRevision that somebody made by hand, or neither.
Init ==
  /\ NodeInit
  /\ remote \in BOOLEAN /\ needsCNI \in BOOLEAN
  /\ istiod = "Missing" /\ cIstiod = istiod /\ hook = None /\ cHook = hook
  /\ remoteUp = FALSE
  /\ istio \in {None, "Unset"} /\ cIstio = istio
  /\ rev \in {None} \cup (IF istio = None THEN {NoStatus} ELSE {}) /\ cRev = rev
  /\ events = {} /\ timer = FALSE
  /\ keys = OwnerKey \cup RevisionKey(TRUE)
  /\ iw = Idle /\ rw = Idle /\ hw = Idle /\ lost = FALSE

-----------------------------------------------------------------------------
(* The control plane and those who look after it.                          *)

\* Becoming ready is again the normal course, and free.
ChangeIstiod(d) ==
  /\ istiod # "Missing" /\ d # istiod
  /\ IF d = "Ready" THEN CallSucceeds ELSE Spend
  /\ istiod' = d /\ events' = events \cup {"istiod"}
  /\ UNCHANGED <<nodeVars, remote, needsCNI, hook, remoteUp, cIstiod, cHook, statusVars, ctlVars>>

\* The remote istiod writes the CA bundle; somebody deletes the webhook.
ChangeHook ==
  /\ hook # None
  /\ \/ ~ hook.ca /\ CallSucceeds /\ hook' = [hook EXCEPT !.ca = TRUE]
     \/ Spend /\ hook' = None
  /\ events' = events \cup {"hook"}
  /\ UNCHANGED <<nodeVars, remote, needsCNI, istiod, remoteUp, cIstiod, cHook, statusVars, ctlVars>>

\* The remote istiod comes up or goes down, which no event tells.
ChangeRemote ==
  /\ remote
  /\ IF remoteUp THEN Spend ELSE CallSucceeds
  /\ remoteUp' = ~ remoteUp
  /\ UNCHANGED <<nodeVars, remote, needsCNI, istiod, hook, planeCaches, statusVars, ctlVars>>

-----------------------------------------------------------------------------
(* Informers.  The owned-resource handlers enqueue the controlling owner.  *)

DeliverIstiod ==
  /\ "istiod" \in events
  /\ cIstiod' = istiod /\ events' = events \ {"istiod"} /\ keys' = keys \cup {"rev"}
  /\ UNCHANGED <<nodeVars, spent, remote, needsCNI, planeVars, cHook, statusVars,
                 timer, iw, rw, hw, lost>>

\* Both the revision and the webhook controller watch webhooks, the latter
\* through a predicate that reads the revision.
IsOwnedByRevisionWithRemoteControlPlane == cRev # None /\ remote

DeliverHook ==
  /\ "hook" \in events
  /\ cHook' = hook /\ events' = events \ {"hook"}
  /\ keys' = keys \cup {"rev"}
       \cup (IF IsOwnedByRevisionWithRemoteControlPlane THEN {"hook"} ELSE {})
  /\ UNCHANGED <<nodeVars, spent, remote, needsCNI, planeVars, cIstiod, statusVars,
                 timer, iw, rw, hw, lost>>

BugOwnerNotEnqueued ==
  /\ cRev # rev
  /\ cRev' = rev /\ keys' = keys \cup {"rev"}
  /\ UNCHANGED <<nodeVars, spent, remote, needsCNI, planeVars, planeCaches, rev, istio, cIstio,
                 timer, iw, rw, hw, lost>>

DeliverRevision ==
  /\ cRev # rev
  /\ cRev' = rev /\ keys' = keys \cup {"rev"} \cup OwnerKey
  /\ UNCHANGED <<nodeVars, spent, remote, needsCNI, planeVars, planeCaches, rev, istio, cIstio,
                 timer, iw, rw, hw, lost>>

DeliverIstio ==
  /\ cIstio # istio
  /\ cIstio' = istio /\ keys' = keys \cup {"istio"}
  /\ UNCHANGED <<nodeVars, spent, remote, needsCNI, planeVars, planeCaches, rev, istio, cRev,
                 timer, iw, rw, hw, lost>>

\* The namespace's event reaches the revision as well, and an IstioCNI's
\* every revision that depends on it.  (The watch on namespaces names two
\* predicates in two options, of which the builder keeps the last: the one that
\* would drop the update to Terminating is not in force.)
BugDependencyUnwatched == {}
mapIstioCniToReconcileRequests == RevisionKey(needsCNI)

DeliverToAll ==
  /\ \/ DeliverNamespace /\ keys' = keys \cup RevisionKey(TRUE)
     \/ \E k \in Kinds : DeliverNode(k) /\ keys' = keys \cup 
          (IF k = "IstioCNI" THEN mapIstioCniToReconcileRequests ELSE {})
     \/ \E k \in Kinds : DeliverDaemon(k) /\ UNCHANGED keys
  /\ UNCHANGED <<remote, needsCNI, planeVars, planeCaches, statusVars, timer, iw, rw, hw, lost>>

-----------------------------------------------------------------------------
(* The IstioRevision controller.                                           *)

\* What the chart brings: a Deployment, or for a remote control plane a webhook.
ApplyPlane ==
  /\ istiod' = IF ~ remote /\ istiod = "Missing" THEN "NotReady" ELSE istiod
  /\ hook' = IF remote /\ hook = None THEN [ca |-> FALSE, probe |-> "Unset"] ELSE hook
  /\ events' = events \cup (IF istiod' # istiod THEN {"istiod"} ELSE {})
                      \cup (IF hook' # hook THEN {"hook"} ELSE {})

\* validate and installHelmCharts, as in InstallChart.
ReconcileRevision ==
  /\ "rev" \in keys /\ rw = Idle /\ cRev # None
  /\ \E err \in {"none", "validation", "failed"} :
       /\ (err = "validation") <=> (cNs # "Active")
       /\ \/ err = "validation" /\ CallSucceeds /\ UNCHANGED <<istiod, hook, events>>
          \/ err = "none" /\ ns = "Active" /\ CallSucceeds /\ ApplyPlane
          \/ err = "failed" /\ ns # "Active" /\ CallSucceeds /\ UNCHANGED <<istiod, hook, events>>
          \/ /\ err = "failed" /\ ns = "Active" /\ CallFails
             /\ ApplyPlane \/ UNCHANGED <<istiod, hook, events>>
       /\ rw' = [pc |-> "status", copy |-> cRev, err |-> err]
  /\ keys' = keys \ {"rev"}
  /\ UNCHANGED <<nodeVars, remote, needsCNI, remoteUp, cIstiod, cHook, statusVars, timer, iw, hw, lost>>

IstiodReady(d, h) ==
  IF remote THEN IF h # None /\ h.probe = "true" THEN "True" ELSE "RemoteIstiodNotReady"
            ELSE IF d = "Ready" THEN "True" ELSE "IstiodNotReady"

determineDependenciesHealthyCondition(cni) ==
  IF ~ needsCNI THEN "True"
  ELSE IF cni = None THEN "IstioCNINotFound"
  ELSE IF NodeState(cni) = "Healthy" THEN "True" ELSE "IstioCNINotHealthy"

\* Either read may fail, and the patch, as in UpdateStatus; if the revision is
\* deleted meanwhile its finalization is not our concern.
UpdateRevisionStatus ==
  /\ rw.pc = "status"
  /\ \E failed \in SUBSET {"ready", "deps", "patch"} :
       LET new == [reconciled |-> determineReconciledCondition(rw.err),
                   ready |-> IF "ready" \in failed THEN "ReadinessCheckFailed"
                             ELSE IstiodReady(cIstiod, cHook),
                   deps |-> IF "deps" \in failed THEN "DependencyCheckFailed"
                            ELSE determineDependenciesHealthyCondition(cNode["IstioCNI"])]
       IN /\ ("deps" \in failed) => needsCNI
          /\ ("patch" \in failed) => (new # rw.copy)
          /\ IF failed = {} THEN CallSucceeds ELSE CallFails
          /\ rev' = IF new # rw.copy /\ "patch" \notin failed THEN new ELSE rev
          /\ keys' = IF rw.err = "failed" \/ (failed # {} /\ rw.err = "none")
                     THEN keys \cup {"rev"} ELSE keys
          /\ lost' = (failed # {} /\ rw.err = "validation")
  /\ rw' = Idle
  /\ UNCHANGED <<nodeVars, remote, needsCNI, planeVars, planeCaches, istio, cRev, cIstio, timer, iw, hw>>

-----------------------------------------------------------------------------
(* The webhook controller.                                                 *)

\* The probe of the webhook as the cache shows it, which takes its time.
Probe ==
  /\ "hook" \in keys /\ hw = Idle /\ cHook # None
  /\ hw' = [copy |-> cHook, answer |-> IF cHook.ca /\ remoteUp THEN "true" ELSE "false"]
  /\ keys' = keys \ {"hook"}
  /\ UNCHANGED <<nodeVars, spent, remote, needsCNI, planeVars, planeCaches, statusVars, timer, iw, rw, lost>>

\* The annotation is written by an Update of the copy.  A conflict, an error and
\* a webhook that is gone bring the key back; after a success, and only then,
\* the next probe is due after the period.
BugProbedOnce == UNCHANGED timer
ScheduleProbe == timer' = TRUE

RecordProbe ==
  /\ hw # Idle
  /\ \/ /\ hook = hw.copy /\ CallSucceeds
        /\ hook' = [hook EXCEPT !.probe = hw.answer]
        /\ events' = events \cup (IF hook' # hook THEN {"hook"} ELSE {})
        /\ ScheduleProbe /\ UNCHANGED keys
     \/ /\ (hook # hw.copy /\ CallSucceeds) \/ CallFails
        /\ keys' = keys \cup {"hook"}
        /\ UNCHANGED <<hook, events, timer>>
  /\ hw' = Idle
  /\ UNCHANGED <<nodeVars, remote, needsCNI, istiod, remoteUp, cIstiod, cHook, statusVars, iw, rw, lost>>

TimerFires ==
  /\ timer
  /\ timer' = FALSE /\ keys' = keys \cup {"hook"}
  /\ UNCHANGED <<nodeVars, spent, remote, needsCNI, planeVars, planeCaches, statusVars, iw, rw, hw, lost>>

-----------------------------------------------------------------------------
(* The Istio controller.                                                   *)

\* CreateOrUpdate.  The update changes nothing, but it is refused when the
\* cached revision is not the one on the server.
ReconcileIstio ==
  /\ "istio" \in keys /\ iw = Idle /\ cIstio # None
  /\ \/ /\ cRev = rev /\ CallSucceeds
        /\ rev' = IF rev = None THEN NoStatus ELSE rev
        /\ iw' = [copy |-> cIstio, err |-> "none"]
     \/ /\ (cRev # rev /\ CallSucceeds) \/ CallFails
        /\ iw' = [copy |-> cIstio, err |-> "failed"]
        /\ UNCHANGED rev
  /\ keys' = keys \ {"istio"}
  /\ UNCHANGED <<nodeVars, remote, needsCNI, planeVars, planeCaches, istio, cRev, cIstio, timer, rw, hw, lost>>

RevState(r) == deriveState(<<r.reconciled, r.ready, r.deps>>)

determineIstioState(err, read) ==
  IF err = "failed" THEN "ReconcileError"
  ELSE IF read = "failed" THEN "FailedToGetActiveRevision"
  ELSE IF cRev = None THEN "RevisionNotFound" ELSE RevState(cRev)

\* The status is patched if it differs from that of the copy, be it in the state
\* or in what is not modelled: conditions, active revision, counts of revisions.
UpdateIstioStatus ==
  /\ iw # Idle
  /\ \E read \in {"ok", "failed"}, patch \in {"none", "ok", "failed"} :
       LET state == determineIstioState(iw.err, read)
           fails == "failed" \in {read, patch}
       IN /\ (read = "failed") => (iw.err = "none")
          /\ (patch = "none") => (state = iw.copy)
          /\ IF fails THEN CallFails ELSE CallSucceeds
          /\ istio' = IF patch = "ok" THEN state ELSE istio
          /\ keys' = IF iw.err = "failed" \/ fails THEN keys \cup {"istio"} ELSE keys
  /\ iw' = Idle
  /\ UNCHANGED <<nodeVars, remote, needsCNI, planeVars, planeCaches, rev, cRev, cIstio, timer, rw, hw, lost>>

\* A key whose object the cache does not have is dropped.
SkipMissing ==
  /\ \/ "rev" \in keys /\ rw = Idle /\ cRev = None /\ keys' = keys \ {"rev"}
     \/ "hook" \in keys /\ hw = Idle /\ cHook = None /\ keys' = keys \ {"hook"}
  /\ UNCHANGED <<nodeVars, spent, remote, needsCNI, planeVars, planeCaches, statusVars, timer, iw, rw, hw, lost>>

-----------------------------------------------------------------------------
(* Everything together.                                                    *)

Crash ==
  /\ NodeCrash
  /\ cIstiod' = istiod /\ cHook' = hook /\ cRev' = rev /\ cIstio' = istio
  /\ events' = {}
  /\ keys' = OwnerKey \cup (IF rev # None THEN {"rev"} ELSE {})
                       \cup (IF rev # None /\ remote /\ hook # None THEN {"hook"} ELSE {})
  /\ timer' = FALSE /\ iw' = Idle /\ rw' = Idle /\ hw' = Idle
  /\ UNCHANGED <<remote, needsCNI, planeVars, rev, istio, lost>>

\* The Deployment is in the namespace, the webhook is not.
NamespaceAndContentsGone ==
  /\ NamespaceGone
  /\ istiod' = "Missing"
  /\ events' = events \cup (IF istiod # "Missing" THEN {"istiod"} ELSE {})
  /\ UNCHANGED <<remote, needsCNI, hook, remoteUp, cIstiod, cHook, statusVars, ctlVars>>

Users ==
  \/ NodeUsers /\ UNCHANGED ownVars
  \/ \E d \in Istiods : ChangeIstiod(d)
  \/ ChangeHook \/ ChangeRemote

Informers == DeliverToAll \/ DeliverIstiod \/ DeliverHook \/ DeliverRevision \/ DeliverIstio

RevisionController == ReconcileRevision \/ UpdateRevisionStatus
WebhookController  == Probe \/ RecordProbe
IstioController    == ReconcileIstio \/ UpdateIstioStatus

Next ==
  \/ Users \/ NamespaceAndContentsGone \/ Informers \/ TimerFires \/ Crash
  \/ IstioCNIController /\ UNCHANGED ownVars
  \/ ZTunnelController /\ UNCHANGED ownVars
  \/ RevisionController \/ WebhookController \/ IstioController \/ SkipMissing

Spec == Init /\ [][Next]_vars

\* Workers, informers and the delaying queue run; nobody else has to.
Fairness ==
  /\ WF_vars(IstioCNIController /\ UNCHANGED ownVars)
  /\ WF_vars(ZTunnelController /\ UNCHANGED ownVars)
  /\ WF_vars(RevisionController) /\ WF_vars(WebhookController) /\ WF_vars(IstioController)
  /\ WF_vars(SkipMissing) /\ WF_vars(TimerFires)
  /\ WF_vars(DeliverToAll) /\ WF_vars(DeliverIstiod) /\ WF_vars(DeliverHook)
  /\ WF_vars(DeliverRevision) /\ WF_vars(DeliverIstio)

FairSpec == Spec /\ Fairness

-----------------------------------------------------------------------------

IstioStates ==
  {"Unset", "Healthy", "ReconcileError", "RevisionNotFound", "FailedToGetActiveRevision",
   "IstiodNotReady", "RemoteIstiodNotReady", "ReadinessCheckFailed",
   "IstioCNINotFound", "IstioCNINotHealthy", "DependencyCheckFailed"}

TypeOK ==
  /\ NodeTypeOK
  /\ remote \in BOOLEAN /\ needsCNI \in BOOLEAN /\ remoteUp \in BOOLEAN
  /\ istiod \in Istiods /\ cIstiod \in Istiods
  /\ hook \in Hooks \cup {None} /\ cHook \in Hooks \cup {None}
  /\ rev \in RevConditions \cup {None} /\ cRev \in RevConditions \cup {None}
  /\ istio \in IstioStates \cup {None} /\ cIstio \in IstioStates \cup {None}
  /\ events \subseteq {"istiod", "hook"} /\ keys \subseteq {"istio", "rev", "hook"}
  /\ timer \in BOOLEAN /\ lost \in BOOLEAN
  /\ rw \in {Idle} \cup [pc: {"status"}, copy: RevConditions, err: {"none", "validation", "failed"}]
  /\ hw \in {Idle} \cup [copy: Hooks, answer: {"true", "false"}]
  /\ iw \in {Idle} \cup [copy: IstioStates, err: {"none", "failed"}]

RevisionAtRest ==
  /\ "rev" \notin keys /\ rw = Idle /\ cRev = rev
  /\ events = {} /\ "Namespace" \notin pending /\ cNode["IstioCNI"] = node["IstioCNI"]

(***************************************************************************)
(* At rest, the control plane is installed if the namespace admits it and  *)
(* the conditions of the revision are true of the namespace, of istiod or  *)
(* the probe annotation, and of what the IstioCNI reports.                 *)
(***************************************************************************)
RevisionHonest ==
  (RevisionAtRest /\ rev # None) =>
    /\ (ns = "Active") => IF remote THEN hook # None ELSE istiod # "Missing"
    /\ lost \/ rev = [reconciled |-> TrueReconciled,
                      ready |-> IstiodReady(istiod, hook),
                      deps |-> determineDependenciesHealthyCondition(node["IstioCNI"])]

\* At rest, the Istio reports the state of its active revision: a state that came
\* from a conflict or from a revision not yet in the cache is gone.
IstioHonest ==
  (istio # None /\ "istio" \notin keys /\ iw = Idle /\ cRev = rev /\ cIstio = istio) =>
    rev # None /\ istio = RevState(rev)

\* The states as they should be, from the cluster rather than from other statuses.
TrueNodeState(k) == deriveState(<<TrueReconciled, determineReadyCondition(daemon[k])>>)

TrueRevState ==
  LET ready == IF remote
               THEN IF hook # None /\ hook.ca /\ remoteUp THEN "True" ELSE "RemoteIstiodNotReady"
               ELSE IF istiod = "Ready" THEN "True" ELSE "IstiodNotReady"
      deps  == IF ~ needsCNI THEN "True"
               ELSE IF node["IstioCNI"] = None THEN "IstioCNINotFound"
               ELSE IF TrueNodeState("IstioCNI") = "Healthy" THEN "True" ELSE "IstioCNINotHealthy"
  IN deriveState(<<TrueReconciled, ready, deps>>)

(***************************************************************************)
(* Once the cluster stays as it is, every reported state becomes true and  *)
(* remains so, all the way from the CNI DaemonSet through the IstioCNI and *)
(* the revision to the Istio, and from the remote istiod through the probe *)
(* annotation; and deletions are carried out.  Not if an error was masked. *)
(***************************************************************************)
EventuallyTrue ==
  <>[]((masked = {} /\ ~ lost) =>
         /\ \A k \in Kinds : node[k] = None \/ NodeState(node[k]) = TrueNodeState(k)
         /\ \A k \in Kinds : node[k] = None \/ ~ node[k].deleting
         /\ rev = None \/ RevState(rev) = TrueRevState
         /\ istio \in {None, TrueRevState})
=============================================================================
