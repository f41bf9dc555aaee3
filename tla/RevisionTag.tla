---------------------------- MODULE RevisionTag ----------------------------
(***************************************************************************)
(* The IstioRevisionTag controller, for one tag.                           *)
(*                                                                         *)
(* A tag is an alias of an IstioRevision, named directly or as the active  *)
(* revision of the Istio.  The controller installs the tag's chart in the  *)
(* namespace of that revision and records both in the tag's status; the    *)
(* status also decides which events of Istio and IstioRevision resources   *)
(* wake the controller up.  An error wakes it up again only if it is one   *)
(* of the errors that survive Reconcile's errors.Unwrap.                   *)
(*                                                                         *)
(* A tag named default also brings the base chart, whose release has the   *)
(* same name as that of an IstioRevision named default: its namesake.  Of  *)
(* the two, the younger one is to be refused.  What the namesake does is   *)
(* in SharedName.                                                          *)
(*                                                                         *)
(* All reads are served by caches that lag behind, each at its own pace.   *)
(* The chart manager keeps the contract of ChartRelease.                   *)
(***************************************************************************)
EXTENDS Naturals

CONSTANTS
  Revs,         \* names of IstioRevisions
  Namespaces,   \* namespaces that control planes are installed in
  NamespaceOf,  \* spec.namespace of each IstioRevision, which is immutable
  Remote,       \* the IstioRevisions that use a remote control plane
  EnabledByDefault, \* those whose values enable injection in all namespaces
  None,         \* no object, no name, an empty release
  Bound         \* how often users, other controllers, crashes and faults may interfere

ASSUME NamespaceAssumption == NamespaceOf \in [Revs -> Namespaces] /\ Remote \subseteq Revs /\ EnabledByDefault \subseteq Revs
ASSUME BoundAssumption == Bound \in Nat
ASSUME NameAssumption ==
  /\ None \notin Revs \cup Namespaces
  /\ {"Istio", "missing", "partial", "NoActiveRevision", "NoRevision"} \cap (Revs \cup {None}) = {}

\* spec.targetRef; there is one Istio resource.
Targets == Revs \cup {"Istio"}

\* The Istio resource: missing, without or with an active revision.
Istios == Revs \cup {"missing", None}

\* What Reconciled says: "True", or the reason and message when it is not.
Failures == {"NameAlreadyExists", "ReferenceNotFound", "NoActiveRevision", "NoRevision",
             "RemoteRevision", "HelmError"}
Reports  == Failures \cup {"Unset", "True"}
Usages   == {"Unset", "True", "False", "NoActiveRevision", "NoRevision", "CheckFailed"}

\* "observed" is the observedGeneration, "about" the revision that the message
\* of the Reconciled condition names.
Statuses == [observed: Nat, rev: Revs \cup {None}, ns: Namespaces \cup {None},
             reconciled: Reports, about: Revs \cup {None}, inUse: Usages]
Tags     == [born: Nat, uid: {2}, target: Targets, gen: Nat, fin: BOOLEAN, deleting: BOOLEAN,
             status: Statuses]

\* The namesake: of its status, whether it was installed or why it was not.
Namesakes == [born: Nat, uid: {1, 3}, fin: BOOLEAN, deleting: BOOLEAN,
              reconciled: {"Unset", "True", "NameAlreadyExists", "HelmError"}]

\* What the release of the base chart holds: whose version of the chart.
Bases == {None, "tag", "revision", "partial"}

ASSUME NoneAssumption == None \notin Tags \cup Namesakes \cup {"tag", "revision", "partial"}

VARIABLES
  istio, revs, tag,      \* the Istio, the existing IstioRevisions and the tag, on the server
  cIstio, cRevs, cTag,   \* the same in the informer caches
  referenced,            \* a namespace or a pod references the tag
  release,               \* what the tag's Helm release holds, in each namespace
  owned,                 \* the tag's webhook configuration has changed, the event is on its way
  default,               \* the tag is named default
  now,                   \* the second in which the latest tag or namesake was created
  namesake, cNamesake,   \* the IstioRevision of the tag's name, on the server and in the cache
  base,                  \* what the release of the base chart holds
  queued,                \* the tag's key is in the work queue
  call,                  \* the reconcile in progress
  spent                  \* disturbances so far

tagVars == <<istio, revs, tag, cIstio, cRevs, cTag, referenced, release, owned,
             default, now, namesake, cNamesake, base, queued, call, spent>>

otherVars  == <<default, namesake, cNamesake>>
serverVars == <<istio, revs, tag, referenced, now, otherVars>>
cacheVars  == <<cIstio, cRevs, cTag>>
workerVars == <<release, owned, base, queued, call>>

Idle == [pc |-> "idle"]

\* The operator starts on a cluster that has no tag yet.
TagInit ==
  /\ revs \in SUBSET Revs /\ istio \in revs \cup {"missing", None} /\ tag = None
  /\ cIstio = istio /\ cRevs = revs /\ cTag = None
  /\ referenced \in BOOLEAN
  /\ release = [n \in Namespaces |-> None] /\ owned = FALSE
  /\ default \in BOOLEAN /\ now = 0 /\ namesake = None /\ cNamesake = None /\ base = None
  /\ queued = FALSE /\ call = Idle
  /\ spent = 0

Spend == spent < Bound /\ spent' = spent + 1
CallSucceeds == UNCHANGED spent
CallFails    == Spend

-----------------------------------------------------------------------------
(* Users and the other controllers.                                        *)

\* Creation times have a resolution of one second, and matter to no one else.
Born(second) == second \in {now, now + 1} /\ (default \/ second = now) /\ now' = second

\* A second tag of the name comes only after the first one is out of sight.
CreateTag(t) ==
  /\ tag = None /\ cTag = None
  /\ Spend
  /\ \E second \in now .. now + 1 :
       /\ Born(second)
       /\ tag' = [born |-> second, uid |-> 2, target |-> t, gen |-> 1, fin |-> FALSE, deleting |-> FALSE,
                  status |-> [observed |-> 0, rev |-> None, ns |-> None, reconciled |-> "Unset",
                              about |-> None, inUse |-> "Unset"]]
  /\ UNCHANGED <<istio, revs, referenced, otherVars, cacheVars, workerVars>>

Retarget(t) ==
  /\ tag # None /\ tag.target # t
  /\ Spend
  /\ tag' = [tag EXCEPT !.target = t, !.gen = @ + 1]
  /\ UNCHANGED <<istio, revs, referenced, now, otherVars, cacheVars, workerVars>>

DeleteTag ==
  /\ tag # None /\ ~ tag.deleting
  /\ Spend
  /\ tag' = IF tag.fin THEN [tag EXCEPT !.deleting = TRUE] ELSE None
  /\ UNCHANGED <<istio, revs, referenced, now, otherVars, cacheVars, workerVars>>

\* The Istio is created, gets an active revision, changes it, or is deleted.
\* Its controller names a revision only after creating it, and never unnames it.
ChangeIstio(i) ==
  /\ i # istio
  /\ \/ i = "missing"
     \/ i = None /\ istio = "missing"
     \/ i \in revs /\ istio # "missing"
  /\ Spend
  /\ istio' = i
  /\ UNCHANGED <<revs, tag, referenced, now, otherVars, cacheVars, workerVars>>

ChangeRevision(r) ==
  /\ Spend
  /\ revs' = IF r \in revs THEN revs \ {r} ELSE revs \cup {r}
  /\ UNCHANGED <<istio, tag, referenced, now, otherVars, cacheVars, workerVars>>

\* A label of a namespace or pod starts or stops naming the tag, or such an
\* object comes or goes: mapNamespace- and mapPodToReconcileRequest.  (The
\* changes that these miss are those of InUseDetection.)
ChangeReference ==
  /\ Spend
  /\ referenced' = ~ referenced
  /\ queued' = TRUE
  /\ UNCHANGED <<istio, revs, tag, now, otherVars, cacheVars, release, owned, base, call>>

-----------------------------------------------------------------------------
(* Informers.                                                              *)

\* mapOperatorResourceToReconcileRequest, for the revision named r.
BugMapsSpec(r) == cTag # None /\ cTag.target = r
Selects(r) == cTag # None /\ r # None /\ cTag.status.rev = r

\* The handler maps the old and the new Istio.
DeliverIstio ==
  /\ cIstio # istio
  /\ cIstio' = istio
  /\ queued' = (queued \/ Selects(cIstio) \/ Selects(istio))
  /\ UNCHANGED <<serverVars, cRevs, cTag, release, owned, base, call, spent>>

DeliverRevision(r) ==
  /\ r \in cRevs <=> r \notin revs
  /\ cRevs' = IF r \in revs THEN cRevs \cup {r} ELSE cRevs \ {r}
  /\ queued' = (queued \/ Selects(r))
  /\ UNCHANGED <<serverVars, cIstio, cTag, release, owned, base, call, spent>>

\* The IstioRevision changes in a way that matters only as an event.
RevisionUpdated(r) ==
  /\ r \in cRevs /\ Selects(r)
  /\ Spend
  /\ queued' = TRUE
  /\ UNCHANGED <<serverVars, cacheVars, release, owned, base, call>>

DeliverTag ==
  /\ cTag # tag
  /\ cTag' = tag
  /\ queued' = TRUE
  /\ UNCHANGED <<serverVars, cIstio, cRevs, release, owned, base, call, spent>>

DeliverWebhook ==
  /\ owned
  /\ owned' = FALSE
  /\ queued' = TRUE
  /\ UNCHANGED <<serverVars, cacheVars, release, base, call, spent>>

\* The operator dies and restarts with filled caches and the tag enqueued.
Restart ==
  /\ Spend
  /\ cIstio' = istio /\ cRevs' = revs /\ cTag' = tag /\ cNamesake' = namesake
  /\ queued' = (tag # None) /\ owned' = FALSE /\ call' = Idle
  /\ UNCHANGED <<istio, revs, tag, referenced, now, default, namesake, release, base>>

-----------------------------------------------------------------------------
(* StandardReconciler: what becomes of the key.                            *)

TakeKey == queued /\ call = Idle

\* Nothing to do: the tag is gone, or is being deleted and already finalized.
TagNotFound ==
  /\ TakeKey
  /\ IF cTag = None THEN TRUE ELSE cTag.deleting /\ ~ cTag.fin
  /\ queued' = FALSE
  /\ UNCHANGED <<serverVars, cacheVars, release, owned, base, call, spent>>

\* An Update from the cached copy, refused if the server's has moved on.
AddFinalizer ==
  /\ TakeKey
  /\ cTag # None /\ ~ cTag.deleting /\ ~ cTag.fin
  /\ \/ /\ tag = cTag /\ CallSucceeds
        /\ tag' = [tag EXCEPT !.fin = TRUE]
        /\ queued' = FALSE
     \/ /\ tag # cTag /\ CallSucceeds
        /\ queued' = (tag # None)
        /\ UNCHANGED tag
     \/ CallFails /\ UNCHANGED <<queued, tag>>
  /\ UNCHANGED <<istio, revs, referenced, now, otherVars, cacheVars, release, owned, base, call>>

\* UninstallChart in namespace ns, and of the base chart, whoever installed it.
\* Without a namespace on record no release is found.
UninstallTag(ns) ==
  IF ns = None THEN UNCHANGED <<release, owned>>
  ELSE /\ release' = [release EXCEPT ![ns] = None]
       /\ owned' = (owned \/ release[ns] # None)

BugBaseForgotten(ns) == CallSucceeds /\ UninstallTag(ns) /\ UNCHANGED base
uninstallHelmCharts(ns) ==
  /\ CallSucceeds
  /\ UninstallTag(ns)
  /\ base' = IF default THEN None ELSE base

\* A call that fails leaves a release as it was or in part.
FailsToChange(ns) ==
  /\ CallFails
  /\ \/ UNCHANGED <<release, owned>>
     \/ /\ ns # None
        /\ release' = [release EXCEPT ![ns] = "partial"]
        /\ owned' \in {owned, TRUE}
  /\ UNCHANGED base

FailsToChangeBase ==
  /\ CallFails
  /\ base' \in {base, "partial"}

\* Nothing comes of an uninstallation where nothing was.
FailsToUninstallBase == FailsToChangeBase /\ (base = None => base' = None)

FailsToUninstall(ns) ==
  \/ FailsToChange(ns) /\ (ns # None /\ release[ns] = None => release' = release /\ owned' = owned)
  \/ default /\ UninstallTag(ns) /\ FailsToUninstallBase

Finalize ==
  /\ TakeKey
  /\ cTag # None /\ cTag.deleting /\ cTag.fin
  /\ \/ /\ uninstallHelmCharts(cTag.status.ns)
        /\ call' = [pc |-> "unfinalize", obj |-> cTag]
        /\ queued' = FALSE
     \/ FailsToUninstall(cTag.status.ns) /\ UNCHANGED <<queued, call>>
  /\ UNCHANGED <<serverVars, cacheVars>>

RemoveFinalizer ==
  /\ call.pc = "unfinalize"
  /\ call' = Idle
  /\ \/ /\ tag = call.obj /\ CallSucceeds
        /\ tag' = None
        /\ UNCHANGED queued
     \/ /\ \/ tag # call.obj /\ CallSucceeds
           \/ CallFails
        /\ queued' = (queued \/ tag # None)
        /\ UNCHANGED tag
  /\ UNCHANGED <<istio, revs, referenced, now, otherVars, cacheVars, release, owned, base>>

-----------------------------------------------------------------------------
(* Reconcile.                                                              *)

StartReconcile ==
  /\ TakeKey
  /\ cTag # None /\ ~ cTag.deleting /\ cTag.fin
  /\ call' = [pc |-> "validate", obj |-> cTag, rev |-> None, report |-> "Unset"]
  /\ queued' = FALSE
  /\ UNCHANGED <<serverVars, cacheVars, release, owned, base, spent>>

Continues(pc)   == call' = [call EXCEPT !.pc = pc]
ReportsBack(report) == call' = [call EXCEPT !.pc = "status", !.report = report]

ReferenceFound ==
  IF call.obj.target = "Istio" THEN cIstio # "missing" ELSE call.obj.target \in cRevs

ResourceTakesPrecedence(object1, object2) ==
  \/ object1.born < object2.born
  \/ object1.born = object2.born /\ object1.uid < object2.uid

Refused == cNamesake # None /\ ResourceTakesPrecedence(cNamesake, call.obj)

validate ==
  /\ call.pc = "validate"
  /\ IF Refused THEN ReportsBack("NameAlreadyExists")
     ELSE IF ReferenceFound THEN Continues("resolve") ELSE ReportsBack("ReferenceNotFound")
  /\ UNCHANGED <<serverVars, cacheVars, release, owned, base, queued, spent>>

\* getIstioRevision: a revision, or why there is none.
Referent(target) == IF target = "Istio" THEN cIstio ELSE target
BugUnresolvedAccepted(target) == Referent(target)
getIstioRevision(target) ==
  LET r == Referent(target)
  IN  IF r = None THEN "NoActiveRevision" ELSE IF r \in cRevs THEN r ELSE "NoRevision"

\* An Istio that is missing leaves no name to report.
NamesMissing ==
  call' = [call EXCEPT !.pc = "status", !.report = "NoRevision",
             !.rev = IF Referent(call.obj.target) \in Revs THEN Referent(call.obj.target) ELSE None]

Resolve ==
  /\ call.pc = "resolve"
  /\ LET r == getIstioRevision(call.obj.target)
     IN  \/ r = "NoRevision" /\ NamesMissing
         \/ r = "NoActiveRevision" /\ ReportsBack(r)
         \/ r \in Remote /\ ReportsBack("RemoteRevision")
         \/ /\ r \in Revs \ Remote
            /\ call' = [call EXCEPT !.rev = r,
                          !.pc = IF call.obj.status.ns \in {None, NamespaceOf[r]}
                                 THEN "install" ELSE "uninstall"]
  /\ UNCHANGED <<serverVars, cacheVars, release, owned, base, queued, spent>>

\* The revision is in another namespace than the tag was installed in.
UninstallFormer ==
  /\ call.pc = "uninstall"
  /\ \/ uninstallHelmCharts(call.obj.status.ns) /\ Continues("install")
     \/ FailsToUninstall(call.obj.status.ns) /\ ReportsBack("HelmError")
  /\ UNCHANGED <<serverVars, cacheVars, queued>>

installHelmCharts ==
  /\ call.pc = "install"
  /\ LET ns == NamespaceOf[call.rev]
     IN  \/ /\ CallSucceeds
            /\ release' = [release EXCEPT ![ns] = call.rev]
            /\ owned' = (owned \/ release[ns] # call.rev)
            /\ IF default THEN Continues("base") ELSE ReportsBack("True")
            /\ UNCHANGED base
         \/ FailsToChange(ns) /\ ReportsBack("HelmError")
  /\ UNCHANGED <<serverVars, cacheVars, queued>>

InstallBase ==
  /\ call.pc = "base"
  /\ \/ CallSucceeds /\ base' = "tag" /\ ReportsBack("True")
     \/ FailsToChangeBase /\ ReportsBack("HelmError")
  /\ UNCHANGED <<serverVars, cacheVars, release, owned, queued>>

\* A tag named default is what namespaces and pods without a label refer to.
UsedByDefault(r) == default /\ r \in EnabledByDefault

\* determineInUseCondition resolves the target again, unless the tag is used.
Usage(target) ==
  LET r == getIstioRevision(target)
  IN  IF referenced \/ UsedByDefault(r) THEN "True" ELSE IF r \in Revs THEN "False" ELSE r

\* determineStatus, from the copy the reconcile started with.
DeterminedStatus(inUse) ==
  LET known == [call.obj.status EXCEPT !.observed = call.obj.gen, !.reconciled = call.report, !.inUse = inUse,
                  !.about = IF call.report = "NoRevision" THEN call.rev ELSE None]
  IN  IF call.report = "True"
      THEN [known EXCEPT !.rev = call.rev, !.ns = NamespaceOf[call.rev]] ELSE known

\* Reconcile returns what errors.Unwrap leaves of the error: the cause of a
\* missing reference or of a failed installation, nothing of the others.
BugNothingUnwrapped(report) == FALSE
Unwrapped(report) == report \in {"ReferenceNotFound", "HelmError"}

UpdateStatus ==
  /\ call.pc = "status"
  /\ call' = Idle
  /\ \E inUse \in {Usage(call.obj.target), "CheckFailed"} :
       LET status == DeterminedStatus(inUse)
           failed == Unwrapped(call.report) \/ inUse \notin {"True", "False"}
       IN  \/ /\ IF inUse = "CheckFailed" THEN CallFails ELSE CallSucceeds
              /\ tag' = [tag EXCEPT !.status = IF status = call.obj.status THEN @ ELSE status]
              /\ queued' = (queued \/ failed)
           \/ /\ status # call.obj.status /\ CallFails       \* the patch
              /\ queued' = TRUE
              /\ UNCHANGED tag
  /\ UNCHANGED <<istio, revs, referenced, now, otherVars, cacheVars, release, owned, base>>

-----------------------------------------------------------------------------
TagEnvironment ==
  \/ \E t \in Targets : CreateTag(t) \/ Retarget(t)
  \/ DeleteTag \/ ChangeReference
  \/ \E i \in Istios : ChangeIstio(i)
  \/ \E r \in Revs : ChangeRevision(r) \/ RevisionUpdated(r)

TagInformers == DeliverIstio \/ DeliverTag \/ DeliverWebhook \/ \E r \in Revs : DeliverRevision(r)

TagController ==
  \/ TagNotFound \/ AddFinalizer \/ Finalize \/ RemoveFinalizer \/ StartReconcile
  \/ validate \/ Resolve \/ UninstallFormer \/ installHelmCharts \/ InstallBase \/ UpdateStatus

\* What happens to the namesake and, on its behalf, to the base chart.
Elsewhere ==
  /\ namesake' \in Namesakes \cup {None} /\ cNamesake' \in Namesakes \cup {None}
  /\ base' \in Bases /\ now' \in {now, now + 1}
  /\ CallSucceeds \/ Spend
  /\ UNCHANGED <<istio, revs, tag, cacheVars, referenced, release, owned, default, queued, call>>

TagNext == TagEnvironment \/ TagInformers \/ TagController \/ Restart \/ Elsewhere

TagSpec == TagInit /\ [][TagNext]_tagVars

-----------------------------------------------------------------------------
(* Properties.                                                             *)

TagTypeOK ==
  /\ istio \in Istios /\ cIstio \in Istios
  /\ revs \subseteq Revs /\ cRevs \subseteq Revs
  /\ tag \in Tags \cup {None} /\ cTag \in Tags \cup {None}
  /\ referenced \in BOOLEAN /\ owned \in BOOLEAN /\ queued \in BOOLEAN
  /\ release \in [Namespaces -> Revs \cup {None, "partial"}]
  /\ default \in BOOLEAN /\ now \in Nat /\ base \in Bases
  /\ namesake \in Namesakes \cup {None} /\ cNamesake \in Namesakes \cup {None}
  /\ call \in {Idle} \cup [pc: {"unfinalize"}, obj: Tags]
       \cup [pc: {"validate", "resolve", "uninstall", "install", "base", "status"},
             obj: Tags, rev: Revs \cup {None}, report: Reports]
  /\ spent \in 0 .. Bound

Quiet ==
  /\ ~ queued /\ ~ owned /\ call = Idle
  /\ cIstio = istio /\ cRevs = revs /\ cTag = tag

InUseTrue(status) ==
  /\ status.inUse \in {"True", "False"}
  /\ referenced => status.inUse = "True"
  /\ status.reconciled = "True" \/ ~ default =>
       (status.inUse = "True" <=> referenced \/ UsedByDefault(status.rev))

(***************************************************************************)
(* When nothing is pending, what the tag reports is true.  If it reports   *)
(* Reconciled=True, it points to the revision its target stands for now,   *)
(* in the namespace it names.  InUse says whether it is used (that the     *)
(* revision is enabled for all namespaces is only known of a tag that      *)
(* points to one); and the status speaks of the tag's current generation.  *)
(* The status is patched from an old copy, without a resourceVersion, and  *)
(* not at all if that copy already says the same; events are selected by   *)
(* the cached status, which may not be the one being written.              *)
(***************************************************************************)
HonestStatus ==
  Quiet /\ tag # None =>
    /\ tag.status.reconciled = "True" =>
         /\ tag.status.rev \in revs \ Remote /\ tag.status.rev = Referent(tag.target)
         /\ tag.status.ns = NamespaceOf[tag.status.rev]
         /\ release[tag.status.ns] = tag.status.rev
    /\ InUseTrue(tag.status)
    /\ tag.status.observed = tag.gen

(***************************************************************************)
(* A missing reference or a failed installation is never the last word:    *)
(* the tag is reconciled again until the one appears or the other works.   *)
(***************************************************************************)
FailuresRetried == Quiet /\ tag # None => tag.status.reconciled \notin {"ReferenceNotFound", "HelmError"}

(***************************************************************************)
(* Once users stop, a tag points to the revision its target stands for, in *)
(* particular when its Istio gets an active revision, or another one.      *)
(***************************************************************************)
Follows ==
  tag # None /\ ~ tag.deleting =>
    LET r == IF tag.target = "Istio" THEN istio ELSE tag.target
    IN  r \in revs \ Remote =>
          /\ tag.status.rev = r /\ tag.status.reconciled = "True"
          /\ release[NamespaceOf[r]] = r

EventuallyFollows == <>[]Follows
=============================================================================
