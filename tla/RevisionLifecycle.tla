------------------------- MODULE RevisionLifecycle -------------------------
(***************************************************************************)
(* The life of a control plane: the Istio and the IstioRevision            *)
(* controllers of the Sail Operator, the API server objects they share,    *)
(* and the informer caches and work queues through which they see them.    *)
(*                                                                         *)
(* One Istio resource owns IstioRevisions.  Its controller creates or      *)
(* updates the active one, prunes inactive ones whose grace period is      *)
(* over, and reports the active name.  The IstioRevision controller        *)
(* guards each revision with a finalizer, installs and uninstalls its      *)
(* Helm charts, and reports whether workloads use it.                      *)
(*                                                                         *)
(* Every read is served by a cache that may lag behind the API server.     *)
(* Spec updates are refused when the copy they start from is outdated;     *)
(* status patches and deletions carry no such check.                       *)
(***************************************************************************)
EXTENDS Naturals, FiniteSets

CONSTANTS
  Versions,    \* values of Istio.spec.version
  IstioName,   \* metadata.name of the Istio resource
  Grace,       \* inactiveRevisionDeletionGracePeriodSeconds
  None,        \* an object that does not exist
  SlowPrune,   \* TRUE: a second may pass inside one PruneInactive call
  Bound        \* how often each kind of disturbance may happen

Disturbances == {"spec", "istio", "delete", "use", "event", "crash", "fault"}

\* A version never is the name of the Istio resource, so revision names differ.
ASSUME NameAssumption == IstioName \notin Versions /\ None \notin Versions \cup {IstioName}
\* The two controllers have a work queue each; "Istio" is the key in the first.
ASSUME KeyAssumption == "Istio" \notin Versions \cup {IstioName}
ASSUME GraceAssumption == Grace \in Nat
ASSUME ModeAssumption == SlowPrune \in BOOLEAN
ASSUME BoundAssumption == Bound \in [Disturbances -> Nat]

Strategies == {"InPlace", "RevisionBased"}

\* "<istio>" for InPlace; "<istio>-<version>" is represented by the version.
RevNames == Versions \cup {IstioName}

getActiveRevisionName(spec) ==
  IF spec.strategy = "RevisionBased" THEN spec.version ELSE IstioName

NoTimer == Grace + 1            \* later than every deadline
Ages    == 0 .. Grace           \* seconds since a transition; Grace is "expired"
Timers  == 0 .. NoTimer

\* Uids tell apart the incarnations of one name that exist at the same time:
\* on the server, in the cache and in a worker's hands.
Uids == 1 .. 3

\* LastTransitionTime of the InUse condition is kept as the age it has now.
Revisions ==
  [uid: Uids, owner: Nat, version: Versions, fin: BOOLEAN, deleting: BOOLEAN,
   inUse: {"Unknown", "True", "False"}, age: Ages]

IstioStates == {"Unset", "FromRevision", "RevisionNotFound", "ReconcileError"}
Statuses    == [active: RevNames \cup {None}, state: IstioStates]
Istios      == [uid: Nat, version: Versions, strategy: Strategies, status: Statuses]

ASSUME NoneAssumption == None \notin Revisions /\ None \notin Istios

VARIABLES
  istio,    \* the Istio resource on the API server
  rev,      \* the IstioRevisions on the API server
  release,  \* which revisions' Helm releases are installed
  used,     \* which revisions workloads use, as the pod and namespace caches say
  cIstio,   \* the Istio resource in the informer cache
  cRev,     \* the IstioRevisions in the informer cache
  fresh,    \* who holds revision n at its current resourceVersion
  queue,    \* keys in the two work queues
  timer,    \* delayed re-enqueue of the Istio key
  iw,       \* the worker that reconciles the Istio
  rw,       \* the worker that reconciles revision n
  sinceUse, \* ghost: seconds since the server last reported revision n in use
  overwritten, \* ghost: revision n's transition time comes from an old copy
  spent     \* disturbances so far

\* The ghosts record what happened; no guard and no other variable reads them.
ghosts == <<sinceUse, overwritten>>

vars == <<istio, rev, release, used, cIstio, cRev, fresh, queue, timer, iw, rw,
          spent, ghosts>>

Keys    == RevNames \cup {"Istio"}
IdleIw  == [pc |-> "idle"]
IdleRw  == [pc |-> "idle"]
Workers == {"cache", "worker"}

-----------------------------------------------------------------------------
(* What a write to the API server does.                                    *)

\* A write that changes nothing keeps the resourceVersion (and sends no event).
Writes(newRev) ==
  /\ rev' = newRev
  /\ fresh' = [n \in RevNames |-> IF newRev[n] = rev[n] THEN fresh[n] ELSE {}]

\* PUT: accepted only from a holder of the current resourceVersion.
UpdateAccepted(n, holder) == rev[n] # None /\ holder \in fresh[n]

\* DELETE: an object with a finalizer is only marked, another one goes at once.
Deleted(r) == IF r.fin THEN [r EXCEPT !.deleting = TRUE] ELSE None

Spend(kind) ==
  /\ spent[kind] < Bound[kind]
  /\ spent' = [spent EXCEPT ![kind] = @ + 1]

\* The outcome of an API or Helm call that may fail for reasons of its own.
CallSucceeds == UNCHANGED spent
CallFails    == Spend("fault")

\* A status is patched if a condition that is modelled changed, or one that is
\* not (Ready, the counts of revisions...), which counts as a disturbance.
PatchGoesOut(changed) == IF changed THEN CallSucceeds ELSE Spend("event")

-----------------------------------------------------------------------------
Init ==
  /\ istio = None /\ cIstio = None
  /\ rev = [n \in RevNames |-> None] /\ cRev = [n \in RevNames |-> None]
  /\ release = [n \in RevNames |-> FALSE]
  /\ used = [n \in RevNames |-> FALSE]
  /\ fresh = [n \in RevNames |-> {"cache"}]
  /\ queue = {} /\ timer = NoTimer
  /\ iw = IdleIw /\ rw = [n \in RevNames |-> IdleRw]
  /\ sinceUse = [n \in RevNames |-> Grace]
  /\ overwritten = [n \in RevNames |-> FALSE]
  /\ spent = [k \in Disturbances |-> 0]

-----------------------------------------------------------------------------
(* Users, workloads and the cluster.                                       *)

operatorVars == <<cIstio, cRev, queue, timer, iw, rw>>

CreateIstio ==
  /\ istio = None
  /\ Spend("istio")
  /\ \E v \in Versions, s \in Strategies :
       istio' = [uid |-> spent'["istio"], version |-> v, strategy |-> s,
                 status |-> [active |-> None, state |-> "Unset"]]
  /\ UNCHANGED <<rev, release, used, fresh, ghosts, operatorVars>>

ChangeIstioSpec ==
  /\ istio # None
  /\ Spend("spec")
  /\ \E v \in Versions, s \in Strategies :
       istio' = [istio EXCEPT !.version = v, !.strategy = s]
  /\ istio' # istio
  /\ UNCHANGED <<rev, release, used, fresh, ghosts, operatorVars>>

DeleteIstio ==
  /\ istio # None
  /\ Spend("delete")
  /\ istio' = None
  /\ UNCHANGED <<rev, release, used, fresh, ghosts, operatorVars>>

DeleteRevision(n) ==
  /\ rev[n] # None /\ ~ rev[n].deleting
  /\ Spend("delete")
  /\ Writes([rev EXCEPT ![n] = Deleted(@)])
  /\ UNCHANGED <<istio, release, used, ghosts, operatorVars>>

\* The API server's garbage collector removes what a deleted Istio owned.
CollectGarbage(n) ==
  /\ rev[n] # None /\ ~ rev[n].deleting
  /\ IF istio = None THEN TRUE ELSE istio.uid # rev[n].owner
  /\ Writes([rev EXCEPT ![n] = Deleted(@)])
  /\ UNCHANGED <<istio, release, used, ghosts, spent, operatorVars>>

\* Pods or namespaces start or stop referencing revision n; the watch
\* handlers enqueue the revision they name.
ChangeUsage(n) ==
  /\ Spend("use")
  /\ used' = [used EXCEPT ![n] = ~ @]
  /\ queue' = queue \cup {n}
  /\ UNCHANGED <<istio, rev, release, fresh, ghosts, cIstio, cRev, timer, iw, rw>>

\* An object that a revision owns changes: ownedResourceHandler enqueues it.
OwnedResourceEvent(n) ==
  /\ n \notin queue
  /\ Spend("event")
  /\ queue' = queue \cup {n}
  /\ UNCHANGED <<istio, rev, release, used, fresh, ghosts, cIstio, cRev, timer, iw, rw>>

\* One second passes.  It passes inside PruneInactive only if SlowPrune.
Older(age)   == IF age < Grace THEN age + 1 ELSE age
OlderRev(r)  == IF r = None THEN r
                ELSE IF r.inUse = "Unknown" THEN r ELSE [r EXCEPT !.age = Older(@)]
BugBelowZero(t) == t - 1
Sooner(t)    == IF t \in 1 .. Grace THEN t - 1 ELSE t

ReportedUsed(n) == rev[n] # None /\ rev[n].inUse = "True"

Tick ==
  /\ SlowPrune \/ iw.pc # "status"
  /\ rev' = [n \in RevNames |-> OlderRev(rev[n])]
  /\ cRev' = [n \in RevNames |-> OlderRev(cRev[n])]
  /\ rw' = [n \in RevNames |-> IF rw[n].pc = "idle" THEN rw[n]
                               ELSE [rw[n] EXCEPT !.obj = OlderRev(@)]]
  /\ iw' = IF iw.pc = "status" THEN [iw EXCEPT !.next = Sooner(@)] ELSE iw
  /\ timer' = Sooner(timer)
  /\ sinceUse' = [n \in RevNames |-> IF ReportedUsed(n) THEN 0 ELSE Older(sinceUse[n])]
  /\ UNCHANGED <<istio, release, used, cIstio, fresh, queue, spent, overwritten>>

-----------------------------------------------------------------------------
(* Informers.  An event reports the latest state (older ones may have been *)
(* compressed away) and the watch handlers enqueue keys.                   *)

DeliverIstio ==
  /\ cIstio # istio
  /\ cIstio' = istio
  /\ queue' = queue \cup {"Istio"}
  /\ UNCHANGED <<istio, rev, release, used, cRev, fresh, timer, iw, rw, ghosts, spent>>

\* mainObjectHandler enqueues the revision, ownedResourceHandler its owner,
\* which it looks up by name, whatever its uid.
DeliverRevision(n) ==
  /\ "cache" \notin fresh[n]
  /\ cRev' = [cRev EXCEPT ![n] = rev[n]]
  /\ fresh' = [fresh EXCEPT ![n] = @ \cup {"cache"}]
  /\ queue' = queue \cup {n, "Istio"}
  /\ UNCHANGED <<istio, rev, release, used, cIstio, timer, iw, rw, ghosts, spent>>

TimerFires ==
  /\ timer = 0
  /\ timer' = NoTimer
  /\ queue' = queue \cup {"Istio"}
  /\ UNCHANGED <<istio, rev, release, used, cIstio, cRev, fresh, iw, rw, ghosts, spent>>

\* The operator dies and restarts: workers, queues and timers are lost, the
\* caches are filled from the API server and every object is enqueued.
Crash ==
  /\ Spend("crash")
  /\ cIstio' = istio /\ cRev' = rev
  /\ fresh' = [n \in RevNames |-> {"cache"}]
  /\ queue' = {n \in RevNames : rev[n] # None} \cup (IF istio = None THEN {} ELSE {"Istio"})
  /\ timer' = NoTimer
  /\ iw' = IdleIw /\ rw' = [n \in RevNames |-> IdleRw]
  /\ UNCHANGED <<istio, rev, release, used, ghosts>>

-----------------------------------------------------------------------------
(* The Istio controller.                                                   *)

revisionVars == <<release, used, cIstio, cRev, rw, ghosts>>

TakeIstioKey ==
  /\ "Istio" \in queue /\ iw = IdleIw
  /\ queue' = queue \ {"Istio"}

IstioNotFound ==
  /\ TakeIstioKey
  /\ cIstio = None
  /\ UNCHANGED <<istio, rev, fresh, timer, iw, spent, revisionVars>>

IstioGoesTo(pc, failed, next) ==
  iw' = [pc |-> pc, obj |-> IF iw.pc = "idle" THEN cIstio ELSE iw.obj,
         err |-> failed, next |-> next]

NewUid(n) ==
  CHOOSE u \in Uids : /\ cRev[n] # None => u # cRev[n].uid
                      /\ rw[n] # IdleRw => u # rw[n].obj.uid

NewRevision(n) ==
  [uid |-> NewUid(n), owner |-> cIstio.uid, version |-> cIstio.version, fin |-> FALSE,
   deleting |-> FALSE, inUse |-> "Unknown", age |-> 0]

\* reconcileActiveRevision: create the active revision if the cache does not
\* have it, else update the cached copy.
CreateActiveRevision ==
  /\ TakeIstioKey
  /\ cIstio # None
  /\ LET n == getActiveRevisionName(cIstio)
     IN  /\ cRev[n] = None
         /\ \/ /\ rev[n] = None
               /\ CallSucceeds
               /\ Writes([rev EXCEPT ![n] = NewRevision(n)])
               /\ IstioGoesTo("prune", FALSE, NoTimer)
            \/ /\ \/ rev[n] # None /\ CallSucceeds   \* AlreadyExists
                  \/ CallFails
               /\ IstioGoesTo("status", TRUE, NoTimer)
               /\ UNCHANGED <<rev, fresh>>
  /\ UNCHANGED <<istio, timer, revisionVars>>

UpdateActiveRevision ==
  /\ TakeIstioKey
  /\ cIstio # None
  /\ LET n == getActiveRevisionName(cIstio)
     IN  /\ cRev[n] # None
         /\ \/ /\ UpdateAccepted(n, "cache")
               /\ CallSucceeds
               /\ Writes([rev EXCEPT ![n] = [@ EXCEPT !.version = cIstio.version]])
               /\ IstioGoesTo("prune", FALSE, NoTimer)
            \/ /\ \/ ~ UpdateAccepted(n, "cache") /\ CallSucceeds   \* Conflict or NotFound
                  \/ CallFails
               /\ IstioGoesTo("status", TRUE, NoTimer)
               /\ UNCHANGED <<rev, fresh>>
  /\ UNCHANGED <<istio, timer, revisionVars>>

\* PruneInactive, on the cached revisions.
BugOwnerIgnored(r, uid) == TRUE
isOwnedRevision(r, uid) == r.owner = uid

Inactive ==
  {n \in RevNames : /\ cRev[n] # None
                    /\ isOwnedRevision(cRev[n], iw.obj.uid)
                    /\ n # getActiveRevisionName(iw.obj)
                    /\ cRev[n].inUse = "False"}

BugExpiresEarly == {n \in Inactive : cRev[n].age + 1 >= Grace}
Expired         == {n \in Inactive : cRev[n].age = Grace}

SmallestOf(S) == CHOOSE x \in S : \A y \in S : x <= y
BugNoRequeue  == NoTimer
NextPrune     == SmallestOf({Grace - cRev[n].age : n \in Inactive \ Expired} \cup {NoTimer})

\* The deletions go out one by one; the first that fails ends the call, and
\* deleting a revision that is gone already is such a failure (NotFound).
PruneInactive ==
  /\ iw.pc = "prune"
  /\ LET present == {n \in Expired : rev[n] # None}
     IN  \E gone \in SUBSET present :
           /\ Writes([n \in RevNames |-> IF n \in gone THEN Deleted(rev[n]) ELSE rev[n]])
           /\ \/ /\ gone = Expired
                 /\ CallSucceeds
                 /\ IstioGoesTo("status", FALSE, NextPrune)
              \/ /\ \/ present # Expired /\ CallSucceeds
                    \/ gone # present /\ CallFails
                 /\ IstioGoesTo("status", TRUE, NoTimer)
  /\ UNCHANGED <<istio, queue, timer, revisionVars>>

\* updateStatus patches the whole status by name; the requeue time is what is
\* left until the next prune, and a time that is not positive sets no timer.
DeterminedStatus ==
  IF iw.err
  THEN [iw.obj.status EXCEPT !.state = "ReconcileError"]
  ELSE LET n == getActiveRevisionName(iw.obj)
       IN  [active |-> n,
            state |-> IF cRev[n] = None THEN "RevisionNotFound" ELSE "FromRevision"]

BugErrorDropped(failed) ==
  IF failed
  THEN queue' = queue \cup {"Istio"} /\ UNCHANGED timer
  ELSE /\ timer' = IF iw.next \in 1 .. Grace THEN SmallestOf({timer, iw.next}) ELSE timer
       /\ UNCHANGED queue
RequeuesIstio(failed) ==
  IF iw.err \/ failed
  THEN queue' = queue \cup {"Istio"} /\ UNCHANGED timer
  ELSE /\ timer' = IF iw.next \in 1 .. Grace THEN SmallestOf({timer, iw.next}) ELSE timer
       /\ UNCHANGED queue

UpdateIstioStatus ==
  /\ iw.pc = "status"
  /\ iw' = IdleIw
  /\ \/ /\ DeterminedStatus = iw.obj.status      \* nothing to patch
        /\ CallSucceeds
        /\ RequeuesIstio(FALSE)
        /\ UNCHANGED istio
     \/ /\ istio # None
        /\ PatchGoesOut(DeterminedStatus # iw.obj.status)
        /\ istio' = [istio EXCEPT !.status = DeterminedStatus]
        /\ RequeuesIstio(FALSE)
     \/ /\ \/ istio = None /\ CallSucceeds
           \/ CallFails
        /\ RequeuesIstio(TRUE)
        /\ UNCHANGED istio
  /\ UNCHANGED <<rev, fresh, revisionVars>>

-----------------------------------------------------------------------------
(* The IstioRevision controller.                                           *)

istioVars == <<istio, used, cIstio, cRev, timer, iw>>

BugFinalizerTakenForGranted(r) == TRUE
HasFinalizer(r) == r.fin

TakeRevisionKey(n) ==
  /\ n \in queue /\ rw[n] = IdleRw

Processed(n)   == queue' = queue \ {n}
BugKeyLost(n)  == queue' = queue \ {n}
Retry(n)       == queue' = queue

\* A copy with the InUse condition that the server has.
Shows(copy, r) ==
  copy # None /\ r # None /\ copy.inUse = r.inUse /\ copy.age = r.age

\* The worker keeps the copy it read from the cache ("old" is a ghost).
Captures(n, pc, failed) ==
  /\ rw' = [rw EXCEPT ![n] = [pc |-> pc, obj |-> cRev[n], err |-> failed,
                              old |-> ~ Shows(cRev[n], rev[n])]]
  /\ fresh' = [fresh EXCEPT ![n] = IF "cache" \in @ THEN @ \cup {"worker"} ELSE @ \ {"worker"}]

RevisionNotFound(n) ==
  /\ TakeRevisionKey(n) /\ Processed(n)
  /\ IF cRev[n] = None THEN TRUE ELSE cRev[n].deleting /\ ~ HasFinalizer(cRev[n])
  /\ UNCHANGED <<rev, release, fresh, rw, ghosts, spent, istioVars>>

\* A conflict is retried after a delay, a missing object is left alone.
AddFinalizer(n) ==
  /\ TakeRevisionKey(n)
  /\ cRev[n] # None /\ ~ cRev[n].deleting /\ ~ HasFinalizer(cRev[n])
  /\ \/ /\ UpdateAccepted(n, "cache")
        /\ CallSucceeds
        /\ Writes([rev EXCEPT ![n] = [@ EXCEPT !.fin = TRUE]])
        /\ Processed(n)
     \/ /\ ~ UpdateAccepted(n, "cache")
        /\ CallSucceeds
        /\ IF rev[n] = None THEN Processed(n) ELSE Retry(n)
        /\ UNCHANGED <<rev, fresh>>
     \/ /\ CallFails
        /\ Retry(n)
        /\ UNCHANGED <<rev, fresh>>
  /\ UNCHANGED <<release, rw, ghosts, istioVars>>

\* Finalize: uninstall the charts; a failure is retried.
BugUninstallErrorIgnored(n) ==
  /\ TakeRevisionKey(n) /\ Processed(n)
  /\ cRev[n] # None /\ cRev[n].deleting /\ HasFinalizer(cRev[n])
  /\ \/ CallSucceeds /\ release' = [release EXCEPT ![n] = FALSE]
     \/ CallFails /\ UNCHANGED release
  /\ Captures(n, "unfinalize", FALSE)
  /\ UNCHANGED <<rev, ghosts, istioVars>>

Finalize(n) ==
  /\ TakeRevisionKey(n)
  /\ cRev[n] # None /\ cRev[n].deleting /\ HasFinalizer(cRev[n])
  /\ \/ /\ CallSucceeds
        /\ release' = [release EXCEPT ![n] = FALSE]
        /\ Captures(n, "unfinalize", FALSE)
        /\ Processed(n)
     \/ /\ CallFails
        /\ Retry(n)
        /\ \E installed \in {release[n], FALSE} : release' = [release EXCEPT ![n] = installed]
        /\ UNCHANGED <<fresh, rw>>
  /\ UNCHANGED <<rev, ghosts, istioVars>>

RemoveFinalizer(n) ==
  /\ rw[n].pc = "unfinalize"
  /\ rw' = [rw EXCEPT ![n] = IdleRw]
  /\ \/ /\ UpdateAccepted(n, "worker")
        /\ CallSucceeds
        /\ Writes([rev EXCEPT ![n] = None])
        /\ UNCHANGED queue
     \/ /\ ~ UpdateAccepted(n, "worker")
        /\ CallSucceeds
        /\ queue' = IF rev[n] = None THEN queue ELSE queue \cup {n}
        /\ UNCHANGED <<rev, fresh>>
     \/ /\ CallFails
        /\ queue' = queue \cup {n}
        /\ UNCHANGED <<rev, fresh>>
  /\ UNCHANGED <<release, ghosts, istioVars>>

\* doReconcile: validate and install or upgrade the charts.
InstallCharts(n) ==
  /\ TakeRevisionKey(n) /\ Processed(n)
  /\ cRev[n] # None /\ ~ cRev[n].deleting /\ HasFinalizer(cRev[n])
  /\ \/ /\ CallSucceeds
        /\ release' = [release EXCEPT ![n] = TRUE]
        /\ Captures(n, "status", FALSE)
     \/ /\ CallFails
        /\ Captures(n, "status", TRUE)
        /\ \E installed \in BOOLEAN : release' = [release EXCEPT ![n] = installed]
  /\ UNCHANGED <<rev, ghosts, istioVars>>

\* determineInUseCondition and SetCondition, on the captured copy.
DeterminedInUse(n) == IF used[n] THEN "True" ELSE "False"
BugTransitionTimeKept(r, inUse) == [r EXCEPT !.inUse = inUse]
WithInUse(r, inUse) ==
  [r EXCEPT !.inUse = inUse, !.age = IF r.inUse = inUse THEN @ ELSE 0]

\* updateStatus.  The patch goes out if any condition changed, and replaces
\* the server's whole status by one derived from the captured copy.
UpdateRevisionStatus(n) ==
  /\ rw[n].pc = "status"
  /\ rw' = [rw EXCEPT ![n] = IdleRw]
  /\ LET new == WithInUse(rw[n].obj, DeterminedInUse(n))
     IN  \/ /\ new = rw[n].obj         \* nothing to patch
            /\ CallSucceeds
            /\ queue' = IF rw[n].err THEN queue \cup {n} ELSE queue
            /\ UNCHANGED <<rev, fresh, ghosts>>
         \/ /\ rev[n] # None
            /\ PatchGoesOut(new # rw[n].obj \/ rw[n].err)
            /\ Writes([rev EXCEPT ![n] = [@ EXCEPT !.inUse = new.inUse, !.age = new.age]])
            /\ sinceUse' = [sinceUse EXCEPT ![n] = IF used[n] THEN 0 ELSE @]
            /\ overwritten' = [overwritten EXCEPT ![n] =
                 rw[n].obj.inUse = DeterminedInUse(n) /\ (rw[n].old \/ @)]
            /\ queue' = IF rw[n].err THEN queue \cup {n} ELSE queue
         \/ /\ \/ rev[n] = None /\ CallSucceeds
               \/ CallFails
            /\ queue' = queue \cup {n}
            /\ UNCHANGED <<rev, fresh, ghosts>>
  /\ UNCHANGED <<release, istioVars>>

-----------------------------------------------------------------------------
Environment ==
  \/ CreateIstio \/ ChangeIstioSpec \/ DeleteIstio \/ Crash
  \/ \E n \in RevNames : DeleteRevision(n) \/ ChangeUsage(n) \/ OwnedResourceEvent(n)

Cluster == Tick \/ \E n \in RevNames : CollectGarbage(n)

Informers == DeliverIstio \/ TimerFires \/ \E n \in RevNames : DeliverRevision(n)

IstioController ==
  \/ IstioNotFound \/ CreateActiveRevision \/ UpdateActiveRevision
  \/ PruneInactive \/ UpdateIstioStatus

RevisionController(n) ==
  \/ RevisionNotFound(n) \/ AddFinalizer(n) \/ Finalize(n) \/ RemoveFinalizer(n)
  \/ InstallCharts(n) \/ UpdateRevisionStatus(n)

Next ==
  \/ Environment \/ Cluster \/ Informers \/ IstioController
  \/ \E n \in RevNames : RevisionController(n)

Spec == Init /\ [][Next]_vars

\* The operator's goroutines keep running, events are eventually delivered,
\* the garbage collector works and time passes; users owe nothing.
Fairness ==
  /\ WF_vars(Tick) /\ WF_vars(DeliverIstio) /\ WF_vars(TimerFires)
  /\ WF_vars(IstioController)
  /\ \A n \in RevNames : /\ WF_vars(DeliverRevision(n))
                         /\ WF_vars(CollectGarbage(n))
                         /\ WF_vars(RevisionController(n))

FairSpec == Spec /\ Fairness

-----------------------------------------------------------------------------
(* Properties.                                                             *)

Captured == [pc: {"status", "unfinalize"}, obj: Revisions, err: BOOLEAN, old: BOOLEAN]

TypeOK ==
  /\ istio \in Istios \cup {None} /\ cIstio \in Istios \cup {None}
  /\ rev \in [RevNames -> Revisions \cup {None}]
  /\ cRev \in [RevNames -> Revisions \cup {None}]
  /\ release \in [RevNames -> BOOLEAN] /\ used \in [RevNames -> BOOLEAN]
  /\ fresh \in [RevNames -> SUBSET Workers]
  /\ queue \subseteq Keys
  /\ timer \in Timers
  /\ iw \in {IdleIw} \cup [pc: {"prune", "status"}, obj: Istios, err: BOOLEAN, next: Timers]
  /\ rw \in [RevNames -> {IdleRw} \cup Captured]
  /\ sinceUse \in [RevNames -> Ages] /\ overwritten \in [RevNames -> BOOLEAN]
  /\ spent \in [Disturbances -> Nat]

(***************************************************************************)
(* A Helm release exists only under an IstioRevision that still carries    *)
(* the operator's finalizer: however stale the copy a worker installs from *)
(* and wherever the operator dies, nothing stays installed once the        *)
(* revision is gone (StandardReconciler adds the finalizer before the      *)
(* first install and removes it after the uninstall).                      *)
(***************************************************************************)
NoOrphanRelease ==
  \A n \in RevNames : release[n] => rev[n] # None /\ rev[n].fin

(***************************************************************************)
(* PruneInactive judges the cached copy but deletes by name: what it       *)
(* deletes is the very object it judged, never a later IstioRevision of    *)
(* the same name, and one that the Istio being reconciled owns.            *)
(***************************************************************************)
PruningOf(n) ==
  /\ iw.pc = "prune" /\ iw'.pc = "status"
  /\ rev[n] # None /\ rev'[n] # rev[n]

PruneDeletesWhatItJudged ==
  [][\A n \in RevNames :
       PruningOf(n) => /\ cRev[n] # None /\ cRev[n].uid = rev[n].uid
                       /\ rev[n].owner = iw.obj.uid]_vars

(***************************************************************************)
(* The grace period counts from the last time the revision was recorded    *)
(* as in use: the InUse=False condition is never older than that.          *)
(* SetCondition takes the transition time from the captured copy and the   *)
(* status patch carries no resourceVersion, so there is one way, and only  *)
(* this one, to cut the grace period short: a reconcile that read the      *)
(* condition before its own last change reached the cache keeps that       *)
(* copy's transition time.                                                 *)
(***************************************************************************)
GraceClockHonest ==
  \A n \in RevNames :
    rev[n] # None /\ rev[n].inUse = "False" /\ ~ overwritten[n]
      => rev[n].age <= sinceUse[n]

(***************************************************************************)
(* A revision is pruned only when the grace period has passed since it was *)
(* last recorded as in use, unless a reconcile read an outdated condition: *)
(* the one that dated the transition, or the PruneInactive call itself,    *)
(* which judges the cached copy.  The chain is long: SetCondition dates    *)
(* the transition, the cache brings it to PruneInactive, which adds the    *)
(* grace period and compares with its own clock.                           *)
(***************************************************************************)
PruneWaitsOutGrace ==
  [][\A n \in RevNames :
       PruningOf(n) /\ Shows(cRev[n], rev[n]) /\ ~ overwritten[n]
         => sinceUse[n] = Grace]_vars

(***************************************************************************)
(* Once users stop, the cluster settles in the state the Istio describes:  *)
(* its active revision is installed and reported, an inactive revision is  *)
(* kept exactly if workloads use it, and nothing is left of a deleted one. *)
(***************************************************************************)
Installed(n) ==
  /\ rev[n] # None
  /\ rev[n].owner = istio.uid /\ ~ rev[n].deleting
  /\ rev[n].inUse = IF used[n] THEN "True" ELSE "False"
  /\ release[n]
Removed(n) == rev[n] = None /\ ~ release[n]

Settled ==
  IF istio = None
  THEN \A n \in RevNames : Removed(n)
  ELSE LET active == getActiveRevisionName(istio)
       IN  /\ Installed(active)
           /\ rev[active].version = istio.version
           /\ istio.status = [active |-> active, state |-> "FromRevision"]
           /\ \A n \in RevNames \ {active} : Removed(n) \/ (Installed(n) /\ used[n])

EventuallySettled == <>[]Settled

(***************************************************************************)
(* No work on a revision is forgotten: when its key is in no queue, no     *)
(* worker has it and the cache is up to date, it is gone with its charts,  *)
(* or installed, and its InUse condition is true.  Every conflict, failed  *)
(* call or change in the middle of a reconcile must have put the key back. *)
(***************************************************************************)
RevisionAtRest(n) == n \notin queue /\ rw[n] = IdleRw /\ "cache" \in fresh[n]

RevisionsReconciled ==
  \A n \in RevNames :
    RevisionAtRest(n) =>
      \/ Removed(n)
      \/ /\ rev[n] # None /\ rev[n].fin /\ ~ rev[n].deleting /\ release[n]
         /\ rev[n].inUse = DeterminedInUse(n)

(***************************************************************************)
(* The same of the Istio: when nothing is pending for it or its active     *)
(* revision, that revision exists at the version that is asked for, and    *)
(* the status names it.  The status is patched by name, from a copy, and   *)
(* only if it differs from that copy's.                                    *)
(***************************************************************************)
IstioAtRest == "Istio" \notin queue /\ iw = IdleIw /\ cIstio = istio

IstioReconciled ==
  IstioAtRest /\ istio # None =>
    LET active == getActiveRevisionName(istio)
    IN  "cache" \in fresh[active] =>
          /\ rev[active] # None /\ rev[active].version = istio.version
          /\ istio.status = [active |-> active, state |-> "FromRevision"]

(***************************************************************************)
(* PruneInactive runs in time: for every unused inactive revision that     *)
(* there is, the Istio is requeued for no later than the end of its grace  *)
(* period, whatever the reconciles that set or missed the timer read.      *)
(***************************************************************************)
PruneScheduled ==
  IstioAtRest /\ istio # None =>
    \A n \in RevNames \ {getActiveRevisionName(istio)} :
      (/\ "cache" \in fresh[n]
       /\ rev[n] # None /\ ~ rev[n].deleting
       /\ rev[n].owner = istio.uid /\ rev[n].inUse = "False")
      => timer <= Grace - rev[n].age

(***************************************************************************)
(* The operator rests only where users want it: when no key, event or      *)
(* timer is pending and there is no garbage, the cluster is Settled.       *)
(***************************************************************************)
AtRest ==
  /\ IstioAtRest /\ timer = NoTimer
  /\ \A n \in RevNames :
       /\ RevisionAtRest(n)
       /\ rev[n] # None /\ ~ rev[n].deleting => istio # None /\ istio.uid = rev[n].owner

SettledAtRest == AtRest => Settled

(***************************************************************************)
(* PruneInactive requeues the Istio, so that an inactive revision that     *)
(* nobody uses is removed without waiting for some other event.            *)
(***************************************************************************)
EventuallyPruned ==
  <>[](istio # None =>
         \A n \in RevNames \ {getActiveRevisionName(istio)} : used[n] \/ Removed(n))

(***************************************************************************)
(* Both controllers' caches, conflicts and restarts notwithstanding, the   *)
(* IstioRevisions keep the contract of StandardReconciler.  An object is   *)
(* noticed to be on its way out once the cache shows it.                   *)
(***************************************************************************)
Stage(n) ==
  CASE rev[n] = None -> "Absent"
    [] rev[n] # None /\ ~ rev[n].fin -> "New"
    [] rev[n] # None /\ rev[n].fin /\ ~ rev[n].deleting -> "Guarded"
    [] rev[n] # None /\ rev[n].fin /\ rev[n].deleting ->
         IF cRev[n] = None \/ ~ cRev[n].deleting THEN "Doomed" ELSE "Leaving"

Finalization ==
  INSTANCE FinalizedRelease WITH Names <- RevNames,
    stage <- [n \in RevNames |-> Stage(n)], installed <- release

KeepsFinalizerContract == Finalization!FinSpec
=============================================================================
