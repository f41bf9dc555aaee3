----------------------------- MODULE SharedName -----------------------------
(***************************************************************************)
(* An IstioRevisionTag and an IstioRevision of the same name.              *)
(*                                                                         *)
(* Tags and revisions can be used interchangeably, so their names must not *)
(* overlap.  Nothing prevents a user from creating both: each controller   *)
(* looks in its cache for an older resource of the other kind and refuses  *)
(* its own if there is one.  If the name is "default" both also install    *)
(* the base chart, under one release name, and uninstall it.               *)
(*                                                                         *)
(* RevisionTag describes the tag.  Here is its namesake, of which matters  *)
(* whether its control plane is installed; it is not the revision that the *)
(* tag refers to.  What else befalls a revision is in RevisionLifecycle.   *)
(***************************************************************************)
EXTENDS RevisionTag

VARIABLES
  control,    \* the release of the namesake's own chart, istiod
  revQueued,  \* the namesake's key is in the work queue
  revCall,    \* the reconcile of the namesake in progress
  takenOver   \* the tag took over what the namesake had of the base chart

revVars == <<control, revQueued, revCall, takenOver>>
vars == <<tagVars, revVars>>

\* What the tag's side of the system leaves alone in an action of the namesake.
tagOnly == <<istio, revs, tag, cacheVars, referenced, release, owned, default, queued, call>>

Init ==
  /\ TagInit
  /\ control = None /\ revQueued = FALSE /\ revCall = Idle /\ takenOver = FALSE

-----------------------------------------------------------------------------
(* Users and informers.                                                    *)

CreateNamesake ==
  /\ default /\ namesake = None /\ cNamesake = None
  /\ Spend
  /\ \E second \in now .. now + 1, uid \in {1, 3} :
       /\ Born(second)
       /\ namesake' = [born |-> second, uid |-> uid, fin |-> FALSE, deleting |-> FALSE,
                       reconciled |-> "Unset"]
  /\ UNCHANGED <<tagOnly, cNamesake, base, revVars>>

DeleteNamesake ==
  /\ namesake # None /\ ~ namesake.deleting
  /\ Spend
  /\ namesake' = IF namesake.fin THEN [namesake EXCEPT !.deleting = TRUE] ELSE None
  /\ UNCHANGED <<tagOnly, now, cNamesake, base, revVars>>

\* The tag's controller maps this event to the tags whose status names the
\* namesake, and the tag's events reach the revision that its status names: the
\* two never wake each other up.
DeliverNamesake ==
  /\ cNamesake # namesake
  /\ cNamesake' = namesake /\ revQueued' = TRUE
  /\ UNCHANGED <<tagOnly, now, namesake, base, spent, control, revCall, takenOver>>

-----------------------------------------------------------------------------
(* The controller of the namesake.                                         *)

revUnchanged == <<tagOnly, now, cNamesake, takenOver>>

TakeRevision == revQueued /\ revCall = Idle

RevisionNotFound ==
  /\ TakeRevision
  /\ IF cNamesake = None THEN TRUE ELSE cNamesake.deleting /\ ~ cNamesake.fin
  /\ revQueued' = FALSE
  /\ UNCHANGED <<revUnchanged, namesake, base, spent, control, revCall>>

\* An Update of copy: done, or refused because the server has another version.
UpdateRevision(copy, new, pending) ==
  \/ /\ namesake = copy /\ CallSucceeds
     /\ namesake' = new /\ revQueued' = pending
  \/ /\ namesake # copy /\ CallSucceeds
     /\ revQueued' = (pending \/ namesake # None) /\ UNCHANGED namesake
  \/ /\ CallFails
     /\ revQueued' = TRUE /\ UNCHANGED namesake

AddRevisionFinalizer ==
  /\ TakeRevision
  /\ cNamesake # None /\ ~ cNamesake.deleting /\ ~ cNamesake.fin
  /\ UpdateRevision(cNamesake, [cNamesake EXCEPT !.fin = TRUE], FALSE)
  /\ UNCHANGED <<revUnchanged, base, control, revCall>>

\* The base chart goes, too, whoever installed it.
FinalizeRevision ==
  /\ TakeRevision
  /\ cNamesake # None /\ cNamesake.deleting /\ cNamesake.fin
  /\ \/ /\ CallSucceeds
        /\ control' = None /\ base' = None
        /\ revCall' = [pc |-> "unfinalize", obj |-> cNamesake]
        /\ revQueued' = FALSE
     \/ /\ control' \in {control, "partial"} /\ (control = None => control' = None)
        /\ CallFails /\ UNCHANGED <<base, revQueued, revCall>>
     \/ /\ control' = None
        /\ FailsToUninstallBase /\ UNCHANGED <<revQueued, revCall>>
  /\ UNCHANGED <<revUnchanged, namesake>>

RemoveRevisionFinalizer ==
  /\ revCall.pc = "unfinalize"
  /\ UpdateRevision(revCall.obj, None, revQueued)
  /\ revCall' = Idle
  /\ UNCHANGED <<revUnchanged, base, control>>

\* validate and installHelmCharts.  The events of created objects bring the key
\* back; updates of the base chart's one object, a ServiceAccount, are ignored.
InstallRevision ==
  /\ TakeRevision
  /\ cNamesake # None /\ ~ cNamesake.deleting /\ cNamesake.fin
  /\ LET refused == cTag # None /\ ResourceTakesPrecedence(cTag, cNamesake)
         returns(err) == revCall' = [pc |-> "status", obj |-> cNamesake, err |-> err]
     IN \/ /\ refused /\ CallSucceeds /\ returns("NameAlreadyExists")
           /\ UNCHANGED <<control, base, takenOver>>
        \/ /\ ~ refused /\ CallSucceeds /\ returns("none")
           /\ control' = "installed" /\ base' = "revision" /\ takenOver' = FALSE
        \/ /\ ~ refused /\ CallFails /\ returns("HelmError")
           /\ control' \in {control, "partial"} /\ UNCHANGED <<base, takenOver>>
        \/ /\ ~ refused /\ returns("HelmError")
           /\ control' = "installed" /\ FailsToChangeBase /\ UNCHANGED takenOver
  /\ revQueued' = FALSE
  /\ UNCHANGED <<tagOnly, now, namesake, cNamesake>>

\* A refusal is an error like any other, and tried again.
BugRefusalIsFinal(err) == err = "HelmError"
Retried(err) == err # "none"

UpdateRevisionStatus ==
  /\ revCall.pc = "status"
  /\ LET reconciled == IF revCall.err = "none" THEN "True" ELSE revCall.err
         patched == reconciled # revCall.obj.reconciled
     IN \/ /\ ~ patched \/ namesake # None
           /\ CallSucceeds
           /\ namesake' = IF patched THEN [namesake EXCEPT !.reconciled = reconciled] ELSE namesake
           /\ revQueued' = (revQueued \/ Retried(revCall.err))
        \/ /\ patched
           /\ IF namesake = None THEN CallSucceeds ELSE CallFails
           /\ revQueued' = TRUE /\ UNCHANGED namesake
  /\ revCall' = Idle
  /\ UNCHANGED <<revUnchanged, base, control>>

-----------------------------------------------------------------------------
(* Both together.                                                          *)

\* Objects of the base chart that are deleted enqueue their owner, if that is the
\* namesake: the controller of tags does not watch them.
BaseEvent == revQueued' = (revQueued \/ (base = "revision" /\ base' # "revision"))

TagRemovesBase  == (Finalize \/ UninstallFormer) /\ BaseEvent /\ UNCHANGED takenOver
TagInstallsBase ==
  /\ InstallBase
  /\ takenOver' = (takenOver \/ base \in {"revision", "partial"})
  /\ UNCHANGED revQueued

TagStep ==
  /\ \/ TagRemovesBase \/ TagInstallsBase
     \/ /\ \/ TagEnvironment \/ TagInformers
           \/ TagNotFound \/ AddFinalizer \/ RemoveFinalizer \/ StartReconcile
           \/ validate \/ Resolve \/ installHelmCharts \/ UpdateStatus
        /\ UNCHANGED <<revQueued, takenOver>>
  /\ UNCHANGED <<control, revCall>>

RevisionController ==
  \/ RevisionNotFound \/ AddRevisionFinalizer \/ FinalizeRevision \/ RemoveRevisionFinalizer
  \/ InstallRevision \/ UpdateRevisionStatus

Crash ==
  /\ Restart
  /\ revQueued' = (namesake # None) /\ revCall' = Idle
  /\ UNCHANGED <<control, takenOver>>

Next ==
  \/ TagStep \/ RevisionController \/ Crash
  \/ CreateNamesake \/ DeleteNamesake \/ DeliverNamesake

Spec == Init /\ [][Next]_vars

\* The work queue keeps a key until it is taken; calls return.
Fairness ==
  /\ WF_vars(TagInformers /\ UNCHANGED revVars) /\ WF_vars(DeliverNamesake)
  /\ WF_vars(TagController /\ TagStep) /\ WF_vars(RevisionController)

FairSpec == Spec /\ Fairness

-----------------------------------------------------------------------------
(* Properties.                                                             *)

TypeOK ==
  /\ TagTypeOK
  /\ control \in {None, "installed", "partial"}
  /\ revQueued \in BOOLEAN /\ takenOver \in BOOLEAN
  /\ revCall \in {Idle} \cup [pc: {"unfinalize"}, obj: Namesakes]
       \cup [pc: {"status"}, obj: Namesakes, err: {"none", "NameAlreadyExists", "HelmError"}]

(***************************************************************************)
(* Once the tag and the IstioRevision of its name are both gone, nothing   *)
(* of either is left, the base chart included: each object's finalizer     *)
(* stays until its own uninstallation went through, whichever of the two   *)
(* was refused or installed last, and whatever crashes in between.         *)
(***************************************************************************)
BaseRemoved == tag = None /\ namesake = None => base = None /\ control = None

RevisionAtRest == ~ revQueued /\ revCall = Idle /\ cNamesake = namesake

(***************************************************************************)
(* When nothing is pending for the IstioRevision it is installed.  If it   *)
(* was refused for a tag's sake it is tried until the tag is gone; if the  *)
(* deletion of that tag took the base chart away it is installed again,    *)
(* unless the tag had taken over objects that the IstioRevision owned.     *)
(***************************************************************************)
RevisionServed ==
  RevisionAtRest /\ namesake # None =>
    /\ namesake.fin /\ namesake.reconciled = "True"
    /\ control = "installed"
    /\ base # None \/ takenOver

(***************************************************************************)
(* When nothing is pending, a tag reports that its name is taken only if   *)
(* there is an IstioRevision of that name.                                 *)
(***************************************************************************)
RefusalTrue ==
  Quiet /\ RevisionAtRest /\ tag # None /\ tag.status.reconciled = "NameAlreadyExists"
    => namesake # None
=============================================================================
