-------------------------- MODULE SharedNameProofs --------------------------
(***************************************************************************)
(* For all IstioRevisions, namespaces and bounds: the types; to the tag    *)
(* its namesake does nothing that RevisionTag does not allow for; nothing  *)
(* is left of a tag and an IstioRevision that shared a name; the           *)
(* IstioRevision is served.                                                *)
(***************************************************************************)
EXTENDS SharedName, RevisionTagProofs

-----------------------------------------------------------------------------
(* The inductive invariant.                                                *)

\* Only a tag named default shares anything.
Unshared ==
  ~ default => /\ base = None /\ namesake = None /\ cNamesake = None
               /\ call.pc # "base" /\ revCall = Idle

\* The cache never runs ahead of the namesake, which has our finalizer when it
\* waits for its deletion.
NamesakeCached ==
  /\ namesake # None /\ namesake.deleting => namesake.fin
  /\ cNamesake # None /\ ~ cNamesake.deleting /\ cNamesake.fin => namesake # None /\ namesake.fin
  /\ cNamesake # None /\ cNamesake.deleting /\ namesake # None => namesake.deleting

NamesakePresent ==
  revCall.pc = "status" =>
    /\ revCall.obj.fin /\ ~ revCall.obj.deleting
    /\ namesake # None /\ namesake.fin

NamesakeUnfinalizing ==
  revCall.pc = "unfinalize" =>
    /\ revCall.obj.deleting /\ revCall.obj.fin
    /\ cNamesake # None /\ cNamesake.fin => cNamesake.deleting
    /\ namesake # None /\ namesake.fin => namesake.deleting

\* What is installed has an owner whose finalizer will remove it.
TagHolds      == tag # None /\ tag.fin /\ call.pc # "unfinalize"
NamesakeHolds == namesake # None /\ namesake.fin /\ revCall.pc # "unfinalize"
ReleasesHeld ==
  /\ base # None => TagHolds \/ NamesakeHolds
  /\ control # None => NamesakeHolds

\* What a reconcile of the namesake found out still holds, or its key is queued.
Shared == base = "revision" \/ takenOver
Concluded ==
  revCall.pc = "status" =>
    /\ ~ revQueued => cNamesake = revCall.obj
    /\ revCall.err = "none" => control = "installed" /\ (Shared \/ revQueued)

Served ==
  RevisionAtRest /\ namesake # None =>
    /\ namesake.fin /\ namesake.reconciled = "True"
    /\ control = "installed" /\ Shared

IInv ==
  /\ TypeOK /\ TagInv
  /\ Unshared /\ NamesakeCached /\ NamesakePresent /\ NamesakeUnfinalizing
  /\ ReleasesHeld /\ Concluded /\ Served

-----------------------------------------------------------------------------
(* The namesake.                                                           *)

LEMMA NamesakeRecords ==
  ASSUME NEW n \in Namesakes
  PROVE  /\ n # None /\ n.fin \in BOOLEAN /\ n.deleting \in BOOLEAN
         /\ n.reconciled \in {"Unset", "True", "NameAlreadyExists", "HelmError"}
BY NoneAssumption DEF Namesakes

LEMMA NamesakeChanges ==
  ASSUME NEW n \in Namesakes
  PROVE  /\ [n EXCEPT !.fin = TRUE] \in Namesakes
         /\ [n EXCEPT !.fin = TRUE].fin /\ [n EXCEPT !.fin = TRUE].deleting = n.deleting
         /\ [n EXCEPT !.deleting = TRUE] \in Namesakes
         /\ [n EXCEPT !.deleting = TRUE].fin = n.fin /\ [n EXCEPT !.deleting = TRUE].deleting
         /\ \A r \in {"Unset", "True", "NameAlreadyExists", "HelmError"} :
              /\ [n EXCEPT !.reconciled = r] \in Namesakes
              /\ [n EXCEPT !.reconciled = r].fin = n.fin
              /\ [n EXCEPT !.reconciled = r].deleting = n.deleting
              /\ [n EXCEPT !.reconciled = r].reconciled = r
BY DEF Namesakes

Conclusions == {"none", "NameAlreadyExists", "HelmError"}

LEMMA RevCallTypes ==
  ASSUME TypeOK
  PROVE  /\ revCall.pc \in {"idle", "unfinalize", "status"}
         /\ revCall.pc = "idle" => revCall = Idle
         /\ revCall.pc = "unfinalize" => revCall.obj \in Namesakes
         /\ revCall.pc = "status" => revCall.obj \in Namesakes /\ revCall.err \in Conclusions
BY DEF TypeOK, Idle, Conclusions

\* The types of what the namesake's side of the system changes.
RevTyped ==
  /\ namesake \in Namesakes \cup {None} /\ cNamesake \in Namesakes \cup {None}
  /\ base \in Bases /\ control \in {None, "installed", "partial"}
  /\ revQueued \in BOOLEAN /\ takenOver \in BOOLEAN
  /\ revCall \in {Idle} \cup [pc: {"unfinalize"}, obj: Namesakes]
       \cup [pc: {"status"}, obj: Namesakes, err: Conclusions]

RevInv == NamesakeCached /\ NamesakePresent /\ NamesakeUnfinalizing

LEMMA RevCalls ==
  ASSUME NEW obj \in Namesakes
  PROVE  /\ [pc |-> "unfinalize", obj |-> obj] \in [pc: {"unfinalize"}, obj: Namesakes]
         /\ \A err \in Conclusions :
              [pc |-> "status", obj |-> obj, err |-> err]
                \in [pc: {"status"}, obj: Namesakes, err: Conclusions]
OBVIOUS

LEMMA UpdateTypes ==
  ASSUME TypeOK, NEW copy, NEW new \in Namesakes \cup {None}, NEW pending \in BOOLEAN,
         UpdateRevision(copy, new, pending)
  PROVE  /\ namesake' \in Namesakes \cup {None} /\ revQueued' \in BOOLEAN
         /\ CallSucceeds \/ Spend
<1>1. namesake' \in Namesakes \cup {None} /\ revQueued' \in BOOLEAN
  BY DEF UpdateRevision, TypeOK, TagTypeOK
<1>2. CallSucceeds \/ Spend
  BY CallEnds DEF UpdateRevision
<1> QED
  BY <1>1, <1>2

USE DEF otherVars, serverVars, cacheVars, workerVars, tagOnly, revUnchanged

NamesakeSide == RevisionController \/ CreateNamesake \/ DeleteNamesake \/ DeliverNamesake

LEMMA NamesakeSteps ==
  ASSUME TypeOK, NamesakeSide
  PROVE  RevTyped' /\ Elsewhere
<1> DEFINE Rest == /\ CallSucceeds \/ Spend
                   /\ now' \in {now, now + 1} /\ UNCHANGED tagOnly
<1>a. RevTyped /\ now \in Nat
  BY DEF TypeOK, TagTypeOK, RevTyped, Conclusions
<1>b. ASSUME RevTyped', Rest
      PROVE  RevTyped' /\ Elsewhere
  BY <1>b DEF RevTyped, Elsewhere
<1>1. CASE CreateNamesake
  <2>1. PICK second \in now .. now + 1, uid \in {1, 3} :
          /\ Born(second)
          /\ namesake' = [born |-> second, uid |-> uid, fin |-> FALSE, deleting |-> FALSE,
                          reconciled |-> "Unset"]
    BY <1>1 DEF CreateNamesake
  <2>2. second \in Nat /\ now' = second
    BY <1>a, <2>1 DEF Born
  <2>3. namesake' \in Namesakes
    BY <2>1, <2>2 DEF Namesakes
  <2>4. RevTyped'
    BY <1>1, <1>a, <2>3 DEF CreateNamesake, RevTyped, revVars
  <2>5. Rest
    BY <1>1, <1>a, <2>1, <2>2 DEF CreateNamesake, Born
  <2> QED BY <1>b, <2>4, <2>5
<1>2. CASE DeleteNamesake
  <2>1. namesake' \in Namesakes \cup {None}
    BY <1>2, <1>a, NamesakeChanges DEF DeleteNamesake, RevTyped
  <2>2. RevTyped'
    BY <1>2, <1>a, <2>1 DEF DeleteNamesake, RevTyped, revVars
  <2>3. Rest
    BY <1>2 DEF DeleteNamesake
  <2> QED BY <1>b, <2>2, <2>3
<1>3. CASE DeliverNamesake
  <2>1. RevTyped'
    BY <1>3, <1>a DEF DeliverNamesake, RevTyped
  <2>2. Rest
    BY <1>3 DEF DeliverNamesake, CallSucceeds
  <2> QED BY <1>b, <2>1, <2>2
<1>4. CASE RevisionNotFound
  <2>1. RevTyped'
    BY <1>4, <1>a DEF RevisionNotFound, RevTyped
  <2>2. Rest
    BY <1>4 DEF RevisionNotFound, CallSucceeds
  <2> QED BY <1>b, <2>1, <2>2
<1>5. CASE AddRevisionFinalizer
  <2>1. [cNamesake EXCEPT !.fin = TRUE] \in Namesakes
    BY <1>5, <1>a, NamesakeChanges DEF AddRevisionFinalizer, RevTyped
  <2>2. namesake' \in Namesakes \cup {None} /\ revQueued' \in BOOLEAN /\ (CallSucceeds \/ Spend)
    BY <1>5, <2>1, UpdateTypes DEF AddRevisionFinalizer
  <2>3. RevTyped'
    BY <1>5, <1>a, <2>2 DEF AddRevisionFinalizer, RevTyped
  <2>4. Rest
    BY <1>5, <2>2 DEF AddRevisionFinalizer
  <2> QED BY <1>b, <2>3, <2>4
<1>6. CASE FinalizeRevision
  <2>1. cNamesake \in Namesakes
    BY <1>6, <1>a DEF FinalizeRevision, RevTyped
  <2>2. [pc |-> "unfinalize", obj |-> cNamesake] \in [pc: {"unfinalize"}, obj: Namesakes]
    BY <2>1, RevCalls
  <2>3. /\ control' \in {None, "installed", "partial"} /\ base' \in Bases
        /\ revQueued' \in BOOLEAN /\ (CallSucceeds \/ Spend)
        /\ revCall' \in {revCall, [pc |-> "unfinalize", obj |-> cNamesake]}
    BY <1>6, <1>a, CallEnds DEF FinalizeRevision, FailsToUninstallBase, FailsToChangeBase, RevTyped, Bases
  <2>4. RevTyped'
    BY <1>6, <1>a, <2>2, <2>3 DEF FinalizeRevision, RevTyped
  <2>5. Rest
    BY <1>6, <2>3 DEF FinalizeRevision
  <2> QED BY <1>b, <2>4, <2>5
<1>7. CASE RemoveRevisionFinalizer
  <2>1. namesake' \in Namesakes \cup {None} /\ revQueued' \in BOOLEAN /\ (CallSucceeds \/ Spend)
    BY <1>7, <1>a, UpdateTypes DEF RemoveRevisionFinalizer, RevTyped
  <2>2. RevTyped'
    BY <1>7, <1>a, <2>1 DEF RemoveRevisionFinalizer, RevTyped
  <2>3. Rest
    BY <1>7, <2>1 DEF RemoveRevisionFinalizer
  <2> QED BY <1>b, <2>2, <2>3
<1>8. CASE InstallRevision
  <2>1. cNamesake \in Namesakes
    BY <1>8, <1>a DEF InstallRevision, RevTyped
  <2>2. /\ control' \in {None, "installed", "partial"} /\ base' \in Bases /\ takenOver' \in BOOLEAN
        /\ revQueued' = FALSE /\ (CallSucceeds \/ Spend)
        /\ \E err \in Conclusions : revCall' = [pc |-> "status", obj |-> cNamesake, err |-> err]
    BY <1>8, <1>a, CallEnds DEF InstallRevision, FailsToChangeBase, RevTyped, Bases, Conclusions
  <2>3. revCall' \in [pc: {"status"}, obj: Namesakes, err: Conclusions]
    BY <2>1, <2>2, RevCalls
  <2>4. RevTyped'
    BY <1>8, <1>a, <2>2, <2>3 DEF InstallRevision, RevTyped
  <2>5. Rest
    BY <1>8, <2>2 DEF InstallRevision
  <2> QED BY <1>b, <2>4, <2>5
<1>9. CASE UpdateRevisionStatus
  <2>1. revCall.err \in Conclusions /\ namesake \in Namesakes \cup {None}
    BY <1>9, <1>a, RevCallTypes DEF UpdateRevisionStatus, RevTyped
  <2>2. /\ namesake' \in Namesakes \cup {None}
        /\ revQueued' \in BOOLEAN /\ (CallSucceeds \/ Spend)
    <3> DEFINE reconciled == IF revCall.err = "none" THEN "True" ELSE revCall.err
    <3>1. reconciled \in {"Unset", "True", "NameAlreadyExists", "HelmError"}
      BY <2>1 DEF Conclusions
    <3>2. \/ namesake' = namesake
          \/ namesake # None /\ namesake' = [namesake EXCEPT !.reconciled = reconciled]
      BY <1>9 DEF UpdateRevisionStatus
    <3>3. namesake' \in Namesakes \cup {None}
      <4> HIDE DEF reconciled
      <4>1. ASSUME namesake \in Namesakes
            PROVE  [namesake EXCEPT !.reconciled = reconciled] \in Namesakes
        BY <3>1, <4>1 DEF Namesakes
      <4> QED BY <2>1, <3>2, <4>1
    <3>4. revQueued' \in BOOLEAN /\ (CallSucceeds \/ Spend)
      BY <1>9, <1>a, CallEnds DEF UpdateRevisionStatus, RevTyped, Retried
    <3> QED BY <3>3, <3>4
  <2>3. RevTyped'
    BY <1>9, <1>a, <2>2 DEF UpdateRevisionStatus, RevTyped
  <2>4. Rest
    BY <1>9, <2>2 DEF UpdateRevisionStatus
  <2> QED BY <1>b, <2>3, <2>4
<1> QED
  BY <1>1, <1>2, <1>3, <1>4, <1>5, <1>6, <1>7, <1>8, <1>9 DEF NamesakeSide, RevisionController

LEMMA TagSteps ==
  ASSUME TagStep
  PROVE  /\ TagEnvironment \/ TagInformers \/ TagController
         /\ UNCHANGED <<control, revCall>>
BY DEF TagStep, TagRemovesBase, TagInstallsBase, TagController

LEMMA ImplementsTag ==
  ASSUME TypeOK, [Next]_vars
  PROVE  [TagNext]_tagVars
<1>1. CASE TagStep
  BY <1>1, TagSteps DEF TagNext
<1>2. CASE Crash
  BY <1>2 DEF Crash, TagNext
<1>3. CASE NamesakeSide
  BY <1>3, NamesakeSteps DEF TagNext
<1>4. CASE UNCHANGED vars
  BY <1>4 DEF vars
<1> QED
  BY <1>1, <1>2, <1>3, <1>4 DEF Next, NamesakeSide

LEMMA TypeStep ==
  ASSUME TypeOK, TagInv, [Next]_vars
  PROVE  TypeOK' /\ TagInv'
<1>1. TagInv'
  BY ImplementsTag, TagInvStep
<1>2. CASE NamesakeSide
  BY <1>1, <1>2, NamesakeSteps DEF TagInv, TypeOK, RevTyped, Conclusions
<1>3. CASE TagStep
  <2>1. revQueued' \in BOOLEAN /\ takenOver' \in BOOLEAN
    BY <1>3 DEF TagStep, TagRemovesBase, TagInstallsBase, BaseEvent, TypeOK
  <2> QED BY <1>1, <1>3, <2>1, TagSteps DEF TagInv, TypeOK
<1>4. CASE Crash
  BY <1>1, <1>4 DEF Crash, TagInv, TypeOK
<1>5. CASE UNCHANGED vars
  BY <1>1, <1>5 DEF vars, revVars, TagInv, TypeOK
<1> QED
  BY <1>2, <1>3, <1>4, <1>5 DEF Next, NamesakeSide

-----------------------------------------------------------------------------
(* Steps of the tag.                                                       *)

\* Steps of the tag that do not concern the base chart.
TagAlone ==
  \/ TagEnvironment \/ TagInformers
  \/ TagNotFound \/ AddFinalizer \/ RemoveFinalizer \/ StartReconcile
  \/ validate \/ Resolve \/ installHelmCharts \/ UpdateStatus

LEMMA AloneKeeps ==
  ASSUME TagInv, TagAlone
  PROVE  /\ UNCHANGED <<base, default, namesake, cNamesake>>
         /\ TagHolds => TagHolds'
         /\ ~ default /\ call.pc # "base" => call'.pc # "base"
<1>1. UNCHANGED <<base, default, namesake, cNamesake>>
  BY DEF TagAlone, TagEnvironment, TagInformers, CreateTag, Retarget, DeleteTag, ChangeReference, ChangeIstio,
         ChangeRevision, RevisionUpdated, DeliverIstio, DeliverTag, DeliverWebhook, DeliverRevision,
         TagNotFound, AddFinalizer, RemoveFinalizer, StartReconcile, validate, Resolve, installHelmCharts,
         FailsToChange, UpdateStatus
<1>2. CASE TagEnvironment
  <2>1. UNCHANGED call
    BY <1>2 DEF TagEnvironment, CreateTag, Retarget, DeleteTag, ChangeReference, ChangeIstio, ChangeRevision,
                RevisionUpdated
  <2>2. ASSUME tag # None, tag.fin
        PROVE  tag' # None /\ tag'.fin
    <3>1. ASSUME NEW t \in Targets, Retarget(t)
          PROVE  tag' # None /\ tag'.fin
      <4>1. tag \in Tags /\ tag' = [tag EXCEPT !.target = t, !.gen = tag.gen + 1]
        BY <3>1 DEF Retarget, TagInv, TagTypeOK
      <4>2. tag'.fin = tag.fin
        BY <4>1 DEF Tags
      <4>3. tag' # None
        BY <4>1, TagRecords
      <4> QED BY <2>2, <4>2, <4>3
    <3>2. CASE DeleteTag
      BY <2>2, <3>2, TagRecords, TagFields DEF DeleteTag, TagInv, TagTypeOK
    <3>3. ASSUME NEW t \in Targets, CreateTag(t)
          PROVE  FALSE
      BY <2>2, <3>3 DEF CreateTag
    <3>4. CASE UNCHANGED tag
      BY <2>2, <3>4
    <3> QED
      BY <1>2, <3>1, <3>2, <3>3, <3>4
         DEF TagEnvironment, ChangeReference, ChangeIstio, ChangeRevision, RevisionUpdated
  <2> QED BY <1>1, <2>1, <2>2 DEF TagHolds
<1>3. CASE TagInformers \/ TagNotFound
  <2>1. UNCHANGED <<tag, call>>
    BY <1>3 DEF TagInformers, DeliverIstio, DeliverTag, DeliverWebhook, DeliverRevision, TagNotFound
  <2> QED BY <1>1, <2>1 DEF TagHolds
<1>4. CASE AddFinalizer
  <2>1. UNCHANGED call
    BY <1>4 DEF AddFinalizer
  <2>2. tag' = tag \/ (tag \in Tags /\ tag' = [tag EXCEPT !.fin = TRUE])
    BY <1>4 DEF AddFinalizer, TagInv, TagTypeOK
  <2>3. tag' = tag \/ (tag' # None /\ tag'.fin)
    <3>1. CASE tag \in Tags /\ tag' = [tag EXCEPT !.fin = TRUE]
      <4>1. tag'.fin /\ tag' # None
        BY <3>1, TagRecords, TagFields
      <4> QED BY <4>1
    <3> QED BY <2>2, <3>1
  <2> QED BY <1>1, <2>1, <2>3 DEF TagHolds
<1>5. CASE RemoveFinalizer
  BY <1>1, <1>5 DEF RemoveFinalizer, TagHolds, Idle
<1>6. CASE StartReconcile
  BY <1>1, <1>6 DEF StartReconcile, TagHolds
<1>7. CASE validate \/ Resolve \/ installHelmCharts
  <2>1. call.pc \in Pcs /\ call.pc # "idle" /\ UNCHANGED tag
    BY <1>7 DEF validate, Resolve, installHelmCharts, Pcs
  <2>2. GoesOn /\ call \in Reconciles
    BY <1>7, <2>1, TypeController, CallTypes DEF TagInv
  <2>3. TagHolds => TagHolds'
    BY <2>1, <2>2 DEF TagHolds, GoesOn, Keeps, Reconciles, Pcs
  <2>4. ASSUME ~ default
        PROVE  call'.pc # "base"
    <3>1. CASE validate
      BY <2>2, <3>1, CallFields DEF validate
    <3>2. CASE Resolve
      <4>1. CASE \E report \in Reports : ReportsBack(report)
        BY <2>2, <4>1, CallFields
      <4>2. CASE NamesMissing
        BY <2>2, <4>2 DEF NamesMissing, Reconciles
      <4>3. CASE \E r \in Revs, pc \in {"install", "uninstall"} : call' = [call EXCEPT !.rev = r, !.pc = pc]
        BY <2>2, <4>3 DEF Reconciles
      <4> QED BY <3>2, <4>1, <4>2, <4>3 DEF Resolve, Reports, Failures
    <3>3. CASE installHelmCharts
      BY <2>2, <2>4, <3>3, CallFields DEF installHelmCharts
    <3> QED BY <1>7, <3>1, <3>2, <3>3
  <2> QED BY <1>1, <2>3, <2>4
<1>8. CASE UpdateStatus
  <2>1. call'.pc = "idle" /\ call.pc = "status"
    BY <1>8 DEF UpdateStatus, Idle
  <2>2. tag' = tag \/ \E status : tag' = [tag EXCEPT !.status = status]
    BY <1>8 DEF UpdateStatus
  <2>3. tag \in Tags
    BY <2>1 DEF TagInv, TagPresent, TagTypeOK
  <2>4. tag'.fin = tag.fin
    BY <2>2, <2>3 DEF Tags
  <2>5. tag' \in Tags
    BY <1>8, TypeUpdateStatus
  <2> QED BY <1>1, <2>1, <2>4, <2>5, TagRecords DEF TagHolds
<1> QED
  BY <1>2, <1>3, <1>4, <1>5, <1>6, <1>7, <1>8 DEF TagAlone

-----------------------------------------------------------------------------
(* Every step keeps the invariant.                                         *)

Parts == RevInv /\ Unshared /\ ReleasesHeld /\ Concluded /\ Served

LEMMA TagStepKeeps ==
  ASSUME IInv, TagStep
  PROVE  Parts'
<1>a. /\ UNCHANGED <<default, namesake, cNamesake, control, revCall>>
      /\ TagInv
  <2>1. TagInv
    BY DEF IInv
  <2>2. CASE TagAlone
    BY <2>1, <2>2, AloneKeeps DEF TagStep
  <2> QED
    BY <2>1, <2>2 DEF TagStep, TagAlone, TagRemovesBase, TagInstallsBase, Finalize, UninstallFormer, InstallBase
<1>1. RevInv'
  BY <1>a DEF IInv, RevInv, NamesakeCached, NamesakePresent, NamesakeUnfinalizing
\* What the rest follows from.
<1> DEFINE KeyWoken == (revQueued => revQueued') /\ (~ revQueued' /\ Shared => Shared')
           HeldOn == base' # None => (base # None /\ (TagHolds => TagHolds')) \/ TagHolds'
<1>2. ASSUME KeyWoken, HeldOn, ~ default => base' = None /\ call'.pc # "base"
      PROVE  Unshared' /\ ReleasesHeld' /\ Concluded' /\ Served'
  <2>1. Unshared'
    BY <1>a, <1>2 DEF IInv, Unshared
  <2>2. ReleasesHeld'
    BY <1>a, <1>2 DEF IInv, ReleasesHeld, NamesakeHolds
  <2>3. Concluded'
    BY <1>a, <1>2 DEF IInv, Concluded
  <2>4. Served'
    BY <1>a, <1>2 DEF IInv, Served, RevisionAtRest
  <2> QED BY <2>1, <2>2, <2>3, <2>4
<1>3. CASE TagAlone /\ UNCHANGED <<revQueued, takenOver>>
  <2>1. UNCHANGED base /\ (TagHolds => TagHolds') /\ (~ default /\ call.pc # "base" => call'.pc # "base")
    BY <1>a, <1>3, AloneKeeps
  <2>2. KeyWoken /\ HeldOn
    BY <1>3, <2>1 DEF Shared
  <2>3. ~ default => base' = None /\ call'.pc # "base"
    BY <2>1 DEF IInv, Unshared
  <2> QED BY <1>1, <1>2, <2>2, <2>3 DEF Parts
<1>4. CASE TagRemovesBase
  <2>1. KeyWoken
    BY <1>4 DEF TagRemovesBase, BaseEvent, Shared
  <2>2. CASE Finalize
    <3>1. cTag \in Tags /\ cTag.status.ns \in Namespaces \cup {None}
      BY <1>a, <2>2, TagRecords, StatusTypes DEF Finalize, TagInv, TagTypeOK
    <3>2. base = None => base' = None
      BY <1>a, <2>2, <3>1, Uninstalling DEF Finalize, TagInv
    <3>3. \/ base' = (IF default THEN None ELSE base) /\ call'.pc = "unfinalize"
          \/ UNCHANGED call
      BY <2>2 DEF Finalize, uninstallHelmCharts
    <3>4. UNCHANGED tag /\ call.pc = "idle"
      BY <2>2 DEF Finalize, TakeKey, Idle
    <3>5. HeldOn
      BY <3>2, <3>3, <3>4 DEF IInv, Unshared, TagHolds
    <3>6. ~ default => base' = None /\ call'.pc # "base"
      BY <1>a, <3>2, <3>3, <3>4 DEF IInv, Unshared
    <3> QED BY <1>1, <1>2, <2>1, <3>5, <3>6 DEF Parts
  <2>3. CASE UninstallFormer
    <3>1. call.obj \in Tags /\ call.obj.status.ns \in Namespaces \cup {None} /\ call \in Reconciles
      BY <1>a, <2>3, CallTypes, TagRecords, StatusTypes DEF UninstallFormer, TagInv, Pcs
    <3>2. base = None => base' = None
      BY <1>a, <2>3, <3>1, Uninstalling DEF UninstallFormer, TagInv
    <3>3. call'.pc \in {"install", "status"} /\ UNCHANGED tag /\ call.pc = "uninstall"
      BY <2>3, <3>1, CallFields DEF UninstallFormer
    <3>4. HeldOn
      BY <3>2, <3>3 DEF TagHolds
    <3>5. ~ default => base' = None /\ call'.pc # "base"
      BY <3>2, <3>3 DEF IInv, Unshared
    <3> QED BY <1>1, <1>2, <2>1, <3>4, <3>5 DEF Parts
  <2> QED BY <1>4, <2>2, <2>3 DEF TagRemovesBase
<1>5. CASE TagInstallsBase
  <2>1. call \in Reconciles /\ call.pc = "base"
    <3>1. call.pc = "base"
      BY <1>5 DEF TagInstallsBase, InstallBase
    <3> QED BY <1>a, <3>1, CallTypes DEF TagInv, Pcs
  <2>2. call'.pc = "status" /\ UNCHANGED <<tag, revQueued>>
    BY <1>5, <2>1, CallFields DEF TagInstallsBase, InstallBase
  <2>3. KeyWoken
    <3>1. base' \in {"tag", "partial", base}
      BY <1>5 DEF TagInstallsBase, InstallBase, FailsToChangeBase
    <3>2. takenOver' = (takenOver \/ base \in {"revision", "partial"})
      BY <1>5 DEF TagInstallsBase
    <3> QED BY <2>2, <3>1, <3>2 DEF Shared
  <2>4. tag # None /\ tag.fin
    BY <1>a, <2>1 DEF TagInv, TagPresent
  <2>5. HeldOn
    BY <2>2, <2>4 DEF TagHolds
  <2>6. default
    BY <2>1 DEF IInv, Unshared
  <2> QED BY <1>1, <1>2, <1>a, <2>2, <2>3, <2>5, <2>6 DEF Parts
<1> QED
  BY <1>3, <1>4, <1>5 DEF TagStep, TagAlone

LEMMA CrashKeeps ==
  ASSUME IInv, Crash
  PROVE  Parts'
<1>1. /\ UNCHANGED <<tag, default, namesake, base, control, takenOver>>
      /\ call'.pc = "idle" /\ revCall' = Idle /\ revCall'.pc = "idle"
      /\ cNamesake' = namesake /\ revQueued' = (namesake # None)
  BY DEF Crash, Restart, Idle
<1>2. RevInv'
  BY <1>1 DEF IInv, RevInv, NamesakeCached, NamesakePresent, NamesakeUnfinalizing
<1>3. Unshared' /\ Concluded' /\ Served'
  BY <1>1 DEF IInv, Unshared, Concluded, Served, RevisionAtRest
<1>4. ReleasesHeld'
  BY <1>1 DEF IInv, ReleasesHeld, TagHolds, NamesakeHolds
<1> QED
  BY <1>2, <1>3, <1>4 DEF Parts

-----------------------------------------------------------------------------
(* Steps of the namesake.                                                  *)

LEMMA NamesakeTypes ==
  ASSUME IInv, NamesakeSide
  PROVE  /\ namesake \in Namesakes \cup {None} /\ cNamesake \in Namesakes \cup {None}
         /\ namesake' \in Namesakes \cup {None}
         /\ UNCHANGED default /\ (TagHolds => TagHolds') /\ call' = call
<1>1. TypeOK /\ namesake \in Namesakes \cup {None} /\ cNamesake \in Namesakes \cup {None}
  BY DEF IInv, TypeOK, TagTypeOK
<1>2. namesake' \in Namesakes \cup {None} /\ UNCHANGED <<tag, call, default>>
  BY <1>1, NamesakeSteps DEF RevTyped, Elsewhere
<1> QED
  BY <1>1, <1>2 DEF TagHolds

LEMMA CreateKeeps ==
  ASSUME IInv, CreateNamesake
  PROVE  Parts'
<1>1. /\ namesake' \in Namesakes \cup {None} /\ default' = default
      /\ (TagHolds => TagHolds') /\ call' = call
  BY NamesakeTypes DEF NamesakeSide
<1>2. /\ namesake' # None /\ ~ namesake'.fin /\ ~ namesake'.deleting
  <2>1. PICK second \in now .. now + 1, uid \in {1, 3} :
          namesake' = [born |-> second, uid |-> uid, fin |-> FALSE, deleting |-> FALSE, reconciled |-> "Unset"]
    BY DEF CreateNamesake
  <2>2. second \in Nat
    BY <2>1 DEF IInv, TypeOK, TagTypeOK
  <2>3. namesake' \in Namesakes
    BY <2>1, <2>2 DEF Namesakes
  <2> QED BY <2>1, <2>3, NoneAssumption
<1>3. default /\ namesake = None /\ cNamesake = None /\ UNCHANGED <<cNamesake, base, control, revQueued, revCall, takenOver>>
  BY DEF CreateNamesake, revVars
<1>4. revCall.pc # "status"
  BY <1>3 DEF IInv, NamesakePresent
<1>5. RevInv'
  BY <1>2, <1>3, <1>4 DEF IInv, RevInv, NamesakeCached, NamesakePresent, NamesakeUnfinalizing
<1>6. Unshared' /\ Concluded' /\ Served'
  BY <1>1, <1>2, <1>3, <1>4 DEF Unshared, Concluded, Served, RevisionAtRest
<1>7. ReleasesHeld'
  BY <1>1, <1>3 DEF IInv, ReleasesHeld, NamesakeHolds
<1> QED
  BY <1>5, <1>6, <1>7 DEF Parts

LEMMA DeleteKeeps ==
  ASSUME IInv, DeleteNamesake
  PROVE  Parts'
<1>1. /\ namesake \in Namesakes \cup {None} /\ default' = default
      /\ (TagHolds => TagHolds') /\ call' = call
  BY NamesakeTypes DEF NamesakeSide
<1>2. /\ namesake # None /\ ~ namesake.deleting
      /\ UNCHANGED <<cNamesake, base, control, revQueued, revCall, takenOver>>
  BY DEF DeleteNamesake, revVars
<1>3. default
  BY <1>2 DEF IInv, Unshared
<1>4. \/ namesake.fin /\ namesake' # None /\ namesake'.deleting /\ namesake'.fin
      \/ ~ namesake.fin /\ namesake' = None
  <2>1. namesake \in Namesakes
    BY <1>1, <1>2
  <2>2. /\ [namesake EXCEPT !.deleting = TRUE] \in Namesakes
        /\ [namesake EXCEPT !.deleting = TRUE].fin = namesake.fin
        /\ [namesake EXCEPT !.deleting = TRUE].deleting
    BY <2>1, NamesakeChanges
  <2>3. [namesake EXCEPT !.deleting = TRUE] # None /\ namesake.fin \in BOOLEAN
    BY <2>1, <2>2, NoneAssumption, NamesakeRecords
  <2> QED BY <2>2, <2>3 DEF DeleteNamesake
<1>5. RevInv'
  BY <1>2, <1>4 DEF IInv, RevInv, NamesakeCached, NamesakePresent, NamesakeUnfinalizing
<1>6. Unshared' /\ Concluded'
  BY <1>1, <1>2, <1>3 DEF IInv, Unshared, Concluded, Shared
<1>7. Served'
  BY <1>2, <1>4 DEF IInv, Served, RevisionAtRest, NamesakeCached
<1>8. ReleasesHeld'
  BY <1>1, <1>2, <1>4 DEF IInv, ReleasesHeld, NamesakeHolds
<1> QED
  BY <1>5, <1>6, <1>7, <1>8 DEF Parts

LEMMA DeliverKeeps ==
  ASSUME IInv, DeliverNamesake
  PROVE  Parts'
<1>1. default' = default /\ (TagHolds => TagHolds') /\ call' = call
  BY NamesakeTypes DEF NamesakeSide
<1>2. /\ cNamesake # namesake /\ cNamesake' = namesake /\ revQueued' = TRUE
      /\ UNCHANGED <<namesake, base, control, revCall, takenOver>>
  BY DEF DeliverNamesake
<1>3. default
  BY <1>2 DEF IInv, Unshared
<1>4. RevInv'
  BY <1>2 DEF IInv, RevInv, NamesakeCached, NamesakePresent, NamesakeUnfinalizing
<1>5. Unshared' /\ Concluded' /\ Served'
  BY <1>1, <1>2, <1>3 DEF IInv, Unshared, Concluded, Served, RevisionAtRest
<1>6. ReleasesHeld'
  BY <1>1, <1>2 DEF IInv, ReleasesHeld, NamesakeHolds
<1> QED
  BY <1>4, <1>5, <1>6 DEF Parts

LEMMA NotFoundKeeps ==
  ASSUME IInv, RevisionNotFound
  PROVE  Parts'
<1>1. default' = default /\ (TagHolds => TagHolds') /\ call' = call
  BY NamesakeTypes DEF NamesakeSide, RevisionController
<1>2. /\ UNCHANGED <<namesake, cNamesake, base, control, revCall, takenOver>>
      /\ revCall = Idle /\ revCall.pc = "idle"
      /\ cNamesake = None \/ (cNamesake.deleting /\ ~ cNamesake.fin)
  BY DEF RevisionNotFound, TakeRevision, Idle
<1>3. RevInv' /\ Unshared' /\ Concluded'
  BY <1>1, <1>2 DEF IInv, RevInv, NamesakeCached, NamesakePresent, NamesakeUnfinalizing, Unshared, Concluded
<1>4. Served'
  BY <1>2 DEF IInv, Served, RevisionAtRest, NamesakeCached
<1>5. ReleasesHeld'
  BY <1>1, <1>2 DEF IInv, ReleasesHeld, NamesakeHolds
<1> QED
  BY <1>3, <1>4, <1>5 DEF Parts

LEMMA AddFinalizerKeeps ==
  ASSUME IInv, AddRevisionFinalizer
  PROVE  Parts'
<1>1. cNamesake \in Namesakes \cup {None} /\ default' = default /\ (TagHolds => TagHolds') /\ call' = call
  BY NamesakeTypes DEF NamesakeSide, RevisionController
<1>2. /\ UNCHANGED <<cNamesake, base, control, revCall, takenOver>>
      /\ revCall = Idle /\ revCall.pc = "idle"
      /\ cNamesake # None /\ ~ cNamesake.deleting /\ ~ cNamesake.fin
  BY DEF AddRevisionFinalizer, TakeRevision, Idle
<1>3. default
  BY <1>2 DEF IInv, Unshared
<1>4. \/ namesake = cNamesake /\ namesake' # None /\ namesake'.fin /\ ~ namesake'.deleting
      \/ namesake' = namesake /\ (namesake = None \/ revQueued')
  <2>1. cNamesake \in Namesakes
    BY <1>1, <1>2
  <2>2. /\ [cNamesake EXCEPT !.fin = TRUE] \in Namesakes
        /\ [cNamesake EXCEPT !.fin = TRUE].fin
        /\ [cNamesake EXCEPT !.fin = TRUE].deleting = cNamesake.deleting
    BY <2>1, NamesakeChanges
  <2>3. [cNamesake EXCEPT !.fin = TRUE] # None
    BY <2>2, NoneAssumption
  <2> QED BY <1>2, <2>2, <2>3 DEF AddRevisionFinalizer, UpdateRevision
<1>5. RevInv'
  BY <1>2, <1>4 DEF IInv, RevInv, NamesakeCached, NamesakePresent, NamesakeUnfinalizing
<1>6. Unshared' /\ Concluded' /\ Served'
  BY <1>1, <1>2, <1>3, <1>4 DEF Unshared, Concluded, Served, RevisionAtRest
<1>7. ReleasesHeld'
  BY <1>1, <1>2, <1>4 DEF IInv, ReleasesHeld, NamesakeHolds
<1> QED
  BY <1>5, <1>6, <1>7 DEF Parts

LEMMA FinalizeKeeps ==
  ASSUME IInv, FinalizeRevision
  PROVE  Parts'
<1>1. default' = default /\ (TagHolds => TagHolds') /\ call' = call
  BY NamesakeTypes DEF NamesakeSide, RevisionController
<1>2. /\ UNCHANGED <<namesake, cNamesake, takenOver>>
      /\ revCall.pc = "idle" /\ revQueued
      /\ cNamesake # None /\ cNamesake.deleting /\ cNamesake.fin
  BY DEF FinalizeRevision, TakeRevision, Idle
<1>3. default
  BY <1>2 DEF IInv, Unshared
<1>4. (base = None => base' = None) /\ (control = None => control' = None)
  BY DEF FinalizeRevision, FailsToUninstallBase
<1>5. CASE /\ control' = None /\ base' = None
           /\ revCall' = [pc |-> "unfinalize", obj |-> cNamesake]
  <2>1. revCall'.pc = "unfinalize" /\ revCall'.obj = cNamesake /\ revCall' # Idle
    BY <1>5 DEF Idle
  <2>2. RevInv'
    BY <1>2, <2>1 DEF IInv, RevInv, NamesakeCached, NamesakePresent, NamesakeUnfinalizing
  <2>3. Unshared' /\ Concluded' /\ Served' /\ ReleasesHeld'
    BY <1>1, <1>3, <1>5, <2>1 DEF Unshared, Concluded, Served, RevisionAtRest, ReleasesHeld
  <2> QED BY <2>2, <2>3 DEF Parts
<1>6. CASE UNCHANGED <<revQueued, revCall>>
  <2>1. RevInv'
    BY <1>2, <1>6 DEF IInv, RevInv, NamesakeCached, NamesakePresent, NamesakeUnfinalizing
  <2>2. Unshared' /\ Concluded' /\ Served'
    BY <1>1, <1>2, <1>3, <1>6 DEF Unshared, Concluded, Served, RevisionAtRest
  <2>3. ReleasesHeld'
    BY <1>1, <1>2, <1>4, <1>6 DEF IInv, ReleasesHeld, NamesakeHolds
  <2> QED BY <2>1, <2>2, <2>3 DEF Parts
<1> QED
  BY <1>5, <1>6 DEF FinalizeRevision

LEMMA RemoveFinalizerKeeps ==
  ASSUME IInv, RemoveRevisionFinalizer
  PROVE  Parts'
<1>1. default' = default /\ (TagHolds => TagHolds') /\ call' = call
  BY NamesakeTypes DEF NamesakeSide, RevisionController
<1>2. /\ UNCHANGED <<cNamesake, base, control, takenOver>>
      /\ revCall.pc = "unfinalize" /\ revCall # Idle /\ revCall' = Idle /\ revCall'.pc = "idle"
  BY DEF RemoveRevisionFinalizer, Idle
<1>3. default
  BY <1>2 DEF IInv, Unshared
<1>4. namesake' = None \/ (namesake' = namesake /\ revQueued')
  BY DEF RemoveRevisionFinalizer, UpdateRevision
<1>5. RevInv'
  BY <1>2, <1>4 DEF IInv, RevInv, NamesakeCached, NamesakePresent, NamesakeUnfinalizing
<1>6. Unshared' /\ Concluded' /\ Served'
  BY <1>1, <1>2, <1>3, <1>4 DEF Unshared, Concluded, Served, RevisionAtRest
<1>7. ReleasesHeld'
  BY <1>1, <1>2 DEF IInv, ReleasesHeld, NamesakeHolds
<1> QED
  BY <1>5, <1>6, <1>7 DEF Parts

LEMMA InstallKeeps ==
  ASSUME IInv, InstallRevision
  PROVE  Parts'
<1>1. default' = default /\ (TagHolds => TagHolds') /\ call' = call
  BY NamesakeTypes DEF NamesakeSide, RevisionController
<1>2. /\ UNCHANGED <<namesake, cNamesake>>
      /\ revCall.pc = "idle"
      /\ cNamesake # None /\ ~ cNamesake.deleting /\ cNamesake.fin
  BY DEF InstallRevision, TakeRevision, Idle
<1>3. default /\ namesake # None /\ namesake.fin
  BY <1>2 DEF IInv, Unshared, NamesakeCached
<1>4. /\ revCall'.pc = "status" /\ revCall'.obj = cNamesake /\ revCall' # Idle
      /\ revCall'.err = "none" => control' = "installed" /\ base' = "revision"
  BY DEF InstallRevision, Idle
<1>5. RevInv'
  BY <1>2, <1>3, <1>4 DEF IInv, RevInv, NamesakeCached, NamesakePresent, NamesakeUnfinalizing
<1>6. Unshared' /\ Concluded' /\ Served'
  BY <1>1, <1>2, <1>3, <1>4 DEF Unshared, Concluded, Served, RevisionAtRest, Shared
<1>7. ReleasesHeld'
  BY <1>2, <1>3, <1>4 DEF ReleasesHeld, NamesakeHolds
<1> QED
  BY <1>5, <1>6, <1>7 DEF Parts

LEMMA UpdateStatusKeeps ==
  ASSUME IInv, UpdateRevisionStatus
  PROVE  Parts'
<1>1. /\ namesake \in Namesakes \cup {None} /\ cNamesake \in Namesakes \cup {None}
      /\ default' = default /\ (TagHolds => TagHolds') /\ call' = call
  BY NamesakeTypes DEF NamesakeSide, RevisionController
<1>2. /\ UNCHANGED <<cNamesake, base, control, takenOver>>
      /\ revCall.pc = "status" /\ revCall # Idle /\ revCall' = Idle /\ revCall'.pc = "idle"
  BY DEF UpdateRevisionStatus, Idle
<1>3. default /\ namesake # None /\ namesake.fin /\ namesake \in Namesakes /\ revCall.err \in Conclusions
  BY <1>1, <1>2, RevCallTypes DEF IInv, Unshared, NamesakePresent
<1> DEFINE reconciled == IF revCall.err = "none" THEN "True" ELSE revCall.err
<1>4. /\ reconciled \in {"True", "NameAlreadyExists", "HelmError"}
      /\ \/ namesake' = namesake /\ (revCall.obj.reconciled = reconciled \/ revQueued')
         \/ namesake' = [namesake EXCEPT !.reconciled = reconciled] /\ revCall.obj.reconciled # reconciled
      /\ ~ revQueued' => ~ revQueued /\ revCall.err = "none"
  BY <1>3 DEF UpdateRevisionStatus, Conclusions, Retried
<1>5. reconciled = "True" <=> revCall.err = "none"
  BY <1>3 DEF Conclusions
<1>6. /\ namesake' # None /\ namesake'.fin /\ namesake'.deleting = namesake.deleting
      /\ \/ namesake' = namesake /\ (revCall.obj.reconciled = reconciled \/ revQueued')
         \/ namesake'.reconciled = reconciled /\ revCall.obj.reconciled # reconciled
  <2> HIDE DEF reconciled
  <2>1. CASE namesake' = [namesake EXCEPT !.reconciled = reconciled] /\ revCall.obj.reconciled # reconciled
    <3>1. reconciled \in {"Unset", "True", "NameAlreadyExists", "HelmError"}
      BY <1>4
    <3>2. namesake' \in Namesakes
      BY <1>3, <2>1, <3>1, NamesakeChanges
    <3>3. namesake'.fin = namesake.fin /\ namesake'.deleting = namesake.deleting /\ namesake'.reconciled = reconciled
      BY <1>3, <2>1, <3>1, NamesakeChanges
    <3> QED BY <1>3, <2>1, <3>2, <3>3, NoneAssumption
  <2> QED BY <1>3, <1>4, <2>1
<1>7. RevInv'
  BY <1>2, <1>3, <1>6 DEF IInv, RevInv, NamesakeCached, NamesakePresent, NamesakeUnfinalizing
<1>8. Unshared' /\ Concluded'
  BY <1>1, <1>2, <1>3 DEF Unshared, Concluded
<1>9. Served'
  <2>1. SUFFICES ASSUME ~ revQueued', cNamesake = namesake'
                 PROVE  namesake'.fin /\ namesake'.reconciled = "True" /\ control = "installed" /\ Shared
    BY <1>2 DEF Served, RevisionAtRest, Shared
  <2>2. /\ cNamesake = revCall.obj /\ reconciled = "True"
        /\ control = "installed" /\ Shared
    BY <1>2, <1>4, <1>5, <2>1 DEF IInv, Concluded
  <2> QED BY <1>6, <2>1, <2>2
<1>10. ReleasesHeld'
  BY <1>1, <1>2, <1>3, <1>6 DEF IInv, ReleasesHeld, NamesakeHolds
<1> QED
  BY <1>7, <1>8, <1>9, <1>10 DEF Parts

LEMMA StandingStill ==
  ASSUME IInv, UNCHANGED vars
  PROVE  Parts'
<1>1. UNCHANGED <<tag, default, namesake, cNamesake, base, call, control, revQueued, revCall, takenOver>>
  BY DEF vars, tagVars, revVars
<1> QED
  BY <1>1 DEF IInv, Parts, RevInv, NamesakeCached, NamesakePresent, NamesakeUnfinalizing, Unshared,
              ReleasesHeld, TagHolds, NamesakeHolds, Concluded, Shared, Served, RevisionAtRest

-----------------------------------------------------------------------------
LEMMA IInvInit ==
  ASSUME Init
  PROVE  IInv
<1>1. /\ TagInit /\ TagInv /\ control = None /\ revQueued = FALSE /\ takenOver = FALSE
      /\ revCall = Idle /\ revCall.pc = "idle"
  BY TagInvInit DEF Init, Idle
<1>2. /\ tag = None /\ namesake = None /\ cNamesake = None /\ base = None /\ call.pc = "idle"
  BY <1>1 DEF TagInit, Idle
<1>3. TypeOK
  BY <1>1 DEF TagInv, TypeOK
<1>4. NamesakeCached /\ NamesakePresent /\ NamesakeUnfinalizing /\ Unshared
  BY <1>1, <1>2 DEF NamesakeCached, NamesakePresent, NamesakeUnfinalizing, Unshared
<1>5. ReleasesHeld /\ Concluded /\ Served
  BY <1>1, <1>2 DEF ReleasesHeld, Concluded, Served
<1> QED
  BY <1>1, <1>3, <1>4, <1>5 DEF IInv

LEMMA IInvStep ==
  ASSUME IInv, [Next]_vars
  PROVE  IInv'
<1>1. TypeOK' /\ TagInv'
  BY TypeStep DEF IInv
<1>2. Parts'
  BY TagStepKeeps, CrashKeeps, CreateKeeps, DeleteKeeps, DeliverKeeps, NotFoundKeeps, AddFinalizerKeeps,
     FinalizeKeeps, RemoveFinalizerKeeps, InstallKeeps, UpdateStatusKeeps, StandingStill
     DEF Next, RevisionController
<1> QED
  BY <1>1, <1>2 DEF IInv, Parts, RevInv

LEMMA Invariance == Spec => []IInv
<1>1. Init => IInv
  BY IInvInit
<1>2. IInv /\ [Next]_vars => IInv'
  BY IInvStep
<1> QED
  BY <1>1, <1>2, PTL DEF Spec

(***************************************************************************)
(* Every state of a tag and its namesake is well typed.                    *)
(***************************************************************************)
THEOREM TypeCorrect == Spec => []TypeOK
<1>1. IInv => TypeOK
  BY DEF IInv
<1> QED
  BY <1>1, Invariance, PTL

(***************************************************************************)
(* The composition implements the tag by itself: what the IstioRevision    *)
(* of its name does is, to the tag, a step of its environment.             *)
(***************************************************************************)
THEOREM ImplementsTagSpec == Spec => TagSpec
<1>1. Init => TagInit
  BY DEF Init
<1>2. IInv /\ [Next]_vars => [TagNext]_tagVars
  BY ImplementsTag DEF IInv
<1> QED
  BY <1>1, <1>2, Invariance, PTL DEF Spec, TagSpec

(***************************************************************************)
(* Whatever the IstioRevision of its name does, and with it the controller *)
(* of IstioRevisions, a tag at rest reports what is true, and does not     *)
(* rest on a failure that is to be tried again.                            *)
(***************************************************************************)
THEOREM HonestBesideNamesake == Spec => [](HonestStatus /\ FailuresRetried)
BY ImplementsTagSpec, StatusIsHonest, FailuresAreRetried, PTL

(***************************************************************************)
(* Once the tag and the IstioRevision of its name are both gone, nothing   *)
(* of either is left, whoever was refused, installed or deleted last and   *)
(* however many calls fail: what is installed always has one of the two    *)
(* to remove it, with our finalizer on it.                                 *)
(***************************************************************************)
THEOREM NothingLeft == Spec => []BaseRemoved
<1>1. IInv => BaseRemoved
  BY DEF IInv, ReleasesHeld, TagHolds, NamesakeHolds, BaseRemoved
<1> QED
  BY <1>1, Invariance, PTL

(***************************************************************************)
(* When nothing is pending for the IstioRevision of a tag's name, it is    *)
(* installed and says so; what it has lost of the base chart, the tag took *)
(* over.                                                                   *)
(***************************************************************************)
THEOREM RevisionIsServed == Spec => []RevisionServed
<1>1. IInv => RevisionServed
  BY NoneAssumption DEF IInv, Served, Shared, RevisionServed
<1> QED
  BY <1>1, Invariance, PTL

=============================================================================
