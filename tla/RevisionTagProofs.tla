------------------------- MODULE RevisionTagProofs -------------------------
(***************************************************************************)
(* For all IstioRevisions, namespaces and bounds, and whatever happens to  *)
(* the IstioRevision of the tag's name: the types, and what the tag        *)
(* reports is true when nothing is pending.                                *)
(***************************************************************************)
EXTENDS RevisionTag, TLAPS

-----------------------------------------------------------------------------
(* The finalizer and the types.                                            *)

\* A finalizer that the cache shows on a tag in use is there, and a deletion that
\* it shows has happened; ...
TagCached ==
  /\ cTag # None /\ ~ cTag.deleting /\ cTag.fin => tag # None /\ tag.fin
  /\ cTag # None /\ cTag.deleting /\ tag # None => tag.deleting

\* ... the finalizer is there as long as the tag is being reconciled.
TagPresent ==
  call.pc \notin {"idle", "unfinalize"} => call.obj.fin /\ tag # None /\ tag.fin

\* The finalizer about to be removed is not that of a later tag.
TagUnfinalizing ==
  call.pc = "unfinalize" =>
    /\ call.obj.deleting /\ call.obj.fin
    /\ cTag # None /\ cTag.fin => cTag.deleting
    /\ tag # None /\ tag.fin => tag.deleting

\* Nothing is installed, and no success reported, without a revision.
RevisionKnown ==
  call.pc \in {"uninstall", "install", "base"} \/ (call.pc = "status" /\ call.report = "True")
    => call.rev \in Revs

TagInv == TagTypeOK /\ RevisionKnown /\ TagCached /\ TagPresent /\ TagUnfinalizing

Pcs == {"validate", "resolve", "uninstall", "install", "base", "status"}
Reconciles == [pc: Pcs, obj: Tags, rev: Revs \cup {None}, report: Reports]
Contents == Revs \cup {None, "partial"}

LEMMA SpentType ==
  ASSUME spent \in 0 .. Bound, CallSucceeds \/ Spend
  PROVE  spent' \in 0 .. Bound
BY BoundAssumption DEF CallSucceeds, Spend

LEMMA TagRecords ==
  ASSUME NEW t \in Tags
  PROVE  /\ t # None /\ t.status \in Statuses /\ t.gen \in Nat /\ t.target \in Targets
         /\ t.fin \in BOOLEAN /\ t.deleting \in BOOLEAN
         /\ [t EXCEPT !.fin = TRUE] \in Tags
         /\ [t EXCEPT !.deleting = TRUE] \in Tags
         /\ \A status \in Statuses : [t EXCEPT !.status = status] \in Tags
         /\ \A r \in Targets : [t EXCEPT !.target = r, !.gen = @ + 1] \in Tags
<1>1. /\ t # None /\ t.status \in Statuses /\ t.gen \in Nat /\ t.target \in Targets
      /\ t.fin \in BOOLEAN /\ t.deleting \in BOOLEAN
  BY NoneAssumption DEF Tags
<1>2. [t EXCEPT !.fin = TRUE] \in Tags /\ [t EXCEPT !.deleting = TRUE] \in Tags
  BY DEF Tags
<1>3. ASSUME NEW status \in Statuses
      PROVE  [t EXCEPT !.status = status] \in Tags
  BY DEF Tags
<1>4. ASSUME NEW r \in Targets
      PROVE  [t EXCEPT !.target = r, !.gen = @ + 1] \in Tags
  <2>1. t.gen + 1 \in Nat
    BY <1>1
  <2> QED BY <2>1 DEF Tags
<1> QED
  BY <1>1, <1>2, <1>3, <1>4

LEMMA CallTypes ==
  ASSUME TagTypeOK
  PROVE  /\ call.pc \in {"idle", "unfinalize"} \cup Pcs
         /\ call.pc = "idle" => call = Idle
         /\ call.pc = "unfinalize" => call \in [pc: {"unfinalize"}, obj: Tags] /\ call.obj \in Tags
         /\ call.pc \in Pcs =>
              /\ call \in Reconciles /\ call.obj \in Tags
              /\ call.rev \in Revs \cup {None} /\ call.report \in Reports
BY DEF TagTypeOK, Idle, Pcs, Reconciles

\* A step of Reconcile that goes on with the same copy.
Keeps(c, new) == new \in Reconciles /\ new.obj = c.obj
GoesOn == Keeps(call, call')

LEMMA CallChanges ==
  ASSUME NEW c \in Reconciles, NEW pc \in Pcs, NEW rev \in Revs \cup {None}, NEW report \in Reports
  PROVE  /\ Keeps(c, [c EXCEPT !.pc = pc])
         /\ Keeps(c, [c EXCEPT !.pc = pc, !.report = report])
         /\ Keeps(c, [c EXCEPT !.rev = rev, !.pc = pc])
         /\ Keeps(c, [c EXCEPT !.pc = pc, !.report = report, !.rev = rev])
<1>1. Keeps(c, [c EXCEPT !.pc = pc])
  BY DEF Keeps, Reconciles
<1>2. Keeps(c, [c EXCEPT !.pc = pc, !.report = report])
  BY DEF Keeps, Reconciles
<1>3. Keeps(c, [c EXCEPT !.rev = rev, !.pc = pc])
  BY DEF Keeps, Reconciles
<1>4. Keeps(c, [c EXCEPT !.pc = pc, !.report = report, !.rev = rev])
  BY DEF Keeps, Reconciles
<1> QED
  BY <1>1, <1>2, <1>3, <1>4

LEMMA Going ==
  ASSUME TagTypeOK, call.pc \in Pcs,
         \/ \E pc \in Pcs : Continues(pc)
         \/ \E report \in Reports : ReportsBack(report)
  PROVE  GoesOn
<1>1. call \in Reconciles /\ "status" \in Pcs
  BY CallTypes DEF Pcs
<1>2. ASSUME NEW pc \in Pcs, Continues(pc)
      PROVE  GoesOn
  <2>1. Keeps(call, [call EXCEPT !.pc = pc])
    BY <1>1, CallChanges, NoneAssumption DEF Reconciles
  <2> QED BY <1>2, <2>1 DEF Continues, GoesOn
<1>3. ASSUME NEW report \in Reports, ReportsBack(report)
      PROVE  GoesOn
  <2>1. Keeps(call, [call EXCEPT !.pc = "status", !.report = report])
    BY <1>1, CallChanges DEF Reconciles
  <2> QED BY <1>3, <2>1 DEF ReportsBack, GoesOn
<1> QED
  BY <1>2, <1>3

USE DEF otherVars, serverVars, cacheVars, workerVars

LEMMA NewTags ==
  ASSUME NEW second \in Nat, NEW t \in Targets
  PROVE  [born |-> second, uid |-> 2, target |-> t, gen |-> 1, fin |-> FALSE, deleting |-> FALSE,
          status |-> [observed |-> 0, rev |-> None, ns |-> None, reconciled |-> "Unset",
                      about |-> None, inUse |-> "Unset"]] \in Tags
BY DEF Tags, Statuses, Reports, Usages

LEMMA TypeUsers ==
  ASSUME TagTypeOK, TagEnvironment
  PROVE  TagTypeOK'
<1>1. ASSUME NEW t \in Targets, CreateTag(t)
      PROVE  TagTypeOK'
  <2>1. PICK second \in now .. now + 1 :
          /\ Born(second)
          /\ tag' = [born |-> second, uid |-> 2, target |-> t, gen |-> 1, fin |-> FALSE, deleting |-> FALSE,
                     status |-> [observed |-> 0, rev |-> None, ns |-> None, reconciled |-> "Unset",
                                 about |-> None, inUse |-> "Unset"]]
    BY <1>1 DEF CreateTag
  <2>2. second \in Nat
    BY <2>1 DEF TagTypeOK
  <2>3. tag' \in Tags /\ now' \in Nat
    BY <2>1, <2>2, NewTags DEF Born
  <2> QED BY <1>1, <2>3, SpentType DEF CreateTag, TagTypeOK
<1>2. ASSUME NEW t \in Targets, Retarget(t)
      PROVE  TagTypeOK'
  <2>1. tag' \in Tags
    BY <1>2, TagRecords DEF Retarget, TagTypeOK
  <2> QED BY <1>2, <2>1, SpentType DEF Retarget, TagTypeOK
<1>3. CASE DeleteTag
  <2>1. tag' \in Tags \cup {None}
    BY <1>3, TagRecords DEF DeleteTag, TagTypeOK
  <2> QED BY <1>3, <2>1, SpentType DEF DeleteTag, TagTypeOK
<1>4. CASE ChangeReference
  BY <1>4, SpentType DEF ChangeReference, TagTypeOK
<1>5. ASSUME NEW i \in Istios, ChangeIstio(i)
      PROVE  TagTypeOK'
  BY <1>5, SpentType DEF ChangeIstio, TagTypeOK
<1>6. ASSUME NEW r \in Revs, ChangeRevision(r)
      PROVE  TagTypeOK'
  BY <1>6, SpentType DEF ChangeRevision, TagTypeOK
<1>7. ASSUME NEW r \in Revs, RevisionUpdated(r)
      PROVE  TagTypeOK'
  BY <1>7, SpentType DEF RevisionUpdated, TagTypeOK
<1> QED
  BY <1>1, <1>2, <1>3, <1>4, <1>5, <1>6, <1>7 DEF TagEnvironment

LEMMA TypeInformers ==
  ASSUME TagTypeOK, TagInformers \/ Restart \/ Elsewhere
  PROVE  TagTypeOK'
<1>1. CASE DeliverIstio
  BY <1>1 DEF DeliverIstio, Selects, TagTypeOK
<1>2. CASE DeliverTag
  BY <1>2 DEF DeliverTag, TagTypeOK
<1>3. CASE DeliverWebhook
  BY <1>3 DEF DeliverWebhook, TagTypeOK
<1>4. ASSUME NEW r \in Revs, DeliverRevision(r)
      PROVE  TagTypeOK'
  BY <1>4 DEF DeliverRevision, Selects, TagTypeOK
<1>5. CASE Restart
  BY <1>5, SpentType DEF Restart, TagTypeOK
<1>6. CASE Elsewhere
  BY <1>6, SpentType DEF Elsewhere, TagTypeOK
<1> QED
  BY <1>1, <1>2, <1>3, <1>4, <1>5, <1>6 DEF TagInformers

LEMMA CallEnds == CallFails => CallSucceeds \/ Spend
BY DEF CallFails

ReleasesTyped ==
  /\ release \in [Namespaces -> Contents] /\ owned \in BOOLEAN
  /\ base \in Bases /\ spent \in 0 .. Bound

LEMMA Uninstalling ==
  ASSUME TagTypeOK, NEW ns \in Namespaces \cup {None},
         uninstallHelmCharts(ns) \/ FailsToUninstall(ns)
  PROVE  /\ ReleasesTyped'
         /\ base' \in {base, None, "partial"} /\ (base = None => base' = None)
<1> USE DEF TagTypeOK, ReleasesTyped, Contents, Bases
<1>1. UninstallTag(ns) => release' \in [Namespaces -> Contents] /\ owned' \in BOOLEAN
  BY DEF UninstallTag
<1>2. CASE uninstallHelmCharts(ns)
  BY <1>1, <1>2, SpentType DEF uninstallHelmCharts
<1>3. CASE FailsToChange(ns)
  BY <1>3, SpentType, CallEnds DEF FailsToChange
<1>4. CASE UninstallTag(ns) /\ FailsToUninstallBase
  BY <1>1, <1>4, SpentType, CallEnds DEF FailsToUninstallBase, FailsToChangeBase
<1> QED
  BY <1>2, <1>3, <1>4 DEF FailsToUninstall

LEMMA StatusTypes ==
  ASSUME NEW st \in Statuses
  PROVE  st.ns \in Namespaces \cup {None} /\ st.rev \in Revs \cup {None}
BY DEF Statuses

LEMMA Determined ==
  ASSUME TagTypeOK, RevisionKnown, call.pc = "status", NEW inUse \in Usages
  PROVE  DeterminedStatus(inUse) \in Statuses
<1> DEFINE known == [call.obj.status EXCEPT !.observed = call.obj.gen, !.reconciled = call.report, !.inUse = inUse,
                       !.about = IF call.report = "NoRevision" THEN call.rev ELSE None]
<1>1. /\ call.obj.status \in Statuses /\ call.obj.gen \in Nat
      /\ call.rev \in Revs \cup {None} /\ call.report \in Reports
  BY CallTypes, TagRecords DEF Pcs
<1>2. known \in Statuses
  <2>1. (IF call.report = "NoRevision" THEN call.rev ELSE None) \in Revs \cup {None}
    BY <1>1
  <2> HIDE DEF known
  <2>2. ASSUME NEW st \in Statuses, NEW gen \in Nat, NEW report \in Reports, NEW about \in Revs \cup {None}
        PROVE  [st EXCEPT !.observed = gen, !.reconciled = report, !.inUse = inUse, !.about = about] \in Statuses
    BY <2>2 DEF Statuses
  <2> QED BY <1>1, <2>1, <2>2 DEF known
<1>3. ASSUME NEW ns \in Namespaces \cup {None}
      PROVE  [known EXCEPT !.rev = call.rev, !.ns = ns] \in Statuses
  <2> HIDE DEF known
  <2> QED BY <1>1, <1>2 DEF Statuses
<1>4. CASE call.report = "True"
  <2>1. NamespaceOf[call.rev] \in Namespaces
    BY <1>4, NamespaceAssumption DEF RevisionKnown
  <2>2. DeterminedStatus(inUse) = [known EXCEPT !.rev = call.rev, !.ns = NamespaceOf[call.rev]]
    BY <1>4 DEF DeterminedStatus
  <2> HIDE DEF known
  <2> QED BY <1>3, <2>1, <2>2
<1>5. CASE call.report # "True"
  <2>1. DeterminedStatus(inUse) = known
    BY <1>5 DEF DeterminedStatus
  <2> HIDE DEF known
  <2> QED BY <1>2, <2>1
<1> QED
  BY <1>4, <1>5

LEMMA UsageTypes ==
  ASSUME TagTypeOK, NEW target \in Targets
  PROVE  /\ getIstioRevision(target) \in Revs \cup {"NoActiveRevision", "NoRevision"}
         /\ Usage(target) \in Usages
<1>1. getIstioRevision(target) \in Revs \cup {"NoActiveRevision", "NoRevision"}
  BY DEF getIstioRevision, TagTypeOK
<1>2. CASE getIstioRevision(target) \in Revs
  BY <1>2 DEF Usage, Usages
<1>3. CASE getIstioRevision(target) \notin Revs
  BY <1>1, <1>3 DEF Usage, Usages
<1> QED
  BY <1>1, <1>2, <1>3

LEMMA TypeFinalizers ==
  ASSUME TagTypeOK, TagNotFound \/ AddFinalizer \/ Finalize \/ RemoveFinalizer
  PROVE  TagTypeOK'
<1>1. CASE TagNotFound
  BY <1>1 DEF TagNotFound, TagTypeOK
<1>2. CASE AddFinalizer
  <2>1. tag' \in Tags \cup {None} /\ queued' \in BOOLEAN
    BY <1>2, TagRecords DEF AddFinalizer, TagTypeOK
  <2> QED BY <1>2, <2>1, SpentType, CallEnds DEF AddFinalizer, TagTypeOK
<1>3. CASE Finalize
  <2>1. cTag \in Tags /\ cTag.status.ns \in Namespaces \cup {None}
    BY <1>3, TagRecords, StatusTypes DEF Finalize, TagTypeOK
  <2>2. ReleasesTyped'
    BY <1>3, <2>1, Uninstalling DEF Finalize
  <2>3. queued' \in BOOLEAN /\ call' \in {call} \cup [pc: {"unfinalize"}, obj: Tags]
    <3>1. [pc |-> "unfinalize", obj |-> cTag] \in [pc: {"unfinalize"}, obj: Tags]
      BY <2>1
    <3> QED BY <1>3, <3>1 DEF Finalize, TagTypeOK
  <2>4. UNCHANGED <<serverVars, cacheVars>>
    BY <1>3 DEF Finalize
  <2> HIDE <1>3
  <2> QED BY <2>2, <2>3, <2>4 DEF TagTypeOK, ReleasesTyped, Contents
<1>4. CASE RemoveFinalizer
  BY <1>4, SpentType, CallEnds DEF RemoveFinalizer, TagTypeOK
<1> QED
  BY <1>1, <1>2, <1>3, <1>4

LEMMA TypeReconcile ==
  ASSUME TagTypeOK, GoesOn, ReleasesTyped', UNCHANGED <<serverVars, cacheVars, queued>>
  PROVE  TagTypeOK'
BY DEF TagTypeOK, GoesOn, Keeps, Reconciles, Pcs, ReleasesTyped, Contents

LEMMA TypeController ==
  ASSUME TagInv,
         StartReconcile \/ validate \/ Resolve \/ UninstallFormer \/ installHelmCharts \/ InstallBase
  PROVE  TagTypeOK' /\ (call.pc # "idle" => GoesOn)
<1> USE DEF TagInv
<1>i. ReleasesTyped
  BY DEF TagTypeOK, ReleasesTyped, Contents
<1>1. CASE StartReconcile
  <2>1. call'.pc = "validate" /\ call' \in Reconciles /\ call.pc = "idle"
    BY <1>1 DEF StartReconcile, TakeKey, Idle, TagTypeOK, Reconciles, Pcs, Reports
  <2> QED BY <1>1, <2>1 DEF StartReconcile, TagTypeOK, Reconciles, Pcs
<1>2. CASE validate
  <2>1. GoesOn
    BY <1>2, Going DEF validate, Pcs, Reports, Failures
  <2> QED BY <1>2, <1>i, <2>1, TypeReconcile DEF validate, ReleasesTyped
<1>3. CASE Resolve
  <2>1. GoesOn
    <3>1. CASE \E report \in {"NoActiveRevision", "RemoteRevision"} : ReportsBack(report)
      BY <1>3, <3>1, Going DEF Resolve, Pcs, Reports, Failures
    <3>2. CASE NamesMissing
      <4>1. PICK rev \in Revs \cup {None} :
              call' = [call EXCEPT !.pc = "status", !.report = "NoRevision", !.rev = rev]
        BY <3>2 DEF NamesMissing
      <4>2. call \in Reconciles /\ "status" \in Pcs /\ "NoRevision" \in Reports
        BY <1>3, CallTypes DEF Resolve, Pcs, Reports, Failures
      <4>3. Keeps(call, [call EXCEPT !.pc = "status", !.report = "NoRevision", !.rev = rev])
        BY <4>2, CallChanges
      <4> QED BY <4>1, <4>3 DEF GoesOn
    <3>3. CASE \E r \in Revs, pc \in {"install", "uninstall"} : call' = [call EXCEPT !.rev = r, !.pc = pc]
      <4>1. PICK r \in Revs, pc \in {"install", "uninstall"} : call' = [call EXCEPT !.rev = r, !.pc = pc]
        BY <3>3
      <4>2. call \in Reconciles /\ pc \in Pcs /\ call.report \in Reports
        BY <1>3, CallTypes DEF Resolve, Pcs
      <4>3. Keeps(call, [call EXCEPT !.rev = r, !.pc = pc])
        BY <4>2, CallChanges
      <4> QED BY <4>1, <4>3 DEF GoesOn
    <3> QED BY <1>3, <3>1, <3>2, <3>3 DEF Resolve
  <2> QED BY <1>3, <1>i, <2>1, TypeReconcile DEF Resolve, ReleasesTyped
<1>4. CASE UninstallFormer
  <2>1. call.obj \in Tags /\ call.obj.status.ns \in Namespaces \cup {None}
    BY <1>4, CallTypes, TagRecords, StatusTypes DEF UninstallFormer, Pcs
  <2>2. ReleasesTyped'
    BY <1>4, <2>1, Uninstalling DEF UninstallFormer
  <2>3. GoesOn
    BY <1>4, Going DEF UninstallFormer, Pcs, Reports, Failures
  <2> QED BY <1>4, <2>2, <2>3, TypeReconcile DEF UninstallFormer
<1>5. CASE installHelmCharts
  <2>1. call.rev \in Revs /\ NamespaceOf[call.rev] \in Namespaces
    BY <1>5, NamespaceAssumption DEF installHelmCharts, RevisionKnown
  <2>2. ReleasesTyped'
    BY <1>5, <2>1, SpentType, CallEnds
       DEF installHelmCharts, FailsToChange, TagTypeOK, ReleasesTyped, Contents
  <2>3. GoesOn
    BY <1>5, Going DEF installHelmCharts, Pcs, Reports, Failures
  <2> QED BY <1>5, <2>2, <2>3, TypeReconcile DEF installHelmCharts
<1>6. CASE InstallBase
  <2>1. ReleasesTyped'
    BY <1>6, <1>i, SpentType, CallEnds DEF InstallBase, FailsToChangeBase, ReleasesTyped, Bases
  <2>2. GoesOn
    BY <1>6, Going DEF InstallBase, Pcs, Reports, Failures
  <2> QED BY <1>6, <2>1, <2>2, TypeReconcile DEF InstallBase
<1> QED
  BY <1>1, <1>2, <1>3, <1>4, <1>5, <1>6

LEMMA TypeUpdateStatus ==
  ASSUME TagInv, UpdateStatus
  PROVE  TagTypeOK' /\ tag' \in Tags
<1>1. call.pc = "status" /\ call.obj.target \in Targets /\ tag \in Tags
  BY CallTypes, TagRecords DEF UpdateStatus, TagInv, TagPresent, TagTypeOK, Pcs
<1>2. PICK inUse \in {Usage(call.obj.target), "CheckFailed"} :
        \/ tag' = [tag EXCEPT !.status = IF DeterminedStatus(inUse) = call.obj.status
                                         THEN @ ELSE DeterminedStatus(inUse)]
        \/ UNCHANGED tag
  BY DEF UpdateStatus
<1>3. inUse \in Usages
  BY <1>1, UsageTypes DEF Usages, TagInv
<1>4. DeterminedStatus(inUse) \in Statuses
  BY <1>1, <1>3, Determined DEF TagInv
<1>5. tag' \in Tags
  <2>1. (IF DeterminedStatus(inUse) = call.obj.status THEN tag.status ELSE DeterminedStatus(inUse)) \in Statuses
    BY <1>1, <1>4, TagRecords
  <2> QED BY <1>1, <1>2, <2>1, TagRecords
<1>6. queued' \in BOOLEAN /\ (CallSucceeds \/ Spend)
  BY CallEnds DEF UpdateStatus, TagInv, TagTypeOK
<1> QED
  BY <1>5, <1>6, SpentType DEF UpdateStatus, TagInv, TagTypeOK

LEMMA TagFields ==
  ASSUME NEW t \in Tags
  PROVE  /\ [t EXCEPT !.fin = TRUE].fin
         /\ [t EXCEPT !.deleting = TRUE].fin = t.fin /\ [t EXCEPT !.deleting = TRUE].deleting
BY DEF Tags

LEMMA CallFields ==
  ASSUME call \in Reconciles
  PROVE  /\ \A pc : Continues(pc) =>
              call'.pc = pc /\ call'.rev = call.rev /\ call'.report = call.report
         /\ \A report : ReportsBack(report) =>
              call'.pc = "status" /\ call'.rev = call.rev /\ call'.report = report
BY DEF Reconciles, Continues, ReportsBack

TagParts == RevisionKnown /\ TagCached /\ TagPresent /\ TagUnfinalizing

LEMMA PartsUntouched ==
  ASSUME TagInv, UNCHANGED <<tag, cTag, call>>
  PROVE  TagParts'
BY DEF TagInv, TagParts, RevisionKnown, TagCached, TagPresent, TagUnfinalizing

LEMMA PartsElsewhere ==
  ASSUME TagInv, TagEnvironment \/ TagInformers \/ Restart \/ Elsewhere
  PROVE  TagParts'
<1> USE DEF TagParts
<1>1. ASSUME NEW t \in Targets, CreateTag(t)
      PROVE  TagParts'
  <2>1. PICK second \in now .. now + 1 :
          tag' = [born |-> second, uid |-> 2, target |-> t, gen |-> 1, fin |-> FALSE, deleting |-> FALSE,
                  status |-> [observed |-> 0, rev |-> None, ns |-> None, reconciled |-> "Unset",
                              about |-> None, inUse |-> "Unset"]]
    BY <1>1 DEF CreateTag
  <2>2. ~ tag'.fin
    BY <2>1
  <2> QED
    BY <1>1, <2>2 DEF CreateTag, TagInv, RevisionKnown, TagCached, TagPresent, TagUnfinalizing
<1>2. ASSUME NEW t \in Targets, Retarget(t)
      PROVE  TagParts'
  <2>1. tag \in Tags /\ tag' = [tag EXCEPT !.target = t, !.gen = tag.gen + 1]
    BY <1>2 DEF Retarget, TagInv, TagTypeOK
  <2>2. tag' # None /\ tag'.fin = tag.fin /\ tag'.deleting = tag.deleting
    <3>1. tag'.fin = tag.fin /\ tag'.deleting = tag.deleting
      BY <2>1 DEF Tags
    <3>2. tag' \in Tags
      BY <2>1, TagRecords
    <3> QED BY <3>1, <3>2, TagRecords
  <2> QED
    BY <1>2, <2>2 DEF Retarget, TagInv, RevisionKnown, TagCached, TagPresent, TagUnfinalizing
<1>3. CASE DeleteTag
  <2>1. \/ ~ tag.fin /\ tag' = None
        \/ tag.fin /\ tag' # None /\ tag'.fin /\ tag'.deleting
    BY <1>3, TagRecords, TagFields DEF DeleteTag, TagInv, TagTypeOK
  <2> QED
    BY <1>3, <2>1 DEF DeleteTag, TagInv, RevisionKnown, TagCached, TagPresent, TagUnfinalizing
<1>4. CASE DeliverTag
  BY <1>4 DEF DeliverTag, TagInv, RevisionKnown, TagCached, TagPresent, TagUnfinalizing
<1>5. CASE Restart
  BY <1>5 DEF Restart, Idle, TagInv, RevisionKnown, TagCached, TagPresent, TagUnfinalizing
<1>6. ASSUME ~ DeleteTag, ~ DeliverTag, ~ Restart, \A t \in Targets : ~ CreateTag(t) /\ ~ Retarget(t)
      PROVE  UNCHANGED <<tag, cTag, call>>
  BY <1>6 DEF TagEnvironment, TagInformers, Elsewhere, ChangeReference, ChangeIstio, ChangeRevision,
              RevisionUpdated, DeliverIstio, DeliverWebhook, DeliverRevision
<1> QED
  BY <1>1, <1>2, <1>3, <1>4, <1>5, <1>6, PartsUntouched

LEMMA PartsController ==
  ASSUME TagInv, TagController
  PROVE  TagParts'
<1> USE DEF TagParts
<1>1. CASE TagNotFound
  BY <1>1, PartsUntouched DEF TagNotFound
<1>2. CASE AddFinalizer
  <2>1. UNCHANGED <<cTag, call>> /\ call.pc = "idle"
    BY <1>2 DEF AddFinalizer, TakeKey, Idle
  <2>2. tag' = tag \/ (tag \in Tags /\ tag' = [tag EXCEPT !.fin = TRUE])
    BY <1>2 DEF AddFinalizer, TagInv, TagTypeOK
  <2>3. tag' = tag \/ (tag' # None /\ tag'.fin /\ tag'.deleting = tag.deleting)
    <3>1. CASE tag \in Tags /\ tag' = [tag EXCEPT !.fin = TRUE]
      <4>1. tag'.fin /\ tag'.deleting = tag.deleting
        BY <3>1 DEF Tags
      <4>2. tag' # None
        BY <3>1, TagRecords
      <4> QED BY <4>1, <4>2
    <3> QED BY <2>2, <3>1
  <2>4. cTag # None /\ ~ cTag.deleting /\ ~ cTag.fin /\ (tag' = tag \/ tag = cTag)
    BY <1>2 DEF AddFinalizer
  <2> QED
    BY <2>1, <2>3, <2>4 DEF TagInv, RevisionKnown, TagCached, TagPresent, TagUnfinalizing
<1>3. CASE Finalize
  <2>1. call.pc = "idle" /\ UNCHANGED <<tag, cTag>> /\ cTag # None /\ cTag.deleting /\ cTag.fin
    BY <1>3 DEF Finalize, TakeKey, Idle
  <2>2. CASE call' = [pc |-> "unfinalize", obj |-> cTag]
    <3>1. call'.pc = "unfinalize" /\ call'.obj = cTag
      BY <2>2
    <3> QED
      BY <2>1, <3>1 DEF TagInv, RevisionKnown, TagCached, TagPresent, TagUnfinalizing
  <2> QED
    BY <1>3, <2>1, <2>2, PartsUntouched DEF Finalize
<1>4. CASE RemoveFinalizer
  <2>1. call.pc = "unfinalize" /\ call'.pc = "idle" /\ UNCHANGED cTag /\ tag' \in {tag, None}
    BY <1>4 DEF RemoveFinalizer, Idle
  <2> QED
    BY <2>1 DEF TagInv, RevisionKnown, TagCached, TagPresent, TagUnfinalizing
<1>5. CASE StartReconcile
  <2>1. /\ UNCHANGED <<tag, cTag>> /\ cTag # None /\ ~ cTag.deleting /\ cTag.fin
        /\ call'.pc = "validate" /\ call'.obj = cTag /\ call'.report = "Unset"
    BY <1>5 DEF StartReconcile
  <2> QED
    BY <2>1 DEF TagInv, RevisionKnown, TagCached, TagPresent, TagUnfinalizing
<1>6. CASE UpdateStatus
  <2>1. call'.pc = "idle" /\ UNCHANGED cTag /\ call.pc = "status"
    BY <1>6 DEF UpdateStatus, Idle
  <2>2. tag' = tag \/ \E status : tag' = [tag EXCEPT !.status = status]
    BY <1>6 DEF UpdateStatus
  <2>3. tag \in Tags
    BY <2>1 DEF TagInv, TagPresent, TagTypeOK
  <2>4. tag' # None /\ tag'.fin = tag.fin /\ tag'.deleting = tag.deleting
    <3>1. tag'.fin = tag.fin /\ tag'.deleting = tag.deleting
      BY <2>2, <2>3 DEF Tags
    <3>2. tag' \in Tags
      BY <1>6, TypeUpdateStatus
    <3> QED BY <3>1, <3>2, TagRecords
  <2> QED
    BY <2>1, <2>4 DEF TagInv, RevisionKnown, TagCached, TagPresent, TagUnfinalizing
<1>7. CASE validate \/ Resolve \/ UninstallFormer \/ installHelmCharts \/ InstallBase
  <2>1. call.pc \in Pcs /\ call.pc # "idle" /\ UNCHANGED <<tag, cTag>>
    BY <1>7 DEF validate, Resolve, UninstallFormer, installHelmCharts, InstallBase, Pcs
  <2>2. GoesOn
    BY <1>7, <2>1, TypeController
  <2>3. TagCached' /\ TagPresent' /\ TagUnfinalizing'
    BY <2>1, <2>2 DEF GoesOn, Keeps, Reconciles, Pcs, TagInv, TagCached, TagPresent, TagUnfinalizing
  <2>4. RevisionKnown'
    <3>0. call \in Reconciles /\ RevisionKnown
      BY <2>1, CallTypes DEF TagInv
    <3>1. CASE validate
      BY <3>0, <3>1, CallFields DEF validate, RevisionKnown
    <3>2. CASE Resolve
      <4>1. CASE \E report \in {"NoActiveRevision", "RemoteRevision"} : ReportsBack(report)
        BY <3>0, <4>1, CallFields DEF RevisionKnown
      <4>2. CASE NamesMissing
        <5>1. call'.pc = "status" /\ call'.report = "NoRevision"
          BY <3>0, <4>2 DEF NamesMissing, Reconciles
        <5> QED BY <5>1 DEF RevisionKnown
      <4>3. CASE \E r \in Revs, pc \in {"install", "uninstall"} : call' = [call EXCEPT !.rev = r, !.pc = pc]
        <5>1. PICK r \in Revs, pc \in {"install", "uninstall"} : call' = [call EXCEPT !.rev = r, !.pc = pc]
          BY <4>3
        <5>2. call'.rev = r
          BY <3>0, <5>1 DEF Reconciles
        <5> QED BY <5>2 DEF RevisionKnown
      <4> QED BY <3>2, <4>1, <4>2, <4>3 DEF Resolve
    <3>3. CASE UninstallFormer
      BY <3>0, <3>3, CallFields DEF UninstallFormer, RevisionKnown
    <3>4. CASE installHelmCharts
      BY <3>0, <3>4, CallFields DEF installHelmCharts, RevisionKnown
    <3>5. CASE InstallBase
      BY <3>0, <3>5, CallFields DEF InstallBase, RevisionKnown
    <3> QED BY <1>7, <3>1, <3>2, <3>3, <3>4, <3>5
  <2> QED
    BY <2>3, <2>4
<1> QED
  BY <1>1, <1>2, <1>3, <1>4, <1>5, <1>6, <1>7 DEF TagController

LEMMA TagInvInit ==
  ASSUME TagInit
  PROVE  TagInv
<1>1. TagTypeOK
  <2>1. revs \subseteq Revs /\ istio \in Istios /\ cIstio \in Istios /\ cRevs \subseteq Revs
    BY DEF TagInit, Istios
  <2>2. release \in [Namespaces -> Revs \cup {None, "partial"}] /\ spent \in 0 .. Bound /\ now \in Nat
    BY BoundAssumption DEF TagInit
  <2> QED BY <2>1, <2>2 DEF TagInit, TagTypeOK, Bases
<1>2. TagParts
  BY DEF TagInit, TagParts, RevisionKnown, TagCached, TagPresent, TagUnfinalizing, Idle
<1> QED
  BY <1>1, <1>2 DEF TagInv, TagParts

LEMMA TagInvStep ==
  ASSUME TagInv, [TagNext]_tagVars
  PROVE  TagInv'
<1>1. CASE TagEnvironment
  BY <1>1, TypeUsers, PartsElsewhere DEF TagInv, TagParts
<1>2. CASE TagInformers \/ Restart \/ Elsewhere
  BY <1>2, TypeInformers, PartsElsewhere DEF TagInv, TagParts
<1>3. CASE TagController
  <2>1. TagTypeOK'
    BY <1>3, TypeFinalizers, TypeController, TypeUpdateStatus DEF TagController, TagInv
  <2> QED BY <1>3, <2>1, PartsController DEF TagInv, TagParts
<1>4. CASE UNCHANGED tagVars
  <2>1. TagTypeOK'
    BY <1>4 DEF tagVars, TagInv, TagTypeOK
  <2> QED BY <1>4, <2>1, PartsUntouched DEF tagVars, TagInv, TagParts
<1> QED
  BY <1>1, <1>2, <1>3, <1>4 DEF TagNext

(***************************************************************************)
(* Every state of the tag is well typed, whatever its namesake does.       *)
(***************************************************************************)
THEOREM TagTypeCorrect == TagSpec => []TagTypeOK
<1>1. TagInit => TagInv
  BY TagInvInit
<1>2. TagInv /\ [TagNext]_tagVars => TagInv'
  BY TagInvStep
<1>3. TagInv => TagTypeOK
  BY DEF TagInv
<1> QED
  BY <1>1, <1>2, <1>3, PTL DEF TagSpec

-----------------------------------------------------------------------------
(* What the tag reports.                                                   *)

\* The cache shows an earlier generation, or this one; a deletion waits for our
\* finalizer.
GenerationCached ==
  /\ cTag # None /\ tag # None => cTag.gen <= tag.gen
  /\ tag # None /\ tag.deleting => tag.fin

\* As long as no event has brought the key back, the copy is the cached tag, ...
CopyCurrent == call.pc \in Pcs /\ ~ queued => cTag = call.obj

\* ... and the revision found is still what the target stands for, provided that
\* it is the one whose events the cached status selects.
Succeeding == call.pc \in {"uninstall", "install", "base"} \/ (call.pc = "status" /\ call.report = "True")
Found(r, t) == r \in cRevs \ Remote /\ r = Referent(t.target)
RevisionFound ==
  Succeeding =>
    /\ call.rev \in Revs \ Remote
    /\ ~ queued /\ call.obj.status.rev = call.rev => Found(call.rev, call.obj)

Installed(r) == release[NamespaceOf[r]] = r
RevisionInstalled == call.pc = "base" \/ (call.pc = "status" /\ call.report = "True") => Installed(call.rev)

\* What the status says is so.
StatusTrue(t) ==
  /\ t.status.reconciled = "True" =>
       /\ Found(t.status.rev, t) /\ Installed(t.status.rev)
       /\ t.status.ns = NamespaceOf[t.status.rev]
  /\ InUseTrue(t.status)
  /\ t.status.observed = t.gen
  /\ ~ Unwrapped(t.status.reconciled)

TrueAtRest == ~ queued /\ call = Idle /\ tag # None /\ cTag = tag => StatusTrue(tag)

StatusInv ==
  /\ TagInv /\ GenerationCached /\ CopyCurrent
  /\ RevisionFound /\ RevisionInstalled /\ TrueAtRest

Reporting == GenerationCached /\ CopyCurrent /\ RevisionFound /\ RevisionInstalled /\ TrueAtRest

LEMMA Waiting ==
  ASSUME StatusInv, UNCHANGED <<tag, cTag, cIstio, cRevs, referenced, release, default, call>>,
         queued => queued'
  PROVE  Reporting'
<1> USE DEF StatusInv, Reporting
<1>1. GenerationCached' /\ CopyCurrent' /\ RevisionInstalled'
  BY DEF GenerationCached, CopyCurrent, RevisionInstalled, Installed
<1>2. RevisionFound'
  BY DEF RevisionFound, Succeeding, Found, Referent
<1>3. TrueAtRest'
  BY DEF TrueAtRest, StatusTrue, InUseTrue, UsedByDefault, Found, Referent, Installed
<1> QED
  BY <1>1, <1>2, <1>3

LEMMA Woken ==
  ASSUME StatusInv, queued', UNCHANGED <<release, call>>, GenerationCached'
  PROVE  Reporting'
<1> USE DEF StatusInv, Reporting
<1>1. CopyCurrent' /\ RevisionInstalled' /\ TrueAtRest'
  BY DEF CopyCurrent, RevisionInstalled, Installed, TrueAtRest
<1>2. RevisionFound'
  BY DEF RevisionFound, Succeeding
<1> QED
  BY <1>1, <1>2

\* A change of the tag is not yet in the cache.
LEMMA AheadOfCache ==
  ASSUME StatusInv, UNCHANGED <<cTag, cIstio, cRevs, release, call>>, queued => queued',
         tag' = None \/ tag' # cTag, GenerationCached'
  PROVE  Reporting'
<1> USE DEF StatusInv, Reporting
<1>1. CopyCurrent' /\ RevisionInstalled' /\ TrueAtRest'
  BY DEF CopyCurrent, RevisionInstalled, Installed, TrueAtRest
<1>2. RevisionFound'
  BY DEF RevisionFound, Succeeding, Found, Referent
<1> QED
  BY <1>1, <1>2

LEMMA ReportingUsers ==
  ASSUME StatusInv, TagEnvironment
  PROVE  Reporting'
<1> USE DEF StatusInv, TagInv
<1>1. ASSUME NEW t \in Targets, CreateTag(t)
      PROVE  Reporting'
  <2>1. PICK second \in now .. now + 1 :
          tag' = [born |-> second, uid |-> 2, target |-> t, gen |-> 1, fin |-> FALSE, deleting |-> FALSE,
                  status |-> [observed |-> 0, rev |-> None, ns |-> None, reconciled |-> "Unset",
                              about |-> None, inUse |-> "Unset"]]
    BY <1>1 DEF CreateTag
  <2>2. ~ tag'.deleting /\ cTag = None
    BY <1>1, <2>1 DEF CreateTag
  <2>3. GenerationCached'
    BY <1>1, <2>2 DEF CreateTag, GenerationCached
  <2> QED BY <1>1, <2>2, <2>3, AheadOfCache DEF CreateTag
<1>2. ASSUME NEW t \in Targets, Retarget(t)
      PROVE  Reporting'
  <2>1. tag \in Tags /\ tag' = [tag EXCEPT !.target = t, !.gen = tag.gen + 1]
    BY <1>2 DEF Retarget, TagTypeOK
  <2>2. tag.gen \in Nat /\ tag'.gen = tag.gen + 1 /\ tag'.fin = tag.fin /\ tag'.deleting = tag.deleting
    BY <2>1 DEF Tags
  <2>3. cTag # None => cTag.gen \in Nat /\ cTag.gen <= tag.gen
    BY <1>2, TagRecords DEF Retarget, GenerationCached, TagTypeOK
  <2>4. tag # None /\ cTag' = cTag
    BY <1>2 DEF Retarget
  <2>5. GenerationCached' /\ (tag' = None \/ tag' # cTag)
    <3>1. tag.deleting => tag.fin
      BY <2>4 DEF GenerationCached
    <3> HIDE <1>2, <2>1
    <3> QED BY <2>2, <2>3, <2>4, <3>1 DEF GenerationCached
  <2> QED BY <1>2, <2>5, AheadOfCache DEF Retarget
<1>3. CASE DeleteTag
  <2>1. CASE ~ tag.fin
    <3>1. tag' = None
      BY <1>3, <2>1 DEF DeleteTag
    <3> QED BY <1>3, <3>1, AheadOfCache DEF DeleteTag, GenerationCached
  <2>2. CASE tag.fin
    <3>1. tag \in Tags /\ tag' = [tag EXCEPT !.deleting = TRUE]
      BY <1>3, <2>2 DEF DeleteTag, TagTypeOK
    <3>2. tag'.gen = tag.gen /\ tag'.fin /\ tag'.deleting
      BY <2>2, <3>1 DEF Tags
    <3>3. GenerationCached' /\ (tag' = None \/ tag' # cTag)
      BY <1>3, <3>2 DEF DeleteTag, GenerationCached, TagCached
    <3> QED BY <1>3, <3>3, AheadOfCache DEF DeleteTag
  <2> QED BY <2>1, <2>2
<1>4. CASE ChangeReference
  <2>1. GenerationCached'
    BY <1>4 DEF ChangeReference, GenerationCached
  <2> QED BY <1>4, <2>1, Woken DEF ChangeReference
<1>5. ASSUME NEW i \in Istios, ChangeIstio(i)
      PROVE  Reporting'
  BY <1>5, Waiting DEF ChangeIstio
<1>6. ASSUME NEW r \in Revs, ChangeRevision(r)
      PROVE  Reporting'
  BY <1>6, Waiting DEF ChangeRevision
<1>7. ASSUME NEW r \in Revs, RevisionUpdated(r)
      PROVE  Reporting'
  BY <1>7, Waiting DEF RevisionUpdated
<1> QED
  BY <1>1, <1>2, <1>3, <1>4, <1>5, <1>6, <1>7 DEF TagEnvironment

\* What was found stays found unless the event of a selected object says otherwise.
LEMMA StillFound ==
  ASSUME TagTypeOK, NEW t \in Tags, cTag = t, NEW r \in Revs, t.status.rev = r, Found(r, t),
         ~ queued', DeliverIstio \/ \E n \in Revs : DeliverRevision(n)
  PROVE  Found(r, t)'
<1>1. t # None /\ r # None
  BY NameAssumption, TagRecords
<1>2. CASE DeliverIstio
  BY <1>1, <1>2 DEF DeliverIstio, Selects, Found, Referent
<1>3. ASSUME NEW n \in Revs, DeliverRevision(n)
      PROVE  Found(r, t)'
  <2>1. n # r
    BY <1>1, <1>3 DEF DeliverRevision, Selects
  <2> QED BY <1>3, <2>1 DEF DeliverRevision, Found, Referent
<1> QED
  BY <1>2, <1>3

LEMMA ReportingInformers ==
  ASSUME StatusInv, TagInformers \/ Restart \/ Elsewhere
  PROVE  Reporting'
<1> USE DEF StatusInv, TagInv
<1>g. tag # None => tag.gen \in Nat
  BY TagRecords DEF TagTypeOK
<1>1. CASE DeliverIstio \/ \E n \in Revs : DeliverRevision(n)
  <2>1. UNCHANGED <<tag, cTag, referenced, release, default, call>> /\ (queued => queued')
    BY <1>1 DEF DeliverIstio, DeliverRevision, serverVars, otherVars
  <2>2. GenerationCached'
    BY <2>1 DEF GenerationCached
  <2>3. ASSUME ~ queued'
        PROVE  Reporting'
    <3>1. CopyCurrent' /\ RevisionInstalled'
      BY <2>1 DEF CopyCurrent, RevisionInstalled, Installed
    <3>2. ASSUME Succeeding, call.obj.status.rev = call.rev
          PROVE  Found(call.rev, call.obj)'
      <4>1. call.pc \in Pcs /\ call.rev \in Revs
        BY <3>2 DEF Succeeding, Pcs, RevisionFound
      <4>2. call.obj \in Tags /\ cTag = call.obj
        BY <2>1, <2>3, <4>1, CallTypes DEF CopyCurrent
      <4>3. Found(call.rev, call.obj)
        BY <2>1, <2>3, <3>2 DEF RevisionFound
      <4>4. \A t \in Tags, r \in Revs :
              cTag = t /\ t.status.rev = r /\ Found(r, t) => Found(r, t)'
        BY <1>1, <2>3, StillFound
      <4>5. \A t \in Tags, r \in Revs : t = call.obj /\ r = call.rev /\ Found(r, t)' => Found(call.rev, call.obj)'
        BY <2>1 DEF Found, Referent
      <4> QED BY <3>2, <4>1, <4>2, <4>3, <4>4, <4>5
    <3>3. RevisionFound'
      BY <2>1, <3>2 DEF RevisionFound, Succeeding
    <3>4. TrueAtRest'
      <4> SUFFICES ASSUME call = Idle, tag # None, cTag = tag
                   PROVE  StatusTrue(tag)'
        BY <2>1 DEF TrueAtRest
      <4>1. StatusTrue(tag) /\ tag \in Tags
        BY <2>1, <2>3 DEF TrueAtRest, TagTypeOK
      <4>2. ASSUME tag.status.reconciled = "True"
            PROVE  Found(tag.status.rev, tag)'
        <5>1. tag.status.rev \in Revs /\ Found(tag.status.rev, tag)
          BY <4>1, <4>2 DEF StatusTrue, Found, TagTypeOK
        <5>2. \A t \in Tags, r \in Revs :
                cTag = t /\ t.status.rev = r /\ Found(r, t) => Found(r, t)'
          BY <1>1, <2>3, StillFound
        <5>3. \A t \in Tags, r \in Revs : t = tag /\ r = tag.status.rev /\ Found(r, t)' => Found(tag.status.rev, tag)'
          BY <2>1 DEF Found, Referent
        <5> QED BY <4>1, <5>1, <5>2, <5>3
      <4> QED BY <2>1, <4>1, <4>2 DEF StatusTrue, InUseTrue, UsedByDefault, Installed
    <3> QED BY <2>2, <3>1, <3>3, <3>4 DEF Reporting
  <2> QED BY <2>1, <2>2, <2>3, Woken
<1>2. CASE DeliverTag
  <2>1. GenerationCached'
    BY <1>2, <1>g DEF DeliverTag, GenerationCached
  <2> QED BY <1>2, <2>1, Woken DEF DeliverTag
<1>3. CASE DeliverWebhook
  BY <1>3, Waiting DEF DeliverWebhook
<1>4. CASE Restart
  <2>1. GenerationCached'
    BY <1>4, <1>g DEF Restart, GenerationCached
  <2>2. CopyCurrent' /\ RevisionFound' /\ RevisionInstalled' /\ TrueAtRest'
    BY <1>4 DEF Restart, Idle, Pcs, CopyCurrent, RevisionFound, Succeeding, RevisionInstalled, TrueAtRest
  <2> QED BY <2>1, <2>2 DEF Reporting
<1>5. CASE Elsewhere
  BY <1>5, Waiting DEF Elsewhere
<1> QED
  BY <1>1, <1>2, <1>3, <1>4, <1>5 DEF TagInformers

LEMMA NotReconciling ==
  ASSUME call'.pc \notin Pcs
  PROVE  CopyCurrent' /\ RevisionFound' /\ RevisionInstalled'
BY DEF Pcs, CopyCurrent, RevisionFound, Succeeding, RevisionInstalled

LEMMA ReportingFinalizers ==
  ASSUME StatusInv, TagNotFound \/ AddFinalizer \/ Finalize \/ RemoveFinalizer
  PROVE  Reporting'
<1> USE DEF StatusInv, TagInv
<1>1. CASE TagNotFound
  <2>1. call'.pc \notin Pcs /\ UNCHANGED <<tag, cTag>>
    BY <1>1 DEF TagNotFound, TakeKey, Idle, Pcs
  <2>2. GenerationCached'
    BY <2>1 DEF GenerationCached
  <2>3. tag = None \/ cTag # tag
    BY <1>1 DEF TagNotFound, GenerationCached
  <2>4. TrueAtRest'
    BY <2>1, <2>3 DEF TrueAtRest
  <2> QED BY <2>1, <2>2, <2>4, NotReconciling DEF Reporting
<1>2. CASE AddFinalizer
  <2>1. call'.pc \notin Pcs /\ cTag' = cTag
    BY <1>2 DEF AddFinalizer, TakeKey, Idle, Pcs
  <2>2. CASE tag = cTag /\ tag' = [tag EXCEPT !.fin = TRUE]
    <3>1. tag \in Tags /\ ~ cTag.fin
      BY <1>2, <2>2 DEF AddFinalizer, TagTypeOK
    <3>2. tag'.fin /\ tag'.gen = tag.gen /\ tag' # cTag
      BY <2>2, <3>1 DEF Tags
    <3>3. tag # None
      BY <3>1, TagRecords
    <3>4. GenerationCached' /\ TrueAtRest'
      BY <2>1, <3>2, <3>3 DEF GenerationCached, TrueAtRest
    <3> QED BY <2>1, <3>4, NotReconciling DEF Reporting
  <2>3. CASE UNCHANGED tag /\ (queued' \/ tag = None)
    <3>1. GenerationCached' /\ TrueAtRest'
      BY <2>1, <2>3 DEF GenerationCached, TrueAtRest
    <3> QED BY <2>1, <3>1, NotReconciling DEF Reporting
  <2> QED BY <1>2, <2>2, <2>3 DEF AddFinalizer, TakeKey
<1>3. CASE Finalize
  <2>1. UNCHANGED <<tag, cTag>> /\ call.pc = "idle" /\ queued
    BY <1>3 DEF Finalize, TakeKey, Idle
  <2>2. call'.pc = "unfinalize" \/ UNCHANGED <<queued, call>>
    BY <1>3 DEF Finalize
  <2>3. call'.pc \notin Pcs
    BY <2>1, <2>2 DEF Pcs
  <2>4. GenerationCached'
    BY <2>1 DEF GenerationCached
  <2>5. call' # Idle \/ queued'
    <3>1. CASE call'.pc = "unfinalize"
      BY <3>1 DEF Idle
    <3>2. CASE UNCHANGED <<queued, call>>
      BY <2>1, <3>2
    <3> QED BY <2>2, <3>1, <3>2
  <2>6. TrueAtRest'
    BY <2>5 DEF TrueAtRest
  <2> QED BY <2>3, <2>4, <2>6, NotReconciling DEF Reporting
<1>4. CASE RemoveFinalizer
  <2>1. call'.pc \notin Pcs /\ cTag' = cTag /\ (tag' = None \/ (tag' = tag /\ queued'))
    BY <1>4 DEF RemoveFinalizer, Idle, Pcs
  <2>2. GenerationCached' /\ TrueAtRest'
    BY <2>1 DEF GenerationCached, TrueAtRest
  <2> QED BY <2>1, <2>2, NotReconciling DEF Reporting
<1> QED
  BY <1>1, <1>2, <1>3, <1>4

LEMMA ReportingGoesOn ==
  ASSUME StatusInv, call.pc \in Pcs, GoesOn, UNCHANGED <<tag, cTag, cIstio, cRevs, queued>>,
         \/ ~ Succeeding'
         \/ /\ Succeeding /\ call'.rev = call.rev
            /\ call'.pc \in {"base", "status"} => Installed(call.rev)'
  PROVE  Reporting'
<1> USE DEF StatusInv
<1>1. call'.pc \in Pcs /\ call'.obj = call.obj
  BY DEF GoesOn, Keeps, Reconciles
<1>2. GenerationCached' /\ CopyCurrent' /\ TrueAtRest'
  BY <1>1 DEF GenerationCached, CopyCurrent, TrueAtRest, Idle, Pcs
<1>3. CASE ~ Succeeding'
  BY <1>2, <1>3 DEF Reporting, Succeeding, RevisionFound, RevisionInstalled
<1>4. CASE /\ Succeeding /\ call'.rev = call.rev
           /\ call'.pc \in {"base", "status"} => Installed(call.rev)'
  <2>1. RevisionFound'
    BY <1>1, <1>4 DEF RevisionFound, Found, Referent
  <2>2. RevisionInstalled'
    BY <1>4 DEF RevisionInstalled, Installed
  <2> QED BY <1>2, <2>1, <2>2 DEF Reporting
<1> QED
  BY <1>3, <1>4

LEMMA Resolving ==
  ASSUME NEW target, getIstioRevision(target) \in Revs
  PROVE  getIstioRevision(target) \in cRevs /\ getIstioRevision(target) = Referent(target)
BY NameAssumption DEF getIstioRevision

LEMMA ReportingReconcile ==
  ASSUME StatusInv,
         StartReconcile \/ validate \/ Resolve \/ UninstallFormer \/ installHelmCharts \/ InstallBase
  PROVE  Reporting'
<1> USE DEF StatusInv, TagInv
<1>1. CASE StartReconcile
  <2>1. /\ call'.pc = "validate" /\ call'.obj = cTag /\ UNCHANGED <<tag, cTag>>
    BY <1>1 DEF StartReconcile
  <2>2. GenerationCached' /\ CopyCurrent' /\ TrueAtRest'
    BY <2>1 DEF GenerationCached, CopyCurrent, TrueAtRest, Idle
  <2>3. RevisionFound' /\ RevisionInstalled'
    BY <2>1 DEF RevisionFound, Succeeding, RevisionInstalled
  <2> QED BY <2>2, <2>3 DEF Reporting
<1>2. CASE validate \/ Resolve \/ UninstallFormer \/ installHelmCharts \/ InstallBase
  <2>1. /\ call.pc \in Pcs /\ UNCHANGED <<tag, cTag, cIstio, cRevs, queued>>
    BY <1>2 DEF validate, Resolve, UninstallFormer, installHelmCharts, InstallBase, Pcs
  <2>2. GoesOn /\ call \in Reconciles
    BY <1>2, <2>1, TypeController, CallTypes DEF Pcs
  <2>f. ASSUME NEW report \in Failures, ReportsBack(report)
        PROVE  Reporting'
    <3>1. call'.pc = "status" /\ call'.report # "True"
      BY <2>2, <2>f, CallFields DEF Failures
    <3> QED BY <2>1, <2>2, <3>1, ReportingGoesOn DEF Succeeding
  <2>3. CASE validate
    <3>1. CASE Continues("resolve")
      <4>1. call'.pc = "resolve"
        BY <2>2, <3>1, CallFields
      <4> QED BY <2>1, <2>2, <4>1, ReportingGoesOn DEF Succeeding
    <3> QED BY <2>3, <2>f, <3>1 DEF validate, Failures
  <2>4. CASE Resolve
    <3>1. CASE \E report \in {"NoActiveRevision", "RemoteRevision"} : ReportsBack(report)
      BY <2>f, <3>1 DEF Failures
    <3>2. CASE NamesMissing
      <4>1. call'.pc = "status" /\ call'.report = "NoRevision"
        BY <2>2, <3>2 DEF NamesMissing, Reconciles
      <4> QED BY <2>1, <2>2, <4>1, ReportingGoesOn DEF Succeeding
    <3>3. CASE \E r \in Revs \ Remote, pc \in {"install", "uninstall"} :
                 r = getIstioRevision(call.obj.target) /\ call' = [call EXCEPT !.rev = r, !.pc = pc]
      <4>1. PICK r \in Revs \ Remote, pc \in {"install", "uninstall"} :
              r = getIstioRevision(call.obj.target) /\ call' = [call EXCEPT !.rev = r, !.pc = pc]
        BY <3>3
      <4>2. call'.rev = r /\ call'.pc = pc /\ call'.obj = call.obj
        BY <2>2, <4>1 DEF Reconciles
      <4>3. Found(r, call.obj)
        BY <4>1, Resolving DEF Found
      <4>4. RevisionFound' /\ RevisionInstalled'
        BY <2>1, <4>1, <4>2, <4>3 DEF RevisionFound, Found, Referent, RevisionInstalled
      <4>5. GenerationCached' /\ CopyCurrent' /\ TrueAtRest'
        BY <2>1, <4>1, <4>2 DEF GenerationCached, CopyCurrent, TrueAtRest, Idle
      <4> QED BY <4>4, <4>5 DEF Reporting
    <3> QED BY <2>4, <3>1, <3>2, <3>3 DEF Resolve
  <2>5. CASE UninstallFormer
    <3>1. CASE Continues("install")
      <4>1. Succeeding /\ call'.pc = "install" /\ call'.rev = call.rev
        BY <2>2, <2>5, <3>1, CallFields DEF UninstallFormer, Succeeding
      <4> QED BY <2>1, <2>2, <4>1, ReportingGoesOn
    <3> QED BY <2>5, <2>f, <3>1 DEF UninstallFormer, Failures
  <2>6. CASE installHelmCharts
    <3>1. CASE ReportsBack("HelmError")
      BY <2>f, <3>1 DEF Failures
    <3>2. CASE /\ release' = [release EXCEPT ![NamespaceOf[call.rev]] = call.rev]
               /\ Continues("base") \/ ReportsBack("True")
      <4>1. Succeeding /\ call'.rev = call.rev
        BY <2>2, <2>6, <3>2, CallFields DEF installHelmCharts, Succeeding
      <4>2. NamespaceOf[call.rev] \in Namespaces
        BY <4>1, NamespaceAssumption DEF RevisionFound
      <4>3. Installed(call.rev)'
        BY <3>2, <4>1, <4>2 DEF Installed, TagTypeOK
      <4> QED BY <2>1, <2>2, <4>1, <4>3, ReportingGoesOn
    <3> QED BY <2>6, <3>1, <3>2 DEF installHelmCharts
  <2>7. CASE InstallBase
    <3>1. CASE ReportsBack("HelmError")
      BY <2>f, <3>1 DEF Failures
    <3>2. CASE ReportsBack("True")
      <4>1. Succeeding /\ call'.rev = call.rev
        BY <2>2, <2>7, <3>2, CallFields DEF InstallBase, Succeeding
      <4>2. Installed(call.rev)'
        BY <2>7, <4>1 DEF InstallBase, RevisionInstalled, Installed
      <4> QED BY <2>1, <2>2, <4>1, <4>2, ReportingGoesOn
    <3> QED BY <2>7, <3>1, <3>2 DEF InstallBase
  <2> QED BY <1>2, <2>3, <2>4, <2>5, <2>6, <2>7
<1> QED
  BY <1>1, <1>2

LEMMA DeterminedFields ==
  ASSUME TagTypeOK, NEW inUse \in Usages, call.pc = "status", call.report = "True" => call.rev \in Revs
  PROVE  LET status == DeterminedStatus(inUse)
         IN  /\ status.observed = call.obj.gen /\ status.reconciled = call.report
             /\ status.inUse = inUse
             /\ call.report = "True" => status.rev = call.rev /\ status.ns = NamespaceOf[call.rev]
<1> DEFINE about == IF call.report = "NoRevision" THEN call.rev ELSE None
           known == [call.obj.status EXCEPT !.observed = call.obj.gen, !.reconciled = call.report,
                       !.inUse = inUse, !.about = about]
<1>1. call.obj.status \in Statuses
  BY CallTypes, TagRecords DEF Pcs
<1>2. /\ known.observed = call.obj.gen /\ known.reconciled = call.report /\ known.inUse = inUse
      /\ \A rev, ns : LET status == [known EXCEPT !.rev = rev, !.ns = ns]
                      IN  /\ status.observed = call.obj.gen /\ status.reconciled = call.report
                          /\ status.inUse = inUse /\ status.rev = rev /\ status.ns = ns
  <2> HIDE DEF about
  <2> QED BY <1>1 DEF Statuses
<1>3. DeterminedStatus(inUse) =
        IF call.report = "True"
        THEN [known EXCEPT !.rev = call.rev, !.ns = NamespaceOf[call.rev]] ELSE known
  BY DEF DeterminedStatus
<1> HIDE DEF known
<1>4. CASE call.report = "True"
  BY <1>2, <1>3, <1>4
<1>5. CASE call.report # "True"
  BY <1>2, <1>3, <1>5
<1> QED
  BY <1>4, <1>5

LEMMA Used ==
  ASSUME TagTypeOK, NEW target \in Targets, Usage(target) \in {"True", "False"}
  PROVE  /\ referenced => Usage(target) = "True"
         /\ Usage(target) = "True" <=> referenced \/ UsedByDefault(getIstioRevision(target))
BY UsageTypes, NameAssumption DEF Usage, getIstioRevision

LEMMA TagStatuses ==
  ASSUME NEW t \in Tags, NEW status \in Statuses
  PROVE  /\ [t EXCEPT !.status = status].status = status
         /\ [t EXCEPT !.status = status].gen = t.gen
         /\ [t EXCEPT !.status = status].fin = t.fin
         /\ [t EXCEPT !.status = status].deleting = t.deleting
         /\ [t EXCEPT !.status = t.status] = t
BY DEF Tags

\* What was determined last is true if no event came and nothing failed.
LEMMA Determining ==
  ASSUME StatusInv, call.pc = "status", ~ queued, NEW inUse \in {"True", "False"},
         inUse = Usage(call.obj.target), ~ Unwrapped(call.report),
         NEW status, status = DeterminedStatus(inUse), status = call.obj.status
  PROVE  StatusTrue(call.obj)
<1> USE DEF StatusInv, TagInv
<1>1. call.obj \in Tags /\ call.obj.target \in Targets
  BY CallTypes, TagRecords DEF Pcs
<1>2. /\ inUse \in {"True", "False"} /\ (referenced => inUse = "True")
      /\ inUse = "True" <=> referenced \/ UsedByDefault(getIstioRevision(call.obj.target))
  BY <1>1, Used
<1>3. call.report = "True" => call.rev \in Revs
  BY DEF RevisionKnown
<1>4. /\ status.observed = call.obj.gen /\ status.reconciled = call.report /\ status.inUse = inUse
      /\ call.report = "True" => status.rev = call.rev /\ status.ns = NamespaceOf[call.rev]
  <2>1. inUse \in Usages
    BY DEF Usages
  <2> QED BY <1>3, <2>1, DeterminedFields
<1>5. CASE call.report = "True"
  <2>1. Found(call.rev, call.obj)
    BY <1>4, <1>5 DEF RevisionFound, Succeeding
  <2>2. Installed(call.rev)
    BY <1>5 DEF RevisionInstalled
  <2>3. getIstioRevision(call.obj.target) = call.rev
    <3>1. call.rev # None
      BY <1>3, <1>5, NameAssumption
    <3> QED BY <2>1, <3>1 DEF Found, getIstioRevision
  <2>4. InUseTrue(call.obj.status)
    BY <1>2, <1>4, <1>5, <2>3 DEF InUseTrue
  <2> QED BY <1>4, <1>5, <2>1, <2>2, <2>4 DEF StatusTrue
<1>6. CASE call.report # "True"
  <2>1. ~ default => (inUse = "True" <=> referenced)
    BY <1>2 DEF UsedByDefault
  <2>2. InUseTrue(call.obj.status)
    BY <1>2, <1>4, <1>6, <2>1 DEF InUseTrue, UsedByDefault
  <2> QED BY <1>4, <1>6, <2>2 DEF StatusTrue
<1> QED
  BY <1>5, <1>6

LEMMA ReportingStatus ==
  ASSUME StatusInv, UpdateStatus
  PROVE  Reporting'
<1> USE DEF StatusInv, TagInv
<1>1. /\ call.pc = "status" /\ call' = Idle
      /\ UNCHANGED <<cTag, cIstio, cRevs, referenced, release, default>>
  BY DEF UpdateStatus, cacheVars, otherVars
<1>2. call.obj \in Tags /\ call.obj.target \in Targets /\ tag \in Tags
  BY <1>1, CallTypes, TagRecords DEF TagPresent, TagTypeOK, Pcs
<1>3. PICK inUse \in {Usage(call.obj.target), "CheckFailed"} :
        LET status == DeterminedStatus(inUse)
        IN  \/ /\ tag' = [tag EXCEPT !.status = IF status = call.obj.status THEN @ ELSE status]
               /\ queued' = (queued \/ Unwrapped(call.report) \/ inUse \notin {"True", "False"})
            \/ queued' /\ UNCHANGED tag
  BY DEF UpdateStatus
<1>4. inUse \in Usages
  BY <1>2, UsageTypes DEF Usages
<1> DEFINE status == DeterminedStatus(inUse)
<1>5. status \in Statuses /\ tag.status \in Statuses
  BY <1>1, <1>2, <1>4, Determined, TagRecords
<1> HIDE DEF status
<1>6. \/ tag' = tag /\ (status = call.obj.status \/ queued')
      \/ tag' = [tag EXCEPT !.status = status] /\ status # call.obj.status
  <2>1. CASE status = call.obj.status
    <3>1. tag' = [tag EXCEPT !.status = tag.status] \/ (queued' /\ UNCHANGED tag)
      BY <1>3, <2>1 DEF status
    <3> QED BY <1>2, <1>5, <2>1, <3>1, TagStatuses
  <2>2. CASE status # call.obj.status
    BY <1>3, <2>2 DEF status
  <2> QED BY <2>1, <2>2
<1>7. tag' # None /\ tag'.gen = tag.gen /\ tag'.fin = tag.fin /\ tag'.deleting = tag.deleting
  <2>1. tag # None /\ [tag EXCEPT !.status = status] # None
    <3>1. [tag EXCEPT !.status = status] \in Tags
      BY <1>2, <1>5, TagRecords
    <3> QED BY <1>2, <3>1, TagRecords
  <2>2. /\ [tag EXCEPT !.status = status].gen = tag.gen
        /\ [tag EXCEPT !.status = status].fin = tag.fin
        /\ [tag EXCEPT !.status = status].deleting = tag.deleting
    BY <1>2, <1>5, TagStatuses
  <2>3. tag' \in {tag, [tag EXCEPT !.status = status]}
    BY <1>6
  <2> QED BY <2>1, <2>2, <2>3
<1>8. GenerationCached'
  BY <1>1, <1>2, <1>7, TagRecords DEF GenerationCached
<1>9. call'.pc \notin Pcs
  BY <1>1 DEF Idle, Pcs
<1>10. TrueAtRest'
  <2> SUFFICES ASSUME ~ queued', cTag' = tag'
               PROVE  StatusTrue(tag)'
    BY DEF TrueAtRest
  <2>1. ~ queued /\ ~ Unwrapped(call.report) /\ inUse \in {"True", "False"}
    BY <1>3
  <2>2. cTag = call.obj
    BY <1>1, <2>1 DEF CopyCurrent, Pcs
  <2>3. tag' = tag /\ status = call.obj.status
    <3>1. [tag EXCEPT !.status = status].status = status
      BY <1>2, <1>5, TagStatuses
    <3> QED BY <1>1, <1>6, <2>2, <3>1
  <2>4. inUse = Usage(call.obj.target)
    BY <1>3, <2>1
  <2>5. StatusTrue(call.obj)
    BY <1>1, <2>1, <2>3, <2>4, Determining DEF status
  <2> QED BY <1>1, <2>2, <2>3, <2>5 DEF StatusTrue, InUseTrue, UsedByDefault, Found, Referent, Installed
<1> QED
  BY <1>8, <1>9, <1>10, NotReconciling DEF Reporting

LEMMA StatusInvariance == TagSpec => []StatusInv
<1>1. TagInit => StatusInv
  <2> SUFFICES ASSUME TagInit
               PROVE  StatusInv
    OBVIOUS
  <2>1. tag = None /\ call.pc = "idle"
    BY DEF TagInit, Idle
  <2>2. GenerationCached /\ TrueAtRest
    BY <2>1 DEF GenerationCached, TrueAtRest
  <2>3. CopyCurrent /\ RevisionFound /\ RevisionInstalled
    BY <2>1 DEF CopyCurrent, Pcs, RevisionFound, Succeeding, RevisionInstalled
  <2> QED BY <2>2, <2>3, TagInvInit DEF StatusInv
<1>2. StatusInv /\ [TagNext]_tagVars => StatusInv'
  <2> SUFFICES ASSUME StatusInv, [TagNext]_tagVars
               PROVE  StatusInv'
    OBVIOUS
  <2>1. TagInv'
    BY TagInvStep DEF StatusInv
  <2>2. Reporting'
    <3>1. CASE TagEnvironment
      BY <3>1, ReportingUsers
    <3>2. CASE TagInformers \/ Restart \/ Elsewhere
      BY <3>2, ReportingInformers
    <3>3. CASE TagController
      BY <3>3, ReportingFinalizers, ReportingReconcile, ReportingStatus DEF TagController
    <3>4. CASE UNCHANGED tagVars
      BY <3>4, Waiting DEF tagVars
    <3> QED BY <3>1, <3>2, <3>3, <3>4 DEF TagNext
  <2> QED BY <2>1, <2>2 DEF StatusInv, Reporting
<1> QED
  BY <1>1, <1>2, PTL DEF TagSpec

(***************************************************************************)
(* When nothing is pending what a tag reports is true, whatever users, the *)
(* other controllers, crashes, faults and the namesake have done before.   *)
(***************************************************************************)
THEOREM StatusIsHonest == TagSpec => []HonestStatus
<1>1. StatusInv => HonestStatus
  BY DEF StatusInv, TrueAtRest, StatusTrue, HonestStatus, Quiet, Found, Installed
<1> QED
  BY <1>1, StatusInvariance, PTL

(***************************************************************************)
(* No tag comes to rest on a missing reference or a failed installation.   *)
(***************************************************************************)
THEOREM FailuresAreRetried == TagSpec => []FailuresRetried
<1>1. StatusInv => FailuresRetried
  BY DEF StatusInv, TrueAtRest, StatusTrue, FailuresRetried, Quiet, Unwrapped
<1> QED
  BY <1>1, StatusInvariance, PTL
=============================================================================
