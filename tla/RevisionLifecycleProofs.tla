---------------------- MODULE RevisionLifecycleProofs ----------------------
(***************************************************************************)
(* What RevisionLifecycle keeps for every set of versions, grace period    *)
(* and number of disturbances: no charts without their finalizer, pruning  *)
(* that hits what it judged, when the grace period is granted, and that no *)
(* work is forgotten, for any amount of cache lag.                         *)
(***************************************************************************)
EXTENDS RevisionLifecycle, WellFoundedInduction, TLAPS

-----------------------------------------------------------------------------
(* Lemmas about the operators.                                             *)

\* SmallestOf picks the least element of a non-empty set of naturals.
LEMMA SmallestIsMember ==
  ASSUME NEW S \in SUBSET Nat, S # {}
  PROVE  SmallestOf(S) \in S
<1>1. PICK x \in S : \A y \in S : <<y, x>> \notin OpToRel(<, Nat)
  BY NatLessThanWellFounded, WFMin, Zenon
<1>2. \A y \in S : <<y, x>> \in Nat \X Nat
  OBVIOUS
<1>3. \A y \in S : ~ (y < x)
  BY <1>1, <1>2, Zenon DEF OpToRel
<1>4. \A y \in S : x <= y
  BY <1>3
<1> QED
  BY <1>4 DEF SmallestOf

LEMMA ActiveNameType ==
  ASSUME NEW i \in Istios
  PROVE  getActiveRevisionName(i) \in RevNames
BY DEF getActiveRevisionName, Istios, RevNames

LEMMA OlderRevType ==
  ASSUME NEW r \in Revisions \cup {None}
  PROVE  /\ OlderRev(r) \in Revisions \cup {None}
         /\ r \in Revisions => OlderRev(r) \in Revisions
BY GraceAssumption DEF OlderRev, Older, Revisions, Ages

LEMMA DeletedType ==
  ASSUME NEW r \in Revisions
  PROVE  Deleted(r) \in Revisions \cup {None}
BY DEF Deleted, Revisions

LEMMA WritesType ==
  ASSUME TypeOK, NEW f \in [RevNames -> Revisions \cup {None}], Writes(f)
  PROVE  /\ rev' \in [RevNames -> Revisions \cup {None}]
         /\ fresh' \in [RevNames -> SUBSET Workers]
BY DEF Writes, TypeOK

LEMMA SpendType ==
  ASSUME TypeOK, NEW kind \in Disturbances, Spend(kind)
  PROVE  spent' \in [Disturbances -> Nat]
BY DEF Spend, TypeOK

LEMMA CallType ==
  ASSUME TypeOK, CallSucceeds \/ CallFails
  PROVE  spent' \in [Disturbances -> Nat]
BY SpendType DEF CallSucceeds, CallFails, TypeOK, Disturbances

LEMMA PatchType ==
  ASSUME TypeOK, NEW changed, PatchGoesOut(changed)
  PROVE  spent' \in [Disturbances -> Nat]
BY SpendType DEF PatchGoesOut, CallSucceeds, TypeOK, Disturbances

\* A new revision's uid differs from that of the copy its worker still holds.
LEMMA NewUidType ==
  ASSUME TypeOK, NEW n \in RevNames, cRev[n] = None
  PROVE  /\ NewUid(n) \in Uids
         /\ rw[n] # IdleRw => NewUid(n) # rw[n].obj.uid
<1>1. \E u \in Uids : /\ cRev[n] # None => u # cRev[n].uid
                      /\ rw[n] # IdleRw => u # rw[n].obj.uid
  <2>1. 1 \in Uids /\ 2 \in Uids
    BY DEF Uids
  <2> QED BY <2>1
<1> QED
  BY <1>1 DEF NewUid

LEMMA NextPruneType ==
  ASSUME TypeOK, iw.pc = "prune"
  PROVE  NextPrune \in Timers
<1> DEFINE S == {Grace - cRev[n].age : n \in Inactive \ Expired} \cup {NoTimer}
<1>1. \A n \in Inactive : Grace - cRev[n].age \in 0 .. Grace
  BY GraceAssumption DEF Inactive, TypeOK, Revisions, Ages
<1>2. S \in SUBSET Timers /\ S # {}
  BY <1>1, GraceAssumption DEF Timers, NoTimer, Expired
<1>3. S \in SUBSET Nat
  BY <1>2, GraceAssumption DEF Timers, NoTimer
<1>4. SmallestOf(S) \in S
  <2> HIDE DEF S
  <2> QED BY <1>2, <1>3, SmallestIsMember
<1> QED
  BY <1>2, <1>4 DEF NextPrune

-----------------------------------------------------------------------------
(* Type correctness.                                                       *)

\* Where the Istio worker goes next is well typed if what it holds is.
LEMMA IstioGoesToType ==
  ASSUME TypeOK, NEW pc \in {"prune", "status"}, NEW failed \in BOOLEAN, NEW next \in Timers,
         iw # IdleIw \/ cIstio # None, IstioGoesTo(pc, failed, next)
  PROVE  iw' \in {IdleIw} \cup [pc: {"prune", "status"}, obj: Istios, err: BOOLEAN, next: Timers]
<1>1. CASE iw = IdleIw
  BY <1>1 DEF IstioGoesTo, TypeOK, IdleIw
<1>2. CASE iw # IdleIw
  BY <1>2 DEF IstioGoesTo, TypeOK, IdleIw
<1> QED BY <1>1, <1>2

LEMMA CapturesType ==
  ASSUME TypeOK, NEW n \in RevNames, cRev[n] # None,
         NEW pc \in {"status", "unfinalize"}, NEW failed \in BOOLEAN, Captures(n, pc, failed)
  PROVE  /\ rw' \in [RevNames -> {IdleRw} \cup Captured]
         /\ fresh' \in [RevNames -> SUBSET Workers]
BY DEF Captures, TypeOK, Captured, Workers

LEMMA TypeEnvironment ==
  TypeOK /\ Environment => TypeOK'
<1> SUFFICES ASSUME TypeOK, Environment PROVE TypeOK'
  OBVIOUS
<1>1. CASE CreateIstio
  BY <1>1, SpendType DEF CreateIstio, operatorVars, ghosts, TypeOK, Istios, Statuses, IstioStates,
     Disturbances, Spend
<1>2. CASE ChangeIstioSpec
  <2>1. istio' \in Istios \cup {None}
    BY <1>2 DEF ChangeIstioSpec, TypeOK, Istios
  <2> QED BY <1>2, <2>1, SpendType DEF ChangeIstioSpec, operatorVars, ghosts, TypeOK, Disturbances
<1>3. CASE DeleteIstio
  BY <1>3, SpendType DEF DeleteIstio, operatorVars, ghosts, TypeOK, Disturbances
<1>4. CASE Crash
  <2>1. queue' \subseteq Keys /\ fresh' \in [RevNames -> SUBSET Workers] /\ timer' \in Timers
    BY <1>4, GraceAssumption DEF Crash, Keys, Workers, NoTimer, Timers
  <2> QED BY <1>4, <2>1, SpendType DEF Crash, ghosts, TypeOK, Disturbances
<1>5. ASSUME NEW n \in RevNames, DeleteRevision(n) PROVE TypeOK'
  <2>1. [rev EXCEPT ![n] = Deleted(@)] \in [RevNames -> Revisions \cup {None}]
    BY <1>5, DeletedType DEF DeleteRevision, TypeOK
  <2> QED BY <1>5, <2>1, WritesType, SpendType DEF DeleteRevision, operatorVars, ghosts, TypeOK, Disturbances
<1>6. ASSUME NEW n \in RevNames, ChangeUsage(n) PROVE TypeOK'
  BY <1>6, SpendType DEF ChangeUsage, ghosts, TypeOK, Disturbances, Keys
<1>7. ASSUME NEW n \in RevNames, OwnedResourceEvent(n) PROVE TypeOK'
  BY <1>7, SpendType DEF OwnedResourceEvent, ghosts, TypeOK, Disturbances, Keys
<1> QED
  BY <1>1, <1>2, <1>3, <1>4, <1>5, <1>6, <1>7 DEF Environment

LEMMA TypeCluster ==
  TypeOK /\ Cluster => TypeOK'
<1> SUFFICES ASSUME TypeOK, Cluster PROVE TypeOK'
  OBVIOUS
<1>1. CASE Tick
  <2>1. /\ rev' \in [RevNames -> Revisions \cup {None}]
        /\ cRev' \in [RevNames -> Revisions \cup {None}]
    BY <1>1, OlderRevType DEF Tick, TypeOK
  <2>2. rw' \in [RevNames -> {IdleRw} \cup Captured]
    <3>1. ASSUME NEW n \in RevNames PROVE rw'[n] \in {IdleRw} \cup Captured
      <4>1. CASE rw[n] = IdleRw
        BY <1>1, <4>1 DEF Tick, IdleRw
      <4>2. CASE rw[n] \in Captured
        BY <1>1, <4>2, OlderRevType DEF Tick, Captured
      <4> QED BY <4>1, <4>2 DEF TypeOK
    <3> QED BY <1>1, <3>1 DEF Tick
  <2>3. \A t \in Timers : Sooner(t) \in Timers
    BY GraceAssumption DEF Timers, Sooner, NoTimer
  <2>4. iw' \in {IdleIw} \cup [pc: {"prune", "status"}, obj: Istios, err: BOOLEAN, next: Timers]
    <3>1. CASE iw.pc = "status"
      BY <1>1, <2>3, <3>1 DEF Tick, TypeOK, IdleIw
    <3>2. CASE iw.pc # "status"
      BY <1>1, <3>2 DEF Tick, TypeOK
    <3> QED BY <3>1, <3>2
  <2>5. timer' \in Timers /\ sinceUse' \in [RevNames -> Ages]
    BY <1>1, <2>3, GraceAssumption DEF Tick, TypeOK, Older, Ages, ReportedUsed
  <2> QED BY <1>1, <2>1, <2>2, <2>4, <2>5 DEF Tick, TypeOK
<1>2. ASSUME NEW n \in RevNames, CollectGarbage(n) PROVE TypeOK'
  <2>1. [rev EXCEPT ![n] = Deleted(@)] \in [RevNames -> Revisions \cup {None}]
    BY <1>2, DeletedType DEF CollectGarbage, TypeOK
  <2> QED BY <1>2, <2>1, WritesType DEF CollectGarbage, operatorVars, ghosts, TypeOK
<1> QED
  BY <1>1, <1>2 DEF Cluster

LEMMA TypeInformers ==
  TypeOK /\ Informers => TypeOK'
<1> SUFFICES ASSUME TypeOK, Informers PROVE TypeOK'
  OBVIOUS
<1>1. CASE DeliverIstio
  BY <1>1 DEF DeliverIstio, ghosts, TypeOK, Keys
<1>2. CASE TimerFires
  BY <1>2, GraceAssumption DEF TimerFires, ghosts, TypeOK, Keys, Timers, NoTimer
<1>3. ASSUME NEW n \in RevNames, DeliverRevision(n) PROVE TypeOK'
  BY <1>3 DEF DeliverRevision, ghosts, TypeOK, Keys, Workers
<1> QED
  BY <1>1, <1>2, <1>3 DEF Informers

LEMMA TypeIstioController ==
  TypeOK /\ IstioController => TypeOK'
<1> SUFFICES ASSUME TypeOK, IstioController PROVE TypeOK'
  OBVIOUS
<1> DEFINE NextIw == {IdleIw} \cup [pc: {"prune", "status"}, obj: Istios, err: BOOLEAN, next: Timers]
<1>0. NoTimer \in Timers
  BY GraceAssumption DEF NoTimer, Timers
<1>1. CASE IstioNotFound
  BY <1>1 DEF IstioNotFound, TakeIstioKey, revisionVars, ghosts, TypeOK, Keys
<1>2. CASE CreateActiveRevision
  <2> DEFINE n == getActiveRevisionName(cIstio)
  <2>1. cIstio \in Istios /\ n \in RevNames /\ cRev[n] = None
    BY <1>2, ActiveNameType DEF CreateActiveRevision, TypeOK
  <2>2. NewRevision(n) \in Revisions
    BY <2>1, NewUidType, GraceAssumption DEF NewRevision, Revisions, Istios, Ages
  <2>3. [rev EXCEPT ![n] = NewRevision(n)] \in [RevNames -> Revisions \cup {None}]
    BY <2>1, <2>2 DEF TypeOK
  <2>4. rev' \in [RevNames -> Revisions \cup {None}] /\ fresh' \in [RevNames -> SUBSET Workers]
    BY <1>2, <2>3, WritesType DEF CreateActiveRevision, TypeOK
  <2>5. iw' \in NextIw
    BY <1>2, <1>0, IstioGoesToType DEF CreateActiveRevision
  <2>6. spent' \in [Disturbances -> Nat]
    BY <1>2, CallType DEF CreateActiveRevision
  <2> QED
    BY <1>2, <2>4, <2>5, <2>6 DEF CreateActiveRevision, TakeIstioKey, revisionVars, ghosts, TypeOK
<1>3. CASE UpdateActiveRevision
  <2> DEFINE n == getActiveRevisionName(cIstio)
  <2>1. cIstio \in Istios /\ n \in RevNames /\ cRev[n] # None
    BY <1>3, ActiveNameType DEF UpdateActiveRevision, TypeOK
  <2>4. rev' \in [RevNames -> Revisions \cup {None}] /\ fresh' \in [RevNames -> SUBSET Workers]
    <3>1. CASE /\ rev[n] # None
               /\ Writes([rev EXCEPT ![n] = [@ EXCEPT !.version = cIstio.version]])
      <4>1. [rev EXCEPT ![n] = [@ EXCEPT !.version = cIstio.version]]
              \in [RevNames -> Revisions \cup {None}]
        BY <2>1, <3>1 DEF TypeOK, Revisions, Istios
      <4> QED BY <3>1, <4>1, WritesType
    <3> QED BY <1>3, <3>1 DEF UpdateActiveRevision, UpdateAccepted, TypeOK
  <2>5. iw' \in NextIw
    BY <1>3, <1>0, IstioGoesToType DEF UpdateActiveRevision
  <2>6. spent' \in [Disturbances -> Nat]
    BY <1>3, CallType DEF UpdateActiveRevision
  <2> QED
    BY <1>3, <2>4, <2>5, <2>6 DEF UpdateActiveRevision, TakeIstioKey, revisionVars, ghosts, TypeOK
<1>4. CASE PruneInactive
  <2>1. NextPrune \in Timers
    BY <1>4, NextPruneType DEF PruneInactive
  <2>2. PICK gone \in SUBSET {n \in Expired : rev[n] # None} :
          /\ Writes([n \in RevNames |-> IF n \in gone THEN Deleted(rev[n]) ELSE rev[n]])
          /\ \/ CallSucceeds /\ IstioGoesTo("status", FALSE, NextPrune)
             \/ (CallSucceeds \/ CallFails) /\ IstioGoesTo("status", TRUE, NoTimer)
    BY <1>4 DEF PruneInactive
  <2>3. [n \in RevNames |-> IF n \in gone THEN Deleted(rev[n]) ELSE rev[n]]
          \in [RevNames -> Revisions \cup {None}]
    BY <2>2, DeletedType DEF TypeOK
  <2>4. rev' \in [RevNames -> Revisions \cup {None}] /\ fresh' \in [RevNames -> SUBSET Workers]
    BY <2>2, <2>3, WritesType
  <2>5. iw' \in NextIw
    <3>1. iw # IdleIw
      BY <1>4 DEF PruneInactive, IdleIw
    <3>2. \/ IstioGoesTo("status", FALSE, NextPrune)
          \/ IstioGoesTo("status", TRUE, NoTimer)
      BY <2>2
    <3> QED BY <1>0, <2>1, <3>1, <3>2, IstioGoesToType
  <2>6. spent' \in [Disturbances -> Nat]
    BY <2>2, CallType
  <2> QED
    BY <1>4, <2>4, <2>5, <2>6 DEF PruneInactive, revisionVars, ghosts, TypeOK
<1>5. CASE UpdateIstioStatus
  <2>1. iw \in [pc: {"prune", "status"}, obj: Istios, err: BOOLEAN, next: Timers]
    BY <1>5 DEF UpdateIstioStatus, TypeOK, IdleIw
  <2>2. DeterminedStatus \in Statuses
    BY <2>1, ActiveNameType DEF DeterminedStatus, Statuses, IstioStates, Istios
  <2>3. istio' \in Istios \cup {None}
    BY <1>5, <2>2 DEF UpdateIstioStatus, TypeOK, Istios
  <2>4. spent' \in [Disturbances -> Nat]
    BY <1>5, CallType, PatchType DEF UpdateIstioStatus
  <2>5. iw.next \in 1 .. Grace => SmallestOf({timer, iw.next}) \in Timers
    <3>1. {timer, iw.next} \in SUBSET Nat /\ {timer, iw.next} # {}
      BY <2>1, GraceAssumption DEF TypeOK, Timers, NoTimer
    <3>2. SmallestOf({timer, iw.next}) \in {timer, iw.next}
      BY <3>1, SmallestIsMember
    <3> QED BY <2>1, <3>2 DEF TypeOK
  <2>6. timer' \in Timers /\ queue' \subseteq Keys
    BY <1>5, <2>5 DEF UpdateIstioStatus, RequeuesIstio, TypeOK, Keys
  <2> QED
    BY <1>5, <2>3, <2>4, <2>6 DEF UpdateIstioStatus, revisionVars, ghosts, TypeOK
<1> QED
  BY <1>1, <1>2, <1>3, <1>4, <1>5 DEF IstioController

LEMMA TypeRevisionController ==
  ASSUME TypeOK, NEW n \in RevNames, RevisionController(n)
  PROVE  TypeOK'
<1>1. CASE RevisionNotFound(n)
  BY <1>1 DEF RevisionNotFound, Processed, istioVars, ghosts, TypeOK, Keys
<1>2. CASE AddFinalizer(n)
  <2>1. rev' \in [RevNames -> Revisions \cup {None}] /\ fresh' \in [RevNames -> SUBSET Workers]
    <3>1. CASE /\ rev[n] # None
               /\ Writes([rev EXCEPT ![n] = [@ EXCEPT !.fin = TRUE]])
      <4>0. rev[n] \in Revisions
        BY <3>1 DEF TypeOK
      <4>1. [rev[n] EXCEPT !.fin = TRUE] \in Revisions
        BY <4>0 DEF Revisions
      <4>2. [rev EXCEPT ![n] = [@ EXCEPT !.fin = TRUE]] \in [RevNames -> Revisions \cup {None}]
        BY <4>1 DEF TypeOK
      <4> QED BY <3>1, <4>2, WritesType
    <3> QED BY <1>2, <3>1 DEF AddFinalizer, UpdateAccepted, TypeOK
  <2> QED
    BY <1>2, <2>1, CallType
    DEF AddFinalizer, TakeRevisionKey, Processed, Retry, istioVars, ghosts, TypeOK, Keys
<1>3. CASE Finalize(n)
  <2>1. rw' \in [RevNames -> {IdleRw} \cup Captured] /\ fresh' \in [RevNames -> SUBSET Workers]
    BY <1>3, CapturesType DEF Finalize, TypeOK
  <2>2. release' \in [RevNames -> BOOLEAN]
    BY <1>3 DEF Finalize, TypeOK
  <2>3. queue' \subseteq Keys
    BY <1>3 DEF Finalize, Processed, Retry, TypeOK
  <2>4. spent' \in [Disturbances -> Nat]
    BY <1>3, CallType DEF Finalize
  <2> QED BY <1>3, <2>1, <2>2, <2>3, <2>4 DEF Finalize, istioVars, ghosts, TypeOK
<1>4. CASE RemoveFinalizer(n)
  <2>1. [rev EXCEPT ![n] = None] \in [RevNames -> Revisions \cup {None}]
    BY DEF TypeOK
  <2>2. rev' \in [RevNames -> Revisions \cup {None}] /\ fresh' \in [RevNames -> SUBSET Workers]
    BY <1>4, <2>1, WritesType DEF RemoveFinalizer, TypeOK
  <2>3. rw' \in [RevNames -> {IdleRw} \cup Captured] /\ queue' \subseteq Keys
    BY <1>4 DEF RemoveFinalizer, TypeOK, Keys
  <2>4. spent' \in [Disturbances -> Nat]
    BY <1>4, CallType DEF RemoveFinalizer
  <2> QED BY <1>4, <2>2, <2>3, <2>4 DEF RemoveFinalizer, istioVars, ghosts, TypeOK
<1>5. CASE InstallCharts(n)
  <2>1. rw' \in [RevNames -> {IdleRw} \cup Captured] /\ fresh' \in [RevNames -> SUBSET Workers]
    BY <1>5, CapturesType DEF InstallCharts
  <2>2. release' \in [RevNames -> BOOLEAN]
    BY <1>5 DEF InstallCharts, TypeOK
  <2>3. spent' \in [Disturbances -> Nat]
    BY <1>5, CallType DEF InstallCharts
  <2> QED BY <1>5, <2>1, <2>2, <2>3 DEF InstallCharts, Processed, istioVars, ghosts, TypeOK
<1>6. CASE UpdateRevisionStatus(n)
  <2> DEFINE new == WithInUse(rw[n].obj, DeterminedInUse(n))
  <2>1. rw[n] \in Captured
    BY <1>6 DEF UpdateRevisionStatus, TypeOK, IdleRw
  <2>2. new.inUse \in {"True", "False"} /\ new.age \in Ages
    BY <2>1, GraceAssumption DEF WithInUse, DeterminedInUse, Captured, Revisions, Ages
  <2>3. rev' \in [RevNames -> Revisions \cup {None}] /\ fresh' \in [RevNames -> SUBSET Workers]
    <3>1. CASE rev[n] # None /\
               Writes([rev EXCEPT ![n] = [@ EXCEPT !.inUse = new.inUse, !.age = new.age]])
      <4> DEFINE newRev == [rev[n] EXCEPT !.inUse = new.inUse, !.age = new.age]
      <4>1. rev \in [RevNames -> Revisions \cup {None}] /\ rev[n] \in Revisions
        BY <3>1 DEF TypeOK
      <4>2. newRev \in Revisions
        BY <4>1, <2>2 DEF Revisions
      <4>3. Writes([rev EXCEPT ![n] = newRev])
        BY <3>1
      <4> HIDE DEF newRev
      <4>4. [rev EXCEPT ![n] = newRev] \in [RevNames -> Revisions \cup {None}]
        BY <4>1, <4>2
      <4> QED BY <4>3, <4>4, WritesType
    <3> QED BY <1>6, <3>1 DEF UpdateRevisionStatus, TypeOK
  <2>4. rw' \in [RevNames -> {IdleRw} \cup Captured] /\ queue' \subseteq Keys
    BY <1>6 DEF UpdateRevisionStatus, TypeOK, Keys
  <2>5. spent' \in [Disturbances -> Nat]
    BY <1>6, CallType, PatchType DEF UpdateRevisionStatus
  <2>6. sinceUse' \in [RevNames -> Ages]
    BY <1>6, GraceAssumption DEF UpdateRevisionStatus, ghosts, TypeOK, Ages
  <2>7. overwritten' \in [RevNames -> BOOLEAN]
    <3>1. (rw[n].obj.inUse = DeterminedInUse(n) /\ (rw[n].old \/ overwritten[n])) \in BOOLEAN
      OBVIOUS
    <3> QED BY <1>6, <3>1 DEF UpdateRevisionStatus, ghosts, TypeOK
  <2> QED BY <1>6, <2>3, <2>4, <2>5, <2>6, <2>7 DEF UpdateRevisionStatus, istioVars, TypeOK
<1> QED
  BY <1>1, <1>2, <1>3, <1>4, <1>5, <1>6 DEF RevisionController

\* Every variable keeps its type: TypeOK is an invariant of every instance.
THEOREM TypeCorrect == Spec => []TypeOK
<1>1. Init => TypeOK
  BY GraceAssumption DEF Init, TypeOK, IdleIw, IdleRw, NoTimer, Timers, Workers, Ages
<1>2. TypeOK /\ [Next]_vars => TypeOK'
  <2>1. TypeOK /\ Next => TypeOK'
    BY TypeEnvironment, TypeCluster, TypeInformers, TypeIstioController, TypeRevisionController
    DEF Next
  <2>2. TypeOK /\ UNCHANGED vars => TypeOK'
    BY DEF vars, ghosts, TypeOK
  <2> QED BY <2>1, <2>2
<1> QED
  BY <1>1, <1>2, PTL DEF Spec

-----------------------------------------------------------------------------
(* The inductive invariant behind NoOrphanRelease.                         *)

\* The cached copy, however old, is of the incarnation that exists, and has
\* no finalizer or deletion mark that the server's does not have.
CacheFollows ==
  \A n \in RevNames :
    cRev[n] # None /\ rev[n] # None =>
      /\ cRev[n].uid = rev[n].uid /\ cRev[n].owner = rev[n].owner
      /\ cRev[n].fin => rev[n].fin
      /\ cRev[n].deleting => rev[n].deleting

\* A copy that was not yet being deleted and had the finalizer means that the
\* revision still exists: only a worker that saw the mark removes it.
FinalizerHolds ==
  \A n \in RevNames :
    cRev[n] # None /\ cRev[n].fin /\ ~ cRev[n].deleting => rev[n] # None

\* A worker about to remove the finalizer has uninstalled the charts, and the
\* copies of the incarnation it finalizes all show the deletion mark.
Unfinalizing ==
  \A n \in RevNames :
    rw[n].pc = "unfinalize" =>
      /\ ~ release[n]
      /\ cRev[n] # None /\ cRev[n].uid = rw[n].obj.uid => cRev[n].deleting
      /\ rev[n] # None /\ rev[n].uid = rw[n].obj.uid => rev[n].deleting
      /\ rev[n] # None /\ "worker" \in fresh[n] => rev[n].uid = rw[n].obj.uid

IInv == TypeOK /\ NoOrphanRelease /\ CacheFollows /\ FinalizerHolds /\ Unfinalizing

\* What most steps do to a revision on the server: they keep its identity,
\* its finalizer and its deletion mark, or drop one that has no finalizer.
Gentle(r, new) ==
  \/ new = r
  \/ /\ r # None /\ new # None
     /\ new.uid = r.uid /\ new.owner = r.owner
     /\ r.fin => new.fin
     /\ r.deleting => new.deleting
  \/ r # None /\ ~ r.fin /\ new = None

LEMMA DeletedIsGentle ==
  ASSUME NEW r \in Revisions
  PROVE  Gentle(r, Deleted(r))
<1>1. CASE r.fin
  <2>1. Deleted(r) \in Revisions /\ Deleted(r) = [r EXCEPT !.deleting = TRUE]
    BY <1>1 DEF Deleted, Revisions
  <2> QED BY <2>1, NoneAssumption DEF Gentle, Revisions
<1>2. CASE ~ r.fin
  BY <1>2, NoneAssumption DEF Deleted, Gentle, Revisions
<1> QED BY <1>1, <1>2

LEMMA GentleStep ==
  ASSUME IInv, TypeOK',
         \A n \in RevNames : Gentle(rev[n], rev'[n]),
         \A n \in RevNames : "worker" \in fresh'[n] => "worker" \in fresh[n],
         cRev' = cRev, release' = release,
         \A n \in RevNames : rw'[n] = rw[n] \/ rw'[n] = IdleRw
  PROVE  IInv'
<1>1. NoOrphanRelease'
  BY DEF IInv, NoOrphanRelease, Gentle
<1>2. CacheFollows'
  BY DEF IInv, CacheFollows, Gentle
<1>3. FinalizerHolds'
  BY DEF IInv, CacheFollows, FinalizerHolds, Gentle
<1>4. Unfinalizing'
  BY DEF IInv, Unfinalizing, Gentle, IdleRw
<1> QED
  BY <1>1, <1>2, <1>3, <1>4 DEF IInv

\* A write gives nobody the current resourceVersion.
LEMMA WritesFresh ==
  ASSUME TypeOK, NEW f \in [RevNames -> Revisions \cup {None}], Writes(f), NEW n \in RevNames
  PROVE  "worker" \in fresh'[n] => /\ "worker" \in fresh[n]
                                   /\ rev'[n] = rev[n]
BY DEF Writes, TypeOK

\* A write to one revision that is gentle on it is gentle on all.
LEMMA GentleWrite ==
  ASSUME IInv, TypeOK', NEW n \in RevNames, NEW new \in Revisions \cup {None},
         Gentle(rev[n], new), Writes([rev EXCEPT ![n] = new]),
         cRev' = cRev, release' = release,
         \A m \in RevNames : rw'[m] = rw[m] \/ rw'[m] = IdleRw
  PROVE  IInv'
<1>1. [rev EXCEPT ![n] = new] \in [RevNames -> Revisions \cup {None}]
  BY DEF IInv, TypeOK
<1>2. \A m \in RevNames : Gentle(rev[m], rev'[m])
  BY DEF Writes, Gentle, IInv, TypeOK
<1>3. \A m \in RevNames : "worker" \in fresh'[m] => "worker" \in fresh[m]
  BY <1>1, WritesFresh DEF IInv
<1> QED
  BY <1>2, <1>3, GentleStep

\* A step that leaves revisions, copies, releases and workers alone.
LEMMA IdleStep ==
  ASSUME IInv, TypeOK', rev' = rev, cRev' = cRev, release' = release, fresh' = fresh,
         \A m \in RevNames : rw'[m] = rw[m] \/ rw'[m] = IdleRw
  PROVE  IInv'
BY GentleStep DEF Gentle

LEMMA InvTick ==
  ASSUME IInv, TypeOK', Tick
  PROVE  IInv'
<1>1. ASSUME NEW r \in Revisions \cup {None}
      PROVE  /\ (OlderRev(r) = None) <=> (r = None)
             /\ r # None => /\ OlderRev(r).uid = r.uid /\ OlderRev(r).owner = r.owner
                            /\ OlderRev(r).fin = r.fin /\ OlderRev(r).deleting = r.deleting
  <2>1. r # None => OlderRev(r) \in Revisions
    BY OlderRevType
  <2> QED BY <2>1, NoneAssumption DEF OlderRev, Revisions
<1>2. /\ \A n \in RevNames : rev'[n] = OlderRev(rev[n]) /\ cRev'[n] = OlderRev(cRev[n])
      /\ fresh' = fresh /\ release' = release
      /\ \A n \in RevNames : rev[n] \in Revisions \cup {None} /\ cRev[n] \in Revisions \cup {None}
  BY DEF Tick, IInv, TypeOK
<1>3. \A n \in RevNames :
        rw'[n].pc = "unfinalize" =>
          /\ rw[n].pc = "unfinalize"
          /\ rw'[n].obj.uid = rw[n].obj.uid
  <2>1. ASSUME NEW n \in RevNames, rw'[n].pc = "unfinalize", rw[n].pc # "idle"
        PROVE  rw[n].pc = "unfinalize" /\ rw'[n].obj.uid = rw[n].obj.uid
    <3>1. rw[n] \in Captured /\ rw'[n] = [rw[n] EXCEPT !.obj = OlderRev(@)]
      BY <2>1 DEF Tick, IInv, TypeOK, IdleRw
    <3>2. rw[n].obj \in Revisions /\ rw'[n].pc = rw[n].pc /\ rw'[n].obj = OlderRev(rw[n].obj)
      BY <3>1 DEF Captured
    <3> QED BY <2>1, <3>2, <1>1, NoneAssumption
  <2>2. ASSUME NEW n \in RevNames, rw[n].pc = "idle" PROVE rw'[n].pc = "idle"
    BY <2>2 DEF Tick
  <2> QED BY <2>1, <2>2
<1>4. NoOrphanRelease'
  BY <1>1, <1>2 DEF IInv, NoOrphanRelease
<1>5. CacheFollows'
  BY <1>1, <1>2 DEF IInv, CacheFollows
<1>6. FinalizerHolds'
  BY <1>1, <1>2 DEF IInv, FinalizerHolds
<1>7. Unfinalizing'
  BY <1>1, <1>2, <1>3 DEF IInv, Unfinalizing
<1> QED
  BY <1>4, <1>5, <1>6, <1>7 DEF IInv

LEMMA InvEnvironment ==
  ASSUME IInv, TypeOK', Environment
  PROVE  IInv'
<1>1. CASE CreateIstio
  BY <1>1, IdleStep DEF CreateIstio, operatorVars
<1>2. CASE ChangeIstioSpec
  BY <1>2, IdleStep DEF ChangeIstioSpec, operatorVars
<1>3. CASE DeleteIstio
  BY <1>3, IdleStep DEF DeleteIstio, operatorVars
<1>4. CASE Crash
  <2>1. /\ rev' = rev /\ release' = release /\ cRev' = rev
        /\ \A n \in RevNames : rw'[n].pc # "unfinalize"
    BY <1>4 DEF Crash, IdleRw
  <2> QED BY <2>1 DEF IInv, NoOrphanRelease, CacheFollows, FinalizerHolds, Unfinalizing
<1>5. ASSUME NEW n \in RevNames, DeleteRevision(n) PROVE IInv'
  <2>1. rev[n] \in Revisions
    BY <1>5 DEF DeleteRevision, IInv, TypeOK
  <2>2. Gentle(rev[n], Deleted(rev[n])) /\ Deleted(rev[n]) \in Revisions \cup {None}
    BY <2>1, DeletedIsGentle, DeletedType
  <2> QED BY <1>5, <2>2, GentleWrite DEF DeleteRevision, operatorVars
<1>6. ASSUME NEW n \in RevNames, ChangeUsage(n) PROVE IInv'
  BY <1>6, IdleStep DEF ChangeUsage
<1>7. ASSUME NEW n \in RevNames, OwnedResourceEvent(n) PROVE IInv'
  BY <1>7, IdleStep DEF OwnedResourceEvent
<1> QED
  BY <1>1, <1>2, <1>3, <1>4, <1>5, <1>6, <1>7 DEF Environment

LEMMA InvCluster ==
  ASSUME IInv, TypeOK', Cluster
  PROVE  IInv'
<1>1. ASSUME NEW n \in RevNames, CollectGarbage(n) PROVE IInv'
  <2>1. rev[n] \in Revisions
    BY <1>1 DEF CollectGarbage, IInv, TypeOK
  <2>2. Gentle(rev[n], Deleted(rev[n])) /\ Deleted(rev[n]) \in Revisions \cup {None}
    BY <2>1, DeletedIsGentle, DeletedType
  <2> QED BY <1>1, <2>2, GentleWrite DEF CollectGarbage, operatorVars
<1> QED
  BY <1>1, InvTick DEF Cluster

LEMMA InvInformers ==
  ASSUME IInv, TypeOK', Informers
  PROVE  IInv'
<1>1. CASE DeliverIstio
  BY <1>1, IdleStep DEF DeliverIstio
<1>2. CASE TimerFires
  BY <1>2, IdleStep DEF TimerFires
<1>3. ASSUME NEW n \in RevNames, DeliverRevision(n) PROVE IInv'
  <2>1. /\ rev' = rev /\ release' = release /\ rw' = rw
        /\ \A m \in RevNames : /\ cRev'[m] = IF m = n THEN rev[m] ELSE cRev[m]
                               /\ "worker" \in fresh'[m] => "worker" \in fresh[m]
    BY <1>3 DEF DeliverRevision, IInv, TypeOK
  <2> QED BY <2>1 DEF IInv, NoOrphanRelease, CacheFollows, FinalizerHolds, Unfinalizing
<1> QED
  BY <1>1, <1>2, <1>3 DEF Informers

LEMMA InvIstioController ==
  ASSUME IInv, TypeOK', IstioController
  PROVE  IInv'
<1>1. CASE IstioNotFound
  BY <1>1, IdleStep DEF IstioNotFound, revisionVars
<1>2. CASE CreateActiveRevision
  <2> DEFINE n == getActiveRevisionName(cIstio)
             new == NewRevision(n)
  <2>1. n \in RevNames /\ cRev[n] = None
    BY <1>2, ActiveNameType DEF CreateActiveRevision, IInv, TypeOK
  <2>2. CASE rev' = rev /\ fresh' = fresh
    BY <1>2, <2>2, IdleStep DEF CreateActiveRevision, revisionVars
  <2>3. CASE rev[n] = None /\ Writes([rev EXCEPT ![n] = new])
    <3>1. /\ new.uid = NewUid(n) /\ ~ new.fin
      BY DEF NewRevision
    <3>2. rw[n] # IdleRw => new.uid # rw[n].obj.uid
      BY <2>1, <3>1, NewUidType DEF IInv
    <3>3. /\ \A m \in RevNames : rev'[m] = IF m = n THEN new ELSE rev[m]
          /\ \A m \in RevNames : "worker" \in fresh'[m] => "worker" \in fresh[m]
          /\ cRev' = cRev /\ release' = release /\ rw' = rw
      BY <1>2, <2>3, WritesFresh DEF CreateActiveRevision, revisionVars, Writes, IInv, TypeOK
    <3>4. NoOrphanRelease' /\ CacheFollows' /\ FinalizerHolds'
      BY <2>1, <2>3, <3>3 DEF IInv, NoOrphanRelease, CacheFollows, FinalizerHolds
    <3>5. "worker" \in fresh'[n] => rev'[n] = None
      BY <2>1, <2>3 DEF Writes, IInv, TypeOK
    <3>6. Unfinalizing'
      BY <2>1, <3>2, <3>3, <3>5 DEF IInv, Unfinalizing, IdleRw
    <3> QED BY <3>4, <3>6 DEF IInv
  <2> QED
    BY <1>2, <2>2, <2>3 DEF CreateActiveRevision
<1>3. CASE UpdateActiveRevision
  <2> DEFINE n == getActiveRevisionName(cIstio)
             new == [rev[n] EXCEPT !.version = cIstio.version]
  <2>1. n \in RevNames /\ cIstio \in Istios
    BY <1>3, ActiveNameType DEF UpdateActiveRevision, IInv, TypeOK
  <2>2. CASE rev' = rev /\ fresh' = fresh
    BY <1>3, <2>2, IdleStep DEF UpdateActiveRevision, revisionVars
  <2>3. CASE rev[n] # None /\ Writes([rev EXCEPT ![n] = new])
    <3>1. rev[n] \in Revisions
      BY <2>1, <2>3 DEF IInv, TypeOK
    <3>2. new \in Revisions
      BY <2>1, <3>1 DEF Revisions, Istios
    <3>3. Gentle(rev[n], new)
      BY <3>1, <3>2, NoneAssumption DEF Gentle, Revisions
    <3>4. cRev' = cRev /\ release' = release /\ rw' = rw
      BY <1>3 DEF UpdateActiveRevision, revisionVars
    <3> HIDE DEF n, new
    <3> QED BY <2>1, <2>3, <3>2, <3>3, <3>4, GentleWrite
  <2> QED
    BY <1>3, <2>2, <2>3 DEF UpdateActiveRevision, UpdateAccepted
<1>4. CASE PruneInactive
  <2>1. PICK gone \in SUBSET {n \in Expired : rev[n] # None} :
          Writes([n \in RevNames |-> IF n \in gone THEN Deleted(rev[n]) ELSE rev[n]])
    BY <1>4 DEF PruneInactive
  <2> DEFINE f == [n \in RevNames |-> IF n \in gone THEN Deleted(rev[n]) ELSE rev[n]]
  <2>2. \A n \in gone : rev[n] \in Revisions
    BY <2>1 DEF Expired, Inactive, IInv, TypeOK
  <2>3. f \in [RevNames -> Revisions \cup {None}]
    BY <2>2, DeletedType DEF IInv, TypeOK
  <2>4. \A n \in RevNames : Gentle(rev[n], f[n])
    BY <2>2, DeletedIsGentle DEF Gentle
  <2>5. rev' = f /\ \A n \in RevNames : "worker" \in fresh'[n] => "worker" \in fresh[n]
    BY <2>1, <2>3, WritesFresh DEF Writes, IInv
  <2>6. cRev' = cRev /\ release' = release /\ rw' = rw
    BY <1>4 DEF PruneInactive, revisionVars
  <2> HIDE DEF f
  <2> QED BY <2>4, <2>5, <2>6, GentleStep
<1>5. CASE UpdateIstioStatus
  BY <1>5, IdleStep DEF UpdateIstioStatus, revisionVars
<1> QED
  BY <1>1, <1>2, <1>3, <1>4, <1>5 DEF IstioController

\* A worker that starts to remove a finalizer read a copy with the mark.
LEMMA InvFinalize ==
  ASSUME IInv, TypeOK', NEW n \in RevNames, Finalize(n)
  PROVE  IInv'
<1>1. CASE fresh' = fresh /\ rw' = rw
  <2>1. /\ rev' = rev /\ cRev' = cRev
        /\ \A m \in RevNames : release'[m] => release[m]
    BY <1>1 DEF Finalize, istioVars, IInv, TypeOK
  <2> QED
    BY <1>1, <2>1 DEF IInv, NoOrphanRelease, CacheFollows, FinalizerHolds, Unfinalizing
<1>2. CASE release' = [release EXCEPT ![n] = FALSE] /\ Captures(n, "unfinalize", FALSE)
  <2>1. rev' = rev /\ cRev' = cRev /\ cRev[n] # None /\ cRev[n].deleting
    BY <1>2 DEF Finalize, istioVars
  <2>2. /\ rw'[n].pc = "unfinalize" /\ rw'[n].obj = cRev[n]
        /\ \A m \in RevNames \ {n} : rw'[m] = rw[m] /\ fresh'[m] = fresh[m]
        /\ \A m \in RevNames : release'[m] => release[m]
        /\ ~ release'[n]
    BY <1>2 DEF Captures, IInv, TypeOK
  <2>3. NoOrphanRelease' /\ CacheFollows' /\ FinalizerHolds'
    BY <2>1, <2>2 DEF IInv, NoOrphanRelease, CacheFollows, FinalizerHolds
  <2>4. Unfinalizing'
    <3>1. ASSUME NEW m \in RevNames, m # n, rw'[m].pc = "unfinalize"
          PROVE  /\ ~ release'[m]
                 /\ cRev'[m] # None /\ cRev'[m].uid = rw'[m].obj.uid => cRev'[m].deleting
                 /\ rev'[m] # None /\ rev'[m].uid = rw'[m].obj.uid => rev'[m].deleting
                 /\ rev'[m] # None /\ "worker" \in fresh'[m] => rev'[m].uid = rw'[m].obj.uid
      BY <2>1, <2>2, <3>1 DEF IInv, Unfinalizing
    <3>2. rev[n] # None => rev[n].uid = cRev[n].uid /\ rev[n].deleting
      BY <2>1 DEF IInv, CacheFollows
    <3> QED BY <2>1, <2>2, <3>1, <3>2 DEF Unfinalizing
  <2> QED BY <2>3, <2>4 DEF IInv
<1> QED
  BY <1>1, <1>2 DEF Finalize

\* Removing the finalizer: the copy is current, so the revision is the one
\* whose charts were uninstalled, and no copy of it lacks the deletion mark.
LEMMA InvRemoveFinalizer ==
  ASSUME IInv, TypeOK', NEW n \in RevNames, RemoveFinalizer(n)
  PROVE  IInv'
<1>1. /\ cRev' = cRev /\ release' = release /\ rw'[n] = IdleRw
      /\ \A m \in RevNames : rw'[m] = rw[m] \/ rw'[m] = IdleRw
  BY DEF RemoveFinalizer, istioVars, IInv, TypeOK
<1>2. CASE rev' = rev /\ fresh' = fresh
  BY <1>1, <1>2, IdleStep
<1>3. CASE UpdateAccepted(n, "worker") /\ Writes([rev EXCEPT ![n] = None])
  <2>1. rev[n] # None /\ rev[n].uid = rw[n].obj.uid /\ ~ release[n]
    BY <1>3 DEF UpdateAccepted, RemoveFinalizer, IInv, Unfinalizing
  <2>2. \A m \in RevNames : /\ rev'[m] = IF m = n THEN None ELSE rev[m]
                            /\ "worker" \in fresh'[m] => "worker" \in fresh[m]
    BY <1>3 DEF Writes, IInv, TypeOK
  <2>3. cRev[n] # None => cRev[n].deleting
    BY <2>1 DEF RemoveFinalizer, IInv, CacheFollows, Unfinalizing
  <2>4. NoOrphanRelease' /\ CacheFollows' /\ FinalizerHolds'
    BY <1>1, <2>1, <2>2, <2>3 DEF IInv, NoOrphanRelease, CacheFollows, FinalizerHolds
  <2>5. Unfinalizing'
    BY <1>1, <2>2 DEF IInv, Unfinalizing, IdleRw
  <2> QED BY <2>4, <2>5 DEF IInv
<1> QED
  BY <1>2, <1>3 DEF RemoveFinalizer

\* An install starts from a copy with the finalizer and without the mark;
\* the server's revision exists and has the finalizer too.
LEMMA InvInstallCharts ==
  ASSUME IInv, TypeOK', NEW n \in RevNames, InstallCharts(n)
  PROVE  IInv'
<1>1. /\ rev' = rev /\ cRev' = cRev
      /\ cRev[n] # None /\ ~ cRev[n].deleting /\ cRev[n].fin
      /\ rw[n] = IdleRw
  BY DEF InstallCharts, TakeRevisionKey, HasFinalizer, istioVars
<1>2. rev[n] # None /\ rev[n].fin
  BY <1>1 DEF IInv, CacheFollows, FinalizerHolds
<1>3. /\ rw'[n].pc = "status"
      /\ \A m \in RevNames \ {n} : rw'[m] = rw[m] /\ fresh'[m] = fresh[m] /\ release'[m] = release[m]
  BY DEF InstallCharts, Captures, IInv, TypeOK
<1>4. NoOrphanRelease' /\ CacheFollows' /\ FinalizerHolds'
  BY <1>1, <1>2, <1>3 DEF IInv, NoOrphanRelease, CacheFollows, FinalizerHolds
<1>5. Unfinalizing'
  BY <1>1, <1>3 DEF IInv, Unfinalizing
<1> QED BY <1>4, <1>5 DEF IInv

LEMMA InvRevisionController ==
  ASSUME IInv, TypeOK', NEW n \in RevNames, RevisionController(n)
  PROVE  IInv'
<1>1. CASE RevisionNotFound(n)
  BY <1>1, IdleStep DEF RevisionNotFound, istioVars
<1>2. CASE AddFinalizer(n)
  <2>1. cRev' = cRev /\ release' = release /\ rw' = rw
    BY <1>2 DEF AddFinalizer, istioVars
  <2>2. CASE rev' = rev /\ fresh' = fresh
    BY <2>1, <2>2, IdleStep
  <2>3. CASE rev[n] # None /\ Writes([rev EXCEPT ![n] = [@ EXCEPT !.fin = TRUE]])
    <3> DEFINE new == [rev[n] EXCEPT !.fin = TRUE]
    <3>1. rev[n] \in Revisions
      BY <2>3 DEF IInv, TypeOK
    <3>2. new \in Revisions
      BY <3>1 DEF Revisions
    <3>3. Gentle(rev[n], new)
      BY <3>1, <3>2, NoneAssumption DEF Gentle, Revisions
    <3>4. Writes([rev EXCEPT ![n] = new])
      BY <2>3
    <3> HIDE DEF new
    <3> QED BY <2>1, <3>2, <3>3, <3>4, GentleWrite
  <2> QED BY <1>2, <2>2, <2>3 DEF AddFinalizer, UpdateAccepted
<1>3. CASE UpdateRevisionStatus(n)
  <2> DEFINE inUse == WithInUse(rw[n].obj, DeterminedInUse(n)).inUse
             age   == WithInUse(rw[n].obj, DeterminedInUse(n)).age
             new   == [rev[n] EXCEPT !.inUse = inUse, !.age = age]
  <2>1. /\ cRev' = cRev /\ release' = release
        /\ \A m \in RevNames : rw'[m] = rw[m] \/ rw'[m] = IdleRw
    BY <1>3 DEF UpdateRevisionStatus, istioVars, IInv, TypeOK
  <2>2. CASE rev' = rev /\ fresh' = fresh
    BY <2>1, <2>2, IdleStep
  <2>3. CASE rev[n] # None /\ Writes([rev EXCEPT ![n] = new])
    <3>1. rev[n] \in Revisions
      BY <2>3 DEF IInv, TypeOK
    <3>2. inUse \in {"True", "False"} /\ age \in Ages
      BY <1>3, GraceAssumption DEF UpdateRevisionStatus, WithInUse, DeterminedInUse,
         IInv, TypeOK, IdleRw, Captured, Revisions, Ages
    <3> HIDE DEF inUse, age
    <3>3. new \in Revisions
      BY <3>1, <3>2 DEF Revisions
    <3>5. Gentle(rev[n], new)
      BY <3>1, <3>3, NoneAssumption DEF Gentle, Revisions
    <3> HIDE DEF new
    <3> QED BY <2>1, <2>3, <3>3, <3>5, GentleWrite
  <2> QED BY <1>3, <2>2, <2>3 DEF UpdateRevisionStatus
<1> QED
  BY <1>1, <1>2, <1>3, InvFinalize, InvRemoveFinalizer, InvInstallCharts DEF RevisionController

LEMMA InvNext ==
  IInv /\ [Next]_vars => IInv'
<1> SUFFICES ASSUME IInv, [Next]_vars PROVE IInv'
  OBVIOUS
<1>1. TypeOK'
  BY TypeEnvironment, TypeCluster, TypeInformers, TypeIstioController, TypeRevisionController
  DEF Next, IInv, vars, ghosts, TypeOK
<1>2. CASE Next
  BY <1>1, <1>2, InvEnvironment, InvCluster, InvInformers, InvIstioController,
     InvRevisionController
  DEF Next
<1>3. CASE UNCHANGED vars
  BY <1>1, <1>3, IdleStep DEF vars
<1> QED
  BY <1>2, <1>3

LEMMA InvInit == Init => IInv
BY GraceAssumption
DEF Init, IInv, TypeOK, NoOrphanRelease, CacheFollows, FinalizerHolds, Unfinalizing,
    IdleIw, IdleRw, NoTimer, Timers, Workers, Ages

LEMMA Inductive == Spec => []IInv
BY InvInit, InvNext, PTL DEF Spec

-----------------------------------------------------------------------------
(* The theorems.                                                           *)

\* No Helm release outlives its IstioRevision: while one is installed, the
\* revision exists on the API server and carries the operator's finalizer,
\* with any cache lag, conflicts, failing calls and restarts.
THEOREM NoOrphans == Spec => []NoOrphanRelease
BY Inductive, PTL DEF IInv

\* Only PruneInactive takes the Istio worker from pruning to the status.
LEMMA OnlyPruneInactivePrunes ==
  ASSUME TypeOK, [Next]_vars, iw.pc = "prune", iw'.pc = "status"
  PROVE  PruneInactive
<1>1. iw' # iw /\ iw # IdleIw /\ iw' # IdleIw
  BY DEF IdleIw
<1>2. ~ UNCHANGED vars
  BY <1>1 DEF vars
<1>3. ~ Environment
  BY <1>1 DEF Environment, CreateIstio, ChangeIstioSpec, DeleteIstio, Crash, DeleteRevision,
     ChangeUsage, OwnedResourceEvent, operatorVars
<1>4. ~ Cluster
  BY <1>1 DEF Cluster, Tick, CollectGarbage, operatorVars
<1>5. ~ Informers
  BY <1>1 DEF Informers, DeliverIstio, TimerFires, DeliverRevision
<1>6. \A n \in RevNames : ~ RevisionController(n)
  BY <1>1 DEF RevisionController, RevisionNotFound, AddFinalizer, Finalize, RemoveFinalizer,
     InstallCharts, UpdateRevisionStatus, istioVars
<1>7. IstioController
  BY <1>2, <1>3, <1>4, <1>5, <1>6 DEF Next
<1> QED
  BY <1>1, <1>7 DEF IstioController, IstioNotFound, CreateActiveRevision, UpdateActiveRevision,
     TakeIstioKey, UpdateIstioStatus

\* PruneInactive judges a cached copy and deletes by name, without a
\* precondition; still it only ever deletes the incarnation it judged, which
\* the Istio being reconciled owns.
THEOREM PruneHitsItsTarget == Spec => PruneDeletesWhatItJudged
<1> DEFINE Hit == \A n \in RevNames :
                    PruningOf(n) => /\ cRev[n] # None /\ cRev[n].uid = rev[n].uid
                                    /\ rev[n].owner = iw.obj.uid
<1>1. IInv /\ [Next]_vars => Hit
  <2> SUFFICES ASSUME IInv, [Next]_vars, NEW n \in RevNames, PruningOf(n)
               PROVE  /\ cRev[n] # None /\ cRev[n].uid = rev[n].uid
                      /\ rev[n].owner = iw.obj.uid
    OBVIOUS
  <2>1. PruneInactive
    BY OnlyPruneInactivePrunes DEF PruningOf, IInv
  <2>2. rev[n] # None /\ rev'[n] # rev[n]
    BY DEF PruningOf
  <2>3. n \in Expired
    BY <2>1, <2>2 DEF PruneInactive, Writes, IInv, TypeOK
  <2>4. cRev[n] # None /\ cRev[n].owner = iw.obj.uid
    BY <2>3 DEF Expired, Inactive, isOwnedRevision
  <2> QED
    BY <2>2, <2>4 DEF IInv, CacheFollows
<1>2. [][Hit]_vars => PruneDeletesWhatItJudged
  BY PTL DEF PruneDeletesWhatItJudged
<1> QED
  BY <1>1, <1>2, Inductive, PTL DEF Spec

-----------------------------------------------------------------------------
(* The grace period.                                                       *)

\* Nobody but the worker changes the condition, so a copy that showed it when it
\* was read still does; and with our finalizer the revision is still there.
CopyTells ==
  \A n \in RevNames :
    rw[n].pc = "status" =>
      /\ rev[n] # None /\ rev[n].fin
      /\ ~ rw[n].old => rev[n].inUse = rw[n].obj.inUse /\ rev[n].age = rw[n].obj.age

Clocks == CopyTells /\ GraceClockHonest

\* What most steps do to a revision: they leave the condition alone.
SameUse(r, new) ==
  \/ new = r
  \/ /\ r # None /\ new # None
     /\ new.inUse = r.inUse /\ new.age = r.age
     /\ r.fin => new.fin
  \/ r # None /\ ~ r.fin /\ new = None
  \/ r = None /\ new # None /\ new.inUse = "Unknown"

LEMMA DeletedKeepsUse ==
  ASSUME NEW r \in Revisions
  PROVE  SameUse(r, Deleted(r))
<1>1. CASE r.fin
  <2>1. Deleted(r) \in Revisions /\ Deleted(r) = [r EXCEPT !.deleting = TRUE]
    BY <1>1 DEF Deleted, Revisions
  <2>2. [r EXCEPT !.deleting = TRUE].inUse = r.inUse /\ [r EXCEPT !.deleting = TRUE].age = r.age
        /\ [r EXCEPT !.deleting = TRUE].fin = r.fin
    BY DEF Revisions
  <2> QED BY <2>1, <2>2, NoneAssumption DEF SameUse
<1>2. CASE ~ r.fin
  BY <1>2, NoneAssumption DEF Deleted, SameUse, Revisions
<1> QED BY <1>1, <1>2

LEMMA ClocksUndisturbed ==
  ASSUME Clocks,
         \A n \in RevNames : SameUse(rev[n], rev'[n]),
         ghosts' = ghosts,
         \A n \in RevNames : rw'[n] = rw[n] \/ rw'[n].pc # "status"
  PROVE  Clocks'
<1>1. CopyTells'
  BY DEF Clocks, CopyTells, SameUse
<1>2. GraceClockHonest'
  BY DEF Clocks, GraceClockHonest, SameUse, ghosts
<1> QED
  BY <1>1, <1>2 DEF Clocks

LEMMA ClocksWrite ==
  ASSUME TypeOK, Clocks, NEW n \in RevNames, NEW new \in Revisions \cup {None},
         SameUse(rev[n], new), Writes([rev EXCEPT ![n] = new]),
         ghosts' = ghosts,
         \A m \in RevNames : rw'[m] = rw[m] \/ rw'[m].pc # "status"
  PROVE  Clocks'
<1>1. \A m \in RevNames : SameUse(rev[m], rev'[m])
  BY DEF Writes, SameUse, TypeOK
<1> QED
  BY <1>1, ClocksUndisturbed

LEMMA ClocksIdle ==
  ASSUME Clocks, rev' = rev, ghosts' = ghosts,
         \A m \in RevNames : rw'[m] = rw[m] \/ rw'[m].pc # "status"
  PROVE  Clocks'
BY ClocksUndisturbed DEF SameUse

LEMMA ClocksEnvironment ==
  ASSUME TypeOK, Clocks, Environment
  PROVE  Clocks'
<1>1. CASE CreateIstio \/ ChangeIstioSpec \/ DeleteIstio
  BY <1>1, ClocksIdle DEF CreateIstio, ChangeIstioSpec, DeleteIstio, operatorVars
<1>2. CASE Crash
  BY <1>2, ClocksIdle DEF Crash, IdleRw
<1>3. ASSUME NEW n \in RevNames, DeleteRevision(n) PROVE Clocks'
  <2>1. rev[n] \in Revisions
    BY <1>3 DEF DeleteRevision, TypeOK
  <2>2. SameUse(rev[n], Deleted(rev[n])) /\ Deleted(rev[n]) \in Revisions \cup {None}
    BY <2>1, DeletedKeepsUse, DeletedType
  <2> QED BY <1>3, <2>2, ClocksWrite DEF DeleteRevision, operatorVars
<1>4. ASSUME NEW n \in RevNames, ChangeUsage(n) \/ OwnedResourceEvent(n) PROVE Clocks'
  BY <1>4, ClocksIdle DEF ChangeUsage, OwnedResourceEvent
<1> QED
  BY <1>1, <1>2, <1>3, <1>4 DEF Environment

LEMMA ClocksTick ==
  ASSUME TypeOK, Clocks, Tick
  PROVE  Clocks'
<1>1. \A n \in RevNames : rev'[n] = OlderRev(rev[n])
  BY DEF Tick
<1>2. ASSUME NEW r \in Revisions
      PROVE  /\ OlderRev(r) # None /\ OlderRev(r).inUse = r.inUse /\ OlderRev(r).fin = r.fin
             /\ OlderRev(r).age = IF r.inUse = "Unknown" THEN r.age ELSE Older(r.age)
  <2>1. r # None /\ OlderRev(r) \in Revisions
    BY OlderRevType, NoneAssumption
  <2>2. [r EXCEPT !.age = Older(@)].inUse = r.inUse /\ [r EXCEPT !.age = Older(@)].fin = r.fin
        /\ [r EXCEPT !.age = Older(@)].age = Older(r.age)
    BY DEF Revisions
  <2> QED BY <2>1, <2>2, NoneAssumption DEF OlderRev
<1>3. CopyTells'
  <2> SUFFICES ASSUME NEW n \in RevNames, rw'[n].pc = "status"
               PROVE  /\ rev'[n] # None /\ rev'[n].fin
                      /\ ~ rw'[n].old => /\ rev'[n].inUse = rw'[n].obj.inUse
                                         /\ rev'[n].age = rw'[n].obj.age
    BY DEF CopyTells
  <2>1. rw[n] \in Captured /\ rw'[n] = [rw[n] EXCEPT !.obj = OlderRev(@)]
    BY DEF Tick, TypeOK, IdleRw
  <2>2. /\ rw[n].pc = "status" /\ rw[n].obj \in Revisions
        /\ rw'[n].obj = OlderRev(rw[n].obj) /\ rw'[n].old = rw[n].old
    BY <2>1 DEF Captured
  <2>3. /\ rev[n] # None /\ rev[n].fin
        /\ ~ rw[n].old => rev[n].inUse = rw[n].obj.inUse /\ rev[n].age = rw[n].obj.age
    BY <2>2 DEF Clocks, CopyTells
  <2>4. rev[n] \in Revisions
    BY <2>3 DEF TypeOK
  <2> QED BY <1>1, <1>2, <2>2, <2>3, <2>4
<1>4. GraceClockHonest'
  <2> SUFFICES ASSUME NEW n \in RevNames, rev'[n] # None, rev'[n].inUse = "False",
                      ~ overwritten'[n]
               PROVE  rev'[n].age <= sinceUse'[n]
    BY DEF GraceClockHonest
  <2>1. rev[n] # None
    BY <1>1 DEF OlderRev
  <2>2. rev[n] \in Revisions
    BY <2>1 DEF TypeOK
  <2>3. rev[n].inUse = "False" /\ rev'[n].age = Older(rev[n].age)
    BY <1>1, <1>2, <2>2
  <2>4. rev[n].age <= sinceUse[n] /\ sinceUse'[n] = Older(sinceUse[n])
    BY <2>1, <2>3 DEF Clocks, GraceClockHonest, Tick, ReportedUsed
  <2>5. rev[n].age \in Ages /\ sinceUse[n] \in Ages
    BY <2>2 DEF Revisions, TypeOK
  <2> QED BY <2>3, <2>4, <2>5, GraceAssumption DEF Older, Ages
<1> QED
  BY <1>3, <1>4 DEF Clocks

LEMMA ClocksCluster ==
  ASSUME TypeOK, Clocks, Cluster \/ Informers
  PROVE  Clocks'
<1>1. ASSUME NEW n \in RevNames, CollectGarbage(n) PROVE Clocks'
  <2>1. rev[n] \in Revisions
    BY <1>1 DEF CollectGarbage, TypeOK
  <2>2. SameUse(rev[n], Deleted(rev[n])) /\ Deleted(rev[n]) \in Revisions \cup {None}
    BY <2>1, DeletedKeepsUse, DeletedType
  <2> QED BY <1>1, <2>2, ClocksWrite DEF CollectGarbage, operatorVars
<1>2. CASE DeliverIstio \/ TimerFires
  BY <1>2, ClocksIdle DEF DeliverIstio, TimerFires
<1>3. ASSUME NEW n \in RevNames, DeliverRevision(n) PROVE Clocks'
  BY <1>3, ClocksIdle DEF DeliverRevision
<1> QED
  BY <1>1, <1>2, <1>3, ClocksTick DEF Cluster, Informers

LEMMA ClocksIstioController ==
  ASSUME TypeOK, Clocks, IstioController
  PROVE  Clocks'
<1>1. CASE IstioNotFound \/ UpdateIstioStatus
  BY <1>1, ClocksIdle DEF IstioNotFound, UpdateIstioStatus, revisionVars
<1>2. CASE CreateActiveRevision
  <2> DEFINE n == getActiveRevisionName(cIstio)
             new == NewRevision(n)
  <2>1. n \in RevNames /\ cRev[n] = None /\ cIstio \in Istios
    BY <1>2, ActiveNameType DEF CreateActiveRevision, TypeOK
  <2>2. CASE rev' = rev
    BY <1>2, <2>2, ClocksIdle DEF CreateActiveRevision, revisionVars
  <2>3. CASE rev[n] = None /\ Writes([rev EXCEPT ![n] = new])
    <3>1. new \in Revisions
      BY <2>1, NewUidType, GraceAssumption DEF NewRevision, Revisions, Istios, Ages
    <3>2. new.inUse = "Unknown"
      BY DEF NewRevision
    <3>3. SameUse(rev[n], new)
      BY <2>3, <3>1, <3>2, NoneAssumption DEF SameUse
    <3>4. ghosts' = ghosts /\ rw' = rw
      BY <1>2 DEF CreateActiveRevision, revisionVars
    <3> HIDE DEF n, new
    <3> QED BY <2>1, <2>3, <3>1, <3>3, <3>4, ClocksWrite
  <2> QED
    BY <1>2, <2>2, <2>3 DEF CreateActiveRevision
<1>3. CASE UpdateActiveRevision
  <2> DEFINE n == getActiveRevisionName(cIstio)
             new == [rev[n] EXCEPT !.version = cIstio.version]
  <2>1. n \in RevNames /\ cIstio \in Istios
    BY <1>3, ActiveNameType DEF UpdateActiveRevision, TypeOK
  <2>2. CASE rev' = rev
    BY <1>3, <2>2, ClocksIdle DEF UpdateActiveRevision, revisionVars
  <2>3. CASE rev[n] # None /\ Writes([rev EXCEPT ![n] = new])
    <3>1. rev[n] \in Revisions
      BY <2>1, <2>3 DEF TypeOK
    <3>2. new \in Revisions
      BY <2>1, <3>1 DEF Revisions, Istios
    <3>3. SameUse(rev[n], new)
      BY <3>1, <3>2, NoneAssumption DEF SameUse, Revisions
    <3>4. ghosts' = ghosts /\ rw' = rw
      BY <1>3 DEF UpdateActiveRevision, revisionVars
    <3> HIDE DEF n, new
    <3> QED BY <2>1, <2>3, <3>2, <3>3, <3>4, ClocksWrite
  <2> QED
    BY <1>3, <2>2, <2>3 DEF UpdateActiveRevision, UpdateAccepted
<1>4. CASE PruneInactive
  <2>1. PICK gone \in SUBSET {n \in Expired : rev[n] # None} :
          Writes([n \in RevNames |-> IF n \in gone THEN Deleted(rev[n]) ELSE rev[n]])
    BY <1>4 DEF PruneInactive
  <2>2. \A n \in gone : rev[n] \in Revisions
    BY <2>1 DEF Expired, Inactive, TypeOK
  <2>3. \A n \in RevNames : SameUse(rev[n], rev'[n])
    BY <2>1, <2>2, DeletedKeepsUse DEF Writes, SameUse
  <2>4. ghosts' = ghosts /\ rw' = rw
    BY <1>4 DEF PruneInactive, revisionVars
  <2> QED BY <2>3, <2>4, ClocksUndisturbed
<1> QED
  BY <1>1, <1>2, <1>3, <1>4 DEF IstioController

\* A revision that is being installed is there, with its finalizer, however old
\* the copy; and a copy that is not old shows the condition as it is.
LEMMA ClocksInstallCharts ==
  ASSUME IInv, Clocks, NEW n \in RevNames, InstallCharts(n)
  PROVE  Clocks'
<1>1. /\ rev' = rev /\ ghosts' = ghosts
      /\ cRev[n] # None /\ cRev[n].fin /\ ~ cRev[n].deleting
  BY DEF InstallCharts, HasFinalizer
<1>2. /\ rw'[n].obj = cRev[n] /\ rw'[n].old = ~ Shows(cRev[n], rev[n])
      /\ \A m \in RevNames \ {n} : rw'[m] = rw[m]
  BY DEF InstallCharts, Captures, IInv, TypeOK
<1>3. rev[n] # None /\ rev[n].fin
  BY <1>1 DEF IInv, FinalizerHolds, CacheFollows
<1>4. CopyTells'
  BY <1>1, <1>2, <1>3 DEF Clocks, CopyTells, Shows
<1>5. GraceClockHonest'
  BY <1>1 DEF Clocks, GraceClockHonest, ghosts
<1> QED
  BY <1>4, <1>5 DEF Clocks

LEMMA ClocksUpdateStatus ==
  ASSUME TypeOK, Clocks, NEW n \in RevNames, UpdateRevisionStatus(n)
  PROVE  Clocks'
<1>1. /\ rw[n].pc = "status" /\ rw'[n].pc = "idle"
      /\ \A m \in RevNames \ {n} : rw'[m] = rw[m]
  BY DEF UpdateRevisionStatus, TypeOK, IdleRw
<1>2. CASE rev' = rev /\ ghosts' = ghosts
  BY <1>1, <1>2, ClocksIdle
<1> DEFINE new == WithInUse(rw[n].obj, DeterminedInUse(n))
           newRev == [rev[n] EXCEPT !.inUse = new.inUse, !.age = new.age]
<1>3. CASE /\ rev[n] # None
           /\ Writes([rev EXCEPT ![n] = newRev])
           /\ sinceUse' = [sinceUse EXCEPT ![n] = IF used[n] THEN 0 ELSE @]
           /\ overwritten' = [overwritten EXCEPT ![n] =
                rw[n].obj.inUse = DeterminedInUse(n) /\ (rw[n].old \/ @)]
  <2>1. /\ rev[n] \in Revisions /\ rw[n] \in Captured /\ sinceUse[n] \in Ages
        /\ overwritten[n] \in BOOLEAN
    BY <1>1, <1>3 DEF TypeOK, IdleRw
  <2>2. newRev.inUse = new.inUse /\ newRev.age = new.age
    <3> HIDE DEF new
    <3> QED BY <2>1 DEF Revisions
  <2>3. /\ rw[n].obj \in Revisions /\ rw[n].old \in BOOLEAN
        /\ new.inUse = DeterminedInUse(n)
        /\ new.age = IF rw[n].obj.inUse = DeterminedInUse(n) THEN rw[n].obj.age ELSE 0
    BY <2>1 DEF Captured, WithInUse, Revisions
  <2> HIDE DEF new, newRev
  <2>4. \A m \in RevNames : rev'[m] = IF m = n THEN newRev ELSE rev[m]
    BY <1>3 DEF Writes, TypeOK
  <2>5. CopyTells'
    BY <1>1, <2>4 DEF Clocks, CopyTells
  <2>6. ASSUME newRev.inUse = "False", ~ overwritten'[n]
        PROVE  newRev.age <= sinceUse'[n]
    <3>1. ~ used[n] /\ DeterminedInUse(n) = "False"
      BY <2>2, <2>3, <2>6 DEF DeterminedInUse
    <3>2. sinceUse'[n] = sinceUse[n]
      BY <1>3, <3>1 DEF TypeOK
    <3>3. rw[n].obj.inUse = "False" => ~ rw[n].old /\ ~ overwritten[n]
      BY <1>3, <2>6, <3>1 DEF TypeOK
    <3>4. rw[n].obj.inUse = "False" => rw[n].obj.age <= sinceUse[n]
      BY <1>1, <1>3, <3>3 DEF Clocks, CopyTells, GraceClockHonest
    <3> QED BY <2>1, <2>2, <2>3, <3>1, <3>2, <3>4, GraceAssumption DEF Ages
  <2>7. \A m \in RevNames \ {n} : sinceUse'[m] = sinceUse[m] /\ overwritten'[m] = overwritten[m]
    BY <1>3 DEF TypeOK
  <2>8. GraceClockHonest'
    BY <2>4, <2>6, <2>7 DEF Clocks, GraceClockHonest
  <2> QED BY <2>5, <2>8 DEF Clocks
<1> QED
  BY <1>2, <1>3 DEF UpdateRevisionStatus

LEMMA ClocksRevisionController ==
  ASSUME IInv, Clocks, NEW n \in RevNames, RevisionController(n)
  PROVE  Clocks'
<1>0. TypeOK
  BY DEF IInv
<1>1. CASE RevisionNotFound(n)
  BY <1>1, ClocksIdle DEF RevisionNotFound
<1>2. CASE AddFinalizer(n)
  <2>1. ghosts' = ghosts /\ rw' = rw
    BY <1>2 DEF AddFinalizer
  <2>2. CASE rev' = rev
    BY <2>1, <2>2, ClocksIdle
  <2>3. CASE rev[n] # None /\ Writes([rev EXCEPT ![n] = [@ EXCEPT !.fin = TRUE]])
    <3> DEFINE new == [rev[n] EXCEPT !.fin = TRUE]
    <3>1. rev[n] \in Revisions
      BY <1>0, <2>3 DEF TypeOK
    <3>2. new \in Revisions
      BY <3>1 DEF Revisions
    <3>3. SameUse(rev[n], new)
      BY <3>1, <3>2, NoneAssumption DEF SameUse, Revisions
    <3>4. Writes([rev EXCEPT ![n] = new])
      BY <2>3
    <3> HIDE DEF new
    <3> QED BY <2>1, <3>2, <3>3, <3>4, <1>0, ClocksWrite
  <2> QED BY <1>2, <2>2, <2>3 DEF AddFinalizer, UpdateAccepted
<1>3. CASE Finalize(n)
  <2>1. /\ rev' = rev /\ ghosts' = ghosts
        /\ \A m \in RevNames : rw'[m] = rw[m] \/ rw'[m].pc # "status"
    BY <1>0, <1>3 DEF Finalize, Captures, TypeOK
  <2> QED BY <2>1, ClocksUndisturbed DEF SameUse
<1>4. CASE RemoveFinalizer(n)
  <2>1. /\ ghosts' = ghosts /\ rw[n].pc = "unfinalize" /\ rw'[n].pc = "idle"
        /\ \A m \in RevNames \ {n} : rw'[m] = rw[m]
    BY <1>0, <1>4 DEF RemoveFinalizer, TypeOK, IdleRw
  <2>2. CASE rev' = rev
    BY <2>1, <2>2, ClocksIdle
  <2>3. CASE Writes([rev EXCEPT ![n] = None])
    <3>1. \A m \in RevNames : rev'[m] = IF m = n THEN None ELSE rev[m]
      BY <2>3, <1>0 DEF Writes, TypeOK
    <3>2. CopyTells' /\ GraceClockHonest'
      BY <2>1, <3>1 DEF Clocks, CopyTells, GraceClockHonest, ghosts
    <3> QED BY <3>2 DEF Clocks
  <2> QED BY <1>4, <2>2, <2>3 DEF RemoveFinalizer
<1> QED
  BY <1>0, <1>1, <1>2, <1>3, <1>4, ClocksInstallCharts, ClocksUpdateStatus DEF RevisionController

LEMMA ClocksInductive == Spec => [](TypeOK /\ Clocks)
<1>1. Init => Clocks
  BY DEF Init, Clocks, CopyTells, GraceClockHonest, IdleRw
<1>2. IInv /\ Clocks /\ [Next]_vars => Clocks'
  <2>1. IInv /\ Clocks /\ Next => Clocks'
    BY ClocksEnvironment, ClocksCluster, ClocksIstioController, ClocksRevisionController
    DEF Next, IInv
  <2>2. Clocks /\ UNCHANGED vars => Clocks'
    BY ClocksIdle DEF vars
  <2> QED BY <2>1, <2>2
<1> QED
  BY <1>1, <1>2, TypeCorrect, Inductive, PTL DEF Spec

\* Whatever the lag of the caches, the condition InUse=False is never older than
\* the last time the revision was recorded in use, except after a patch by a
\* reconcile that read an outdated condition, until the next transition.
THEOREM GraceClockRuns == Spec => []GraceClockHonest
BY ClocksInductive, PTL DEF Clocks

\* PruneInactive deletes no revision before its whole grace period has passed
\* since it was last recorded in use, unless it judges an outdated condition or
\* one that such a patch has dated.
THEOREM GraceIsGranted == Spec => PruneWaitsOutGrace
<1> DEFINE Waits == \A n \in RevNames :
                      PruningOf(n) /\ Shows(cRev[n], rev[n]) /\ ~ overwritten[n]
                        => sinceUse[n] = Grace
<1>1. TypeOK /\ Clocks /\ [Next]_vars => Waits
  <2> SUFFICES ASSUME TypeOK, Clocks, [Next]_vars, NEW n \in RevNames, PruningOf(n),
                      Shows(cRev[n], rev[n]), ~ overwritten[n]
               PROVE  sinceUse[n] = Grace
    OBVIOUS
  <2>1. PruneInactive
    BY OnlyPruneInactivePrunes DEF PruningOf
  <2>2. rev[n] # None /\ rev'[n] # rev[n]
    BY DEF PruningOf
  <2>3. n \in Expired
    BY <2>1, <2>2 DEF PruneInactive, Writes, TypeOK
  <2>4. rev[n].inUse = "False" /\ rev[n].age = Grace
    BY <2>3 DEF Expired, Inactive, Shows
  <2>5. Grace <= sinceUse[n]
    BY <2>2, <2>4 DEF Clocks, GraceClockHonest
  <2> QED
    BY <2>5, GraceAssumption DEF TypeOK, Ages
<1>2. [][Waits]_vars => PruneWaitsOutGrace
  BY PTL DEF PruneWaitsOutGrace
<1> QED
  BY <1>1, <1>2, ClocksInductive, PTL DEF Spec

-----------------------------------------------------------------------------
(* Nothing is forgotten.                                                   *)

\* An object that is being deleted exists only for its finalizer.
Marked(r) == r # None /\ r.deleting => r.fin

\* What a worker holds is what the cache has, unless its key is queued again;
\* a worker that goes on to the status has installed the charts.
RevisionWorker(n) ==
  rw[n] # IdleRw =>
    /\ n \notin queue => rw[n].obj = cRev[n]
    /\ rw[n].pc = "status" => /\ rw[n].obj.fin /\ ~ rw[n].obj.deleting
                              /\ rw[n].err \/ release[n]

RevisionTold(n) ==
  RevisionAtRest(n) /\ rev[n] # None =>
    /\ rev[n].fin /\ ~ rev[n].deleting /\ release[n]
    /\ rev[n].inUse = DeterminedInUse(n)

Kept(n) ==
  /\ "cache" \in fresh[n] => cRev[n] = rev[n]
  /\ Marked(rev[n]) /\ Marked(cRev[n])
  /\ RevisionWorker(n)
  /\ RevisionTold(n)

\* What every step does to the revisions that it is not about.
Left(n) ==
  /\ cRev'[n] = cRev[n] /\ used'[n] = used[n] /\ release'[n] = release[n] /\ rw'[n] = rw[n]
  /\ "cache" \in fresh'[n] => "cache" \in fresh[n] /\ rev'[n] = rev[n]
  /\ n \in queue => n \in queue'

LEMMA KeptLeft ==
  ASSUME NEW n \in RevNames, Kept(n), Left(n), Marked(rev'[n])
  PROVE  Kept(n)'
BY DEF Kept, Left, Marked, RevisionWorker, RevisionTold, RevisionAtRest, DeterminedInUse

LEMMA DeletedMarked ==
  ASSUME NEW r \in Revisions
  PROVE  Marked(Deleted(r))
BY DEF Marked, Deleted, Revisions

\* Of a write: who has the current version afterwards had it before, and the
\* revision is the same.
LEMMA WritesLeave ==
  ASSUME NEW f \in [RevNames -> Revisions \cup {None}], Writes(f), NEW n \in RevNames
  PROVE  /\ rev'[n] = f[n]
         /\ "cache" \in fresh'[n] => "cache" \in fresh[n] /\ rev'[n] = rev[n]
BY DEF Writes

\* A write to one revision by somebody else than its controller.
LEMMA KeptWrite ==
  ASSUME TypeOK, \A m \in RevNames : Kept(m), NEW n \in RevNames, NEW new \in Revisions \cup {None},
         Writes([rev EXCEPT ![n] = new]), Marked(new),
         cRev' = cRev, used' = used, release' = release, rw' = rw,
         \A m \in RevNames : m \in queue => m \in queue'
  PROVE  \A m \in RevNames : Kept(m)'
<1> SUFFICES ASSUME NEW m \in RevNames PROVE Kept(m)'
  OBVIOUS
<1>1. [rev EXCEPT ![n] = new] \in [RevNames -> Revisions \cup {None}]
  BY DEF TypeOK
<1>2. Left(m)
  BY <1>1, WritesLeave DEF Left
<1>3. rev'[m] = IF m = n THEN new ELSE rev[m]
  BY <1>1, WritesLeave DEF TypeOK
<1>4. Marked(rev'[m])
  BY <1>3 DEF Kept
<1> QED
  BY <1>2, <1>4, KeptLeft

\* A step that leaves revisions and their workers alone.
LEMMA KeptIdle ==
  ASSUME \A m \in RevNames : Kept(m),
         rev' = rev, cRev' = cRev, fresh' = fresh, used' = used, release' = release, rw' = rw,
         \A m \in RevNames : m \in queue => m \in queue'
  PROVE  \A m \in RevNames : Kept(m)'
<1> SUFFICES ASSUME NEW m \in RevNames PROVE Kept(m)'
  OBVIOUS
<1>1. Left(m) /\ Marked(rev'[m])
  BY DEF Left, Kept
<1> QED
  BY <1>1, KeptLeft

LEMMA KeptEnvironment ==
  ASSUME IInv, \A m \in RevNames : Kept(m), Environment
  PROVE  \A m \in RevNames : Kept(m)'
<1>1. CASE CreateIstio \/ ChangeIstioSpec \/ DeleteIstio
  BY <1>1, KeptIdle DEF CreateIstio, ChangeIstioSpec, DeleteIstio, operatorVars
<1>2. CASE Crash
  BY <1>2 DEF Crash, Kept, Marked, RevisionWorker, RevisionTold, RevisionAtRest
<1>3. ASSUME NEW n \in RevNames, DeleteRevision(n) PROVE \A m \in RevNames : Kept(m)'
  <2>1. rev[n] \in Revisions
    BY <1>3 DEF DeleteRevision, IInv, TypeOK
  <2>2. Marked(Deleted(rev[n])) /\ Deleted(rev[n]) \in Revisions \cup {None}
    BY <2>1, DeletedMarked, DeletedType
  <2> QED BY <1>3, <2>2, KeptWrite DEF DeleteRevision, operatorVars, IInv
<1>4. ASSUME NEW n \in RevNames, ChangeUsage(n) PROVE \A m \in RevNames : Kept(m)'
  <2> SUFFICES ASSUME NEW m \in RevNames PROVE Kept(m)'
    OBVIOUS
  <2>1. CASE m = n
    BY <1>4, <2>1 DEF ChangeUsage, Kept, RevisionWorker, RevisionTold, RevisionAtRest
  <2>2. CASE m # n
    <3>1. Left(m) /\ Marked(rev'[m])
      BY <1>4, <2>2 DEF ChangeUsage, Left, Kept, IInv, TypeOK
    <3> QED BY <3>1, KeptLeft
  <2> QED BY <2>1, <2>2
<1>5. ASSUME NEW n \in RevNames, OwnedResourceEvent(n) PROVE \A m \in RevNames : Kept(m)'
  BY <1>5, KeptIdle DEF OwnedResourceEvent
<1> QED
  BY <1>1, <1>2, <1>3, <1>4, <1>5 DEF Environment

\* What a second does to a copy.
LEMMA OlderRevKeeps ==
  ASSUME NEW r \in Revisions
  PROVE  /\ OlderRev(r) \in Revisions /\ OlderRev(r) # None
         /\ OlderRev(r).owner = r.owner /\ OlderRev(r).version = r.version
         /\ OlderRev(r).fin = r.fin /\ OlderRev(r).deleting = r.deleting
         /\ OlderRev(r).inUse = r.inUse
         /\ r.inUse = "False" => OlderRev(r).age = Older(r.age)
<1>1. OlderRev(r) \in Revisions /\ r # None
  BY OlderRevType, NoneAssumption
<1>2. [r EXCEPT !.age = Older(@)].inUse = r.inUse /\ [r EXCEPT !.age = Older(@)].fin = r.fin
      /\ [r EXCEPT !.age = Older(@)].owner = r.owner /\ [r EXCEPT !.age = Older(@)].version = r.version
      /\ [r EXCEPT !.age = Older(@)].deleting = r.deleting
      /\ [r EXCEPT !.age = Older(@)].age = Older(r.age)
  BY DEF Revisions
<1> QED
  BY <1>1, <1>2, NoneAssumption DEF OlderRev

LEMMA KeptTick ==
  ASSUME TypeOK, NEW n \in RevNames, Kept(n), Tick
  PROVE  Kept(n)'
<1>1. /\ rev'[n] = OlderRev(rev[n]) /\ cRev'[n] = OlderRev(cRev[n])
      /\ fresh' = fresh /\ used' = used /\ release' = release /\ queue' = queue
      /\ rev[n] \in Revisions \cup {None} /\ cRev[n] \in Revisions \cup {None}
      /\ OlderRev(None) = None
  BY DEF Tick, TypeOK, OlderRev
<1>2. /\ (rev'[n] = None) <=> (rev[n] = None)
      /\ rev[n] # None => /\ rev'[n].fin = rev[n].fin /\ rev'[n].deleting = rev[n].deleting
                          /\ rev'[n].inUse = rev[n].inUse
      /\ (cRev'[n] = None) <=> (cRev[n] = None)
      /\ cRev[n] # None => cRev'[n].fin = cRev[n].fin /\ cRev'[n].deleting = cRev[n].deleting
  BY <1>1, OlderRevKeeps
<1>3. RevisionWorker(n)'
  <2>1. CASE rw[n] = IdleRw
    BY <1>1, <2>1 DEF Tick, RevisionWorker, IdleRw
  <2>2. CASE rw[n] # IdleRw
    <3>1. rw[n] \in Captured /\ rw'[n] = [rw[n] EXCEPT !.obj = OlderRev(@)]
      BY <2>2 DEF Tick, TypeOK, Captured
    <3>2. /\ rw[n].obj \in Revisions /\ rw'[n].obj = OlderRev(rw[n].obj)
          /\ rw'[n].pc = rw[n].pc /\ rw'[n].err = rw[n].err
      BY <3>1 DEF Captured
    <3>3. OlderRev(rw[n].obj).fin = rw[n].obj.fin /\ OlderRev(rw[n].obj).deleting = rw[n].obj.deleting
      BY <3>2, OlderRevKeeps
    <3> QED BY <1>1, <2>2, <3>2, <3>3 DEF Kept, RevisionWorker
  <2> QED BY <2>1, <2>2
<1>4. rw[n] = IdleRw <=> rw'[n] = IdleRw
  BY DEF Tick, TypeOK, Captured, IdleRw
<1>5. RevisionTold(n)'
  BY <1>1, <1>2, <1>4 DEF Kept, RevisionTold, RevisionAtRest, DeterminedInUse
<1> QED
  BY <1>1, <1>2, <1>3, <1>5 DEF Kept, Marked

LEMMA KeptCluster ==
  ASSUME IInv, \A m \in RevNames : Kept(m), Cluster \/ Informers
  PROVE  \A m \in RevNames : Kept(m)'
<1>1. CASE Tick
  BY <1>1, KeptTick DEF IInv
<1>2. ASSUME NEW n \in RevNames, CollectGarbage(n) PROVE \A m \in RevNames : Kept(m)'
  <2>1. rev[n] \in Revisions
    BY <1>2 DEF CollectGarbage, IInv, TypeOK
  <2>2. Marked(Deleted(rev[n])) /\ Deleted(rev[n]) \in Revisions \cup {None}
    BY <2>1, DeletedMarked, DeletedType
  <2> QED BY <1>2, <2>2, KeptWrite DEF CollectGarbage, operatorVars, IInv
<1>3. CASE DeliverIstio \/ TimerFires
  BY <1>3, KeptIdle DEF DeliverIstio, TimerFires
<1>4. ASSUME NEW n \in RevNames, DeliverRevision(n), NEW m \in RevNames PROVE Kept(m)'
  <2>1. CASE m = n
    BY <1>4, <2>1 DEF DeliverRevision, Kept, RevisionWorker, RevisionTold, RevisionAtRest, IInv, TypeOK
  <2>2. CASE m # n
    <3>1. Left(m) /\ Marked(rev'[m])
      BY <1>4, <2>2 DEF DeliverRevision, Left, Kept, IInv, TypeOK
    <3> QED BY <3>1, KeptLeft
  <2> QED BY <2>1, <2>2
<1> QED
  BY <1>1, <1>2, <1>3, <1>4 DEF Cluster, Informers

LEMMA KeptIstioController ==
  ASSUME IInv, \A m \in RevNames : Kept(m), IstioController
  PROVE  \A m \in RevNames : Kept(m)'
<1>0. \A m \in RevNames : m # "Istio"
  BY KeyAssumption DEF RevNames
<1>1. CASE IstioNotFound \/ UpdateIstioStatus
  BY <1>0, <1>1, KeptIdle
  DEF IstioNotFound, TakeIstioKey, UpdateIstioStatus, RequeuesIstio, revisionVars, istioVars,
      ChangeUsage
<1>2. CASE CreateActiveRevision
  <2> DEFINE n == getActiveRevisionName(cIstio)
             new == NewRevision(n)
  <2>1. n \in RevNames /\ cRev[n] = None /\ cIstio \in Istios
    BY <1>2, ActiveNameType DEF CreateActiveRevision, IInv, TypeOK
  <2>2. /\ cRev' = cRev /\ used' = used /\ release' = release /\ rw' = rw
        /\ \A m \in RevNames : m \in queue => m \in queue'
    BY <1>0, <1>2 DEF CreateActiveRevision, TakeIstioKey, revisionVars
  <2>3. CASE rev' = rev /\ fresh' = fresh
    BY <2>2, <2>3, KeptIdle
  <2>4. CASE rev[n] = None /\ Writes([rev EXCEPT ![n] = new])
    <3>1. new \in Revisions
      BY <2>1, NewUidType, GraceAssumption DEF NewRevision, Revisions, Istios, Ages, IInv
    <3>2. Marked(new)
      BY DEF NewRevision, Marked
    <3> HIDE DEF n, new
    <3> QED BY <2>1, <2>2, <2>4, <3>1, <3>2, KeptWrite DEF IInv
  <2> QED
    BY <1>2, <2>3, <2>4 DEF CreateActiveRevision
<1>3. CASE UpdateActiveRevision
  <2> DEFINE n == getActiveRevisionName(cIstio)
             new == [rev[n] EXCEPT !.version = cIstio.version]
  <2>1. n \in RevNames /\ cIstio \in Istios
    BY <1>3, ActiveNameType DEF UpdateActiveRevision, IInv, TypeOK
  <2>2. /\ cRev' = cRev /\ used' = used /\ release' = release /\ rw' = rw
        /\ \A m \in RevNames : m \in queue => m \in queue'
    BY <1>0, <1>3 DEF UpdateActiveRevision, TakeIstioKey, revisionVars
  <2>3. CASE rev' = rev /\ fresh' = fresh
    BY <2>2, <2>3, KeptIdle
  <2>4. CASE rev[n] # None /\ Writes([rev EXCEPT ![n] = new])
    <3>1. rev[n] \in Revisions /\ Marked(rev[n])
      BY <2>1, <2>4 DEF IInv, TypeOK, Kept
    <3>2. new \in Revisions
      BY <2>1, <3>1 DEF Revisions, Istios
    <3>3. Marked(new)
      BY <2>4, <3>1 DEF Revisions, Marked
    <3> HIDE DEF n, new
    <3> QED BY <2>1, <2>2, <2>4, <3>2, <3>3, KeptWrite DEF IInv
  <2> QED
    BY <1>3, <2>3, <2>4 DEF UpdateActiveRevision, UpdateAccepted
<1>4. CASE PruneInactive
  <2> DEFINE f(gone) == [n \in RevNames |-> IF n \in gone THEN Deleted(rev[n]) ELSE rev[n]]
  <2>1. PICK gone \in SUBSET {n \in Expired : rev[n] # None} : Writes(f(gone))
    BY <1>4 DEF PruneInactive
  <2>2. \A n \in gone : n \in RevNames /\ rev[n] \in Revisions
    BY <2>1 DEF Expired, Inactive, IInv, TypeOK
  <2>3. f(gone) \in [RevNames -> Revisions \cup {None}]
    BY <2>2, DeletedType DEF IInv, TypeOK
  <2>4. \A m \in RevNames : Left(m) /\ Marked(rev'[m])
    BY <1>4, <2>1, <2>2, <2>3, WritesLeave, DeletedMarked
    DEF PruneInactive, revisionVars, Left, Kept
  <2> QED BY <2>4, KeptLeft
<1> QED
  BY <1>1, <1>2, <1>3, <1>4 DEF IstioController

\* The steps of the controller on revision n leave the others alone.
LEMMA OthersLeft ==
  ASSUME TypeOK, NEW n \in RevNames, RevisionController(n), NEW m \in RevNames \ {n}, Kept(m)
  PROVE  Kept(m)'
<1>1. \A new : Writes([rev EXCEPT ![n] = new]) => rev'[m] = rev[m] /\ fresh'[m] = fresh[m]
  BY DEF Writes, TypeOK
<1>2. rev'[m] = rev[m] /\ fresh'[m] = fresh[m]
  BY <1>1 DEF RevisionController, RevisionNotFound, AddFinalizer, Finalize, RemoveFinalizer,
     InstallCharts, UpdateRevisionStatus, Captures, TypeOK
<1>3. /\ cRev' = cRev /\ used' = used /\ rw'[m] = rw[m] /\ release'[m] = release[m]
      /\ m \in queue => m \in queue'
  BY DEF RevisionController, RevisionNotFound, AddFinalizer, Finalize, RemoveFinalizer,
     InstallCharts, UpdateRevisionStatus, Captures, Processed, Retry, istioVars, TypeOK
<1> QED
  BY <1>2, <1>3, KeptLeft DEF Left, Kept

LEMMA KeptRevisionController ==
  ASSUME IInv, NEW n \in RevNames, Kept(n), RevisionController(n)
  PROVE  Kept(n)'
<1>0. cRev' = cRev /\ used' = used /\ TypeOK
  BY DEF RevisionController, RevisionNotFound, AddFinalizer, Finalize, RemoveFinalizer,
     InstallCharts, UpdateRevisionStatus, istioVars, IInv
\* A step that ends in a write, after which an event is pending, or with the key
\* back in the queue, has only the server's revision to be right.
<1> DEFINE Pending == n \in queue' \/ "cache" \notin fresh'[n] \/ rev'[n] = None
<1>a. ASSUME Pending, rw'[n] = IdleRw, Marked(rev'[n]),
             "cache" \in fresh'[n] => "cache" \in fresh[n] /\ rev'[n] = rev[n]
      PROVE  Kept(n)'
  BY <1>0, <1>a DEF Kept, RevisionWorker, RevisionTold, RevisionAtRest
<1>1. CASE RevisionNotFound(n)
  BY <1>1 DEF RevisionNotFound, TakeRevisionKey, HasFinalizer, istioVars, Kept, Marked,
     RevisionWorker, RevisionTold, RevisionAtRest
<1>2. CASE AddFinalizer(n)
  <2>1. /\ rw'[n] = IdleRw /\ cRev[n] # None /\ n \in queue
        /\ cRev[n] \in Revisions /\ ~ cRev[n].fin
    BY <1>0, <1>2 DEF AddFinalizer, TakeRevisionKey, HasFinalizer, TypeOK
  <2>2. CASE /\ UpdateAccepted(n, "cache")
             /\ Writes([rev EXCEPT ![n] = [@ EXCEPT !.fin = TRUE]])
    <3>1. rev[n] = cRev[n]
      BY <2>2 DEF UpdateAccepted, Kept
    <3>2. rev'[n] = [rev[n] EXCEPT !.fin = TRUE] /\ rev'[n].fin
      BY <1>0, <2>1, <2>2, <3>1 DEF Writes, TypeOK, Revisions
    <3>3. "cache" \notin fresh'[n]
      BY <1>0, <2>1, <2>2, <3>1, <3>2 DEF Writes, TypeOK, Revisions
    <3>4. Marked(rev'[n])
      BY <3>2 DEF Marked
    <3> QED BY <1>a, <2>1, <3>3, <3>4
  <2>3. CASE rev' = rev /\ fresh' = fresh /\ (rev[n] = None \/ Retry(n))
    BY <1>a, <2>1, <2>3 DEF Retry, Kept
  <2> QED BY <1>2, <2>2, <2>3 DEF AddFinalizer
<1>3. CASE Finalize(n)
  <2>1. CASE Captures(n, "unfinalize", FALSE)
    BY <1>0, <1>3, <2>1 DEF Finalize, Captures, IdleRw, Kept, RevisionWorker, RevisionTold,
       RevisionAtRest, TypeOK
  <2>2. CASE Retry(n) /\ UNCHANGED <<fresh, rw>>
    BY <1>a, <1>3, <2>2 DEF Finalize, TakeRevisionKey, Retry, Kept
  <2> QED BY <1>3, <2>1, <2>2 DEF Finalize
<1>4. CASE RemoveFinalizer(n)
  <2>1. rw'[n] = IdleRw
    BY <1>0, <1>4 DEF RemoveFinalizer, TypeOK
  <2>2. CASE Writes([rev EXCEPT ![n] = None])
    BY <1>0, <1>a, <2>1, <2>2 DEF Writes, Marked, TypeOK
  <2>3. CASE rev' = rev /\ fresh' = fresh /\ (n \in queue' \/ rev[n] = None)
    BY <1>a, <2>1, <2>3 DEF Kept
  <2> QED BY <1>4, <2>2, <2>3 DEF RemoveFinalizer
<1>5. CASE InstallCharts(n)
  <2>1. /\ rw'[n] # IdleRw /\ rw'[n].obj = cRev[n] /\ rw'[n].pc = "status"
        /\ "cache" \in fresh'[n] => "cache" \in fresh[n]
        /\ rw'[n].err \/ release'[n]
        /\ rev' = rev /\ cRev[n].fin /\ ~ cRev[n].deleting
    BY <1>0, <1>5 DEF InstallCharts, Captures, IdleRw, HasFinalizer, TypeOK
  <2> QED BY <1>0, <2>1 DEF Kept, RevisionWorker, RevisionTold, RevisionAtRest
<1>6. CASE UpdateRevisionStatus(n)
  <2> DEFINE new == WithInUse(rw[n].obj, DeterminedInUse(n))
             newRev == [rev[n] EXCEPT !.inUse = new.inUse, !.age = new.age]
  <2>1. /\ rw[n] \in Captured /\ rw[n] # IdleRw /\ rw[n].pc = "status" /\ rw'[n] = IdleRw
        /\ release' = release
    BY <1>0, <1>6 DEF UpdateRevisionStatus, TypeOK, IdleRw
  <2>2. rw[n].obj \in Revisions /\ new.inUse = DeterminedInUse(n)
    BY <2>1 DEF Captured, WithInUse, Revisions
  <2>3. /\ rw[n].obj.fin /\ ~ rw[n].obj.deleting
        /\ rw[n].err \/ release[n]
        /\ n \notin queue => rw[n].obj = cRev[n]
    BY <2>1 DEF Kept, RevisionWorker
  \* What it takes to have kept the revision when its key has not come back.
  <2>4. ASSUME "cache" \in fresh'[n] => "cache" \in fresh[n] /\ rev'[n] = rev[n],
               Marked(rev'[n]), n \in queue => n \in queue',
               rw[n].err => n \in queue',
               n \notin queue' /\ "cache" \in fresh'[n] => rev[n].inUse = DeterminedInUse(n)
        PROVE  Kept(n)'
    <3>1. n \notin queue' /\ "cache" \in fresh'[n] =>
            rev[n].fin /\ ~ rev[n].deleting /\ release[n]
      BY <2>3, <2>4 DEF Kept
    <3>2. RevisionTold(n)'
      BY <1>0, <2>1, <2>4, <3>1 DEF RevisionTold, RevisionAtRest, DeterminedInUse
    <3> QED BY <1>0, <2>1, <2>4, <3>2 DEF Kept, RevisionWorker
  <2>5. CASE /\ new = rw[n].obj /\ UNCHANGED <<rev, fresh>>
             /\ queue' = IF rw[n].err THEN queue \cup {n} ELSE queue
    <3>1. n \notin queue /\ "cache" \in fresh[n] => rev[n].inUse = DeterminedInUse(n)
      BY <2>2, <2>3, <2>5 DEF Kept
    <3> HIDE DEF new
    <3> QED BY <2>4, <2>5, <3>1 DEF Kept
  <2>6. CASE /\ rev[n] # None /\ Writes([rev EXCEPT ![n] = newRev])
             /\ queue' = IF rw[n].err THEN queue \cup {n} ELSE queue
    <3>1. rev[n] \in Revisions /\ Marked(rev[n])
      BY <1>0, <2>6 DEF TypeOK, Kept
    <3>2. /\ newRev.inUse = new.inUse /\ newRev.fin = rev[n].fin /\ newRev.deleting = rev[n].deleting
      <4> HIDE DEF new
      <4> QED BY <3>1 DEF Revisions
    <3> HIDE DEF new, newRev
    <3>3. rev'[n] = newRev /\ ("cache" \in fresh'[n] => "cache" \in fresh[n] /\ rev'[n] = rev[n])
      BY <1>0, <2>6 DEF Writes, TypeOK
    <3>4. Marked(rev'[n])
      BY <2>6, <3>1, <3>2, <3>3 DEF Marked
    <3>5. "cache" \in fresh'[n] => rev[n].inUse = DeterminedInUse(n)
      BY <2>2, <3>2, <3>3
    <3> QED BY <2>4, <2>6, <3>3, <3>4, <3>5
  <2>7. CASE queue' = queue \cup {n} /\ UNCHANGED <<rev, fresh>>
    BY <1>a, <2>1, <2>7 DEF Kept
  <2> QED BY <1>6, <2>5, <2>6, <2>7 DEF UpdateRevisionStatus
<1> QED
  BY <1>1, <1>2, <1>3, <1>4, <1>5, <1>6 DEF RevisionController

LEMMA KeptInductive ==
  Spec => [](\A n \in RevNames : Kept(n))
<1> DEFINE AllKept == \A n \in RevNames : Kept(n)
<1>1. Init => AllKept
  BY DEF Init, Kept, Marked, RevisionWorker, RevisionTold
<1>2. IInv /\ AllKept /\ [Next]_vars => AllKept'
  <2>1. IInv /\ AllKept /\ Next => AllKept'
    <3> SUFFICES ASSUME IInv, AllKept, Next PROVE AllKept'
      OBVIOUS
    <3>1. ASSUME NEW n \in RevNames, RevisionController(n) PROVE AllKept'
      BY <3>1, OthersLeft, KeptRevisionController DEF IInv
    <3> QED
      BY <3>1, KeptEnvironment, KeptCluster, KeptIstioController DEF Next
  <2>2. AllKept /\ UNCHANGED vars => AllKept'
    BY KeptIdle DEF vars
  <2> QED BY <2>1, <2>2
<1> QED
  BY <1>1, <1>2, Inductive, PTL DEF Spec

\* No work on a revision is forgotten, whatever the interleaving, the lag of the
\* caches, the failures and the crashes.
THEOREM NoRevisionForgotten == Spec => []RevisionsReconciled
<1>1. IInv /\ (\A n \in RevNames : Kept(n)) => RevisionsReconciled
  BY DEF RevisionsReconciled, IInv, NoOrphanRelease, Kept, RevisionTold, Removed
<1> QED
  BY <1>1, Inductive, KeptInductive, PTL

-----------------------------------------------------------------------------
(* The Istio: its status, its active revision, and the next prune.         *)

\* SmallestOf picks what is no larger than anything else.
LEMMA SmallestIsLeast ==
  ASSUME NEW S \in SUBSET Nat, NEW y \in S
  PROVE  SmallestOf(S) <= y
<1>1. PICK x \in S : \A z \in S : <<z, x>> \notin OpToRel(<, Nat)
  BY NatLessThanWellFounded, WFMin, Zenon
<1>2. \A z \in S : <<z, x>> \in Nat \X Nat
  OBVIOUS
<1>3. \A z \in S : ~ (z < x)
  BY <1>1, <1>2, Zenon DEF OpToRel
<1>4. \A z \in S : x <= z
  BY <1>3
<1> QED
  BY <1>4 DEF SmallestOf

\* The active revision is in the cache as the Istio i wants it, or has an event
\* pending.
ActiveKnown(i) ==
  LET active == getActiveRevisionName(i)
  IN  "cache" \in fresh[active] => cRev[active] # None /\ cRev[active].version = i.version

\* An unused revision that the Istio i has to prune when its time has come.
Prunable(i, n) ==
  /\ "cache" \in fresh[n] /\ cRev[n] # None /\ ~ cRev[n].deleting
  /\ cRev[n].owner = i.uid /\ n # getActiveRevisionName(i) /\ cRev[n].inUse = "False"

\* A reconcile that is not to be repeated works on the Istio in the cache, has
\* seen to its active revision and knows when to prune next.
IstioWorker ==
  iw # IdleIw /\ "Istio" \notin queue =>
    /\ iw.obj = cIstio
    /\ ~ iw.err => ActiveKnown(iw.obj)
    /\ (~ SlowPrune /\ ~ iw.err /\ iw.pc = "status") =>
         \A n \in RevNames : Prunable(iw.obj, n) => iw.next \in 1 .. (Grace - cRev[n].age)

StatusTold(i) ==
  LET active == getActiveRevisionName(i)
  IN  ("cache" \in fresh[active] /\ istio # None /\ istio.uid = i.uid /\ istio.status = i.status)
      => istio.status = [active |-> active, state |-> "FromRevision"]

\* When there is nothing to do for the Istio in the cache, all has been done.  The
\* server's may differ in its spec, even differ and come to be the same again.
IstioTold ==
  iw = IdleIw /\ "Istio" \notin queue /\ cIstio # None =>
    /\ ActiveKnown(cIstio)
    /\ StatusTold(cIstio)
    /\ ~ SlowPrune => \A n \in RevNames : Prunable(cIstio, n) => timer <= Grace - cRev[n].age

\* A uid is never given to an Istio again.
UidsPast ==
  /\ istio # None => istio.uid <= spent["istio"]
  /\ cIstio # None => cIstio.uid <= spent["istio"]

Seen == (iw.pc = "prune" => ~ iw.err) /\ IstioWorker /\ IstioTold /\ UidsPast

\* What other steps may do to the Istio on the server.
OtherWrite ==
  \/ istio' = None
  \/ istio # None /\ istio'.uid = istio.uid /\ istio'.status = istio.status
  \/ istio'.uid > spent["istio"] /\ istio'.uid <= spent'["istio"]

LEMMA SpentGrows ==
  ASSUME TypeOK,
         \/ UNCHANGED spent \/ CallSucceeds \/ CallFails
         \/ \E kind \in Disturbances : Spend(kind)
         \/ \E changed : PatchGoesOut(changed)
  PROVE  /\ spent["istio"] \in Nat /\ spent'["istio"] \in Nat
         /\ spent["istio"] <= spent'["istio"]
<1>1. "istio" \in Disturbances /\ "fault" \in Disturbances /\ "event" \in Disturbances
  BY DEF Disturbances
<1>2. spent["istio"] \in Nat
  BY <1>1 DEF TypeOK
<1>3. \A kind \in Disturbances : Spend(kind) =>
        spent'["istio"] \in Nat /\ spent["istio"] <= spent'["istio"]
  BY <1>1, <1>2 DEF Spend, TypeOK
<1>4. \/ UNCHANGED spent \/ \E kind \in Disturbances : Spend(kind)
  BY <1>1 DEF CallSucceeds, CallFails, PatchGoesOut
<1> QED
  BY <1>2, <1>3, <1>4

\* A step of somebody else than the Istio controller and its informers.
LEMMA SeenLeft ==
  ASSUME TypeOK, Seen, iw' = iw, cIstio' = cIstio, cRev' = cRev, timer' = timer,
         \A n \in RevNames : "cache" \in fresh'[n] => "cache" \in fresh[n],
         "Istio" \in queue => "Istio" \in queue',
         OtherWrite,
         spent'["istio"] \in Nat, spent["istio"] <= spent'["istio"]
  PROVE  Seen'
<1>0. /\ iw # IdleIw => iw.obj \in Istios
      /\ cIstio \in Istios \cup {None} /\ istio \in Istios \cup {None}
      /\ spent["istio"] \in Nat
      /\ \A i \in Istios : getActiveRevisionName(i) \in RevNames /\ i.uid \in Nat
  BY ActiveNameType DEF TypeOK, Disturbances, Istios
<1>1. \A i \in Istios : ActiveKnown(i) => ActiveKnown(i)'
  BY <1>0 DEF ActiveKnown, getActiveRevisionName
<1>2. \A i \in Istios, n \in RevNames : Prunable(i, n)' => Prunable(i, n)
  BY DEF Prunable, getActiveRevisionName
<1>3. IstioWorker'
  BY <1>0, <1>1, <1>2 DEF Seen, IstioWorker
<1>4. UidsPast'
  BY <1>0 DEF Seen, UidsPast, OtherWrite
<1>5. cIstio # None /\ StatusTold(cIstio) => StatusTold(cIstio)'
  BY <1>0 DEF Seen, StatusTold, UidsPast, OtherWrite, getActiveRevisionName
<1>6. IstioTold'
  BY <1>0, <1>1, <1>2, <1>5 DEF Seen, IstioTold
<1> QED
  BY <1>3, <1>4, <1>6 DEF Seen

LEMMA SeenEnvironment ==
  ASSUME TypeOK, Seen, Environment
  PROVE  Seen'
<1>0. /\ "istio" \in Disturbances /\ "spec" \in Disturbances /\ "delete" \in Disturbances
      /\ "use" \in Disturbances /\ "event" \in Disturbances /\ "crash" \in Disturbances
  BY DEF Disturbances
<1>1. CASE CreateIstio
  <2>1. istio'.uid = spent'["istio"] /\ spent'["istio"] = spent["istio"] + 1 /\ spent["istio"] \in Nat
    BY <1>0, <1>1 DEF CreateIstio, Spend, TypeOK
  <2>2. OtherWrite
    BY <2>1 DEF OtherWrite
  <2>3. /\ iw' = iw /\ cIstio' = cIstio /\ cRev' = cRev /\ timer' = timer
        /\ fresh' = fresh /\ queue' = queue
    BY <1>1 DEF CreateIstio, operatorVars
  <2> QED BY <2>1, <2>2, <2>3, SeenLeft
<1>2. CASE ChangeIstioSpec \/ DeleteIstio
  <2>1. OtherWrite
    BY <1>2 DEF ChangeIstioSpec, DeleteIstio, OtherWrite, TypeOK, Istios
  <2>2. /\ iw' = iw /\ cIstio' = cIstio /\ cRev' = cRev /\ timer' = timer
        /\ fresh' = fresh /\ queue' = queue
        /\ \E kind \in Disturbances : Spend(kind)
    BY <1>0, <1>2 DEF ChangeIstioSpec, DeleteIstio, operatorVars
  <2> QED BY <2>1, <2>2, SpentGrows, SeenLeft
<1>3. CASE Crash
  <2>1. spent["istio"] \in Nat /\ spent'["istio"] \in Nat /\ spent["istio"] <= spent'["istio"]
    BY <1>0, <1>3, SpentGrows DEF Crash
  <2>2. UidsPast'
    BY <1>3, <2>1 DEF Crash, Seen, UidsPast, TypeOK, Istios
  <2>3. iw'.pc # "prune" /\ iw' = IdleIw /\ (cIstio' # None => "Istio" \in queue')
    BY <1>3 DEF Crash, IdleIw
  <2> QED BY <2>2, <2>3 DEF Seen, IstioWorker, IstioTold
<1>4. ASSUME NEW n \in RevNames, DeleteRevision(n) \/ ChangeUsage(n) \/ OwnedResourceEvent(n)
      PROVE  Seen'
  <2>1. /\ iw' = iw /\ cIstio' = cIstio /\ istio' = istio /\ cRev' = cRev /\ timer' = timer
        /\ "Istio" \in queue => "Istio" \in queue'
        /\ \A m \in RevNames : "cache" \in fresh'[m] => "cache" \in fresh[m]
        /\ \E kind \in Disturbances : Spend(kind)
    BY <1>0, <1>4 DEF DeleteRevision, ChangeUsage, OwnedResourceEvent, operatorVars, Writes
  <2>2. OtherWrite
    BY <2>1 DEF OtherWrite
  <2> QED BY <2>1, <2>2, SpentGrows, SeenLeft
<1> QED
  BY <1>1, <1>2, <1>3, <1>4 DEF Environment

LEMMA SeenTick ==
  ASSUME TypeOK, Seen, Tick
  PROVE  Seen'
<1>0. /\ istio' = istio /\ cIstio' = cIstio /\ fresh' = fresh /\ queue' = queue /\ spent' = spent
      /\ timer' = Sooner(timer) /\ timer \in Timers
      /\ \A n \in RevNames : /\ cRev'[n] = OlderRev(cRev[n])
                             /\ cRev[n] \in Revisions \cup {None}
                             /\ cRev[n] # None => cRev[n].age \in Ages
  BY DEF Tick, TypeOK, Revisions
<1>1. /\ iw'.pc = iw.pc /\ (iw' = IdleIw <=> iw = IdleIw)
      /\ iw # IdleIw => iw'.obj = iw.obj /\ iw'.err = iw.err
      /\ iw.pc # "status" => iw' = iw
  BY DEF Tick, TypeOK, IdleIw
<1>2. \A n \in RevNames :
        /\ (cRev'[n] = None) <=> (cRev[n] = None)
        /\ cRev[n] # None =>
             /\ cRev'[n].version = cRev[n].version /\ cRev'[n].owner = cRev[n].owner
             /\ cRev'[n].deleting = cRev[n].deleting /\ cRev'[n].inUse = cRev[n].inUse
             /\ cRev[n].inUse = "False" => cRev'[n].age = Older(cRev[n].age)
  <2>1. OlderRev(None) = None
    BY DEF OlderRev
  <2> QED BY <1>0, <2>1, OlderRevKeeps
<1>3. \A i \in Istios : ActiveKnown(i) => ActiveKnown(i)'
  BY <1>0, <1>2, ActiveNameType DEF ActiveKnown, getActiveRevisionName
<1>4. \A i \in Istios, n \in RevNames : Prunable(i, n)' => Prunable(i, n)
  BY <1>0, <1>2 DEF Prunable, getActiveRevisionName
<1>5. ~ SlowPrune => iw.pc # "status"
  BY DEF Tick
<1>6. (iw # IdleIw => iw.obj \in Istios) /\ cIstio \in Istios \cup {None}
  BY DEF TypeOK
<1>7. IstioWorker'
  BY <1>0, <1>1, <1>3, <1>5, <1>6 DEF Seen, IstioWorker
\* The timer runs as fast as the grace period.
<1>8. \A i \in Istios, n \in RevNames :
        Prunable(i, n)' /\ timer <= Grace - cRev[n].age => timer' <= Grace - cRev'[n].age
  <2> SUFFICES ASSUME NEW i \in Istios, NEW n \in RevNames, Prunable(i, n)',
                      timer <= Grace - cRev[n].age
               PROVE  timer' <= Grace - cRev'[n].age
    OBVIOUS
  <2>1. cRev[n] # None /\ cRev[n].inUse = "False"
    BY <1>4 DEF Prunable
  <2>2. cRev'[n].age = Older(cRev[n].age) /\ cRev[n].age \in Ages
    BY <1>0, <1>2, <2>1
  <2> QED BY <1>0, <2>2, GraceAssumption DEF Sooner, Older, Ages, Timers, NoTimer
<1>9. IstioTold'
  <2>1. cIstio # None /\ StatusTold(cIstio) => StatusTold(cIstio)'
    BY <1>0 DEF StatusTold, getActiveRevisionName
  <2> QED BY <1>0, <1>1, <1>3, <1>4, <1>6, <1>8, <2>1 DEF Seen, IstioTold
<1>10. UidsPast'
  BY <1>0 DEF Seen, UidsPast
<1> QED
  BY <1>1, <1>7, <1>9, <1>10 DEF Seen, IdleIw

LEMMA SeenCluster ==
  ASSUME TypeOK, Seen, Cluster \/ Informers
  PROVE  Seen'
<1>1. ASSUME NEW n \in RevNames, CollectGarbage(n) PROVE Seen'
  <2>1. /\ iw' = iw /\ cIstio' = cIstio /\ istio' = istio /\ cRev' = cRev /\ timer' = timer
        /\ queue' = queue /\ UNCHANGED spent
        /\ \A m \in RevNames : "cache" \in fresh'[m] => "cache" \in fresh[m]
    BY <1>1 DEF CollectGarbage, operatorVars, Writes
  <2>2. OtherWrite
    BY <2>1 DEF OtherWrite
  <2> QED BY <2>1, <2>2, SpentGrows, SeenLeft
\* An informer's step puts the key into the queue.
<1>2. ASSUME "Istio" \in queue', iw' = iw, spent' = spent, istio' = istio, cIstio' \in {cIstio, istio}
      PROVE  Seen'
  BY <1>2 DEF Seen, IstioWorker, IstioTold, UidsPast
<1>3. CASE DeliverIstio \/ TimerFires
  BY <1>2, <1>3 DEF DeliverIstio, TimerFires
<1>4. ASSUME NEW n \in RevNames, DeliverRevision(n) PROVE Seen'
  BY <1>2, <1>4 DEF DeliverRevision
<1> QED
  BY <1>1, <1>3, <1>4, SeenTick DEF Cluster, Informers

LEMMA SeenRevisionController ==
  ASSUME TypeOK, Seen, NEW n \in RevNames, RevisionController(n)
  PROVE  Seen'
<1>0. n # "Istio"
  BY KeyAssumption DEF RevNames
<1>1. iw' = iw /\ cIstio' = cIstio /\ istio' = istio /\ cRev' = cRev /\ timer' = timer
  BY DEF RevisionController, RevisionNotFound, AddFinalizer, Finalize, RemoveFinalizer,
     InstallCharts, UpdateRevisionStatus, istioVars
<1>2. "Istio" \in queue => "Istio" \in queue'
  BY <1>0 DEF RevisionController, RevisionNotFound, AddFinalizer, Finalize, RemoveFinalizer,
     InstallCharts, UpdateRevisionStatus, Processed, Retry
<1>3. \A f : Writes(f) => \A m \in RevNames : "cache" \in fresh'[m] => "cache" \in fresh[m]
  BY DEF Writes
<1>4. \A m \in RevNames : "cache" \in fresh'[m] => "cache" \in fresh[m]
  BY <1>3 DEF RevisionController, RevisionNotFound, AddFinalizer, Finalize, RemoveFinalizer,
     InstallCharts, UpdateRevisionStatus, Captures, TypeOK
<1>5. spent["istio"] \in Nat /\ spent'["istio"] \in Nat /\ spent["istio"] <= spent'["istio"]
  <2>1. UNCHANGED spent \/ CallSucceeds \/ CallFails \/ \E changed : PatchGoesOut(changed)
    BY DEF RevisionController, RevisionNotFound, AddFinalizer, Finalize, RemoveFinalizer,
       InstallCharts, UpdateRevisionStatus
  <2> QED BY <2>1, SpentGrows
<1>6. OtherWrite
  BY <1>1 DEF OtherWrite
<1> QED
  BY <1>1, <1>2, <1>4, <1>5, <1>6, SeenLeft

\* A reconcile begins: the key is taken, and the copy is the one in the cache.
LEMMA SeenTaken ==
  ASSUME TypeOK, Seen, TakeIstioKey, cIstio # None,
         NEW pc \in {"prune", "status"}, NEW failed \in BOOLEAN, IstioGoesTo(pc, failed, NoTimer),
         pc = "prune" <=> ~ failed,
         ~ failed => ActiveKnown(cIstio)',
         cIstio' = cIstio, istio' = istio, spent'["istio"] \in Nat, spent["istio"] <= spent'["istio"]
  PROVE  Seen'
<1>1. iw' = [pc |-> pc, obj |-> cIstio, err |-> failed, next |-> NoTimer]
  BY DEF TakeIstioKey, IstioGoesTo, IdleIw
<1>2. iw' # IdleIw
  BY <1>1 DEF IdleIw
<1>3. spent["istio"] \in Nat
  BY DEF TypeOK, Disturbances
<1>4. UidsPast'
  BY <1>3 DEF Seen, UidsPast, TypeOK, Istios
<1>5. IstioWorker'
  BY <1>1 DEF IstioWorker
<1> QED
  BY <1>1, <1>2, <1>4, <1>5 DEF Seen, IstioTold

LEMMA SeenActiveRevision ==
  ASSUME IInv, \A m \in RevNames : Kept(m), Seen, CreateActiveRevision \/ UpdateActiveRevision
  PROVE  Seen'
<1> DEFINE n == getActiveRevisionName(cIstio)
<1>0. /\ TypeOK /\ cIstio \in Istios /\ n \in RevNames /\ cIstio' = cIstio /\ istio' = istio
      /\ TakeIstioKey /\ cIstio # None /\ cRev' = cRev
  BY ActiveNameType DEF IInv, TypeOK, CreateActiveRevision, UpdateActiveRevision, revisionVars
<1>1. spent'["istio"] \in Nat /\ spent["istio"] <= spent'["istio"]
  <2>1. CallSucceeds \/ CallFails
    BY DEF CreateActiveRevision, UpdateActiveRevision
  <2> QED BY <1>0, <2>1, SpentGrows
<1>2. CASE IstioGoesTo("status", TRUE, NoTimer)
  BY <1>0, <1>1, <1>2, SeenTaken
<1>3. ASSUME CreateActiveRevision, rev[n] = None, Writes([rev EXCEPT ![n] = NewRevision(n)]),
             IstioGoesTo("prune", FALSE, NoTimer)
      PROVE  Seen'
  <2>1. NewRevision(n) # None
    <3>1. NewRevision(n) \in Revisions
      BY <1>0, <1>3, NewUidType, GraceAssumption
      DEF NewRevision, Revisions, Istios, Ages, IInv, CreateActiveRevision
    <3> QED BY <3>1, NoneAssumption
  <2>2. "cache" \notin fresh'[n]
    BY <1>0, <1>3, <2>1 DEF Writes, TypeOK
  <2>3. ActiveKnown(cIstio)'
    BY <1>0, <2>2 DEF ActiveKnown, getActiveRevisionName
  <2> HIDE DEF n
  <2> QED BY <1>0, <1>1, <1>3, <2>3, SeenTaken
\* The cache still has the current revision only if the update changed nothing.
<1>4. ASSUME UpdateActiveRevision, UpdateAccepted(n, "cache"), cRev[n] # None,
             Writes([rev EXCEPT ![n] = [@ EXCEPT !.version = cIstio.version]]),
             IstioGoesTo("prune", FALSE, NoTimer)
      PROVE  Seen'
  <2>1. rev[n] = cRev[n] /\ rev[n] \in Revisions
    BY <1>0, <1>4 DEF UpdateAccepted, Kept, TypeOK
  <2>2. [rev[n] EXCEPT !.version = cIstio.version].version = cIstio.version
    BY <2>1 DEF Revisions
  <2>3. "cache" \in fresh'[n] => rev[n].version = cIstio.version
    BY <1>0, <1>4, <2>1, <2>2 DEF Writes, TypeOK
  <2>4. ActiveKnown(cIstio)'
    BY <1>0, <1>4, <2>1, <2>3 DEF ActiveKnown, getActiveRevisionName
  <2> HIDE DEF n
  <2> QED BY <1>0, <1>1, <1>4, <2>4, SeenTaken
<1> QED
  BY <1>2, <1>3, <1>4 DEF CreateActiveRevision, UpdateActiveRevision

\* NextPrune is a time to come, and no later than any unused revision's.
LEMMA NextPruneIsSoonEnough ==
  ASSUME TypeOK, NEW n \in Inactive \ Expired
  PROVE  NextPrune \in 1 .. (Grace - cRev[n].age)
<1> DEFINE S == {Grace - cRev[m].age : m \in Inactive \ Expired} \cup {NoTimer}
<1>1. \A m \in Inactive \ Expired : cRev[m].age \in Ages /\ cRev[m].age # Grace
  BY DEF Inactive, Expired, TypeOK, Revisions
<1>2. \A m \in Inactive \ Expired : Grace - cRev[m].age \in 1 .. Grace
  BY <1>1, GraceAssumption DEF Ages
<1>3. S \in SUBSET Nat /\ S # {} /\ \A x \in S : x >= 1
  BY <1>2, GraceAssumption DEF NoTimer
<1>4. Grace - cRev[n].age \in S
  OBVIOUS
<1>5. SmallestOf(S) \in S /\ SmallestOf(S) <= Grace - cRev[n].age
  <2> HIDE DEF S
  <2> QED BY <1>3, <1>4, SmallestIsMember, SmallestIsLeast
<1>6. NextPrune = SmallestOf(S)
  BY DEF NextPrune
<1>7. NextPrune \in Nat /\ NextPrune >= 1 /\ NextPrune <= Grace - cRev[n].age
  <2> HIDE DEF S
  <2> QED BY <1>3, <1>5, <1>6
<1>8. Grace - cRev[n].age \in 1 .. Grace
  BY <1>2
<1> QED
  BY <1>7, <1>8, GraceAssumption

LEMMA SeenPruneInactive ==
  ASSUME IInv, \A m \in RevNames : Kept(m), Seen, PruneInactive
  PROVE  Seen'
<1> DEFINE f(gone) == [n \in RevNames |-> IF n \in gone THEN Deleted(rev[n]) ELSE rev[n]]
<1>1. PICK gone \in SUBSET {n \in Expired : rev[n] # None} :
        /\ Writes(f(gone))
        /\ \/ gone = Expired /\ CallSucceeds /\ IstioGoesTo("status", FALSE, NextPrune)
           \/ (CallSucceeds \/ CallFails) /\ IstioGoesTo("status", TRUE, NoTimer)
  BY DEF PruneInactive
<1>2. /\ TypeOK /\ iw # IdleIw /\ iw.pc = "prune" /\ ~ iw.err /\ iw.obj \in Istios
      /\ queue' = queue /\ istio' = istio /\ cIstio' = cIstio /\ cRev' = cRev
  BY DEF PruneInactive, Seen, IInv, TypeOK, IdleIw, revisionVars
<1>3. spent["istio"] \in Nat /\ spent'["istio"] \in Nat /\ spent["istio"] <= spent'["istio"]
  BY <1>1, <1>2, SpentGrows
<1>4. UidsPast'
  BY <1>2, <1>3 DEF Seen, UidsPast, TypeOK, Istios
<1>5. \A n \in RevNames : /\ rev'[n] = IF n \in gone THEN Deleted(rev[n]) ELSE rev[n]
                          /\ "cache" \in fresh'[n] => "cache" \in fresh[n] /\ rev'[n] = rev[n]
  BY <1>1 DEF Writes
<1>6. iw'.pc = "status" /\ iw' # IdleIw /\ iw'.obj = iw.obj
  BY <1>1, <1>2 DEF IstioGoesTo, IdleIw
<1>7. ActiveKnown(iw.obj) => ActiveKnown(iw.obj)'
  BY <1>2, <1>5, <1>6, ActiveNameType DEF ActiveKnown, getActiveRevisionName
<1>8. ASSUME ~ iw'.err, NEW n \in RevNames, Prunable(iw.obj, n)'
      PROVE  iw'.next \in 1 .. (Grace - cRev[n].age)
  <2>1. gone = Expired /\ iw'.next = NextPrune
    BY <1>1, <1>8 DEF IstioGoesTo
  <2>2. /\ "cache" \in fresh'[n] /\ cRev[n] # None /\ ~ cRev[n].deleting
        /\ n \in Inactive
    BY <1>2, <1>6, <1>8 DEF Prunable, Inactive, isOwnedRevision, getActiveRevisionName
  <2>3. rev[n] = cRev[n] /\ rev'[n] = rev[n] /\ rev[n] \in Revisions
    BY <1>2, <1>5, <2>2 DEF Kept, TypeOK
  <2>4. n \notin Expired
    BY <1>5, <2>1, <2>2, <2>3, NoneAssumption DEF Deleted, Revisions
  <2> QED BY <1>2, <2>1, <2>2, <2>4, NextPruneIsSoonEnough
<1>9. IstioWorker'
  BY <1>2, <1>6, <1>7, <1>8 DEF Seen, IstioWorker
<1> QED
  BY <1>4, <1>6, <1>9 DEF Seen, IstioTold

LEMMA SeenUpdateStatus ==
  ASSUME TypeOK, Seen, UpdateIstioStatus
  PROVE  Seen'
<1> DEFINE active == getActiveRevisionName(iw.obj)
<1>1. /\ iw # IdleIw /\ iw.pc = "status" /\ iw' = IdleIw /\ iw.obj \in Istios /\ iw.next \in Timers
      /\ iw'.pc = "idle" /\ cIstio' = cIstio /\ cRev' = cRev /\ fresh' = fresh
      /\ active \in RevNames /\ timer \in Timers
  BY ActiveNameType DEF UpdateIstioStatus, TypeOK, IdleIw, revisionVars
<1>2. spent["istio"] \in Nat /\ spent'["istio"] \in Nat /\ spent["istio"] <= spent'["istio"]
  BY SpentGrows DEF UpdateIstioStatus
<1>3. UidsPast'
  <2>1. istio # None => [istio EXCEPT !.status = DeterminedStatus].uid = istio.uid /\ istio.uid \in Nat
    BY DEF TypeOK, Istios
  <2>2. istio' = istio \/ (istio # None /\ istio' = [istio EXCEPT !.status = DeterminedStatus])
    BY DEF UpdateIstioStatus
  <2>3. istio' # None => istio # None /\ istio'.uid = istio.uid
    <3>1. CASE istio' = istio
      BY <3>1
    <3>2. CASE istio # None /\ istio' = [istio EXCEPT !.status = DeterminedStatus]
      <4> HIDE DEF DeterminedStatus
      <4> QED BY <2>1, <3>2
    <3> QED BY <2>2, <3>1, <3>2
  <2>4. cIstio # None => cIstio.uid \in Nat
    BY DEF TypeOK, Istios
  <2> QED BY <1>1, <1>2, <2>1, <2>3, <2>4 DEF Seen, UidsPast
<1>4. CASE "Istio" \in queue'
  BY <1>1, <1>3, <1>4 DEF Seen, IstioWorker, IstioTold
<1>5. CASE "Istio" \notin queue'
  <2>1. /\ ~ iw.err /\ RequeuesIstio(FALSE) /\ queue' = queue
        /\ timer' = IF iw.next \in 1 .. Grace THEN SmallestOf({timer, iw.next}) ELSE timer
        /\ \/ DeterminedStatus = iw.obj.status /\ istio' = istio
           \/ istio # None /\ istio' = [istio EXCEPT !.status = DeterminedStatus]
    BY <1>5 DEF UpdateIstioStatus, RequeuesIstio
  <2>2. iw.obj = cIstio /\ ActiveKnown(cIstio) /\ cIstio # None
    BY <1>1, <1>5, <2>1, NoneAssumption DEF Seen, IstioWorker
  <2>3. "cache" \in fresh[active] => DeterminedStatus = [active |-> active, state |-> "FromRevision"]
    BY <2>1, <2>2 DEF DeterminedStatus, ActiveKnown
  <2>4. istio # None => [istio EXCEPT !.status = DeterminedStatus].status = DeterminedStatus
    BY DEF TypeOK, Istios
  <2>5. StatusTold(cIstio)'
    BY <1>1, <2>1, <2>2, <2>3, <2>4 DEF StatusTold, getActiveRevisionName
  <2>6. ActiveKnown(cIstio)'
    BY <1>1, <2>2 DEF ActiveKnown, getActiveRevisionName
  <2>7. ASSUME ~ SlowPrune, NEW n \in RevNames, Prunable(cIstio, n)'
        PROVE  timer' <= Grace - cRev'[n].age
    <3>1. Prunable(cIstio, n)
      BY <1>1, <2>7 DEF Prunable, getActiveRevisionName
    <3>2. iw.next \in 1 .. (Grace - cRev[n].age)
      BY <1>1, <1>5, <2>1, <2>2, <2>7, <3>1 DEF Seen, IstioWorker
    <3>3. cRev[n].age \in Ages
      BY <3>1 DEF Prunable, TypeOK, Revisions
    <3>4. timer' = SmallestOf({timer, iw.next})
      BY <2>1, <3>2, <3>3, GraceAssumption DEF Ages
    <3>5. {timer, iw.next} \in SUBSET Nat
      BY <1>1, GraceAssumption DEF Timers, NoTimer
    <3>6. timer' \in Nat /\ timer' <= iw.next
      BY <3>4, <3>5, SmallestIsLeast, SmallestIsMember
    <3> QED BY <1>1, <3>2, <3>3, <3>6, GraceAssumption DEF Ages
  <2>8. IstioTold'
    BY <1>1, <2>5, <2>6, <2>7 DEF IstioTold
  <2> QED BY <1>1, <1>3, <2>8 DEF Seen, IstioWorker
<1> QED
  BY <1>4, <1>5

LEMMA SeenIstioController ==
  ASSUME IInv, \A m \in RevNames : Kept(m), Seen, IstioController
  PROVE  Seen'
<1>1. CASE IstioNotFound
  BY <1>1 DEF IstioNotFound, TakeIstioKey, revisionVars, Seen, IstioWorker, IstioTold, UidsPast
<1> QED
  BY <1>1, SeenActiveRevision, SeenPruneInactive, SeenUpdateStatus DEF IstioController, IInv

LEMMA SeenInductive ==
  Spec => []Seen
<1> DEFINE AllKept == \A n \in RevNames : Kept(n)
<1>1. Init => Seen
  BY DEF Init, Seen, IstioWorker, IstioTold, UidsPast, IdleIw
<1>2. IInv /\ AllKept /\ Seen /\ [Next]_vars => Seen'
  <2>1. IInv /\ AllKept /\ Seen /\ Next => Seen'
    BY SeenEnvironment, SeenCluster, SeenIstioController, SeenRevisionController DEF Next, IInv
  <2>2. IInv /\ Seen /\ UNCHANGED vars => Seen'
    BY DEF vars, Seen, IstioWorker, IstioTold, UidsPast, ActiveKnown, StatusTold, Prunable,
       getActiveRevisionName
  <2> QED BY <2>1, <2>2
<1> QED
  BY <1>1, <1>2, Inductive, KeptInductive, PTL DEF Spec

\* What the Istio asks of its active revision has been done, and said, when nothing
\* is pending for it.
LEMMA ReconciledWhenSeen ==
  ASSUME IInv, \A n \in RevNames : Kept(n), Seen
  PROVE  IstioReconciled
<1> SUFFICES ASSUME IstioAtRest, istio # None, "cache" \in fresh[getActiveRevisionName(istio)]
             PROVE  LET active == getActiveRevisionName(istio)
                    IN  /\ rev[active] # None /\ rev[active].version = istio.version
                        /\ istio.status = [active |-> active, state |-> "FromRevision"]
  BY DEF IstioReconciled
<1>1. istio \in Istios /\ getActiveRevisionName(istio) \in RevNames
  BY ActiveNameType DEF IInv, TypeOK
<1>2. ActiveKnown(istio) /\ StatusTold(istio)
  BY DEF Seen, IstioTold, IstioAtRest
<1> QED
  BY <1>1, <1>2 DEF Kept, ActiveKnown, StatusTold

THEOREM NoIstioForgotten == Spec => []IstioReconciled
BY ReconciledWhenSeen, Inductive, KeptInductive, SeenInductive, PTL

LEMMA ScheduledWhenSeen ==
  ASSUME ~ SlowPrune, IInv, \A n \in RevNames : Kept(n), Seen
  PROVE  PruneScheduled
BY DEF PruneScheduled, IstioAtRest, Seen, IstioTold, Prunable, Kept

\* If no second passes between PruneInactive and the timer it sets, an unused
\* revision never waits longer than its grace period.
THEOREM PruneIsScheduled ==
  ASSUME ~ SlowPrune
  PROVE  Spec => []PruneScheduled
<1>1. IInv /\ (\A n \in RevNames : Kept(n)) /\ Seen => PruneScheduled
  BY ScheduledWhenSeen
<1> QED
  BY <1>1, Inductive, KeptInductive, SeenInductive, PTL

\* Then the operator rests only in the state that users want.
THEOREM RestsOnlyWhenSettled ==
  ASSUME ~ SlowPrune
  PROVE  Spec => []SettledAtRest
<1>1. ASSUME IInv, \A n \in RevNames : Kept(n), Seen, AtRest
      PROVE  Settled
  <2>1. /\ RevisionsReconciled /\ IstioReconciled /\ PruneScheduled
        /\ IstioAtRest /\ timer = NoTimer
        /\ \A n \in RevNames :
             /\ RevisionAtRest(n) /\ "cache" \in fresh[n]
             /\ rev[n] # None /\ ~ rev[n].deleting => istio # None /\ istio.uid = rev[n].owner
    BY <1>1, ReconciledWhenSeen, ScheduledWhenSeen
    DEF AtRest, RevisionAtRest, RevisionsReconciled, IInv, NoOrphanRelease, Kept, RevisionTold, Removed
  <2>2. \A n \in RevNames : Removed(n) \/ (istio # None /\ Installed(n))
    BY <2>1 DEF RevisionsReconciled, Installed, DeterminedInUse
  <2>3. CASE istio = None
    BY <2>2, <2>3 DEF Settled
  <2>4. CASE istio # None
    <3> DEFINE active == getActiveRevisionName(istio)
    <3>1. active \in RevNames
      BY <2>4, ActiveNameType, <1>1 DEF IInv, TypeOK
    <3>2. /\ rev[active] # None /\ rev[active].version = istio.version
          /\ istio.status = [active |-> active, state |-> "FromRevision"]
      BY <2>1, <2>4, <3>1 DEF IstioReconciled
    <3>3. Installed(active)
      BY <2>2, <3>1, <3>2 DEF Removed
    <3>4. ASSUME NEW n \in RevNames \ {active}, ~ Removed(n) PROVE used[n]
      <4>1. Installed(n) /\ rev[n] # None /\ rev[n] \in Revisions
        BY <2>2, <3>4, <1>1 DEF Installed, IInv, TypeOK
      <4>2. ~ (timer <= Grace - rev[n].age)
        BY <2>1, <4>1, GraceAssumption DEF Revisions, Ages, NoTimer
      <4> QED BY <2>1, <2>4, <3>4, <4>1, <4>2 DEF PruneScheduled, Installed
    <3> QED BY <2>2, <2>4, <3>2, <3>3, <3>4 DEF Settled
  <2> QED BY <2>3, <2>4
<1>2. IInv /\ (\A n \in RevNames : Kept(n)) /\ Seen => SettledAtRest
  BY <1>1 DEF SettledAtRest
<1> QED
  BY <1>2, Inductive, KeptInductive, SeenInductive, PTL

-----------------------------------------------------------------------------
(* The finalizer contract.                                                 *)

\* The operator adds its finalizer only to an object that its cache shows.
Known(n) == rev[n] # None /\ rev[n].fin => cRev[n] # None

SameMarks(r, new) ==
  /\ (new = None) <=> (r = None)
  /\ r # None => new.fin = r.fin /\ new.deleting = r.deleting

\* All that a step may do to a revision, its cached copy and its release.
OnlyAges(n) ==
  SameMarks(rev[n], rev'[n]) /\ SameMarks(cRev[n], cRev'[n]) /\ release'[n] = release[n]

Delivered(n) == rev'[n] = rev[n] /\ cRev'[n] = rev[n] /\ release'[n] = release[n]

Created(n) == rev[n] = None /\ rev'[n] # None /\ ~ rev'[n].fin

FinalizerAdded(n) ==
  /\ rev[n] # None /\ ~ rev[n].fin /\ cRev[n] # None
  /\ rev'[n] # None /\ rev'[n].fin /\ ~ rev'[n].deleting

DeletionAsked(n) == rev[n] # None /\ ~ rev[n].deleting /\ rev'[n] = Deleted(rev[n])

FinalizerRemoved(n) ==
  /\ rev[n] # None /\ rev[n].deleting /\ ~ release[n] /\ rev'[n] = None
  /\ cRev[n] # None => cRev[n].deleting

Written(n) ==
  /\ cRev'[n] = cRev[n] /\ release'[n] = release[n]
  /\ Created(n) \/ FinalizerAdded(n) \/ DeletionAsked(n) \/ FinalizerRemoved(n)

ReleaseChanged(n) ==
  /\ rev'[n] = rev[n] /\ cRev'[n] = cRev[n] /\ cRev[n] # None
  /\ \/ cRev[n].fin /\ ~ cRev[n].deleting /\ release'[n] \in BOOLEAN
     \/ cRev[n].deleting /\ release'[n] \in {release[n], FALSE}

Change(n) == OnlyAges(n) \/ Delivered(n) \/ Written(n) \/ ReleaseChanged(n)

ContractStep(n) == Finalization!Stays(n) \/ Finalization!Step(n)

\* What is to be shown of the stage for a step to be one of the contract.
LEMMA StageStep ==
  ASSUME NEW n \in RevNames, release'[n] \in BOOLEAN,
         \/ release'[n] = release[n] /\ Stage(n)' = Stage(n)
         \/ release'[n] = release[n] /\ Stage(n) = "Absent" /\ Stage(n)' = "New"
         \/ release'[n] = release[n] /\ Stage(n) = "New" /\ Stage(n)' \in {"Guarded", "Absent"}
         \/ release'[n] = release[n] /\ Stage(n) = "Guarded" /\ Stage(n)' = "Doomed"
         \/ release'[n] = release[n] /\ Stage(n) = "Doomed" /\ Stage(n)' = "Leaving"
         \/ ~ release[n] /\ release'[n] = release[n] /\ Stage(n) = "Leaving" /\ Stage(n)' = "Absent"
         \/ Stage(n) \in {"Guarded", "Doomed"} /\ Stage(n)' = Stage(n)
         \/ Stage(n) = "Leaving" /\ Stage(n)' = Stage(n) /\ ~ release'[n]
  PROVE  ContractStep(n)
BY DEF ContractStep, Finalization!Stays, Finalization!Step, Finalization!Becomes,
       Finalization!Create, Finalization!AddFinalizer, Finalization!Delete, Finalization!Notice,
       Finalization!Reconcile, Finalization!Finalize, Finalization!RemoveFinalizer

LEMMA ChangeIsAllowed ==
  ASSUME IInv, TypeOK', NEW n \in RevNames, Kept(n), Known(n), Change(n)
  PROVE  Known(n)' /\ ContractStep(n)
<1>0. /\ release'[n] \in BOOLEAN /\ release[n] \in BOOLEAN
      /\ Marked(rev[n])
      /\ release[n] => rev[n] # None /\ rev[n].fin
      /\ cRev[n] # None /\ rev[n] # None => /\ cRev[n].fin => rev[n].fin
                                            /\ cRev[n].deleting => rev[n].deleting
      /\ cRev[n] # None /\ cRev[n].fin /\ ~ cRev[n].deleting => rev[n] # None
  BY DEF IInv, TypeOK, Kept, NoOrphanRelease, CacheFollows, FinalizerHolds
<1>1. CASE OnlyAges(n)
  <2>1. Stage(n)' = Stage(n)
    BY <1>1 DEF OnlyAges, SameMarks, Stage
  <2> QED BY <1>0, <1>1, <2>1, StageStep DEF OnlyAges, SameMarks, Known
<1>2. CASE Delivered(n)
  <2>1. Stage(n)' = Stage(n) \/ (Stage(n) = "Doomed" /\ Stage(n)' = "Leaving")
    BY <1>2 DEF Delivered, Stage
  <2> QED BY <1>0, <1>2, <2>1, StageStep DEF Delivered, Known
<1>3. CASE Written(n)
  <2>1. CASE Created(n)
    <3>1. Stage(n) = "Absent" /\ Stage(n)' = "New"
      BY <2>1 DEF Created, Stage
    <3> QED BY <1>0, <1>3, <2>1, <3>1, StageStep DEF Written, Created, Known
  <2>2. CASE FinalizerAdded(n)
    <3>1. Stage(n) = "New" /\ Stage(n)' = "Guarded"
      BY <2>2 DEF FinalizerAdded, Stage
    <3> QED BY <1>0, <1>3, <2>2, <3>1, StageStep DEF Written, FinalizerAdded, Known
  <2>3. CASE DeletionAsked(n)
    <3>1. rev[n] \in Revisions
      BY <2>3 DEF DeletionAsked, IInv, TypeOK
    <3>2. CASE rev[n].fin
      <4>1. rev'[n] \in Revisions /\ rev'[n].fin /\ rev'[n].deleting
        BY <2>3, <3>1, <3>2 DEF DeletionAsked, Deleted, Revisions
      <4>2. Stage(n) = "Guarded" /\ Stage(n)' = "Doomed"
        BY <1>0, <1>3, <2>3, <3>2, <4>1, NoneAssumption DEF DeletionAsked, Written, Stage
      <4> QED BY <1>0, <1>3, <2>3, <3>2, <4>2, StageStep DEF Written, DeletionAsked, Known
    <3>3. CASE ~ rev[n].fin
      <4>1. rev'[n] = None
        BY <2>3, <3>3 DEF DeletionAsked, Deleted
      <4>2. Stage(n) = "New" /\ Stage(n)' = "Absent"
        BY <2>3, <3>3, <4>1 DEF DeletionAsked, Stage
      <4> QED BY <1>0, <1>3, <4>1, <4>2, StageStep DEF Written, Known
    <3> QED BY <3>2, <3>3
  <2>4. CASE FinalizerRemoved(n)
    <3>1. rev[n].fin /\ cRev[n] # None /\ cRev[n].deleting
      BY <1>0, <2>4 DEF FinalizerRemoved, Marked, Known
    <3>2. Stage(n) = "Leaving" /\ Stage(n)' = "Absent"
      BY <2>4, <3>1 DEF FinalizerRemoved, Stage
    <3> QED BY <1>0, <1>3, <2>4, <3>2, StageStep DEF Written, FinalizerRemoved, Known
  <2> QED BY <1>3, <2>1, <2>2, <2>3, <2>4 DEF Written
<1>4. CASE ReleaseChanged(n)
  <2>1. Stage(n)' = Stage(n) /\ Known(n)'
    BY <1>4 DEF ReleaseChanged, Stage, Known
  <2>2. CASE cRev[n].fin /\ ~ cRev[n].deleting
    <3>1. Stage(n) \in {"Guarded", "Doomed"}
      BY <1>0, <1>4, <2>2 DEF ReleaseChanged, Stage
    <3> QED BY <1>0, <2>1, <3>1, StageStep
  <2>3. CASE cRev[n].deleting /\ rev[n] # None
    <3>1. Stage(n) = "Leaving"
      BY <1>0, <1>4, <2>3 DEF ReleaseChanged, Stage, Marked
    <3> QED BY <1>0, <1>4, <2>1, <2>3, <3>1, StageStep DEF ReleaseChanged
  <2>4. CASE cRev[n].deleting /\ rev[n] = None
    BY <1>0, <1>4, <2>1, <2>4, StageStep DEF ReleaseChanged
  <2> QED BY <1>4, <2>2, <2>3, <2>4 DEF ReleaseChanged
<1> QED
  BY <1>1, <1>2, <1>3, <1>4 DEF Change

\* A write to one revision: it is a change of that one and of no other.
LEMMA ChangeByWrite ==
  ASSUME TypeOK, NEW n \in RevNames, NEW new, Writes([rev EXCEPT ![n] = new]),
         cRev' = cRev, release' = release,
         SameMarks(rev[n], rev'[n]) \/ Written(n)
  PROVE  \A m \in RevNames : Change(m)
BY DEF Writes, TypeOK, Change, OnlyAges, SameMarks

LEMMA ChangeByNobody ==
  ASSUME rev' = rev, cRev' = cRev, release' = release
  PROVE  \A m \in RevNames : Change(m)
BY DEF Change, OnlyAges, SameMarks

LEMMA ChangeByCluster ==
  ASSUME TypeOK, Environment \/ Cluster \/ Informers
  PROVE  \A m \in RevNames : Change(m)
<1>1. CASE CreateIstio \/ ChangeIstioSpec \/ DeleteIstio
  <2>1. UNCHANGED <<rev, cRev, release>>
    BY <1>1, Zenon DEF CreateIstio, ChangeIstioSpec, DeleteIstio, operatorVars
  <2> QED BY <2>1, ChangeByNobody
<1>2. CASE Crash
  BY <1>2 DEF Crash, Change, Delivered
<1>3. ASSUME NEW n \in RevNames, DeleteRevision(n) \/ CollectGarbage(n)
      PROVE  \A m \in RevNames : Change(m)
  <2>1. /\ Writes([rev EXCEPT ![n] = Deleted(rev[n])])
        /\ cRev' = cRev /\ release' = release
        /\ rev[n] # None /\ ~ rev[n].deleting
    BY <1>3 DEF DeleteRevision, CollectGarbage, operatorVars
  <2>2. Written(n)
    BY <2>1 DEF Written, DeletionAsked, Writes, TypeOK
  <2> QED BY <2>1, <2>2, ChangeByWrite
<1>4. ASSUME NEW n \in RevNames, ChangeUsage(n) \/ OwnedResourceEvent(n)
      PROVE  \A m \in RevNames : Change(m)
  BY <1>4, ChangeByNobody DEF ChangeUsage, OwnedResourceEvent
<1>5. CASE Tick
  <2> SUFFICES ASSUME NEW m \in RevNames PROVE Change(m)
    OBVIOUS
  <2>1. /\ rev'[m] = OlderRev(rev[m]) /\ cRev'[m] = OlderRev(cRev[m]) /\ release' = release
        /\ rev[m] \in Revisions \cup {None} /\ cRev[m] \in Revisions \cup {None}
        /\ OlderRev(None) = None
    BY <1>5 DEF Tick, TypeOK, OlderRev
  <2> QED BY <2>1, OlderRevKeeps, NoneAssumption DEF Change, OnlyAges, SameMarks
<1>6. CASE DeliverIstio \/ TimerFires
  BY <1>6, ChangeByNobody DEF DeliverIstio, TimerFires
<1>7. ASSUME NEW n \in RevNames, DeliverRevision(n)
      PROVE  \A m \in RevNames : Change(m)
  BY <1>7 DEF DeliverRevision, Change, Delivered, OnlyAges, SameMarks, TypeOK
<1> QED
  BY <1>1, <1>2, <1>3, <1>4, <1>5, <1>6, <1>7 DEF Environment, Cluster, Informers

LEMMA ChangeByIstioController ==
  ASSUME TypeOK, \A n \in RevNames : Kept(n), IstioController
  PROVE  \A m \in RevNames : Change(m)
<1>0. cRev' = cRev /\ release' = release
  BY DEF IstioController, IstioNotFound, CreateActiveRevision, UpdateActiveRevision,
     PruneInactive, UpdateIstioStatus, revisionVars
<1>1. CASE IstioNotFound \/ UpdateIstioStatus
  BY <1>0, <1>1, ChangeByNobody DEF IstioNotFound, UpdateIstioStatus
<1>2. CASE CreateActiveRevision
  <2> DEFINE n == getActiveRevisionName(cIstio)
             new == NewRevision(n)
  <2>1. n \in RevNames /\ cIstio \in Istios
    BY <1>2, ActiveNameType DEF CreateActiveRevision, TypeOK
  <2>2. CASE rev' = rev
    BY <1>0, <2>2, ChangeByNobody
  <2>3. CASE rev[n] = None /\ Writes([rev EXCEPT ![n] = new])
    <3>1. new \in Revisions /\ ~ new.fin
      BY <1>2, <2>1, NewUidType, GraceAssumption
      DEF CreateActiveRevision, NewRevision, Revisions, Istios, Ages, TypeOK
    <3> HIDE DEF n, new
    <3>2. Written(n)
      BY <1>0, <2>1, <2>3, <3>1, NoneAssumption DEF Written, Created, Writes, TypeOK
    <3> QED BY <1>0, <2>1, <2>3, <3>2, ChangeByWrite
  <2> QED BY <1>2, <2>2, <2>3 DEF CreateActiveRevision
<1>3. CASE UpdateActiveRevision
  <2> DEFINE n == getActiveRevisionName(cIstio)
             new == [rev[n] EXCEPT !.version = cIstio.version]
  <2>1. n \in RevNames /\ cIstio \in Istios
    BY <1>3, ActiveNameType DEF UpdateActiveRevision, TypeOK
  <2>2. CASE rev' = rev
    BY <1>0, <2>2, ChangeByNobody
  <2>3. CASE rev[n] # None /\ Writes([rev EXCEPT ![n] = new])
    <3>1. rev[n] \in Revisions
      BY <2>1, <2>3 DEF TypeOK
    <3>2. new \in Revisions /\ new.fin = rev[n].fin /\ new.deleting = rev[n].deleting
      BY <2>1, <3>1 DEF Revisions, Istios
    <3> HIDE DEF n, new
    <3>3. SameMarks(rev[n], rev'[n])
      BY <2>1, <2>3, <3>2, NoneAssumption DEF SameMarks, Writes, TypeOK
    <3> QED BY <1>0, <2>1, <2>3, <3>3, ChangeByWrite
  <2> QED BY <1>3, <2>2, <2>3 DEF UpdateActiveRevision, UpdateAccepted
<1>4. CASE PruneInactive
  <2> SUFFICES ASSUME NEW m \in RevNames PROVE Change(m)
    OBVIOUS
  <2>1. PICK gone \in SUBSET {n \in Expired : rev[n] # None} :
          Writes([n \in RevNames |-> IF n \in gone THEN Deleted(rev[n]) ELSE rev[n]])
    BY <1>4 DEF PruneInactive
  <2>2. rev'[m] = IF m \in gone THEN Deleted(rev[m]) ELSE rev[m]
    BY <2>1 DEF Writes
  <2>3. CASE m \notin gone
    BY <1>0, <2>2, <2>3 DEF Change, OnlyAges, SameMarks
  <2>4. CASE m \in gone /\ ~ rev[m].deleting
    BY <1>0, <2>1, <2>2, <2>4 DEF Change, Written, DeletionAsked
  <2>5. CASE m \in gone /\ rev[m].deleting
    <3>1. rev[m] # None /\ rev[m] \in Revisions
      BY <2>1, <2>5 DEF TypeOK
    <3>2. rev'[m] = [rev[m] EXCEPT !.deleting = TRUE]
      BY <2>2, <2>5, <3>1 DEF Kept, Marked, Deleted
    <3>3. SameMarks(rev[m], rev'[m])
      BY <2>5, <3>1, <3>2, NoneAssumption DEF SameMarks, Revisions
    <3> QED BY <1>0, <3>3 DEF Change, OnlyAges, SameMarks
  <2> QED BY <2>3, <2>4, <2>5
<1> QED
  BY <1>1, <1>2, <1>3, <1>4 DEF IstioController

LEMMA ChangeByRevisionController ==
  ASSUME IInv, NEW n \in RevNames, Kept(n), RevisionController(n)
  PROVE  \A m \in RevNames : Change(m)
<1>0. cRev' = cRev /\ TypeOK
  BY DEF RevisionController, RevisionNotFound, AddFinalizer, Finalize, RemoveFinalizer,
     InstallCharts, UpdateRevisionStatus, istioVars, IInv
<1>1. CASE rev' = rev /\ release' = release
  BY <1>0, <1>1, ChangeByNobody
<1>2. CASE AddFinalizer(n)
  <2>1. /\ release' = release
        /\ cRev[n] # None /\ ~ cRev[n].deleting /\ ~ cRev[n].fin
    BY <1>2 DEF AddFinalizer, HasFinalizer, istioVars
  <2> DEFINE new == [rev[n] EXCEPT !.fin = TRUE]
  <2>2. CASE UpdateAccepted(n, "cache") /\ Writes([rev EXCEPT ![n] = new])
    <3>1. rev[n] = cRev[n] /\ rev[n] \in Revisions
      BY <1>0, <2>1, <2>2 DEF UpdateAccepted, Kept, TypeOK
    <3>2. new \in Revisions /\ new.fin /\ new.deleting = rev[n].deleting
      BY <3>1 DEF Revisions
    <3> HIDE DEF new
    <3>3. Written(n)
      BY <1>0, <2>1, <2>2, <3>1, <3>2, NoneAssumption DEF Written, FinalizerAdded, Writes, TypeOK
    <3> QED BY <1>0, <2>1, <2>2, <3>3, ChangeByWrite
  <2> QED BY <1>1, <1>2, <2>1, <2>2 DEF AddFinalizer
<1>3. CASE Finalize(n) \/ InstallCharts(n)
  <2>1. /\ rev' = rev /\ cRev[n] # None /\ cRev[n].fin
        /\ \A m \in RevNames \ {n} : release'[m] = release[m]
        /\ release'[n] \in BOOLEAN
        /\ cRev[n].deleting => release'[n] \in {release[n], FALSE}
    BY <1>0, <1>3 DEF Finalize, InstallCharts, HasFinalizer, istioVars, TypeOK
  <2>2. ReleaseChanged(n)
    BY <1>0, <2>1 DEF ReleaseChanged
  <2>3. \A m \in RevNames \ {n} : OnlyAges(m)
    BY <1>0, <2>1 DEF OnlyAges, SameMarks
  <2> QED BY <2>2, <2>3 DEF Change
<1>4. CASE RemoveFinalizer(n)
  <2>1. release' = release
    BY <1>4 DEF RemoveFinalizer
  <2>2. CASE UpdateAccepted(n, "worker") /\ Writes([rev EXCEPT ![n] = None])
    <3>1. rev[n] # None /\ rev[n].uid = rw[n].obj.uid /\ rev[n].deleting /\ ~ release[n]
      BY <1>4, <2>2 DEF UpdateAccepted, RemoveFinalizer, IInv, Unfinalizing
    <3>2. cRev[n] # None => cRev[n].deleting
      BY <1>4, <3>1 DEF RemoveFinalizer, IInv, CacheFollows, Unfinalizing
    <3>3. Written(n)
      BY <1>0, <2>1, <2>2, <3>1, <3>2 DEF Written, FinalizerRemoved, Writes, TypeOK
    <3> QED BY <1>0, <2>1, <2>2, <3>3, ChangeByWrite
  <2> QED BY <1>1, <1>4, <2>1, <2>2 DEF RemoveFinalizer
<1>5. CASE UpdateRevisionStatus(n)
  <2> DEFINE inUse == WithInUse(rw[n].obj, DeterminedInUse(n)).inUse
             age   == WithInUse(rw[n].obj, DeterminedInUse(n)).age
             new   == [rev[n] EXCEPT !.inUse = inUse, !.age = age]
  <2>1. release' = release
    BY <1>5 DEF UpdateRevisionStatus
  <2>2. CASE rev[n] # None /\ Writes([rev EXCEPT ![n] = new])
    <3>1. rev[n] \in Revisions
      BY <1>0, <2>2 DEF TypeOK
    <3>2. /\ inUse \in {"True", "False"} /\ age \in Ages
      BY <1>0, <1>5, GraceAssumption DEF UpdateRevisionStatus, WithInUse, DeterminedInUse,
         TypeOK, IdleRw, Captured, Revisions, Ages
    <3> HIDE DEF inUse, age
    <3>3. new \in Revisions /\ new.fin = rev[n].fin /\ new.deleting = rev[n].deleting
      BY <3>1, <3>2 DEF Revisions
    <3> HIDE DEF new
    <3>4. SameMarks(rev[n], rev'[n])
      BY <1>0, <2>2, <3>3, NoneAssumption DEF SameMarks, Writes, TypeOK
    <3> QED BY <1>0, <2>1, <2>2, <3>4, ChangeByWrite
  <2> QED BY <1>1, <1>5, <2>1, <2>2 DEF UpdateRevisionStatus
<1>6. CASE RevisionNotFound(n)
  BY <1>1, <1>6 DEF RevisionNotFound
<1> QED
  BY <1>2, <1>3, <1>4, <1>5, <1>6 DEF RevisionController

LEMMA ContractNext ==
  ASSUME IInv, \A n \in RevNames : Kept(n) /\ Known(n), [Next]_vars
  PROVE  (\A n \in RevNames : Known(n)') /\ Finalization!FinNext
<1>1. TypeOK'
  BY InvNext DEF IInv
<1>2. \A n \in RevNames : Change(n)
  <2>1. CASE UNCHANGED vars
    BY <2>1, ChangeByNobody DEF vars
  <2>2. CASE Next
    BY <2>2, ChangeByCluster, ChangeByIstioController, ChangeByRevisionController DEF Next, IInv
  <2> QED BY <2>1, <2>2
<1>3. \A n \in RevNames : Known(n)' /\ ContractStep(n)
  BY <1>1, <1>2, ChangeIsAllowed
<1> QED
  BY <1>3 DEF ContractStep, Finalization!FinNext

\* In every run the IstioRevisions keep the contract of StandardReconciler: the
\* finalizer comes before the first installation, goes after the last
\* uninstallation, and a reconcile that saw the deletion only uninstalls.
THEOREM FinalizersKept == Spec => KeepsFinalizerContract
<1> DEFINE AllKept == \A n \in RevNames : Kept(n)
           AllKnown == \A n \in RevNames : Known(n)
<1>1. Init => AllKnown /\ Finalization!FinInit
  BY DEF Init, Known, Finalization!FinInit, Stage
<1>2. IInv /\ AllKept /\ AllKnown /\ [Next]_vars => AllKnown' /\ Finalization!FinNext
  BY ContractNext
<1> HIDE DEF AllKept, AllKnown
<1>3. Spec => []AllKept
  BY KeptInductive DEF AllKept
<1>4. Spec => []AllKnown
  BY <1>1, <1>2, <1>3, Inductive, PTL DEF Spec
<1> QED
  BY <1>1, <1>2, <1>3, <1>4, Inductive, PTL DEF Spec, KeepsFinalizerContract, Finalization!FinSpec
=============================================================================
