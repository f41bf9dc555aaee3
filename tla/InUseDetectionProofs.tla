------------------------ MODULE InUseDetectionProofs ------------------------
(***************************************************************************)
(* For every set of revisions, namespaces, pods and tags: no firm          *)
(* reference is forgotten if the pod cache does not run ahead of the       *)
(* namespace cache; and, in whatever order the caches are filled, the      *)
(* InUse condition at rest is right, but for the kinds of events of which  *)
(* the watch handlers do not tell the revision they concern.               *)
(***************************************************************************)
EXTENDS InUseDetection, TLAPS

-----------------------------------------------------------------------------
(* The inductive invariant.                                                *)

\* What InOrder means: the namespace of a cached pod is cached.
PodsHaveNamespace ==
  \A p \in Pods : pods[p] # Absent => namespaces[pods[p].ns] # Absent

\* Unless its key is queued again, what a worker has listed of revision r
\* still tells the truth about r.
ListsStillHold(r) ==
  /\ worker.pc \in {"namespaces", "pods"} => ~ ReferencedByTag(r)
  /\ worker.pc = "pods" =>
       /\ ~ ReferencedByNamespace(namespaces, r)
       /\ \A p \in Pods : pods[p] # Absent /\ pods[p].shape.injectedBy = r
                            => worker.nss[pods[p].ns] # Absent
  /\ worker.pc = "patch" /\ worker.result = "False" => ~ FirmlyReferenced(r)

WorkerKeepsUp ==
  worker # IdleWorker /\ worker.rev \notin queue =>
    worker.copy = cInUse[worker.rev] /\ ListsStillHold(worker.rev)

IInv == TypeOK /\ PodsHaveNamespace /\ WorkerKeepsUp /\ NoForgottenReference

-----------------------------------------------------------------------------
(* Types.                                                                  *)

LEMMA ShapesAreShapes ==
  PodShapes \subseteq AllShapes /\ PodObjects \subseteq [ns: Namespaces, shape: AllShapes, done: BOOLEAN]
BY ShapeAssumption DEF PodObjects

LEMMA PodObjectsExist ==
  ASSUME TypeOK, NEW p \in Pods, pods[p] # Absent
  PROVE  pods[p] \in PodObjects
BY DEF TypeOK

LEMMA NamespaceMapType ==
  ASSUME NEW ns, NEW labels
  PROVE  mapNamespaceToReconcileRequest(ns, labels) \subseteq Revs
BY DEF mapNamespaceToReconcileRequest

LEMMA PodMapType ==
  ASSUME NEW pod
  PROVE  mapPodToReconcileRequest(pod) \subseteq Revs
BY DEF mapPodToReconcileRequest

LEMMA TagMapType ==
  ASSUME NEW rev
  PROVE  mapRevisionTagToReconcileRequest(rev) \subseteq Revs
BY DEF mapRevisionTagToReconcileRequest

LEMMA NotListedType == NotListed \in [Namespaces -> Labels \cup {Absent}]
BY DEF NotListed

LEMMA TypeWorkloads ==
  ASSUME TypeOK, Workloads
  PROVE  TypeOK'
<1>0. changes' \in 0 .. MaxChanges
  <2>1. Changes
    BY DEF Workloads, ChangeNamespace, CreatePod, RelabelPod, CompletePod, DeletePod, ChangeTag
  <2> QED BY <2>1, BoundAssumption DEF Changes, TypeOK
<1>7. missed' \subseteq Revs
  BY DEF Workloads, ChangeNamespace, CreatePod, RelabelPod, CompletePod, DeletePod, ChangeTag,
     Changes, TypeOK
<1>1. ASSUME NEW ns \in Namespaces, ChangeNamespace(ns)
      PROVE  TypeOK'
  <2>1. namespaces' \in [Namespaces -> Labels \cup {Absent}]
    BY <1>1 DEF ChangeNamespace, TypeOK
  <2>2. queue' \subseteq Revs
    BY <1>1, NamespaceMapType DEF ChangeNamespace, TypeOK
  <2> QED BY <1>0, <1>7, <1>1, <2>1, <2>2 DEF ChangeNamespace, controllerVars, TypeOK
<1>2. ASSUME NEW p \in Pods, CreatePod(p)
      PROVE  TypeOK'
  <2>1. pods' \in [Pods -> PodObjects \cup {Absent}]
    BY <1>2 DEF CreatePod, TypeOK, PodObjects
  <2>2. queue' \subseteq Revs
    BY <1>2, PodMapType DEF CreatePod, TypeOK
  <2> QED BY <1>0, <1>7, <1>2, <2>1, <2>2 DEF CreatePod, controllerVars, TypeOK
<1>3. ASSUME NEW p \in Pods, RelabelPod(p)
      PROVE  TypeOK'
  <2>1. pods' \in [Pods -> PodObjects \cup {Absent}]
    <3>1. PICK shape \in PodShapes : pods' = [pods EXCEPT ![p].shape = shape]
      BY <1>3 DEF RelabelPod
    <3>2. pods[p] \in PodObjects
      BY <1>3, PodObjectsExist DEF RelabelPod
    <3>3. [pods[p] EXCEPT !.shape = shape] \in PodObjects
      BY <3>2 DEF PodObjects
    <3> QED BY <3>1, <3>3 DEF TypeOK
  <2>2. queue' \subseteq Revs
    BY <1>3, PodMapType DEF RelabelPod, TypeOK
  <2> QED BY <1>0, <1>7, <1>3, <2>1, <2>2 DEF RelabelPod, controllerVars, TypeOK
<1>4. ASSUME NEW p \in Pods, CompletePod(p)
      PROVE  TypeOK'
  <2>1. pods' \in [Pods -> PodObjects \cup {Absent}]
    <3>1. pods[p] \in PodObjects
      BY <1>4, PodObjectsExist DEF CompletePod
    <3>2. [pods[p] EXCEPT !.done = TRUE] \in PodObjects
      BY <3>1 DEF PodObjects
    <3> QED BY <1>4, <3>2 DEF CompletePod, TypeOK
  <2> QED BY <1>0, <1>7, <1>4, <2>1 DEF CompletePod, controllerVars, TypeOK
<1>5. ASSUME NEW p \in Pods, DeletePod(p)
      PROVE  TypeOK'
  <2>1. queue' \subseteq Revs
    BY <1>5, PodMapType DEF DeletePod, TypeOK
  <2> QED BY <1>0, <1>7, <1>5, <2>1 DEF DeletePod, controllerVars, TypeOK
<1>6. ASSUME NEW t \in Tags, ChangeTag(t)
      PROVE  TypeOK'
  <2>1. queue' \subseteq Revs
    BY <1>6, TagMapType DEF ChangeTag, TypeOK
  <2> QED BY <1>0, <1>7, <1>6, <2>1 DEF ChangeTag, controllerVars, TypeOK
<1> QED
  BY <1>1, <1>2, <1>3, <1>4, <1>5, <1>6 DEF Workloads

LEMMA TypeReconcile ==
  ASSUME TypeOK, Reconcile
  PROVE  TypeOK'
<1> DEFINE Busy == [pc: {"tags", "namespaces", "pods", "patch"}, rev: Revs, copy: Conditions,
                    nss: [Namespaces -> Labels \cup {Absent}], result: Conditions]
<1>1. worker' \in WorkerStates
  <2>1. ASSUME NEW r \in Revs, TakeKey(r)
        PROVE  worker' \in Busy
    BY <2>1, NotListedType DEF TakeKey, TypeOK, Conditions
  <2>2. ASSUME worker.pc # "idle"
        PROVE  worker \in Busy
    BY <2>2 DEF TypeOK, WorkerStates, IdleWorker
  <2>3. ASSUME NEW result \in Conditions, worker.pc # "idle", Concludes(result)
        PROVE  worker' \in Busy
    BY <2>2, <2>3, NotListedType DEF Concludes
  <2>4. ListTags \/ ListNamespaces \/ ListPods \/ ListFails => worker' \in Busy
    BY <2>2, <2>3 DEF ListTags, ListNamespaces, ListPods, ListFails, TypeOK, Conditions
  <2> QED
    BY <2>1, <2>4 DEF Reconcile, PatchStatus, WorkerStates
<1>2. queue' \subseteq Revs
  <2>1. PatchStatus => worker.rev \in Revs
    BY DEF PatchStatus, TypeOK, WorkerStates, IdleWorker
  <2> QED
    BY <2>1 DEF Reconcile, TakeKey, ListTags, ListNamespaces, ListPods, ListFails, PatchStatus, TypeOK
<1>3. inUse' \in [Revs -> Conditions]
  <2>1. PatchStatus => worker.result \in Conditions
    BY DEF PatchStatus, TypeOK, WorkerStates, IdleWorker
  <2> QED
    BY <2>1 DEF Reconcile, TakeKey, ListTags, ListNamespaces, ListPods, ListFails, PatchStatus, TypeOK
<1>4. faults' \in 0 .. MaxFaults
  <2>1. faults' = faults \/ (faults < MaxFaults /\ faults' = faults + 1)
    BY DEF Reconcile, TakeKey, ListTags, ListNamespaces, ListPods, ListFails, PatchStatus
  <2> QED BY <2>1, BoundAssumption DEF TypeOK
<1>5. UNCHANGED workloadVars /\ (missed' = missed \/ missed' = missed \ queue')
  BY DEF Reconcile, TakeKey, ListTags, ListNamespaces, ListPods, ListFails, PatchStatus, Heard
<1> QED
  BY <1>1, <1>2, <1>3, <1>4, <1>5 DEF TypeOK, workloadVars

LEMMA TypeDelivery ==
  ASSUME TypeOK, NEW r \in Revs, DeliverRevision(r)
  PROVE  TypeOK'
BY DEF DeliverRevision, Heard, TypeOK

\* Every variable keeps its type.
THEOREM TypeCorrect == Spec => []TypeOK
<1>1. Init => TypeOK
  BY BoundAssumption DEF Init, TypeOK, Conditions, WorkerStates
<1>2. TypeOK /\ [Next]_vars => TypeOK'
  BY TypeWorkloads, TypeReconcile, TypeDelivery DEF Next, vars, TypeOK
<1> QED
  BY <1>1, <1>2, PTL DEF Spec

-----------------------------------------------------------------------------
(* The cluster changes: whatever starts to reference a revision enqueues   *)
(* it, so nothing is gained for a revision that is not queued.             *)

GainsNothing(r) ==
  /\ ReferencedByTag(r)' => ReferencedByTag(r)
  /\ ReferencedByNamespace(namespaces', r) => ReferencedByNamespace(namespaces, r)
  /\ \A p \in Pods :
       pods'[p] # Absent /\ pods'[p].shape.injectedBy = r =>
         /\ pods[p] # Absent /\ pods[p].shape.injectedBy = r
         /\ pods'[p].ns = pods[p].ns
         /\ pods[p].done => pods'[p].done

LEMMA WorkloadsGain ==
  ASSUME TypeOK, Workloads, NEW r \in Revs, r \notin queue'
  PROVE  GainsNothing(r) /\ r \notin queue
<1>0. r # NoRev
  BY NameAssumption
<1>1. ASSUME NEW ns \in Namespaces, ChangeNamespace(ns)
      PROVE  GainsNothing(r) /\ r \notin queue
  <2>1. PICK labels \in Labels \cup {Absent} :
          /\ namespaces' = [namespaces EXCEPT ![ns] = labels]
          /\ r \notin mapNamespaceToReconcileRequest(ns, labels)
          /\ r \notin queue
    BY <1>1 DEF ChangeNamespace
  <2>2. labels # Absent => GetReferencedRevisionFromNamespace(labels) # r
    BY <2>1 DEF mapNamespaceToReconcileRequest
  <2>3. ReferencedByNamespace(namespaces', r) => ReferencedByNamespace(namespaces, r)
    <3> SUFFICES ASSUME NEW m \in Namespaces, namespaceReferencesRevision(namespaces', m, r)
                 PROVE  namespaceReferencesRevision(namespaces, m, r)
      BY DEF ReferencedByNamespace
    <3>1. m # ns
      BY <2>1, <2>2 DEF namespaceReferencesRevision, TypeOK
    <3> QED BY <2>1, <3>1 DEF namespaceReferencesRevision, TypeOK
  <2> QED
    BY <1>1, <2>1, <2>3 DEF ChangeNamespace, GainsNothing, ReferencedByTag
<1>2. ASSUME NEW p \in Pods, CreatePod(p)
      PROVE  GainsNothing(r) /\ r \notin queue
  <2>1. r \notin mapPodToReconcileRequest(pods'[p]) /\ r \notin queue
    BY <1>2 DEF CreatePod
  <2>2. pods'[p] # Absent => pods'[p].shape.injectedBy # r
    BY <2>1, <1>0 DEF mapPodToReconcileRequest, GetInjectedRevisionFromPod
  <2>3. \A q \in Pods : q # p => pods'[q] = pods[q]
    BY <1>2 DEF CreatePod, TypeOK
  <2> QED
    BY <1>2, <2>1, <2>2, <2>3 DEF CreatePod, GainsNothing, ReferencedByTag
<1>3. ASSUME NEW p \in Pods, RelabelPod(p)
      PROVE  GainsNothing(r) /\ r \notin queue
  <2>1. r \notin queue
    BY <1>3 DEF RelabelPod
  <2>2. PICK shape \in PodShapes : /\ shape.injectedBy = pods[p].shape.injectedBy
                                   /\ pods' = [pods EXCEPT ![p].shape = shape]
    BY <1>3 DEF RelabelPod
  <2>3. \A q \in Pods : q # p => pods'[q] = pods[q]
    BY <2>2 DEF TypeOK
  <2>4. pods[p] \in PodObjects
    BY <1>3, PodObjectsExist DEF RelabelPod
  <2>5. pods'[p] = [pods[p] EXCEPT !.shape = shape]
    BY <2>2 DEF TypeOK
  <2>6. /\ pods'[p].ns = pods[p].ns /\ pods'[p].done = pods[p].done
        /\ pods'[p].shape.injectedBy = pods[p].shape.injectedBy
    BY <2>2, <2>4, <2>5 DEF PodObjects
  <2>7. pods[p] # Absent
    BY <1>3 DEF RelabelPod
  <2>8. UNCHANGED <<namespaces, tags>>
    BY <1>3 DEF RelabelPod
  <2> QED
    BY <2>1, <2>3, <2>6, <2>7, <2>8 DEF GainsNothing, ReferencedByTag
<1>4. ASSUME NEW p \in Pods, CompletePod(p)
      PROVE  GainsNothing(r) /\ r \notin queue
  <2>1. pods[p] \in PodObjects /\ pods[p] # Absent
    BY <1>4, PodObjectsExist DEF CompletePod
  <2>2. pods'[p] = [pods[p] EXCEPT !.done = TRUE]
    BY <1>4 DEF CompletePod, TypeOK
  <2>3. pods'[p].ns = pods[p].ns /\ pods'[p].shape = pods[p].shape /\ pods'[p].done
    BY <2>1, <2>2 DEF PodObjects
  <2>4. \A q \in Pods : q # p => pods'[q] = pods[q]
    BY <1>4 DEF CompletePod, TypeOK
  <2>5. UNCHANGED <<namespaces, tags, queue>>
    BY <1>4 DEF CompletePod
  <2> QED
    BY <2>1, <2>3, <2>4, <2>5 DEF GainsNothing, ReferencedByTag
<1>5. ASSUME NEW p \in Pods, DeletePod(p)
      PROVE  GainsNothing(r) /\ r \notin queue
  <2>1. pods'[p] = Absent /\ \A q \in Pods : q # p => pods'[q] = pods[q]
    BY <1>5 DEF DeletePod, TypeOK
  <2> QED
    BY <1>5, <2>1 DEF DeletePod, GainsNothing, ReferencedByTag
<1>6. ASSUME NEW t \in Tags, ChangeTag(t)
      PROVE  GainsNothing(r) /\ r \notin queue
  <2>1. PICK rev \in Revs \cup {NoRev} : /\ tags' = [tags EXCEPT ![t] = rev]
                                         /\ r \notin mapRevisionTagToReconcileRequest(rev)
                                         /\ r \notin queue
    BY <1>6 DEF ChangeTag
  <2>2. rev # r
    BY <2>1 DEF mapRevisionTagToReconcileRequest
  <2>3. ReferencedByTag(r)' => ReferencedByTag(r)
    BY <2>1, <2>2 DEF ReferencedByTag, TypeOK
  <2> QED
    BY <1>6, <2>1, <2>3 DEF ChangeTag, GainsNothing
<1> QED
  BY <1>1, <1>2, <1>3, <1>4, <1>5, <1>6 DEF Workloads

LEMMA WorkloadsOrder ==
  ASSUME TypeOK, InOrder, PodsHaveNamespace, Workloads
  PROVE  PodsHaveNamespace'
<1>1. ASSUME NEW ns \in Namespaces, ChangeNamespace(ns)
      PROVE  PodsHaveNamespace'
  <2>1. PICK labels \in Labels \cup {Absent} :
          /\ namespaces' = [namespaces EXCEPT ![ns] = labels]
          /\ labels = Absent => \A p \in Pods : pods[p] # Absent => pods[p].ns # ns
    BY <1>1 DEF ChangeNamespace
  <2>2. pods' = pods
    BY <1>1 DEF ChangeNamespace
  <2> SUFFICES ASSUME NEW p \in Pods, pods[p] # Absent
               PROVE  namespaces'[pods[p].ns] # Absent
    BY <2>2 DEF PodsHaveNamespace
  <2>3. pods[p].ns \in Namespaces /\ namespaces[pods[p].ns] # Absent
    BY PodObjectsExist DEF PodsHaveNamespace, PodObjects
  <2> QED BY <2>1, <2>3 DEF TypeOK
<1>2. ASSUME NEW p \in Pods, CreatePod(p)
      PROVE  PodsHaveNamespace'
  BY <1>2 DEF CreatePod, PodsHaveNamespace, TypeOK
<1>3. ASSUME NEW p \in Pods, RelabelPod(p) \/ CompletePod(p)
      PROVE  PodsHaveNamespace'
  <2>1. pods[p] \in PodObjects /\ pods[p] # Absent
    BY <1>3, PodObjectsExist DEF RelabelPod, CompletePod
  <2>2. \/ \E shape \in PodShapes : pods' = [pods EXCEPT ![p] = [@ EXCEPT !.shape = shape]]
        \/ pods' = [pods EXCEPT ![p] = [@ EXCEPT !.done = TRUE]]
    BY <1>3 DEF RelabelPod, CompletePod
  <2>3. pods'[p].ns = pods[p].ns
    BY <2>1, <2>2 DEF PodObjects, TypeOK
  <2>4. \A q \in Pods : q # p => pods'[q] = pods[q]
    BY <2>2 DEF TypeOK
  <2>5. namespaces' = namespaces
    BY <1>3 DEF RelabelPod, CompletePod
  <2> QED
    BY <2>1, <2>3, <2>4, <2>5 DEF PodsHaveNamespace
<1>4. ASSUME NEW p \in Pods, DeletePod(p)
      PROVE  PodsHaveNamespace'
  BY <1>4 DEF DeletePod, PodsHaveNamespace, TypeOK
<1>5. ASSUME NEW t \in Tags, ChangeTag(t)
      PROVE  PodsHaveNamespace'
  BY <1>5 DEF ChangeTag, PodsHaveNamespace
<1> QED
  BY <1>1, <1>2, <1>3, <1>4, <1>5 DEF Workloads

LEMMA FirmStaysFirm ==
  ASSUME TypeOK, PodsHaveNamespace, PodsHaveNamespace', TypeOK',
         NEW r \in Revs, GainsNothing(r), FirmlyReferenced(r)'
  PROVE  FirmlyReferenced(r)
<1>1. CASE Injected(r)'
  <2>1. PICK p \in Pods : PodCounts(pods'[p], namespaces') /\ pods'[p].shape.injectedBy = r
    BY <1>1 DEF Injected
  <2>2. pods'[p] # Absent /\ ~ pods'[p].done
    BY <2>1 DEF PodCounts
  <2>3. pods[p] # Absent /\ pods[p].shape.injectedBy = r /\ ~ pods[p].done
    BY <2>1, <2>2 DEF GainsNothing
  <2>4. namespaces[pods[p].ns] # Absent
    BY <2>3 DEF PodsHaveNamespace
  <2> QED
    BY <2>3, <2>4 DEF FirmlyReferenced, Injected, PodCounts
<1>2. CASE ReferencedByTag(r)' \/ ReferencedByNamespace(namespaces', r)
  BY <1>2 DEF GainsNothing, FirmlyReferenced
<1> QED
  BY <1>1, <1>2 DEF FirmlyReferenced

-----------------------------------------------------------------------------
(* The invariant is inductive.                                             *)

LEMMA InvWorkloads ==
  ASSUME IInv, InOrder, Workloads
  PROVE  IInv'
<1>1. TypeOK' /\ PodsHaveNamespace'
  BY TypeWorkloads, WorkloadsOrder DEF IInv
<1>2. UNCHANGED <<inUse, cInUse, worker>>
  BY DEF Workloads, ChangeNamespace, CreatePod, RelabelPod, CompletePod, DeletePod, ChangeTag,
     controllerVars
<1>3. ASSUME NEW r \in Revs, r \notin queue'
      PROVE  GainsNothing(r) /\ r \notin queue /\ (FirmlyReferenced(r)' => FirmlyReferenced(r))
  <2>1. GainsNothing(r) /\ r \notin queue
    BY <1>3, WorkloadsGain DEF IInv
  <2> QED BY <1>1, <2>1, FirmStaysFirm DEF IInv
<1>4. NoForgottenReference'
  BY <1>2, <1>3 DEF IInv, NoForgottenReference, AtRest
<1>5. WorkerKeepsUp'
  <2> SUFFICES ASSUME worker # IdleWorker, worker.rev \notin queue'
               PROVE  worker.copy = cInUse[worker.rev] /\ (ListsStillHold(worker.rev))'
    BY <1>2 DEF WorkerKeepsUp
  <2>1. PICK r \in Revs : r = worker.rev
    BY DEF IInv, TypeOK, WorkerStates
  <2>2. GainsNothing(r) /\ r \notin queue /\ (FirmlyReferenced(r)' => FirmlyReferenced(r))
    BY <1>3, <2>1
  <2>3. worker.copy = cInUse[r] /\ ListsStillHold(r)
    BY <2>1, <2>2 DEF IInv, WorkerKeepsUp
  <2>4. worker.pc \in {"namespaces", "pods"} => ~ ReferencedByTag(r)'
    BY <2>2, <2>3 DEF ListsStillHold, GainsNothing
  <2>5. worker.pc = "pods" => ~ ReferencedByNamespace(namespaces', r)
    BY <2>2, <2>3 DEF ListsStillHold, GainsNothing
  <2>6. worker.pc = "pods" =>
          \A p \in Pods : pods'[p] # Absent /\ pods'[p].shape.injectedBy = r
                            => worker.nss[pods'[p].ns] # Absent
    BY <2>2, <2>3 DEF ListsStillHold, GainsNothing
  <2>7. worker.pc = "patch" /\ worker.result = "False" => ~ FirmlyReferenced(r)'
    BY <2>2, <2>3 DEF ListsStillHold
  <2>8. ListsStillHold(r)'
    BY <1>2, <2>4, <2>5, <2>6, <2>7 DEF ListsStillHold
  <2>9. worker'.rev = r
    BY <1>2, <2>1
  <2> QED BY <1>2, <2>1, <2>3, <2>8, <2>9 DEF ListsStillHold
<1> QED
  BY <1>1, <1>4, <1>5 DEF IInv

LEMMA InvReconcile ==
  ASSUME IInv, Reconcile
  PROVE  IInv'
<1> USE DEF IInv
<1>1. TypeOK'
  BY TypeReconcile
<1>2. UNCHANGED workloadVars
  BY DEF Reconcile, TakeKey, ListTags, ListNamespaces, ListPods, ListFails, PatchStatus
<1>3. PodsHaveNamespace'
  BY <1>2 DEF PodsHaveNamespace, workloadVars
<1>4. \A r \in Revs : FirmlyReferenced(r)' = FirmlyReferenced(r)
  BY <1>2 DEF FirmlyReferenced, Injected, ReferencedByTag, ReferencedByNamespace, workloadVars
<1>5. ASSUME NEW r \in Revs, TakeKey(r)
      PROVE  WorkerKeepsUp' /\ NoForgottenReference'
  <2>1. worker' = [pc |-> "tags", rev |-> r, copy |-> cInUse[r],
                   nss |-> NotListed, result |-> "Unknown"]
    BY <1>5 DEF TakeKey
  <2>2. WorkerKeepsUp'
    BY <1>2, <2>1 DEF WorkerKeepsUp, ListsStillHold, workloadVars
  <2>3. ASSUME NEW q \in Revs, AtRest(q)'
        PROVE  AtRest(q)
    <3>1. worker' # IdleWorker /\ worker'.rev = r
      BY <2>1 DEF IdleWorker
    <3>2. q # r
      BY <2>3, <3>1 DEF AtRest
    <3> QED BY <1>2, <1>5, <2>3, <3>2 DEF AtRest, TakeKey, workloadVars
  <2>4. NoForgottenReference'
    BY <1>4, <1>5, <2>3 DEF NoForgottenReference, TakeKey
  <2> QED BY <2>2, <2>4
<1>6. ASSUME ListTags \/ ListNamespaces \/ ListPods \/ ListFails
      PROVE  WorkerKeepsUp' /\ NoForgottenReference'
  <2>1. worker \in WorkerStates /\ worker.pc # "idle" /\ worker # IdleWorker
    BY <1>6 DEF ListTags, ListNamespaces, ListPods, ListFails, TypeOK, WorkerStates, IdleWorker
  <2>0. PICK r \in Revs : r = worker.rev
    BY <2>1 DEF WorkerStates
  <2>2. UNCHANGED <<inUse, queue>>
    BY <1>6 DEF ListTags, ListNamespaces, ListPods, ListFails
  <2>3. worker' # IdleWorker /\ worker'.rev = r /\ worker'.copy = worker.copy
    BY <1>6, <2>0, <2>0, <2>1 DEF ListTags, ListNamespaces, ListPods, ListFails, Concludes, WorkerStates, IdleWorker
  <2>4. NoForgottenReference'
    BY <1>2, <1>4, <2>0, <2>1, <2>2, <2>3 DEF NoForgottenReference, AtRest, workloadVars
  <2>5. WorkerKeepsUp'
    <3> SUFFICES ASSUME r \notin queue
                 PROVE  worker'.copy = cInUse'[r] /\ ListsStillHold(r)'
      BY <2>0, <2>2, <2>3 DEF WorkerKeepsUp, ListsStillHold
    <3>1. worker.copy = cInUse[r] /\ ListsStillHold(r)
      BY <2>0, <2>1 DEF WorkerKeepsUp
    <3>2. CASE ListTags
      <4>1. CASE ReferencedByTag(r)
        <5>1. worker'.pc = "patch" /\ worker'.result = "True"
          BY <3>2, <4>1, <2>0, <2>1 DEF ListTags, Concludes, WorkerStates, IdleWorker
        <5> QED BY <5>1, <3>1, <2>3, <1>2 DEF ListsStillHold, workloadVars
      <4>2. CASE ~ ReferencedByTag(r)
        <5>1. worker'.pc = "namespaces"
          BY <3>2, <4>2, <2>0, <2>1 DEF ListTags, WorkerStates, IdleWorker
        <5> QED BY <5>1, <4>2, <3>1, <2>3, <1>2 DEF ListsStillHold, ReferencedByTag, workloadVars
      <4> QED BY <4>1, <4>2
    <3>3. CASE ListNamespaces
      <4>1. CASE ReferencedByNamespace(namespaces, r)
        <5>1. worker'.pc = "patch" /\ worker'.result = "True"
          BY <3>3, <4>1, <2>0, <2>1 DEF ListNamespaces, Concludes, WorkerStates, IdleWorker
        <5> QED BY <5>1, <3>1, <2>3, <1>2 DEF ListsStillHold, workloadVars
      <4>2. CASE ~ ReferencedByNamespace(namespaces, r)
        <5>1. worker'.pc = "pods" /\ worker'.nss = namespaces
          BY <3>3, <4>2, <2>0, <2>1 DEF ListNamespaces, WorkerStates, IdleWorker
        <5>2. ~ ReferencedByTag(r)'
          BY <3>1, <3>3, <1>2 DEF ListNamespaces, ListsStillHold, ReferencedByTag, workloadVars
        <5>3. \A p \in Pods : pods[p] # Absent => namespaces[pods[p].ns] # Absent
          BY DEF PodsHaveNamespace
        <5>4. ~ ReferencedByNamespace(namespaces', r)
          BY <4>2, <1>2 DEF workloadVars
        <5>5. ListsStillHold(r)'
          BY <5>1, <5>2, <5>3, <5>4, <1>2 DEF ListsStillHold, workloadVars
        <5> QED BY <5>5, <3>1, <2>3, <1>2 DEF workloadVars
      <4> QED BY <4>1, <4>2
    <3>4. CASE ListPods
      <4>1. worker'.pc = "patch"
        BY <3>4, <2>0, <2>1 DEF ListPods, Concludes, WorkerStates, IdleWorker
      <4>2. worker.pc = "pods" /\ (worker'.result = "False" => ~ ReferencedByPod(worker.nss, r))
        BY <3>4, <2>0, <2>1 DEF ListPods, Concludes, WorkerStates, IdleWorker
      <4>3. ~ ReferencedByPod(worker.nss, r) => ~ Injected(r)
        <5> SUFFICES ASSUME Injected(r)
                     PROVE  ReferencedByPod(worker.nss, r)
          OBVIOUS
        <5>1. PICK p \in Pods : PodCounts(pods[p], namespaces) /\ pods[p].shape.injectedBy = r
          BY DEF Injected
        <5>2. PodCounts(pods[p], worker.nss)
          BY <5>1, <4>2, <3>1 DEF PodCounts, ListsStillHold
        <5> QED
          BY <5>1, <5>2
          DEF ReferencedByPod, CountedPods, podReferencesRevision, GetInjectedRevisionFromPod
      <4>4. worker'.result = "False" => ~ FirmlyReferenced(r)
        BY <4>2, <4>3, <3>1 DEF FirmlyReferenced, ListsStillHold
      <4>5. worker'.result = "False" => ~ FirmlyReferenced(r)'
        BY <4>4, <1>4, <2>1
      <4> QED BY <4>1, <4>5, <3>1, <2>3, <1>2 DEF ListsStillHold, workloadVars
    <3>5. CASE ListFails
      <4>1. worker'.pc = "patch" /\ worker'.result = "Unknown"
        BY <3>5, <2>0, <2>1 DEF ListFails, Concludes, WorkerStates, IdleWorker
      <4> QED BY <4>1, <3>1, <2>3, <1>2 DEF ListsStillHold, workloadVars
    <3> QED BY <1>6, <3>2, <3>3, <3>4, <3>5
  <2> QED BY <2>4, <2>5
<1>7. ASSUME PatchStatus
      PROVE  WorkerKeepsUp' /\ NoForgottenReference'
  <2>1. /\ worker \in WorkerStates /\ worker.pc = "patch" /\ worker # IdleWorker
        /\ worker.result \in Conditions
    BY <1>7 DEF PatchStatus, TypeOK, WorkerStates, IdleWorker
  <2>2. WorkerKeepsUp'
    BY <1>7 DEF PatchStatus, WorkerKeepsUp
  <2>3. ASSUME NEW q \in Revs, FirmlyReferenced(q)', AtRest(q)'
        PROVE  inUse'[q] = "True"
    <3>1. FirmlyReferenced(q) /\ cInUse' = cInUse /\ q \notin queue' /\ cInUse[q] = inUse'[q]
      BY <2>3, <1>2, <1>4 DEF AtRest, workloadVars
    <3>2. q \notin queue
      BY <1>7, <3>1 DEF PatchStatus
    <3>3. CASE q # worker.rev
      <4>1. inUse'[q] = inUse[q]
        BY <1>7, <3>3 DEF PatchStatus, TypeOK
      <4>2. AtRest(q)
        BY <3>1, <3>2, <3>3, <4>1 DEF AtRest
      <4> QED BY <3>1, <4>1, <4>2 DEF NoForgottenReference
    <3>4. CASE q = worker.rev
      <4>1. worker.copy = cInUse[q] /\ ListsStillHold(q)
        BY <2>1, <3>2, <3>4 DEF WorkerKeepsUp
      <4>2. worker.result # "False"
        BY <2>1, <3>1, <3>4, <4>1 DEF ListsStillHold
      <4>3. worker.result # "Unknown"
        BY <1>7, <3>1, <3>4 DEF PatchStatus, Retries
      <4>4. worker.result = "True"
        BY <2>1, <4>2, <4>3 DEF Conditions
      <4>5. worker.result = worker.copy \/ inUse' = [inUse EXCEPT ![q] = worker.result]
        BY <1>7, <3>1, <3>4 DEF PatchStatus, Retries
      <4> QED BY <2>1, <3>1, <3>4, <4>1, <4>4, <4>5 DEF TypeOK
    <3> QED BY <3>3, <3>4
  <2> QED BY <2>2, <2>3 DEF NoForgottenReference
<1> QED
  BY <1>1, <1>3, <1>5, <1>6, <1>7 DEF Reconcile

LEMMA InvDelivery ==
  ASSUME IInv, NEW r \in Revs, DeliverRevision(r)
  PROVE  IInv'
<1> USE DEF IInv
<1>1. TypeOK'
  BY TypeDelivery
<1>2. UNCHANGED <<namespaces, pods, tags, inUse, worker>> /\ queue' = queue \cup {r}
  BY DEF DeliverRevision
<1>3. \A q \in Revs \ {r} : cInUse'[q] = cInUse[q]
  BY DEF DeliverRevision, TypeOK
<1>4. \A q \in Revs : /\ FirmlyReferenced(q)' = FirmlyReferenced(q)
                      /\ ListsStillHold(q)' = ListsStillHold(q)
  BY <1>2 DEF FirmlyReferenced, Injected, ReferencedByTag, ReferencedByNamespace, ListsStillHold
<1>5. PodsHaveNamespace'
  BY <1>2 DEF PodsHaveNamespace
<1>6. WorkerKeepsUp'
  <2>1. worker # IdleWorker => worker.rev \in Revs
    BY DEF TypeOK, WorkerStates
  <2> QED BY <1>2, <1>3, <1>4, <2>1 DEF WorkerKeepsUp
<1>7. NoForgottenReference'
  BY <1>2, <1>3, <1>4 DEF NoForgottenReference, AtRest
<1> QED
  BY <1>1, <1>5, <1>6, <1>7

LEMMA InvInit == Init => IInv
<1>1. Init => TypeOK
  BY BoundAssumption DEF Init, TypeOK, Conditions, WorkerStates
<1> QED
  BY <1>1 DEF Init, IInv, PodsHaveNamespace, WorkerKeepsUp, NoForgottenReference, AtRest

LEMMA InvStutter ==
  ASSUME IInv, UNCHANGED vars
  PROVE  IInv'
BY DEF vars, IInv, TypeOK, PodsHaveNamespace, WorkerKeepsUp, ListsStillHold, NoForgottenReference,
   AtRest, FirmlyReferenced, Injected, ReferencedByTag, ReferencedByNamespace

(***************************************************************************)
(* If pods are seen after their namespaces, a revision that a tag, a       *)
(* namespace label or an injected sidecar references has InUse=True        *)
(* whenever nothing is pending for it.  A label or sidecar that appears    *)
(* between two lists is missed by that reconcile, but it queues the        *)
(* revision again, and a patch skipped because the cached copy agrees is   *)
(* made good by the event that brings the cache up to date.                *)
(***************************************************************************)
THEOREM NothingForgotten ==
  ASSUME InOrder
  PROVE  Spec => []NoForgottenReference
<1>1. IInv /\ [Next]_vars => IInv'
  BY InvWorkloads, InvReconcile, InvDelivery, InvStutter DEF Next
<1>2. IInv => NoForgottenReference
  BY DEF IInv
<1> QED
  BY InvInit, <1>1, <1>2, PTL DEF Spec

-----------------------------------------------------------------------------
(* Accuracy: what a reconcile finds stays true of the revision until it is *)
(* queued again or its pods change unheard, in whatever order the caches   *)
(* are filled.                                                             *)

\* What the worker has listed of its revision, r, is still how things are.
StillTrue(r) ==
  /\ worker.pc \in {"namespaces", "pods"} => ~ ReferencedByTag(r)
  /\ worker.pc = "pods" =>
       /\ ~ ReferencedByNamespace(namespaces, r)
       /\ CountedPods(worker.nss, r) = CountedPods(namespaces, r)
  /\ worker.pc = "patch" =>
       /\ worker.result = "True" => Referenced(r)
       /\ worker.result = "False" => ~ Referenced(r)

\* A worker whose key is not queued began with the copy that is still cached.
CopyIsCached ==
  worker # IdleWorker /\ worker.rev \notin queue => worker.copy = cInUse[worker.rev]

WorkerIsRight ==
  worker # IdleWorker /\ worker.rev \notin queue /\ worker.rev \notin missed =>
    StillTrue(worker.rev)

AInv == /\ TypeOK /\ missed \cap queue = {}
        /\ CopyIsCached /\ WorkerIsRight /\ AccurateAtRest

\* Nothing that Referenced reads of r changed, as things are and as they were listed.
Unmoved(r) ==
  /\ ReferencedByTag(r)' = ReferencedByTag(r)
  /\ ReferencedByNamespace(namespaces, r)' = ReferencedByNamespace(namespaces, r)
  /\ CountedPods(namespaces, r)' = CountedPods(namespaces, r)
  /\ worker.pc = "pods" => CountedPods(worker.nss, r)' = CountedPods(worker.nss, r)

LEMMA UnmovedReferences ==
  ASSUME NEW r, Unmoved(r)
  PROVE  Referenced(r)' = Referenced(r)
BY DEF Unmoved, Referenced, ReferencedByPod, UsedByDefault

LEMMA WorkloadsFrame ==
  ASSUME Workloads
  PROVE  UNCHANGED <<inUse, cInUse, worker>> /\ queue \subseteq queue' /\ Changes
BY DEF Workloads, ChangeNamespace, CreatePod, RelabelPod, CompletePod, DeletePod, ChangeTag,
   controllerVars

\* A change moves nothing for a revision that is neither queued nor missed then.
LEMMA WorkloadsMove ==
  ASSUME TypeOK, Workloads, NEW r \in Revs, r \notin queue', r \notin missed'
  PROVE  Unmoved(r) /\ r \notin queue /\ r \notin missed
<1>0. r # NoRev
  BY NameAssumption
<1>1. r \notin queue /\ r \notin missed /\ ~ Recounted(r)
  BY WorkloadsFrame DEF Changes
<1>2. CountedPods(namespaces, r)' = CountedPods(namespaces, r)
  BY <1>1 DEF Recounted
<1>3. worker.pc = "pods" => CountedPods(worker.nss, r)' = CountedPods(worker.nss, r)
  <2>1. worker' = worker
    BY WorkloadsFrame
  <2>2. worker.pc = "pods" => Listed = worker.nss /\ Listed' = worker.nss
    BY <2>1 DEF Listed
  <2>3. CountedPods(Listed, r)' = CountedPods(Listed, r)
    BY <1>1 DEF Recounted
  <2> QED BY <2>1, <2>2, <2>3 DEF CountedPods, Listed
<1>4. ReferencedByTag(r)' = ReferencedByTag(r)
  <2>1. ASSUME NEW t \in Tags, ChangeTag(t)
        PROVE  ReferencedByTag(r)' = ReferencedByTag(r)
    <3>1. PICK rev \in Revs \cup {NoRev} :
            /\ tags' = [tags EXCEPT ![t] = rev]
            /\ r \notin mapRevisionTagToReconcileRequest(tags[t])
            /\ r \notin mapRevisionTagToReconcileRequest(rev)
      BY <2>1 DEF ChangeTag
    <3>2. tags[t] # r /\ rev # r
      BY <3>1 DEF mapRevisionTagToReconcileRequest
    <3> QED BY <3>1, <3>2 DEF ReferencedByTag, TypeOK
  <2>2. (\A t \in Tags : ~ ChangeTag(t)) => tags' = tags
    BY DEF Workloads, ChangeNamespace, CreatePod, RelabelPod, CompletePod, DeletePod
  <2> QED BY <2>1, <2>2 DEF ReferencedByTag
<1>5. ReferencedByNamespace(namespaces, r)' = ReferencedByNamespace(namespaces, r)
  <2>1. ASSUME NEW ns \in Namespaces, ChangeNamespace(ns)
        PROVE  ReferencedByNamespace(namespaces, r)' = ReferencedByNamespace(namespaces, r)
    <3>1. PICK labels \in Labels \cup {Absent} :
            /\ namespaces' = [namespaces EXCEPT ![ns] = labels]
            /\ r \notin mapNamespaceToReconcileRequest(ns, namespaces[ns])
            /\ r \notin mapNamespaceToReconcileRequest(ns, labels)
      BY <2>1, <1>1 DEF ChangeNamespace
    <3>2. ASSUME NEW m \in Namespaces
          PROVE  namespaceReferencesRevision(namespaces, m, r)'
                   = namespaceReferencesRevision(namespaces, m, r)
      <4>1. CASE m = ns
        <5>1. namespaces'[m] = labels
          BY <3>1, <4>1 DEF TypeOK
        <5>2. labels # Absent => GetReferencedRevisionFromNamespace(labels) # r
          BY <3>1 DEF mapNamespaceToReconcileRequest
        <5>3. namespaces[m] # Absent => GetReferencedRevisionFromNamespace(namespaces[m]) # r
          BY <3>1, <4>1 DEF mapNamespaceToReconcileRequest
        <5> QED BY <5>1, <5>2, <5>3 DEF namespaceReferencesRevision
      <4>2. CASE m # ns
        BY <3>1, <4>2 DEF namespaceReferencesRevision, TypeOK
      <4> QED BY <4>1, <4>2
    <3> QED BY <3>2 DEF ReferencedByNamespace
  <2>2. (\A ns \in Namespaces : ~ ChangeNamespace(ns)) => namespaces' = namespaces
    BY DEF Workloads, CreatePod, RelabelPod, CompletePod, DeletePod, ChangeTag
  <2> QED BY <2>1, <2>2 DEF ReferencedByNamespace, namespaceReferencesRevision
<1> QED
  BY <1>1, <1>2, <1>3, <1>4, <1>5 DEF Unmoved

LEMMA AccurateWorkloads ==
  ASSUME AInv, Workloads
  PROVE  AInv'
<1> USE DEF AInv
<1>1. TypeOK'
  BY TypeWorkloads
<1>2. UNCHANGED <<inUse, cInUse, worker>> /\ queue \subseteq queue'
      /\ missed' \cap queue' = {}
  BY WorkloadsFrame DEF Changes
<1>3. ASSUME NEW r \in Revs, r \notin queue', r \notin missed'
      PROVE  Unmoved(r) /\ Referenced(r)' = Referenced(r) /\ r \notin queue /\ r \notin missed
  BY <1>3, WorkloadsMove, UnmovedReferences
<1>4. worker # IdleWorker => worker.rev \in Revs
  BY DEF TypeOK, WorkerStates
<1>5. CopyIsCached'
  BY <1>2 DEF CopyIsCached
<1>6. WorkerIsRight'
  <2> SUFFICES ASSUME worker # IdleWorker, worker.rev \notin queue', worker.rev \notin missed'
               PROVE  StillTrue(worker.rev)'
    BY <1>2 DEF WorkerIsRight
  <2>1. PICK r \in Revs : r = worker.rev
    BY <1>4
  <2>2. Unmoved(r) /\ Referenced(r)' = Referenced(r) /\ StillTrue(r)
    BY <1>3, <2>1 DEF WorkerIsRight
  <2>3. StillTrue(r)'
    BY <1>2, <2>2 DEF StillTrue, Unmoved
  <2>4. StillTrue(worker.rev)' = StillTrue(r)'
    BY <1>2, <2>1
  <2> QED BY <2>3, <2>4
<1>7. AccurateAtRest'
  BY <1>2, <1>3 DEF AccurateAtRest, AtRest, Accurate
<1> QED
  BY <1>1, <1>2, <1>5, <1>6, <1>7

LEMMA AccurateReconcile ==
  ASSUME AInv, Reconcile
  PROVE  AInv'
<1> USE DEF AInv
<1>1. TypeOK' /\ UNCHANGED workloadVars
  BY TypeReconcile
  DEF Reconcile, TakeKey, ListTags, ListNamespaces, ListPods, ListFails, PatchStatus
<1>2. \A r, nss : CountedPods(nss, r)' = CountedPods(nss', r)
  BY <1>1 DEF CountedPods, PodCounts, workloadVars
<1>3. \A r : /\ Referenced(r)' = Referenced(r)
             /\ ReferencedByTag(r)' = ReferencedByTag(r)
             /\ ReferencedByNamespace(namespaces, r)' = ReferencedByNamespace(namespaces, r)
  BY <1>1 DEF Referenced, ReferencedByTag, ReferencedByNamespace, ReferencedByPod, CountedPods,
     UsedByDefault, workloadVars
<1>4. ASSUME NEW r \in Revs, TakeKey(r)
      PROVE  AInv'
  <2>1. worker' = [pc |-> "tags", rev |-> r, copy |-> cInUse[r],
                   nss |-> NotListed, result |-> "Unknown"]
        /\ worker' # IdleWorker
    BY <1>4 DEF TakeKey, IdleWorker
  <2>2. missed' = missed /\ queue' = queue \ {r} /\ inUse' = inUse
    BY <1>4 DEF TakeKey, Heard
  <2>3. CopyIsCached' /\ WorkerIsRight'
    BY <1>1, <2>1 DEF CopyIsCached, WorkerIsRight, StillTrue, workloadVars
  <2>4. \A q \in Revs : AtRest(q)' => AtRest(q)
    BY <1>1, <1>4, <2>1, <2>2 DEF AtRest, TakeKey, workloadVars
  <2>5. AccurateAtRest'
    BY <1>3, <2>2, <2>4 DEF AccurateAtRest, Accurate
  <2> QED BY <1>1, <2>2, <2>3, <2>5
<1>5. ASSUME ListTags \/ ListNamespaces \/ ListPods \/ ListFails
      PROVE  AInv'
  <2>1. worker \in WorkerStates /\ worker.pc # "idle" /\ worker # IdleWorker
    BY <1>5 DEF ListTags, ListNamespaces, ListPods, ListFails, TypeOK, WorkerStates, IdleWorker
  <2>2. PICK r \in Revs : r = worker.rev
    BY <2>1 DEF WorkerStates, IdleWorker
  <2>3. UNCHANGED <<inUse, queue, missed>>
    BY <1>5 DEF ListTags, ListNamespaces, ListPods, ListFails
  <2>4. worker' # IdleWorker /\ worker'.rev = r /\ worker'.copy = worker.copy
    BY <1>5, <2>1, <2>2
    DEF ListTags, ListNamespaces, ListPods, ListFails, Concludes, WorkerStates, IdleWorker
  <2>5. CopyIsCached'
    BY <1>1, <2>1, <2>2, <2>3, <2>4 DEF CopyIsCached, workloadVars
  <2>6. AccurateAtRest'
    BY <1>1, <1>3, <2>1, <2>2, <2>3, <2>4 DEF AccurateAtRest, AtRest, Accurate, workloadVars
  <2>7. ASSUME r \notin queue, r \notin missed
        PROVE  StillTrue(r)'
    <3>1. StillTrue(r)
      BY <2>1, <2>2, <2>7 DEF WorkerIsRight
    <3>2. CASE ListTags
      <4>1. CASE ReferencedByTag(r)
        <5>1. worker'.pc = "patch" /\ worker'.result = "True"
          BY <2>1, <2>2, <3>2, <4>1 DEF ListTags, Concludes, WorkerStates, IdleWorker
        <5> QED BY <1>3, <4>1, <5>1 DEF StillTrue, Referenced
      <4>2. CASE ~ ReferencedByTag(r)
        <5>1. worker'.pc = "namespaces"
          BY <2>1, <2>2, <3>2, <4>2 DEF ListTags, WorkerStates, IdleWorker
        <5> QED BY <1>3, <4>2, <5>1 DEF StillTrue
      <4> QED BY <4>1, <4>2
    <3>3. CASE ListNamespaces
      <4>1. CASE ReferencedByNamespace(namespaces, r)
        <5>1. worker'.pc = "patch" /\ worker'.result = "True"
          BY <2>1, <2>2, <3>3, <4>1 DEF ListNamespaces, Concludes, WorkerStates, IdleWorker
        <5> QED BY <1>3, <4>1, <5>1 DEF StillTrue, Referenced
      <4>2. CASE ~ ReferencedByNamespace(namespaces, r)
        <5>1. worker'.pc = "pods" /\ worker'.nss = namespaces /\ namespaces' = namespaces
          BY <1>1, <2>1, <2>2, <3>3, <4>2
          DEF ListNamespaces, WorkerStates, IdleWorker, workloadVars
        <5>2. ~ ReferencedByTag(r)
          BY <3>1, <3>3 DEF ListNamespaces, StillTrue
        <5> QED BY <1>3, <4>2, <5>1, <5>2 DEF StillTrue
      <4> QED BY <4>1, <4>2
    <3>4. CASE ListPods
      <4>1. /\ worker'.pc = "patch"
            /\ worker'.result = IF ReferencedByPod(worker.nss, r) \/ UsedByDefault(r)
                                  THEN "True" ELSE "False"
        BY <2>1, <2>2, <3>4 DEF ListPods, Concludes, WorkerStates, IdleWorker
      <4>2. Referenced(r) <=> ReferencedByPod(worker.nss, r) \/ UsedByDefault(r)
        BY <3>1, <3>4 DEF ListPods, StillTrue, Referenced, ReferencedByPod
      <4> QED BY <1>3, <4>1, <4>2 DEF StillTrue
    <3>5. CASE ListFails
      <4>1. worker'.pc = "patch" /\ worker'.result = "Unknown"
        BY <2>1, <3>5 DEF ListFails, Concludes, WorkerStates, IdleWorker
      <4> QED BY <4>1 DEF StillTrue
    <3> QED BY <1>5, <3>2, <3>3, <3>4, <3>5
  <2>8. WorkerIsRight'
    <3>1. StillTrue(worker.rev)' = StillTrue(r)'
      BY <2>4 DEF StillTrue, Referenced, UsedByDefault, ReferencedByTag, ReferencedByNamespace,
         ReferencedByPod, CountedPods, namespaceReferencesRevision, podReferencesRevision
    <3> QED BY <2>3, <2>4, <2>7, <3>1 DEF WorkerIsRight
  <2> QED BY <1>1, <2>3, <2>5, <2>6, <2>8
<1>6. ASSUME PatchStatus
      PROVE  AInv'
  <2>1. /\ worker # IdleWorker /\ worker.pc = "patch" /\ worker' = IdleWorker
        /\ worker.rev \in Revs /\ worker.result \in Conditions
        /\ cInUse' = cInUse /\ queue \subseteq queue' /\ missed' = missed \ queue'
    <3>1. worker # IdleWorker /\ worker.rev \in Revs /\ worker.result \in Conditions
      BY <1>6 DEF PatchStatus, TypeOK, WorkerStates, IdleWorker
    <3>2. /\ worker.pc = "patch" /\ worker' = IdleWorker /\ cInUse' = cInUse
          /\ missed' = missed \ queue'
      BY <1>1, <1>6 DEF PatchStatus, Heard, workloadVars
    <3>3. queue' = queue \/ queue' = queue \cup {worker.rev}
      BY <1>6 DEF PatchStatus
    <3> QED BY <3>1, <3>2, <3>3
  <2>2. ASSUME NEW q \in Revs, AtRest(q)', q \notin missed'
        PROVE  inUse'[q] = IF Referenced(q) THEN "True" ELSE "False"
    <3>1. q \notin queue' /\ q \notin queue /\ q \notin missed /\ cInUse[q] = inUse'[q]
      BY <2>1, <2>2 DEF AtRest
    <3>2. CASE q # worker.rev
      <4>1. inUse'[q] = inUse[q]
        BY <1>6, <3>2 DEF PatchStatus, TypeOK
      <4>2. AtRest(q)
        BY <3>1, <3>2, <4>1 DEF AtRest
      <4> QED BY <3>1, <4>1, <4>2 DEF AccurateAtRest, Accurate
    <3>3. CASE q = worker.rev
      <4>1. worker.result # "Unknown"
        BY <1>6, <3>1, <3>3 DEF PatchStatus, Retries
      <4>2. worker.result = IF Referenced(q) THEN "True" ELSE "False"
        BY <2>1, <3>1, <3>3, <4>1 DEF WorkerIsRight, StillTrue, Conditions
      <4>3. \/ worker.result = worker.copy /\ inUse' = inUse
            \/ inUse' = [inUse EXCEPT ![q] = worker.result]
        BY <1>6, <3>1, <3>3 DEF PatchStatus, Retries
      <4>4. worker.copy = cInUse[q]
        BY <2>1, <3>1, <3>3 DEF CopyIsCached
      <4> QED BY <3>1, <4>2, <4>3, <4>4 DEF TypeOK
    <3> QED BY <3>2, <3>3
  <2>3. AccurateAtRest'
    BY <1>3, <2>2 DEF AccurateAtRest, Accurate
  <2> QED BY <1>1, <2>1, <2>3 DEF CopyIsCached, WorkerIsRight
<1> QED
  BY <1>4, <1>5, <1>6 DEF Reconcile

LEMMA AccurateDelivery ==
  ASSUME AInv, NEW r \in Revs, DeliverRevision(r)
  PROVE  AInv'
<1> USE DEF AInv
<1>1. TypeOK'
  BY TypeDelivery
<1>2. /\ UNCHANGED <<namespaces, pods, tags, inUse, worker>>
      /\ queue' = queue \cup {r} /\ missed' = missed \ queue'
      /\ \A q \in Revs \ {r} : cInUse'[q] = cInUse[q]
  BY DEF DeliverRevision, Heard, TypeOK
<1>3. \A q : /\ Referenced(q)' = Referenced(q)
             /\ ReferencedByTag(q)' = ReferencedByTag(q)
             /\ ReferencedByNamespace(namespaces, q)' = ReferencedByNamespace(namespaces, q)
             /\ CountedPods(namespaces, q)' = CountedPods(namespaces, q)
             /\ CountedPods(worker.nss, q)' = CountedPods(worker.nss, q)
  BY <1>2 DEF Referenced, ReferencedByTag, ReferencedByNamespace, ReferencedByPod, CountedPods,
     UsedByDefault
<1>4. worker # IdleWorker => worker.rev \in Revs
  BY DEF TypeOK, WorkerStates
<1>5. CopyIsCached'
  BY <1>2, <1>4 DEF CopyIsCached
<1>6. WorkerIsRight'
  <2>1. \A q : StillTrue(q)' = StillTrue(q)
    BY <1>2, <1>3 DEF StillTrue
  <2> QED BY <1>2, <2>1 DEF WorkerIsRight
<1>7. AccurateAtRest'
  BY <1>2, <1>3 DEF AccurateAtRest, AtRest, Accurate
<1> QED
  BY <1>1, <1>2, <1>5, <1>6, <1>7

LEMMA AccurateStutter ==
  ASSUME AInv, UNCHANGED vars
  PROVE  AInv'
BY DEF vars, AInv, TypeOK, CopyIsCached, WorkerIsRight, StillTrue, AccurateAtRest, AtRest, Accurate,
   Referenced, ReferencedByTag, ReferencedByNamespace, ReferencedByPod, CountedPods, UsedByDefault

(***************************************************************************)
(* Whenever nothing is pending for a revision, its InUse condition is      *)
(* right in both directions and never left Unknown, whatever labels and    *)
(* annotations pods have, in whatever order the caches are filled, and     *)
(* whatever changes between two lists, fails or is skipped, unless its     *)
(* pods have become other ones without an event that enqueued it.          *)
(***************************************************************************)
THEOREM AccurateWhenAtRest == Spec => []AccurateAtRest
<1>1. Init => AInv
  BY InvInit DEF Init, AInv, IInv, CopyIsCached, WorkerIsRight, AccurateAtRest, AtRest
<1>2. AInv /\ [Next]_vars => AInv'
  BY AccurateWorkloads, AccurateReconcile, AccurateDelivery, AccurateStutter DEF Next, AInv
<1>3. AInv => AccurateAtRest
  BY DEF AInv
<1> QED
  BY <1>1, <1>2, <1>3, PTL DEF Spec

-----------------------------------------------------------------------------
(* What a revision may miss.                                               *)

\* One pod changes and is mapped, before and after: a revision that is not
\* queued for it and yet counts it otherwise is hidden by another's annotation.
LEMMA OnlyHidden ==
  ASSUME TypeOK, NEW p \in Pods, NEW r \in Revs, NEW nss,
         r \notin mapPodToReconcileRequest(pods[p]),
         r \notin mapPodToReconcileRequest(pods'[p]),
         \A q \in Pods : q # p => pods'[q] = pods[q],
         CountedPods(nss, r)' # CountedPods(nss, r)
  PROVE  AnnotationHidesLabel(p, r)
<1>1. PICK q \in Pods : \/ q \in CountedPods(nss, r)' /\ q \notin CountedPods(nss, r)
                        \/ q \notin CountedPods(nss, r)' /\ q \in CountedPods(nss, r)
  BY DEF CountedPods
<1>2. q = p /\ pods'[p] # pods[p]
  BY <1>1 DEF CountedPods, PodCounts, podReferencesRevision
<1>3. PICK pod \in {pods[p], pods'[p]} : pod # Absent /\ podReferencesRevision(pod, nss, r)
  BY <1>1, <1>2 DEF CountedPods, PodCounts
<1>4. r # NoRev /\ r \notin mapPodToReconcileRequest(pod)
  BY NameAssumption
<1>5. GetInjectedRevisionFromPod(pod.shape) # r
  BY <1>3, <1>4 DEF mapPodToReconcileRequest
<1>6. GetReferencedRevisionFromPod(pod.shape) = r
  BY <1>3, <1>5 DEF podReferencesRevision
<1>7. GetInjectedRevisionFromPod(pod.shape) # NoRev
  BY <1>3, <1>4, <1>6 DEF mapPodToReconcileRequest
<1> QED
  BY <1>2, <1>3, <1>5, <1>6, <1>7 DEF AnnotationHidesLabel

\* A namespace changes: the pods counted otherwise are in it, and ask by their
\* label, unless the namespace comes or goes.
LEMMA OnlyByNamespace ==
  ASSUME TypeOK, NEW ns \in Namespaces, ChangeNamespace(ns), NEW r \in Revs, Recounted(r)
  PROVE  \E p \in Pods : NamespaceDecides(p, r)
<1>1. UNCHANGED <<pods, worker>>
  BY DEF ChangeNamespace, controllerVars
<1>2. CountedPods(namespaces, r)' # CountedPods(namespaces, r)
  BY <1>1 DEF Recounted, Listed, CountedPods
<1>3. PICK p \in Pods :
        \/ p \in CountedPods(namespaces, r)' /\ p \notin CountedPods(namespaces, r)
        \/ p \notin CountedPods(namespaces, r)' /\ p \in CountedPods(namespaces, r)
  BY <1>2 DEF CountedPods
<1>4. pods[p] # Absent
  BY <1>1, <1>3 DEF CountedPods, PodCounts
<1>5. namespaces'[pods[p].ns] # namespaces[pods[p].ns]
  BY <1>1, <1>3 DEF CountedPods, PodCounts, podReferencesRevision
<1>6. \/ GetReferencedRevisionFromPod(pods[p].shape) = r
      \/ GetInjectedRevisionFromPod(pods[p].shape) = r
  BY <1>1, <1>3 DEF CountedPods, podReferencesRevision
<1>7. CASE GetInjectedRevisionFromPod(pods[p].shape) = r
  <2>1. Absent \in {namespaces[pods[p].ns], namespaces'[pods[p].ns]}
    BY <1>1, <1>3, <1>7 DEF CountedPods, PodCounts, podReferencesRevision
  <2> QED BY <1>4, <1>5, <1>7, <2>1 DEF NamespaceDecides
<1>8. CASE GetReferencedRevisionFromPod(pods[p].shape) = r
  BY <1>4, <1>5, <1>8 DEF NamespaceDecides
<1> QED
  BY <1>6, <1>7, <1>8

LEMMA MissesAreKnown ==
  ASSUME TypeOK, Next, NEW r \in missed', r \notin missed
  PROVE  \E p \in Pods :
           NamespaceDecides(p, r) \/ AnnotationHidesLabel(p, r) \/ RunsToCompletion(p)
<1>1. Workloads
  BY DEF Next, Reconcile, TakeKey, ListTags, ListNamespaces, ListPods, ListFails, PatchStatus,
     DeliverRevision, Heard
<1>2. r \in Revs /\ Recounted(r) /\ r \notin queue' /\ worker' = worker
  BY <1>1, WorkloadsFrame DEF Changes
<1>3. ASSUME NEW ns \in Namespaces, ChangeNamespace(ns)
      PROVE  \E p \in Pods : NamespaceDecides(p, r)
  BY <1>2, <1>3, OnlyByNamespace
<1>4. ASSUME NEW p \in Pods, CreatePod(p) \/ RelabelPod(p) \/ DeletePod(p)
      PROVE  AnnotationHidesLabel(p, r)
  <2>1. namespaces' = namespaces /\ Listed' = Listed
    BY <1>2, <1>4 DEF CreatePod, RelabelPod, DeletePod, Listed
  <2>2. \A q \in Pods : q # p => pods'[q] = pods[q]
    BY <1>4 DEF CreatePod, RelabelPod, DeletePod, TypeOK
  <2>3. pods[p] = Absent \/ r \notin mapPodToReconcileRequest(pods[p])
    BY <1>2, <1>4 DEF CreatePod, RelabelPod, DeletePod
  <2>4. pods'[p] = Absent \/ r \notin mapPodToReconcileRequest(pods'[p])
    BY <1>2, <1>4 DEF CreatePod, RelabelPod, DeletePod, TypeOK
  <2>5. r \notin mapPodToReconcileRequest(pods[p]) /\ r \notin mapPodToReconcileRequest(pods'[p])
    BY <2>3, <2>4 DEF mapPodToReconcileRequest
  <2>6. PICK nss : CountedPods(nss, r)' # CountedPods(nss, r)
    <3>1. CASE CountedPods(namespaces, r)' # CountedPods(namespaces, r)
      <4>1. PICK nss : nss = namespaces
        OBVIOUS
      <4> QED BY <2>1, <3>1, <4>1 DEF CountedPods
    <3>2. CASE CountedPods(Listed, r)' # CountedPods(Listed, r)
      <4>1. PICK nss : nss = Listed
        OBVIOUS
      <4> QED BY <2>1, <3>2, <4>1 DEF CountedPods
    <3> QED BY <1>2, <3>1, <3>2 DEF Recounted
  <2> QED BY <1>2, <2>2, <2>5, <2>6, OnlyHidden
<1>5. ASSUME NEW p \in Pods, CompletePod(p)
      PROVE  RunsToCompletion(p)
  <2>1. pods[p] \in PodObjects /\ pods[p] # Absent /\ ~ pods[p].done
    BY <1>5, PodObjectsExist DEF CompletePod
  <2>2. pods'[p] = [pods[p] EXCEPT !.done = TRUE]
    BY <1>5 DEF CompletePod, TypeOK
  <2>3. pods'[p] \in PodObjects /\ pods'[p].done
    BY <2>1, <2>2 DEF PodObjects
  <2>4. pods'[p] # Absent
    BY <2>3, AbsentAssumption, ShapesAreShapes
  <2> QED BY <2>1, <2>3, <2>4 DEF RunsToCompletion
<1>6. ASSUME NEW t \in Tags, ChangeTag(t)
      PROVE  FALSE
  BY <1>2, <1>6 DEF ChangeTag, Recounted, Listed, CountedPods
<1> QED
  BY <1>1, <1>3, <1>4, <1>5, <1>6 DEF Workloads

(***************************************************************************)
(* No revision misses a change of its pods except in the three cases that  *)
(* OnlyKnownMisses names, for any labels and annotations, in any order of  *)
(* namespace and pod events, and also if a reconcile is just judging pods  *)
(* by namespaces that it listed earlier.                                   *)
(***************************************************************************)
THEOREM MissesKnown == Spec => OnlyKnownMisses
<1>1. TypeOK /\ [Next]_vars =>
        [\A r \in missed' \ missed :
           \E p \in Pods :
             NamespaceDecides(p, r) \/ AnnotationHidesLabel(p, r) \/ RunsToCompletion(p)]_vars
  BY MissesAreKnown
<1> QED
  BY <1>1, TypeCorrect, PTL DEF Spec, OnlyKnownMisses
=============================================================================
