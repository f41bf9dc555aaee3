------------------------ MODULE NodeComponentsProofs ------------------------
(***************************************************************************)
(* For every bound on disturbances: no DaemonSet outlives its resource,    *)
(* and what a resource reports at rest is true of the cluster.             *)
(***************************************************************************)
EXTENDS NodeComponents, TLAPS

-----------------------------------------------------------------------------
(* The inductive invariant, part by part for one kind of resource.         *)

\* A resource that waits for its deletion has our finalizer, or it would be gone.
DeletedByUs(k) == node[k] # None /\ node[k].deleting => node[k].fin

\* The cache never runs ahead: a deletion that it shows has happened, ...
DeletionHappened(k) ==
  cNode[k] # None /\ cNode[k].deleting => node[k] = None \/ node[k].deleting

\* ... and a finalizer that it shows on a resource in use is there.
FinalizerHolds(k) ==
  cNode[k] # None /\ ~ cNode[k].deleting /\ cNode[k].fin => node[k] # None /\ node[k].fin

\* The finalizer that is about to be removed is that of a resource whose chart
\* is gone, and not of a later resource of that kind.
Unfinalizing(k) ==
  worker[k].pc = "unfinalize" =>
    /\ worker[k].copy.deleting /\ worker[k].copy.fin /\ daemon[k] = "Missing"
    /\ \/ cNode[k] # None /\ cNode[k].deleting
       \/ (node[k] = None \/ ~ node[k].fin) /\ (cNode[k] = None \/ ~ cNode[k].fin)

\* A chart is installed under a finalizer.
ChartHeld(k) == daemon[k] # "Missing" => node[k] # None /\ node[k].fin

\* Unless an event is under way, the cache shows what there is.
CacheKeepsUp(k) ==
  /\ "Namespace" \notin pending => cNs = ns
  /\ k \notin pending => cDaemon[k] = daemon[k]

\* Unless its key is queued again, what a reconcile found out still holds.
StatusKeepsUp(k) ==
  worker[k].pc = "status" =>
    /\ worker[k].copy.fin /\ ~ worker[k].copy.deleting
    /\ k \notin queue =>
         /\ worker[k].copy = cNode[k]
         /\ (worker[k].err = "validation") <=> (cNs # "Active")
         /\ worker[k].err = "none" /\ pending \cap {"Namespace", k} = {} => daemon[k] # "Missing"

Honest(k) ==
  AtRest(k) /\ node[k] # None =>
    /\ node[k].fin /\ ~ node[k].deleting
    /\ (ns = "Active") => (daemon[k] # "Missing")
    /\ (k \notin masked) =>
         /\ node[k].reconciled = TrueReconciled
         /\ node[k].ready = determineReadyCondition(daemon[k])

Held(k) == DeletedByUs(k) /\ DeletionHappened(k) /\ FinalizerHolds(k) /\ Unfinalizing(k) /\ ChartHeld(k)
Told(k) == CacheKeepsUp(k) /\ StatusKeepsUp(k) /\ Honest(k)

IInv == NodeTypeOK /\ \A k \in Kinds : Held(k) /\ Told(k)

-----------------------------------------------------------------------------
(* Types.                                                                  *)

USE DEF Phases, Daemons

LEMMA SpentType ==
  ASSUME spent \in 0 .. Bound, CallSucceeds \/ Spend
  PROVE  spent' \in 0 .. Bound
BY BoundAssumption DEF CallSucceeds, Spend

LEMMA NodeRecords ==
  ASSUME NEW n \in Nodes
  PROVE  /\ n # None
         /\ n.fin \in BOOLEAN /\ n.deleting \in BOOLEAN
         /\ n.reconciled \in {"Unset", "True", "ReconcileError"}
         /\ n.ready \in {"Unset", "True", "DaemonSetNotReady", "ReadinessCheckFailed"}
BY NoneAssumption DEF Nodes

LEMMA WorkerTypes ==
  ASSUME NodeTypeOK, NEW k \in Kinds
  PROVE  /\ worker[k].pc = "idle" => worker[k] = Idle
         /\ worker[k].pc = "unfinalize" =>
              worker[k] \in [pc: {"unfinalize"}, copy: Nodes] /\ worker[k].copy \in Nodes
         /\ worker[k].pc = "status" =>
              /\ worker[k] \in [pc: {"status"}, copy: Nodes, err: {"none", "validation", "failed"}]
              /\ worker[k].copy \in Nodes /\ worker[k].err \in {"none", "validation", "failed"}
BY DEF NodeTypeOK, Calls, Idle

LEMMA TypeUsers ==
  ASSUME NodeTypeOK, NodeUsers \/ NamespaceGone
  PROVE  NodeTypeOK'
<1>1. ASSUME NEW k \in Kinds, CreateNode(k)
      PROVE  NodeTypeOK'
  <2>1. [fin |-> FALSE, deleting |-> FALSE, reconciled |-> "Unset", ready |-> "Unset"] \in Nodes
    BY DEF Nodes
  <2> QED BY <1>1, <2>1, SpentType DEF CreateNode, NodeTypeOK, cacheVars, workerVars
<1>2. ASSUME NEW k \in Kinds, DeleteNode(k)
      PROVE  NodeTypeOK'
  <2>1. [node[k] EXCEPT !.deleting = TRUE] \in Nodes
    BY <1>2 DEF DeleteNode, NodeTypeOK, Nodes
  <2> QED BY <1>2, <2>1, SpentType DEF DeleteNode, NodeTypeOK, cacheVars, workerVars
<1>3. ASSUME NEW k \in Kinds, NEW d \in Daemons, ChangeDaemon(k, d)
      PROVE  NodeTypeOK'
  BY <1>3, SpentType DEF ChangeDaemon, NodeTypeOK, cacheVars, workerVars
<1>4. CASE ChangeNamespace
  BY <1>4, SpentType DEF ChangeNamespace, NodeTypeOK, cacheVars, workerVars
<1>5. CASE NamespaceGone
  BY <1>5 DEF NamespaceGone, NodeTypeOK, cacheVars, workerVars
<1> QED
  BY <1>1, <1>2, <1>3, <1>4, <1>5 DEF NodeUsers

LEMMA TypeInformers ==
  ASSUME NodeTypeOK, DeliverNamespace \/ \E k \in Kinds : DeliverNode(k) \/ DeliverDaemon(k)
  PROVE  NodeTypeOK'
<1>1. CASE DeliverNamespace
  BY <1>1 DEF DeliverNamespace, NodeTypeOK
<1>2. ASSUME NEW k \in Kinds, DeliverNode(k)
      PROVE  NodeTypeOK'
  BY <1>2 DEF DeliverNode, NodeTypeOK
<1>3. ASSUME NEW k \in Kinds, DeliverDaemon(k)
      PROVE  NodeTypeOK'
  BY <1>3 DEF DeliverDaemon, NodeTypeOK
<1> QED
  BY <1>1, <1>2, <1>3

LEMMA TypeUpdate ==
  ASSUME NodeTypeOK, NEW k \in Kinds, NEW copy, NEW new \in Nodes \cup {None}, Update(k, copy, new)
  PROVE  /\ node' \in [Kinds -> Nodes \cup {None}]
         /\ queue' \subseteq Kinds
         /\ spent' \in 0 .. Bound
<1>1. CallSucceeds \/ Spend
  BY DEF Update, CallFails
<1>2. node' \in [Kinds -> Nodes \cup {None}] /\ queue' \subseteq Kinds
  BY DEF Update, NodeTypeOK
<1> QED
  BY <1>1, <1>2, SpentType DEF NodeTypeOK

LEMMA TypeReconciled == \A err : determineReconciledCondition(err) \in {"True", "ReconcileError"}
BY DEF determineReconciledCondition

LEMMA TypeReady == \A d : determineReadyCondition(d) \in {"True", "DaemonSetNotReady"}
BY DEF determineReadyCondition

LEMMA Conditions ==
  ASSUME NEW n \in Nodes,
         NEW reconciled \in {"Unset", "True", "ReconcileError"},
         NEW ready \in {"Unset", "True", "DaemonSetNotReady", "ReadinessCheckFailed"}
  PROVE  /\ WithConditions(n, reconciled, ready) \in Nodes
         /\ WithConditions(n, reconciled, ready) = n <=> (n.reconciled = reconciled /\ n.ready = ready)
         /\ WithConditions(n, reconciled, ready).fin = n.fin
         /\ WithConditions(n, reconciled, ready).deleting = n.deleting
         /\ WithConditions(n, reconciled, ready).reconciled = reconciled
         /\ WithConditions(n, reconciled, ready).ready = ready
BY DEF WithConditions, Nodes

\* What UpdateStatus comes to: the status is right already, or the resource is
\* gone, or it is patched; and what fails is repeated, or masked.
LEMMA StatusStep ==
  ASSUME NodeTypeOK, NEW k \in Kinds, UpdateStatus(k)
  PROVE  \E reconciled \in {"True", "ReconcileError"},
            ready \in {"True", "DaemonSetNotReady", "ReadinessCheckFailed"}, fails \in BOOLEAN :
           /\ reconciled = determineReconciledCondition(worker[k].err)
           /\ ~ fails => ready = determineReadyCondition(cDaemon[k])
           /\ fails => (worker[k].err = "validation" /\ k \in masked') \/ k \in queue'
           /\ \/ /\ node' = node
                 /\ fails \/ (worker[k].copy.reconciled = reconciled /\ worker[k].copy.ready = ready)
              \/ node' = node /\ node[k] = None
              \/ /\ node[k] # None
                 /\ node' = [node EXCEPT ![k] = WithConditions(node[k], reconciled, ready)]
                 /\ worker[k].copy.reconciled # reconciled \/ worker[k].copy.ready # ready
<1> DEFINE reconciled == determineReconciledCondition(worker[k].err)
           ready(read) == IF read = "ok" THEN determineReadyCondition(cDaemon[k])
                                         ELSE "ReadinessCheckFailed"
           patched(read) == WithConditions(worker[k].copy, reconciled, ready(read)) # worker[k].copy
<1>1. PICK read \in {"ok", "failed"}, patch \in {"ok", "failed"} :
        LET gone    == patched(read) /\ patch = "ok" /\ node[k] = None
            fails   == {read, patch} # {"ok"}
        IN /\ (patch = "failed") => patched(read)
           /\ node' = IF patched(read) /\ patch = "ok" /\ ~ gone
                      THEN [node EXCEPT ![k] = WithConditions(node[k], reconciled, ready(read))]
                      ELSE node
           /\ queue' = IF (worker[k].err = "failed") \/ gone
                            \/ (fails /\ worker[k].err # "validation")
                       THEN queue \cup {k} ELSE queue
           /\ masked' = IF fails /\ worker[k].err = "validation"
                        THEN masked \cup {k} ELSE masked \ {k}
  BY DEF UpdateStatus
<1>2. worker[k].copy \in Nodes
  BY WorkerTypes DEF UpdateStatus
<1>3. /\ reconciled \in {"True", "ReconcileError"}
      /\ ready(read) \in {"True", "DaemonSetNotReady", "ReadinessCheckFailed"}
  BY TypeReconciled, TypeReady
<1>4. patched(read) <=>
        (worker[k].copy.reconciled # reconciled \/ worker[k].copy.ready # ready(read))
  BY <1>2, <1>3, Conditions
<1> DEFINE fails == {read, patch} # {"ok"}
<1>5. fails <=> (read = "failed" \/ patch = "failed")
  OBVIOUS
<1> HIDE DEF patched, fails
<1>6. fails => (worker[k].err = "validation" /\ k \in masked') \/ k \in queue'
  BY <1>1, <1>5 DEF fails
<1>7. ~ fails => ready(read) = determineReadyCondition(cDaemon[k])
  BY <1>5
<1>8. \/ /\ node' = node
         /\ fails \/ (worker[k].copy.reconciled = reconciled /\ worker[k].copy.ready = ready(read))
      \/ node' = node /\ node[k] = None
      \/ /\ node[k] # None
         /\ node' = [node EXCEPT ![k] = WithConditions(node[k], reconciled, ready(read))]
         /\ worker[k].copy.reconciled # reconciled \/ worker[k].copy.ready # ready(read)
  <2>1. CASE ~ patched(read)
    BY <1>1, <1>4, <2>1
  <2>2. CASE patched(read) /\ patch = "ok"
    BY <1>1, <1>4, <2>2
  <2>3. CASE patch = "failed"
    BY <1>1, <1>5, <2>3
  <2> QED BY <2>1, <2>2, <2>3
<1>9. fails \in BOOLEAN
  BY DEF fails
<1> HIDE DEF ready
<1> QED
  BY <1>3, <1>6, <1>7, <1>8, <1>9

LEMMA TypeController ==
  ASSUME NodeTypeOK, NEW k \in Kinds, NodeController(k)
  PROVE  NodeTypeOK'
<1>1. CASE SkipKey(k)
  BY <1>1 DEF SkipKey, NodeTypeOK, cacheVars
<1>2. CASE AddFinalizer(k)
  <2>1. [cNode[k] EXCEPT !.fin = TRUE] \in Nodes
    BY <1>2 DEF AddFinalizer, NodeTypeOK, Nodes
  <2> QED BY <1>2, <2>1, TypeUpdate DEF AddFinalizer, NodeTypeOK, cacheVars
<1>3. CASE InstallChart(k)
  <2>1. PICK err \in {"none", "validation", "failed"} :
          /\ CallSucceeds \/ Spend
          /\ ApplyChart(k) \/ UNCHANGED <<daemon, pending>>
          /\ worker' = [worker EXCEPT ![k] = [pc |-> "status", copy |-> cNode[k], err |-> err]]
    BY <1>3 DEF InstallChart, CallFails
  <2>2. [pc |-> "status", copy |-> cNode[k], err |-> err] \in Calls
    BY <1>3 DEF InstallChart, NodeTypeOK, Calls
  <2>3. worker' \in [Kinds -> Calls]
    BY <2>1, <2>2 DEF NodeTypeOK
  <2>4. daemon' \in [Kinds -> Daemons] /\ pending' \subseteq Kinds \cup {"Namespace"}
    BY <2>1 DEF ApplyChart, NodeTypeOK
  <2>5. spent' \in 0 .. Bound
    BY <2>1, SpentType DEF NodeTypeOK
  <2> QED BY <1>3, <2>3, <2>4, <2>5 DEF InstallChart, NodeTypeOK, cacheVars
<1>4. CASE UninstallChart(k)
  <2>1. [pc |-> "unfinalize", copy |-> cNode[k]] \in Calls
    BY <1>4 DEF UninstallChart, NodeTypeOK, Calls
  <2>2. worker' \in [Kinds -> Calls] /\ queue' \subseteq Kinds
    BY <1>4, <2>1 DEF UninstallChart, NodeTypeOK
  <2>3. daemon' \in [Kinds -> Daemons] /\ pending' \subseteq Kinds \cup {"Namespace"}
    BY <1>4 DEF UninstallChart, RemoveChart, NodeTypeOK
  <2>4. spent' \in 0 .. Bound
    BY <1>4, SpentType DEF UninstallChart, CallFails, NodeTypeOK
  <2> QED BY <1>4, <2>2, <2>3, <2>4 DEF UninstallChart, NodeTypeOK, cacheVars
<1>5. CASE RemoveFinalizer(k)
  <2>1. Update(k, worker[k].copy, None)
    BY <1>5 DEF RemoveFinalizer
  <2>2. worker' \in [Kinds -> Calls]
    BY <1>5 DEF RemoveFinalizer, NodeTypeOK, Calls
  <2> QED BY <1>5, <2>1, <2>2, TypeUpdate DEF RemoveFinalizer, NodeTypeOK, cacheVars
<1>6. CASE UpdateStatus(k)
  <2>1. PICK reconciled \in {"True", "ReconcileError"},
             ready \in {"True", "DaemonSetNotReady", "ReadinessCheckFailed"} :
          \/ node' = node
          \/ /\ node[k] # None
             /\ node' = [node EXCEPT ![k] = WithConditions(node[k], reconciled, ready)]
    BY <1>6, StatusStep
  <2>2. node[k] # None => WithConditions(node[k], reconciled, ready) \in Nodes
    BY Conditions DEF NodeTypeOK
  <2>3. node' \in [Kinds -> Nodes \cup {None}]
    BY <2>1, <2>2 DEF NodeTypeOK
  <2>4. queue' \subseteq Kinds /\ masked' \subseteq Kinds
    BY <1>6 DEF UpdateStatus, NodeTypeOK
  <2>5. CallSucceeds \/ Spend
    BY <1>6 DEF UpdateStatus, CallFails
  <2>6. worker' \in [Kinds -> Calls]
    BY <1>6 DEF UpdateStatus, NodeTypeOK, Calls
  <2> QED BY <1>6, <2>3, <2>4, <2>5, <2>6, SpentType DEF UpdateStatus, NodeTypeOK, cacheVars
<1> QED
  BY <1>1, <1>2, <1>3, <1>4, <1>5, <1>6 DEF NodeController

\* The steps of the two controllers are steps of a controller of some kind.
LEMMA Controllers ==
  IstioCNIController \/ ZTunnelController => \E k \in Kinds : NodeController(k)
BY DEF IstioCNIController, ZTunnelController

LEMMA TypeInit == NodeInit => NodeTypeOK
BY BoundAssumption DEF NodeInit, NodeTypeOK, Calls

LEMMA TypeStep ==
  ASSUME NodeTypeOK, [NodeNext]_<<nodeVars, spent>>
  PROVE  NodeTypeOK'
<1>1. CASE NodeUsers \/ NamespaceGone
  BY <1>1, TypeUsers
<1>2. CASE DeliverNamespace \/ \E k \in Kinds : DeliverNode(k) \/ DeliverDaemon(k)
  BY <1>2, TypeInformers
<1>3. CASE IstioCNIController \/ ZTunnelController
  BY <1>3, Controllers, TypeController
<1>4. CASE NodeCrash
  BY <1>4, SpentType DEF NodeCrash, NodeTypeOK, Calls
<1>5. CASE Elsewhere
  BY <1>5, SpentType DEF Elsewhere, nodeVars, NodeTypeOK
<1>6. CASE UNCHANGED <<nodeVars, spent>>
  BY <1>6 DEF nodeVars, NodeTypeOK
<1> QED
  BY <1>1, <1>2, <1>3, <1>4, <1>5, <1>6 DEF NodeNext

\* Every reachable state of the two controllers and their resources is well typed.
THEOREM NodeTypeCorrect == NodeSpec => []NodeTypeOK
<1>1. NodeInit => NodeTypeOK
  BY TypeInit
<1>2. NodeTypeOK /\ [NodeNext]_<<nodeVars, spent>> => NodeTypeOK'
  BY TypeStep
<1> QED
  BY <1>1, <1>2, PTL DEF NodeSpec

-----------------------------------------------------------------------------
(* What one kind of resource does leaves the other alone.                  *)

Frame(k) ==
  /\ node'[k] = node[k] /\ cNode'[k] = cNode[k] /\ worker'[k] = worker[k]
  /\ daemon'[k] = daemon[k] /\ cDaemon'[k] = cDaemon[k]
  /\ ns' = ns /\ cNs' = cNs
  /\ k \in queue' <=> k \in queue
  /\ k \in masked' <=> k \in masked
  /\ k \in pending' <=> k \in pending
  /\ "Namespace" \in pending' <=> "Namespace" \in pending

StepOf(k) ==
  \/ CreateNode(k) \/ DeleteNode(k) \/ \E d \in Daemons : ChangeDaemon(k, d)
  \/ DeliverNode(k) \/ DeliverDaemon(k) \/ NodeController(k)

LEMMA KindsAreNoNamespace == "Namespace" \notin Kinds
BY KindAssumption

LEMMA Apart ==
  ASSUME NodeTypeOK, NEW j \in Kinds, NEW k \in Kinds \ {j}, StepOf(j)
  PROVE  Frame(k)
<1> USE KindsAreNoNamespace DEF Frame, cacheVars, workerVars
<1>1. CASE CreateNode(j) \/ DeleteNode(j) \/ \E d \in Daemons : ChangeDaemon(j, d)
  BY <1>1 DEF CreateNode, DeleteNode, ChangeDaemon, NodeTypeOK
<1>2. CASE DeliverNode(j) \/ DeliverDaemon(j)
  BY <1>2 DEF DeliverNode, DeliverDaemon, NodeTypeOK
<1>3. CASE SkipKey(j)
  BY <1>3 DEF SkipKey
<1>4. CASE AddFinalizer(j)
  BY <1>4 DEF AddFinalizer, Update, NodeTypeOK
<1>5. CASE InstallChart(j)
  <2>1. ApplyChart(j) \/ UNCHANGED <<daemon, pending>>
    BY <1>5 DEF InstallChart
  <2>2. /\ daemon'[k] = daemon[k]
        /\ k \in pending' <=> k \in pending
        /\ "Namespace" \in pending' <=> "Namespace" \in pending
    BY <2>1 DEF ApplyChart, NodeTypeOK
  <2>3. worker'[k] = worker[k]
    BY <1>5 DEF InstallChart, NodeTypeOK
  <2> QED BY <1>5, <2>2, <2>3 DEF InstallChart
<1>6. CASE UninstallChart(j)
  BY <1>6 DEF UninstallChart, RemoveChart, NodeTypeOK
<1>7. CASE RemoveFinalizer(j)
  BY <1>7 DEF RemoveFinalizer, Update, NodeTypeOK
<1>8. CASE UpdateStatus(j)
  <2>1. node'[k] = node[k]
    BY <1>8, StatusStep DEF NodeTypeOK
  <2>2. worker'[k] = worker[k]
    BY <1>8 DEF UpdateStatus, NodeTypeOK
  <2>3. (k \in queue' <=> k \in queue) /\ (k \in masked' <=> k \in masked)
    BY <1>8 DEF UpdateStatus
  <2> QED BY <1>8, <2>1, <2>2, <2>3 DEF UpdateStatus
<1> QED
  BY <1>1, <1>2, <1>3, <1>4, <1>5, <1>6, <1>7, <1>8 DEF StepOf, NodeController

-----------------------------------------------------------------------------
(* Charts are held by finalizers.                                          *)

LEMMA HeldFrame ==
  ASSUME NEW k \in Kinds, Held(k), node'[k] = node[k], cNode'[k] = cNode[k],
         daemon'[k] = daemon[k], worker'[k] = worker[k]
  PROVE  Held(k)'
BY DEF Held, DeletedByUs, DeletionHappened, FinalizerHolds, Unfinalizing, ChartHeld

LEMMA HeldByUsers ==
  ASSUME NodeTypeOK, NEW k \in Kinds, Held(k),
         CreateNode(k) \/ DeleteNode(k) \/ \E d \in Daemons : ChangeDaemon(k, d)
  PROVE  Held(k)'
<1> USE DEF Held, DeletedByUs, DeletionHappened, FinalizerHolds, Unfinalizing, ChartHeld,
            cacheVars, workerVars
<1>1. CASE CreateNode(k)
  <2>1. node'[k] = [fin |-> FALSE, deleting |-> FALSE, reconciled |-> "Unset", ready |-> "Unset"]
    BY <1>1 DEF CreateNode, NodeTypeOK
  <2> QED BY <1>1, <2>1 DEF CreateNode
<1>2. CASE DeleteNode(k)
  <2>1. node[k] \in Nodes
    BY <1>2 DEF DeleteNode, NodeTypeOK
  <2>2. node'[k] = IF node[k].fin THEN [node[k] EXCEPT !.deleting = TRUE] ELSE None
    BY <1>2 DEF DeleteNode, NodeTypeOK
  <2>3. CASE node[k].fin
    <3>1. node'[k].fin /\ node'[k].deleting /\ node'[k] \in Nodes
      BY <2>1, <2>2, <2>3 DEF Nodes
    <3>2. node'[k] # None
      BY <3>1, NoneAssumption
    <3> QED BY <1>2, <2>3, <3>1, <3>2 DEF DeleteNode
  <2>4. CASE ~ node[k].fin
    BY <1>2, <2>2, <2>4 DEF DeleteNode
  <2> QED BY <2>3, <2>4
<1>3. ASSUME NEW d \in Daemons, ChangeDaemon(k, d)
      PROVE  Held(k)'
  BY <1>3 DEF ChangeDaemon, NodeTypeOK
<1> QED
  BY <1>1, <1>2, <1>3

LEMMA HeldByInformers ==
  ASSUME NodeTypeOK, NEW k \in Kinds, Held(k), DeliverNode(k) \/ DeliverDaemon(k)
  PROVE  Held(k)'
<1>1. CASE DeliverNode(k)
  <2>1. cNode'[k] = node[k] /\ UNCHANGED <<node, daemon, worker>>
    BY <1>1 DEF DeliverNode, NodeTypeOK
  <2> QED BY <2>1 DEF Held, DeletedByUs, DeletionHappened, FinalizerHolds, Unfinalizing, ChartHeld
<1>2. CASE DeliverDaemon(k)
  BY <1>2, HeldFrame DEF DeliverDaemon
<1> QED
  BY <1>1, <1>2

LEMMA HeldByController ==
  ASSUME NodeTypeOK, NEW k \in Kinds, Held(k), NodeController(k)
  PROVE  Held(k)'
<1> USE DEF Held, DeletedByUs, DeletionHappened, FinalizerHolds, Unfinalizing, ChartHeld,
            cacheVars, workerVars
<1>1. CASE SkipKey(k)
  BY <1>1 DEF SkipKey
<1>2. CASE AddFinalizer(k)
  <2>1. cNode[k] \in Nodes /\ ~ cNode[k].deleting /\ worker[k].pc = "idle"
    BY <1>2 DEF AddFinalizer, TakeKey, Idle, NodeTypeOK
  <2>2. /\ [cNode[k] EXCEPT !.fin = TRUE] \in Nodes
        /\ [cNode[k] EXCEPT !.fin = TRUE].fin
        /\ [cNode[k] EXCEPT !.fin = TRUE].deleting = cNode[k].deleting
    BY <2>1 DEF Nodes
  <2>3. \/ node' = node
        \/ node[k] = cNode[k] /\ node'[k] = [cNode[k] EXCEPT !.fin = TRUE]
    BY <1>2 DEF AddFinalizer, Update, NodeTypeOK
  <2> QED BY <1>2, <2>1, <2>2, <2>3, NoneAssumption DEF AddFinalizer
<1>3. CASE InstallChart(k)
  <2>1. PICK err \in {"none", "validation", "failed"} :
          worker' = [worker EXCEPT ![k] = [pc |-> "status", copy |-> cNode[k], err |-> err]]
    BY <1>3 DEF InstallChart
  <2>2. worker'[k].pc = "status"
    BY <2>1 DEF NodeTypeOK
  <2>3. node[k] # None /\ node[k].fin
    BY <1>3 DEF InstallChart, HasFinalizer
  <2> QED BY <1>3, <2>2, <2>3 DEF InstallChart
<1>4. CASE UninstallChart(k)
  <2>1. cNode[k] # None /\ cNode[k].deleting /\ cNode[k].fin /\ worker[k].pc = "idle"
    BY <1>4 DEF UninstallChart, TakeKey, HasFinalizer, Idle
  <2>2. \/ RemoveChart(k) /\ worker'[k] = [pc |-> "unfinalize", copy |-> cNode[k]]
        \/ (RemoveChart(k) \/ daemon' = daemon) /\ worker' = worker
    BY <1>4 DEF UninstallChart, NodeTypeOK
  <2>3. daemon'[k] \in {daemon[k], "Missing"} /\ (RemoveChart(k) => daemon'[k] = "Missing")
    BY <2>2 DEF RemoveChart, NodeTypeOK
  <2> QED BY <1>4, <2>1, <2>2, <2>3 DEF UninstallChart
<1>5. CASE RemoveFinalizer(k)
  <2>1. worker'[k].pc = "idle" /\ worker[k].copy \in Nodes /\ UNCHANGED <<cNode, daemon>>
    BY <1>5, WorkerTypes DEF RemoveFinalizer, Idle, NodeTypeOK
  <2>2. node' = node \/ (node[k] = worker[k].copy /\ node'[k] = None)
    <3>1. Update(k, worker[k].copy, None)
      BY <1>5 DEF RemoveFinalizer
    <3> QED BY <3>1 DEF Update, NodeTypeOK
  <2>3. worker[k].copy.deleting /\ worker[k].copy.fin /\ daemon[k] = "Missing"
    BY <1>5 DEF RemoveFinalizer
  <2> QED BY <1>5, <2>1, <2>2, <2>3 DEF RemoveFinalizer
<1>6. CASE UpdateStatus(k)
  <2>1. worker'[k].pc = "idle" /\ UNCHANGED <<cNode, daemon>>
    BY <1>6 DEF UpdateStatus, Idle, NodeTypeOK
  <2>2. \/ node' = node
        \/ /\ node[k] # None /\ node'[k] # None
           /\ node'[k].fin = node[k].fin /\ node'[k].deleting = node[k].deleting
    BY <1>6, StatusStep, Conditions, NoneAssumption DEF NodeTypeOK
  <2> QED BY <2>1, <2>2
<1> QED
  BY <1>1, <1>2, <1>3, <1>4, <1>5, <1>6 DEF NodeController

-----------------------------------------------------------------------------
(* Conditions are true at rest.                                            *)

LEMMA ToldFrame ==
  ASSUME NEW k \in Kinds, Told(k), Frame(k)
  PROVE  Told(k)'
<1> USE DEF Told, Frame
<1>1. AtRest(k)' <=> AtRest(k)
  BY DEF AtRest
<1>2. CacheKeepsUp(k)'
  BY DEF CacheKeepsUp
<1>3. pending' \cap {"Namespace", k} = {} <=> pending \cap {"Namespace", k} = {}
  OBVIOUS
<1>4. StatusKeepsUp(k)'
  BY <1>3 DEF StatusKeepsUp
<1>5. Honest(k)'
  BY <1>1 DEF Honest, TrueReconciled
<1> QED
  BY <1>2, <1>4, <1>5

\* A step that leaves an event under way need not be looked at further.
LEMMA NotAtRest ==
  ASSUME NEW k \in Kinds,
         \/ k \in queue' \/ worker'[k] # Idle \/ cNode'[k] # node'[k]
         \/ k \in pending' \/ "Namespace" \in pending'
  PROVE  Honest(k)'
BY DEF Honest, AtRest

LEMMA ToldByUsers ==
  ASSUME NodeTypeOK, NEW k \in Kinds, Held(k), Told(k),
         CreateNode(k) \/ DeleteNode(k) \/ \E d \in Daemons : ChangeDaemon(k, d)
  PROVE  Told(k)'
<1> USE DEF Told, CacheKeepsUp, StatusKeepsUp, cacheVars, workerVars
<1>1. CASE CreateNode(k)
  <2> DEFINE new == [fin |-> FALSE, deleting |-> FALSE, reconciled |-> "Unset", ready |-> "Unset"]
  <2>0. new \in Nodes
    BY DEF Nodes
  <2>1. node'[k] # None
    BY <1>1, <2>0, NoneAssumption DEF CreateNode, NodeTypeOK
  <2>2. Honest(k)'
    BY <1>1, <2>1, NotAtRest DEF CreateNode
  <2> QED BY <1>1, <2>2 DEF CreateNode
<1>2. CASE DeleteNode(k)
  <2>1. node[k] \in Nodes
    BY <1>2 DEF DeleteNode, NodeTypeOK
  <2>2. node'[k] = IF node[k].fin THEN [node[k] EXCEPT !.deleting = TRUE] ELSE None
    BY <1>2 DEF DeleteNode, NodeTypeOK
  <2>3. [node[k] EXCEPT !.deleting = TRUE].deleting
    BY <2>1 DEF Nodes
  <2>4. node'[k] = None \/ cNode'[k] # node'[k]
    BY <1>2, <2>2, <2>3 DEF DeleteNode, Held, DeletionHappened
  <2>5. Honest(k)'
    BY <2>4, NotAtRest DEF Honest
  <2> QED BY <1>2, <2>5 DEF DeleteNode
<1>3. ASSUME NEW d \in Daemons, ChangeDaemon(k, d)
      PROVE  Told(k)'
  <2>1. Honest(k)'
    BY <1>3, NotAtRest DEF ChangeDaemon
  <2> QED BY <1>3, <2>1, KindsAreNoNamespace DEF ChangeDaemon, NodeTypeOK
<1> QED
  BY <1>1, <1>2, <1>3

LEMMA ToldByInformers ==
  ASSUME NodeTypeOK, NEW k \in Kinds, Told(k), DeliverNode(k) \/ DeliverDaemon(k)
  PROVE  Told(k)'
<1>1. k \in queue'
  BY DEF DeliverNode, DeliverDaemon
<1>2. CacheKeepsUp(k)'
  BY KindsAreNoNamespace DEF DeliverNode, DeliverDaemon, NodeTypeOK, Told, CacheKeepsUp
<1>3. StatusKeepsUp(k)'
  BY <1>1 DEF DeliverNode, DeliverDaemon, Told, StatusKeepsUp
<1> QED
  BY <1>1, <1>2, <1>3, NotAtRest DEF Told

LEMMA ToldByController ==
  ASSUME NodeTypeOK, NEW k \in Kinds, Held(k), Told(k), NodeController(k)
  PROVE  Told(k)'
<1> USE DEF Told, CacheKeepsUp, StatusKeepsUp, cacheVars
<1>1. CASE SkipKey(k)
  <2>1. Honest(k)'
    <3>1. UNCHANGED <<ns, node, cNode, daemon, pending, worker, masked>>
      BY <1>1 DEF SkipKey
    <3>2. cNode[k] = node[k] => node[k] = None
      BY <1>1 DEF SkipKey, HasFinalizer, Held, DeletedByUs
    <3> QED BY <3>1, <3>2 DEF Honest, AtRest
  <2>2. worker[k].pc = "idle" /\ worker' = worker
    BY <1>1 DEF SkipKey, TakeKey, Idle
  <2> QED BY <1>1, <2>1, <2>2 DEF SkipKey
<1>2. CASE AddFinalizer(k)
  <2>1. cNode[k] \in Nodes /\ cNode[k] # None /\ ~ cNode[k].fin /\ worker[k].pc = "idle"
    BY <1>2 DEF AddFinalizer, TakeKey, HasFinalizer, Idle, NodeTypeOK
  <2>2. [cNode[k] EXCEPT !.fin = TRUE].fin
    BY <2>1 DEF Nodes
  <2>3. Update(k, cNode[k], [cNode[k] EXCEPT !.fin = TRUE])
    BY <1>2 DEF AddFinalizer
  <2>4. k \in queue' \/ node'[k] # cNode[k]
    BY <2>1, <2>2, <2>3 DEF Update, NodeTypeOK
  <2>5. Honest(k)'
    BY <1>2, <2>4, NotAtRest DEF AddFinalizer
  <2> QED BY <1>2, <2>1, <2>5 DEF AddFinalizer
<1>3. CASE InstallChart(k)
  <2>1. PICK err \in {"none", "validation", "failed"} :
          /\ (err = "validation") <=> (cNs # "Active")
          /\ err = "none" => ApplyChart(k)
          /\ ApplyChart(k) \/ UNCHANGED <<daemon, pending>>
          /\ worker' = [worker EXCEPT ![k] = [pc |-> "status", copy |-> cNode[k], err |-> err]]
    BY <1>3 DEF InstallChart
  <2>2. worker'[k] = [pc |-> "status", copy |-> cNode[k], err |-> err]
    BY <2>1 DEF NodeTypeOK
  <2>3. Honest(k)'
    BY <2>2, NotAtRest DEF Idle
  <2>4. UNCHANGED <<ns, node, cNs, cNode, cDaemon>>
    BY <1>3 DEF InstallChart
  <2>5. /\ "Namespace" \in pending' <=> "Namespace" \in pending
        /\ k \notin pending' => daemon' = daemon /\ k \notin pending
    BY <2>1, KindsAreNoNamespace DEF ApplyChart
  <2>6. CacheKeepsUp(k)'
    BY <2>4, <2>5
  <2>7. err = "none" => daemon'[k] # "Missing"
    BY <2>1 DEF ApplyChart, NodeTypeOK
  <2>8. cNode[k].fin /\ ~ cNode[k].deleting
    BY <1>3 DEF InstallChart, HasFinalizer
  <2>9. StatusKeepsUp(k)'
    BY <2>1, <2>2, <2>4, <2>7, <2>8
  <2> QED BY <2>3, <2>6, <2>9
<1>4. CASE UninstallChart(k)
  <2>1. k \in queue' \/ worker'[k] = [pc |-> "unfinalize", copy |-> cNode[k]]
    BY <1>4 DEF UninstallChart, TakeKey, NodeTypeOK
  <2>2. Honest(k)'
    BY <2>1, NotAtRest DEF Idle
  <2>3. worker'[k].pc # "status"
    BY <1>4 DEF UninstallChart, TakeKey, Idle, NodeTypeOK
  <2>4. RemoveChart(k) \/ UNCHANGED <<daemon, pending>>
    BY <1>4 DEF UninstallChart
  <2>5. /\ "Namespace" \in pending' <=> "Namespace" \in pending
        /\ k \notin pending' => daemon' = daemon /\ k \notin pending
    BY <2>4, KindsAreNoNamespace DEF RemoveChart
  <2> QED BY <1>4, <2>2, <2>3, <2>5 DEF UninstallChart
<1>5. CASE RemoveFinalizer(k)
  <2>1. Update(k, worker[k].copy, None)
    BY <1>5 DEF RemoveFinalizer
  <2>2. k \in queue' \/ node'[k] = None
    BY <2>1 DEF Update, NodeTypeOK
  <2>3. Honest(k)'
    BY <2>2, NotAtRest DEF Honest
  <2>4. worker'[k].pc = "idle" /\ UNCHANGED <<ns, cNs, daemon, cDaemon, pending>>
    BY <1>5 DEF RemoveFinalizer, Idle, NodeTypeOK
  <2> QED BY <2>3, <2>4
<1>6. CASE UpdateStatus(k)
  <2>1. worker'[k] = Idle /\ UNCHANGED <<ns, cNs, cNode, daemon, cDaemon, pending>>
    BY <1>6 DEF UpdateStatus, NodeTypeOK
  <2>2. PICK reconciled \in {"True", "ReconcileError"},
             ready \in {"True", "DaemonSetNotReady", "ReadinessCheckFailed"}, fails \in BOOLEAN :
          /\ reconciled = determineReconciledCondition(worker[k].err)
          /\ ~ fails => ready = determineReadyCondition(cDaemon[k])
          /\ fails => (worker[k].err = "validation" /\ k \in masked') \/ k \in queue'
          /\ \/ /\ node' = node
                /\ fails \/ (worker[k].copy.reconciled = reconciled /\ worker[k].copy.ready = ready)
             \/ node' = node /\ node[k] = None
             \/ /\ node[k] # None
                /\ node' = [node EXCEPT ![k] = WithConditions(node[k], reconciled, ready)]
                /\ worker[k].copy.reconciled # reconciled \/ worker[k].copy.ready # ready
    BY <1>6, StatusStep
  <2>3. /\ worker[k].pc = "status" /\ worker[k].err \in {"none", "validation", "failed"}
        /\ worker[k].err = "failed" => k \in queue'
        /\ queue \subseteq queue'
    BY <1>6, WorkerTypes DEF UpdateStatus
  <2>4. ASSUME AtRest(k)', node'[k] # None
        PROVE  /\ node'[k].fin /\ ~ node'[k].deleting
               /\ (ns = "Active") => (daemon[k] # "Missing")
               /\ (k \notin masked') =>
                    /\ node'[k].reconciled = TrueReconciled
                    /\ node'[k].ready = determineReadyCondition(daemon[k])
    <3>1. /\ k \notin queue /\ k \notin queue' /\ cNode[k] = node'[k]
          /\ pending \cap {"Namespace", k} = {}
      BY <2>1, <2>3, <2>4 DEF AtRest
    <3>2. /\ worker[k].copy = node'[k] /\ worker[k].copy.fin /\ ~ worker[k].copy.deleting
          /\ (worker[k].err = "validation") <=> (ns # "Active")
          /\ worker[k].err = "none" => daemon[k] # "Missing"
          /\ cDaemon[k] = daemon[k]
      BY <2>3, <3>1
    <3>3. reconciled = TrueReconciled /\ (ns = "Active" => daemon[k] # "Missing")
      BY <2>2, <2>3, <3>1, <3>2 DEF determineReconciledCondition, TrueReconciled
    <3>4. /\ node' = node
          /\ fails \/ (worker[k].copy.reconciled = reconciled /\ worker[k].copy.ready = ready)
      <4>1. ASSUME node[k] # None,
                   node' = [node EXCEPT ![k] = WithConditions(node[k], reconciled, ready)]
            PROVE  node'[k].reconciled = reconciled /\ node'[k].ready = ready
        <5>1. node[k] \in Nodes /\ node'[k] = WithConditions(node[k], reconciled, ready)
          BY <4>1 DEF NodeTypeOK
        <5> QED BY <5>1, Conditions
      <4> QED BY <2>2, <2>4, <3>2, <4>1
    <3>5. CASE fails
      BY <2>2, <3>1, <3>2, <3>3, <3>5
    <3>6. CASE ~ fails
      BY <2>2, <3>2, <3>3, <3>4, <3>6
    <3> QED BY <3>5, <3>6
  <2>5. Honest(k)'
    BY <2>1, <2>4 DEF Honest, TrueReconciled
  <2> QED BY <2>1, <2>5 DEF Idle
<1> QED
  BY <1>1, <1>2, <1>3, <1>4, <1>5, <1>6 DEF NodeController

-----------------------------------------------------------------------------
(* Steps that concern both kinds.                                          *)

LEMMA NamespaceSteps ==
  ASSUME NodeTypeOK, NEW k \in Kinds, Held(k), Told(k),
         ChangeNamespace \/ NamespaceGone \/ DeliverNamespace
  PROVE  Held(k)' /\ Told(k)'
<1>1. Held(k)'
  <2>1. UNCHANGED <<node, cNode, worker>> /\ daemon'[k] \in {daemon[k], "Missing"}
    BY DEF ChangeNamespace, NamespaceGone, DeliverNamespace, cacheVars, workerVars
  <2> QED BY <2>1 DEF Held, DeletedByUs, DeletionHappened, FinalizerHolds, Unfinalizing, ChartHeld
<1>2. Told(k)'
  <2> USE DEF Told, CacheKeepsUp, StatusKeepsUp, cacheVars, workerVars
  <2>1. CASE ChangeNamespace
    BY <2>1, NotAtRest, KindsAreNoNamespace DEF ChangeNamespace
  <2>2. CASE NamespaceGone
    <3>1. "Namespace" \in pending' /\ (k \notin pending' => daemon[k] = "Missing" /\ k \notin pending)
      BY <2>2, KindsAreNoNamespace DEF NamespaceGone
    <3>2. UNCHANGED <<cNs, cNode, cDaemon, queue, worker>> /\ daemon'[k] = "Missing"
      BY <2>2 DEF NamespaceGone
    <3> QED BY <3>1, <3>2, NotAtRest
  <2>3. CASE DeliverNamespace
    <3>1. /\ "Namespace" \notin pending' /\ cNs' = ns
          /\ k \in pending' <=> k \in pending
          /\ UNCHANGED <<ns, node, daemon, cNode, cDaemon, worker, masked>>
      BY <2>3, KindsAreNoNamespace DEF DeliverNamespace
    <3>2. k \in queue' \/ cNode[k] = None
      BY <2>3 DEF DeliverNamespace
    <3>3. worker[k].pc = "status" /\ k \notin queue => worker[k].copy # None
      BY WorkerTypes, NoneAssumption
    <3>4. k \notin queue' => k \notin queue
      BY <2>3 DEF DeliverNamespace
    <3>5. Honest(k)'
      BY <3>1, <3>2 DEF Honest, AtRest
    <3>6. StatusKeepsUp(k)'
      BY <3>1, <3>2, <3>3, <3>4
    <3> QED BY <3>1, <3>5, <3>6
  <2> QED BY <2>1, <2>2, <2>3
<1> QED
  BY <1>1, <1>2

LEMMA CrashStep ==
  ASSUME NodeTypeOK, NEW k \in Kinds, Held(k), NodeCrash
  PROVE  Held(k)' /\ Told(k)'
<1>1. /\ worker'[k].pc = "idle" /\ cNode' = node /\ UNCHANGED <<ns, node, daemon>>
      /\ cNs' = ns /\ cDaemon' = daemon
      /\ node[k] # None => k \in queue'
  BY DEF NodeCrash, Idle
<1>2. Held(k)'
  BY <1>1 DEF Held, DeletedByUs, DeletionHappened, FinalizerHolds, Unfinalizing, ChartHeld
<1>3. Told(k)'
  BY <1>1, NotAtRest DEF Told, CacheKeepsUp, StatusKeepsUp, Honest
<1> QED
  BY <1>2, <1>3

LEMMA InitHolds == NodeInit => IInv
<1> SUFFICES ASSUME NodeInit, NEW k \in Kinds
             PROVE  Held(k) /\ Told(k)
  BY TypeInit DEF IInv
<1>1. /\ node[k] = None /\ cNode[k] = None /\ worker[k].pc = "idle" /\ daemon[k] = "Missing"
      /\ cNs = ns /\ cDaemon[k] = "Missing"
  BY DEF NodeInit, Idle
<1> QED
  BY <1>1 DEF Held, DeletedByUs, DeletionHappened, FinalizerHolds, Unfinalizing, ChartHeld,
              Told, CacheKeepsUp, StatusKeepsUp, Honest

LEMMA StepHolds ==
  ASSUME IInv, [NodeNext]_<<nodeVars, spent>>
  PROVE  IInv'
<1>1. NodeTypeOK'
  BY TypeStep DEF IInv
<1> SUFFICES ASSUME NEW k \in Kinds
             PROVE  Held(k)' /\ Told(k)'
  BY <1>1 DEF IInv
<1>2. NodeTypeOK /\ Held(k) /\ Told(k)
  BY DEF IInv
<1>3. ASSUME Frame(k)
      PROVE  Held(k)' /\ Told(k)'
  BY <1>2, <1>3, HeldFrame, ToldFrame DEF Frame
<1>4. ASSUME NEW j \in Kinds, StepOf(j)
      PROVE  Held(k)' /\ Told(k)'
  <2>1. CASE j # k
    BY <1>2, <1>3, <1>4, <2>1, Apart
  <2>2. CASE j = k
    BY <1>2, <1>4, <2>2, HeldByUsers, HeldByInformers, HeldByController,
       ToldByUsers, ToldByInformers, ToldByController DEF StepOf
  <2> QED BY <2>1, <2>2
<1>5. CASE NodeUsers
  BY <1>2, <1>4, <1>5, NamespaceSteps DEF NodeUsers, StepOf
<1>6. CASE NamespaceGone \/ DeliverNamespace
  BY <1>2, <1>6, NamespaceSteps
<1>7. CASE \E j \in Kinds : DeliverNode(j) \/ DeliverDaemon(j)
  BY <1>4, <1>7 DEF StepOf
<1>8. CASE IstioCNIController \/ ZTunnelController
  BY <1>4, <1>8, Controllers DEF StepOf
<1>9. CASE NodeCrash
  BY <1>2, <1>9, CrashStep
<1>10. CASE Elsewhere \/ UNCHANGED <<nodeVars, spent>>
  <2>1. UNCHANGED nodeVars
    BY <1>10 DEF Elsewhere
  <2> QED BY <1>3, <2>1 DEF nodeVars, Frame
<1> QED
  BY <1>5, <1>6, <1>7, <1>8, <1>9, <1>10 DEF NodeNext

LEMMA Invariant == NodeSpec => []IInv
<1>1. NodeInit => IInv
  BY InitHolds
<1>2. IInv /\ [NodeNext]_<<nodeVars, spent>> => IInv'
  BY StepHolds
<1> QED
  BY <1>1, <1>2, PTL DEF NodeSpec

-----------------------------------------------------------------------------

\* Whatever order events come in, whichever calls fail, and wherever the operator
\* dies: a chart of a node component is installed only while its resource is
\* there with the finalizer, so no DaemonSet outlives it.
THEOREM NothingLeft == NodeSpec => []NothingLeftBehind
<1>1. IInv => NothingLeftBehind
  BY DEF IInv, Held, ChartHeld, NothingLeftBehind
<1> QED
  BY <1>1, Invariant, PTL

\* When nothing is left to do for a resource, its status is true of the namespace
\* and the DaemonSet, unless its last reconcile lost an error.
THEOREM NodesHonest == NodeSpec => []NodeHonest
<1>1. IInv => NodeHonest
  BY DEF IInv, Told, Honest, NodeHonest
<1> QED
  BY <1>1, Invariant, PTL

-----------------------------------------------------------------------------
(* The finalizer contract.                                                 *)

ContractStep(k) == Finalization!Stays(k) \/ Finalization!Step(k)

NodeInstalled(k) == daemon[k] # "Missing"

\* What is to be shown of a resource's stage for a step to be one of the contract.
LEMMA StageStep ==
  ASSUME NEW k \in Kinds,
         \/ /\ NodeInstalled(k)' = NodeInstalled(k)
            /\ \/ Stage(k)' = Stage(k)
               \/ Stage(k) = "Absent" /\ Stage(k)' = "New"
               \/ Stage(k) = "New" /\ Stage(k)' \in {"Guarded", "Absent"}
               \/ Stage(k) = "Guarded" /\ Stage(k)' = "Doomed"
               \/ Stage(k) = "Doomed" /\ Stage(k)' = "Leaving"
               \/ ~ NodeInstalled(k) /\ Stage(k) = "Leaving" /\ Stage(k)' = "Absent"
         \/ Stage(k) \in {"Guarded", "Doomed"} /\ Stage(k)' = Stage(k)
         \/ Stage(k) = "Leaving" /\ Stage(k)' = Stage(k) /\ ~ NodeInstalled(k)'
  PROVE  ContractStep(k)
BY DEF ContractStep, NodeInstalled, Finalization!Stays, Finalization!Step, Finalization!Becomes,
       Finalization!Create, Finalization!AddFinalizer, Finalization!Delete, Finalization!Notice,
       Finalization!Reconcile, Finalization!Finalize, Finalization!RemoveFinalizer

\* Only a resource with the finalizer has something installed, which may go at any time.
LEMMA TakenAway ==
  ASSUME NEW k \in Kinds, Held(k), node'[k] = node[k], cNode'[k] = cNode[k],
         (daemon'[k] = "Missing") \/ (NodeInstalled(k)' = NodeInstalled(k))
  PROVE  ContractStep(k)
<1>1. Stage(k)' = Stage(k)
  BY DEF Stage
<1>2. NodeInstalled(k) => Stage(k) \in {"Guarded", "Doomed", "Leaving"}
  BY DEF Held, ChartHeld, NodeInstalled, Stage
<1> QED
  BY <1>1, <1>2, StageStep DEF NodeInstalled

\* The cache is brought up to date.
LEMMA NoticedByCache ==
  ASSUME NEW k \in Kinds, node'[k] = node[k], cNode'[k] = node[k], daemon'[k] = daemon[k]
  PROVE  ContractStep(k)
<1>1. (Stage(k)' = Stage(k)) \/ (Stage(k) = "Doomed" /\ Stage(k)' = "Leaving")
  BY DEF Stage
<1> QED
  BY <1>1, StageStep DEF NodeInstalled

LEMMA ContractOfUsers ==
  ASSUME NodeTypeOK, NEW k \in Kinds, Held(k),
         CreateNode(k) \/ DeleteNode(k) \/ \E d \in Daemons : ChangeDaemon(k, d)
  PROVE  ContractStep(k)
<1>1. CASE CreateNode(k)
  <2>1. /\ node[k] = None /\ UNCHANGED daemon
        /\ node'[k] = [fin |-> FALSE, deleting |-> FALSE, reconciled |-> "Unset", ready |-> "Unset"]
    BY <1>1 DEF CreateNode, NodeTypeOK
  <2>2. node'[k] \in Nodes /\ ~ node'[k].fin
    BY <2>1 DEF Nodes
  <2>3. node'[k] # None /\ ~ node'[k].fin
    BY <2>2, NoneAssumption
  <2>4. Stage(k) = "Absent" /\ Stage(k)' = "New"
    BY <2>1, <2>3 DEF Stage
  <2> QED BY <2>1, <2>4, StageStep DEF NodeInstalled
<1>2. CASE DeleteNode(k)
  <2>1. /\ node[k] \in Nodes /\ node[k] # None /\ ~ node[k].deleting
        /\ UNCHANGED <<daemon, cNode>>
        /\ node'[k] = IF node[k].fin THEN [node[k] EXCEPT !.deleting = TRUE] ELSE None
    BY <1>2 DEF DeleteNode, cacheVars, NodeTypeOK
  <2>2. CASE node[k].fin
    <3>1. node'[k].fin /\ node'[k].deleting /\ node'[k] # None
      BY <2>1, <2>2, NoneAssumption DEF Nodes
    <3>2. Stage(k) = "Guarded" /\ Stage(k)' = "Doomed"
      BY <2>1, <2>2, <3>1 DEF Stage, Held, DeletionHappened
    <3> QED BY <2>1, <3>2, StageStep DEF NodeInstalled
  <2>3. CASE ~ node[k].fin
    <3>1. Stage(k) = "New" /\ Stage(k)' = "Absent"
      BY <2>1, <2>3 DEF Stage
    <3> QED BY <2>1, <3>1, StageStep DEF NodeInstalled
  <2> QED BY <2>2, <2>3
<1>3. ASSUME NEW d \in Daemons, ChangeDaemon(k, d)
      PROVE  ContractStep(k)
  BY <1>3, TakenAway DEF ChangeDaemon, cacheVars, NodeInstalled, NodeTypeOK
<1> QED
  BY <1>1, <1>2, <1>3

LEMMA ContractOfController ==
  ASSUME NodeTypeOK, NEW k \in Kinds, Held(k), NodeController(k)
  PROVE  ContractStep(k)
<1> USE DEF cacheVars, workerVars
<1>1. CASE SkipKey(k)
  BY <1>1, TakenAway DEF SkipKey, NodeInstalled
<1>2. CASE AddFinalizer(k)
  <2>1. /\ cNode[k] \in Nodes /\ ~ cNode[k].deleting /\ ~ cNode[k].fin
        /\ UNCHANGED <<daemon, cNode>>
    BY <1>2 DEF AddFinalizer, HasFinalizer, NodeTypeOK
  <2>2. /\ [cNode[k] EXCEPT !.fin = TRUE] \in Nodes
        /\ [cNode[k] EXCEPT !.fin = TRUE].fin
        /\ ~ [cNode[k] EXCEPT !.fin = TRUE].deleting
    BY <2>1 DEF Nodes
  <2>3. \/ node' = node
        \/ node[k] = cNode[k] /\ node'[k] = [cNode[k] EXCEPT !.fin = TRUE]
    BY <1>2 DEF AddFinalizer, Update, NodeTypeOK
  <2>4. CASE node' = node
    BY <2>1, <2>4, TakenAway DEF NodeInstalled
  <2>5. CASE node[k] = cNode[k] /\ node'[k] = [cNode[k] EXCEPT !.fin = TRUE]
    <3>1. Stage(k) = "New" /\ Stage(k)' = "Guarded"
      BY <2>1, <2>2, <2>5, NoneAssumption DEF Stage
    <3> QED BY <2>1, <3>1, StageStep DEF NodeInstalled
  <2> QED BY <2>3, <2>4, <2>5
<1>3. CASE InstallChart(k)
  <2>1. /\ cNode[k] # None /\ ~ cNode[k].deleting /\ cNode[k].fin
        /\ UNCHANGED <<node, cNode>>
    BY <1>3 DEF InstallChart, HasFinalizer
  <2>2. Stage(k) \in {"Guarded", "Doomed"} /\ Stage(k)' = Stage(k)
    BY <2>1 DEF Stage, Held, FinalizerHolds
  <2> QED BY <2>2, StageStep
<1>4. CASE UninstallChart(k)
  <2>1. RemoveChart(k) \/ UNCHANGED daemon
    BY <1>4 DEF UninstallChart
  <2>2. UNCHANGED <<node, cNode>> /\ daemon'[k] \in {daemon[k], "Missing"}
    BY <1>4, <2>1 DEF UninstallChart, RemoveChart, NodeTypeOK
  <2> QED BY <2>2, TakenAway DEF NodeInstalled
<1>5. CASE RemoveFinalizer(k)
  <2>1. UNCHANGED <<daemon, cNode>> /\ worker[k].pc = "unfinalize" /\ Update(k, worker[k].copy, None)
    BY <1>5 DEF RemoveFinalizer
  <2>2. node' = node \/ (node[k] = worker[k].copy /\ node'[k] = None)
    BY <2>1 DEF Update, NodeTypeOK
  <2>3. CASE node' = node
    BY <2>1, <2>3, TakenAway DEF NodeInstalled
  <2>4. CASE node[k] = worker[k].copy /\ node'[k] = None
    <3>1. worker[k].copy \in Nodes
      BY <2>1, WorkerTypes DEF NodeTypeOK
    <3>2. Stage(k) = "Leaving" /\ Stage(k)' = "Absent" /\ ~ NodeInstalled(k)
      BY <2>1, <2>4, <3>1, NoneAssumption DEF Held, Unfinalizing, Stage, NodeInstalled
    <3> QED BY <2>1, <3>2, StageStep DEF NodeInstalled
  <2> QED BY <2>2, <2>3, <2>4
<1>6. CASE UpdateStatus(k)
  <2>1. UNCHANGED <<cNode, daemon>>
    BY <1>6 DEF UpdateStatus
  <2>2. \/ node' = node
        \/ /\ node[k] # None /\ node'[k] # None
           /\ node'[k].fin = node[k].fin /\ node'[k].deleting = node[k].deleting
    BY <1>6, StatusStep, Conditions, NoneAssumption DEF NodeTypeOK
  <2>3. Stage(k)' = Stage(k)
    BY <2>1, <2>2 DEF Stage
  <2> QED BY <2>1, <2>3, StageStep DEF NodeInstalled
<1> QED
  BY <1>1, <1>2, <1>3, <1>4, <1>5, <1>6 DEF NodeController

LEMMA ContractNext ==
  ASSUME IInv, [NodeNext]_<<nodeVars, spent>>
  PROVE  Finalization!FinNext
<1> SUFFICES ASSUME NEW k \in Kinds PROVE ContractStep(k)
  BY DEF Finalization!FinNext, ContractStep
<1>1. NodeTypeOK /\ Held(k)
  BY DEF IInv
<1>2. ASSUME node'[k] = node[k], cNode'[k] = cNode[k], daemon'[k] = daemon[k]
      PROVE  ContractStep(k)
  BY <1>1, <1>2, TakenAway DEF NodeInstalled
<1>3. ASSUME NEW j \in Kinds, StepOf(j)
      PROVE  ContractStep(k)
  <2>1. CASE j # k
    BY <1>1, <1>2, <1>3, <2>1, Apart DEF Frame
  <2>2. CASE DeliverNode(k)
    BY <1>1, <2>2, NoticedByCache DEF DeliverNode, NodeTypeOK
  <2>3. CASE DeliverDaemon(k)
    BY <1>2, <2>3 DEF DeliverDaemon
  <2> QED BY <1>1, <1>3, <2>1, <2>2, <2>3, ContractOfUsers, ContractOfController DEF StepOf
<1>4. CASE NodeUsers
  BY <1>2, <1>3, <1>4 DEF NodeUsers, StepOf, ChangeNamespace, cacheVars
<1>5. CASE NamespaceGone
  BY <1>1, <1>5, TakenAway DEF NamespaceGone, cacheVars
<1>6. CASE DeliverNamespace
  BY <1>2, <1>6 DEF DeliverNamespace
<1>7. CASE \E j \in Kinds : DeliverNode(j) \/ DeliverDaemon(j)
  BY <1>3, <1>7 DEF StepOf
<1>8. CASE IstioCNIController \/ ZTunnelController
  BY <1>3, <1>8, Controllers DEF StepOf
<1>9. CASE NodeCrash
  BY <1>9, NoticedByCache DEF NodeCrash
<1>10. CASE Elsewhere \/ UNCHANGED <<nodeVars, spent>>
  BY <1>2, <1>10 DEF Elsewhere, nodeVars
<1> QED
  BY <1>4, <1>5, <1>6, <1>7, <1>8, <1>9, <1>10 DEF NodeNext

\* Both node controllers keep the contract of StandardReconciler: the finalizer comes
\* before the chart and goes after it, and a reconcile that saw the deletion only
\* uninstalls, even if the namespace and the DaemonSet go at any time.
THEOREM NodeFinalizersKept == NodeSpec => KeepsFinalizerContract
<1>1. NodeInit => Finalization!FinInit
  BY DEF NodeInit, Finalization!FinInit, Stage
<1>2. IInv /\ [NodeNext]_<<nodeVars, spent>> => Finalization!FinNext
  BY ContractNext
<1> QED
  BY <1>1, <1>2, Invariant, PTL DEF NodeSpec, KeepsFinalizerContract, Finalization!FinSpec
=============================================================================
