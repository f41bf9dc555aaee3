-------------------------- MODULE ReadinessProofs --------------------------
(***************************************************************************)
(* For every bound on disturbances: the conditions of a revision and the   *)
(* state of its Istio are true at rest.  What is proved of the node        *)
(* components alone carries over, because Readiness implements NodeSpec.   *)
(***************************************************************************)
EXTENDS Readiness, NodeComponentsProofs

-----------------------------------------------------------------------------
(* The inductive invariant.                                                *)

PlaneInstalled == IF remote THEN hook # None ELSE istiod # "Missing"

NamespaceKnown == "Namespace" \notin pending => cNs = ns

PlaneKnown ==
  /\ "istiod" \notin events => cIstiod = istiod
  /\ "hook" \notin events => cHook = hook

\* Unless its key is queued again, what a reconcile found out still holds.
RevisionKeepsUp ==
  rw # Idle /\ "rev" \notin keys =>
    /\ rw.copy = cRev
    /\ (rw.err = "validation") <=> (cNs # "Active")
    /\ rw.err = "none" /\ events = {} /\ "Namespace" \notin pending => PlaneInstalled

\* RevisionHonest, but true of the IstioCNI as it is in the cache: the resource
\* may change into what the cache shows.
RevisionTold ==
  (/\ "rev" \notin keys /\ rw = Idle /\ cRev = rev /\ rev # None
   /\ events = {} /\ "Namespace" \notin pending) =>
    /\ (ns = "Active") => PlaneInstalled
    /\ lost \/ rev = [reconciled |-> TrueReconciled,
                      ready |-> IstiodReady(istiod, hook),
                      deps |-> determineDependenciesHealthyCondition(cNode["IstioCNI"])]

IstioKeepsUp ==
  iw # Idle =>
    /\ iw.err = "none" => rev # None
    /\ "istio" \notin keys => iw.copy = cIstio

\* IstioHonest, but true of the revision as it is in the cache.
IstioTold ==
  (istio # None /\ "istio" \notin keys /\ iw = Idle /\ cIstio = istio) =>
    rev # None /\ istio = IF cRev = None THEN "RevisionNotFound" ELSE RevState(cRev)

RevisionPart == PlaneKnown /\ RevisionKeepsUp /\ RevisionTold
IstioPart    == IstioKeepsUp /\ IstioTold

AllInv == TypeOK /\ NamespaceKnown /\ RevisionPart /\ IstioPart

-----------------------------------------------------------------------------
(* Readiness implements NodeSpec.                                          *)

USE DEF Istiods

LEMMA NodeSteps ==
  ASSUME [Next]_vars
  PROVE  [NodeNext]_<<nodeVars, spent>>
<1> USE DEF NodeNext
<1>1. CASE Users
  BY <1>1 DEF Users, ChangeIstiod, ChangeHook, ChangeRemote, Elsewhere
<1>2. CASE NamespaceAndContentsGone
  BY <1>2 DEF NamespaceAndContentsGone
<1>3. CASE Informers
  BY <1>3 DEF Informers, DeliverToAll, DeliverIstiod, DeliverHook, DeliverRevision, DeliverIstio
<1>4. CASE TimerFires \/ SkipMissing
  BY <1>4 DEF TimerFires, SkipMissing
<1>5. CASE Crash
  BY <1>5 DEF Crash
<1>6. CASE (IstioCNIController \/ ZTunnelController) /\ UNCHANGED ownVars
  BY <1>6
<1>7. CASE ReconcileRevision
  BY <1>7 DEF ReconcileRevision, CallFails, Elsewhere
<1>8. CASE UpdateRevisionStatus
  BY <1>8 DEF UpdateRevisionStatus, CallFails, Elsewhere
<1>9. CASE WebhookController
  BY <1>9 DEF WebhookController, Probe, RecordProbe, CallFails, Elsewhere
<1>10. CASE IstioController
  BY <1>10 DEF IstioController, ReconcileIstio, UpdateIstioStatus, CallFails, Elsewhere
<1>11. CASE UNCHANGED vars
  BY <1>11 DEF vars
<1> QED
  BY <1>1, <1>2, <1>3, <1>4, <1>5, <1>6, <1>7, <1>8, <1>9, <1>10, <1>11
  DEF Next, RevisionController

\* The composition with the control plane shows the node components nothing but
\* what NodeSpec allows, so that the theorems about them hold here, too.
THEOREM ImplementsNodes == Spec => NodeSpec
<1>1. Init => NodeInit
  BY DEF Init
<1>2. [Next]_vars => [NodeNext]_<<nodeVars, spent>>
  BY NodeSteps
<1> QED
  BY <1>1, <1>2, PTL DEF Spec, NodeSpec

-----------------------------------------------------------------------------
(* Types.                                                                  *)

\* The state is the first condition that is not true.
LEMMA FirstOfThree ==
  ASSUME NEW a, NEW b, NEW c
  PROVE  deriveState(<<a, b, c>>) =
           IF a # "True" THEN a ELSE IF b # "True" THEN b ELSE IF c # "True" THEN c ELSE "Healthy"
<1> DEFINE conditions == <<a, b, c>>
           bad == {i \in DOMAIN conditions : conditions[i] # "True"}
           first == CHOOSE i \in bad : \A j \in bad : i <= j
<1>0. DOMAIN conditions = 1 .. 3
  OBVIOUS
<1>1. ASSUME NEW n \in bad, \A j \in bad : n <= j
      PROVE  first = n
  <2>1. first \in bad /\ \A j \in bad : first <= j
    BY <1>1
  <2>2. first \in 1 .. 3 /\ n \in 1 .. 3
    BY <1>0, <1>1, <2>1
  <2>3. first <= n /\ n <= first
    BY <1>1, <2>1
  <2> HIDE DEF first
  <2> QED BY <2>2, <2>3
<1>2. deriveState(conditions) = IF bad = {} THEN "Healthy" ELSE conditions[first]
  BY DEF deriveState
<1> HIDE DEF first
<1>3. CASE a # "True"
  <2>1. 1 \in bad /\ \A j \in bad : 1 <= j
    BY <1>3
  <2> QED BY <1>1, <1>2, <1>3, <2>1
<1>4. CASE a = "True" /\ b # "True"
  <2>1. 2 \in bad /\ \A j \in bad : 2 <= j
    BY <1>4
  <2> QED BY <1>1, <1>2, <1>4, <2>1
<1>5. CASE a = "True" /\ b = "True" /\ c # "True"
  <2>1. 3 \in bad /\ \A j \in bad : 3 <= j
    BY <1>5
  <2> QED BY <1>1, <1>2, <1>5, <2>1
<1>6. CASE a = "True" /\ b = "True" /\ c = "True"
  BY <1>2, <1>6
<1> QED
  BY <1>3, <1>4, <1>5, <1>6

LEMMA RevStates ==
  ASSUME NEW r \in RevConditions
  PROVE  RevState(r) \in IstioStates
<1>1. /\ r.reconciled \in {"Unset", "True", "ReconcileError"}
      /\ r.ready \in {"Unset", "True", "IstiodNotReady", "RemoteIstiodNotReady", "ReadinessCheckFailed"}
      /\ r.deps \in {"Unset", "True", "IstioCNINotFound", "IstioCNINotHealthy", "DependencyCheckFailed"}
  BY DEF RevConditions
<1> QED
  BY <1>1, FirstOfThree DEF RevState, IstioStates

RevCalls   == {Idle} \cup [pc: {"status"}, copy: RevConditions, err: {"none", "validation", "failed"}]
HookCalls  == {Idle} \cup [copy: Hooks, answer: {"true", "false"}]
IstioCalls == {Idle} \cup [copy: IstioStates, err: {"none", "failed"}]

\* TypeOK without the node components.
OwnTypeOK ==
  /\ remote \in BOOLEAN /\ needsCNI \in BOOLEAN /\ remoteUp \in BOOLEAN
  /\ istiod \in Istiods /\ cIstiod \in Istiods
  /\ hook \in Hooks \cup {None} /\ cHook \in Hooks \cup {None}
  /\ rev \in RevConditions \cup {None} /\ cRev \in RevConditions \cup {None}
  /\ istio \in IstioStates \cup {None} /\ cIstio \in IstioStates \cup {None}
  /\ events \subseteq {"istiod", "hook"} /\ keys \subseteq {"istio", "rev", "hook"}
  /\ timer \in BOOLEAN /\ lost \in BOOLEAN
  /\ rw \in RevCalls /\ hw \in HookCalls /\ iw \in IstioCalls

LEMMA TypeParts == TypeOK <=> NodeTypeOK /\ OwnTypeOK
BY DEF TypeOK, OwnTypeOK, RevCalls, HookCalls, IstioCalls

LEMMA CallsAreNotIdle ==
  /\ rw \in RevCalls /\ rw # Idle =>
       /\ rw.pc = "status" /\ rw.copy \in RevConditions
       /\ rw.err \in {"none", "validation", "failed"}
  /\ hw \in HookCalls /\ hw # Idle => hw.copy \in Hooks /\ hw.answer \in {"true", "false"}
  /\ iw \in IstioCalls /\ iw # Idle => iw.copy \in IstioStates /\ iw.err \in {"none", "failed"}
  /\ Idle.pc = "idle"
BY DEF RevCalls, HookCalls, IstioCalls, Idle

LEMMA KeysType ==
  ASSUME NEW affected \in BOOLEAN
  PROVE  /\ RevisionKey(affected) \subseteq {"rev"} /\ OwnerKey \subseteq {"istio"}
         /\ mapIstioCniToReconcileRequests \subseteq {"rev"}
BY DEF RevisionKey, OwnerKey, mapIstioCniToReconcileRequests

LEMMA NoStatusType == NoStatus \in RevConditions /\ NoStatus # None
BY NoneIsNothing DEF NoStatus, RevConditions

LEMMA TypeReadiness ==
  /\ \A d, h : IstiodReady(d, h) \in {"True", "IstiodNotReady", "RemoteIstiodNotReady"}
  /\ \A cni : determineDependenciesHealthyCondition(cni)
                \in {"True", "IstioCNINotFound", "IstioCNINotHealthy"}
BY DEF IstiodReady, determineDependenciesHealthyCondition

LEMMA TypePlane ==
  ASSUME OwnTypeOK, Users \/ NamespaceAndContentsGone
  PROVE  OwnTypeOK'
<1> USE DEF OwnTypeOK, planeVars, planeCaches, statusVars, ctlVars
<1>1. CASE NodeUsers /\ UNCHANGED ownVars
  BY <1>1 DEF ownVars
<1>2. ASSUME NEW d \in Istiods, ChangeIstiod(d)
      PROVE  OwnTypeOK'
  BY <1>2 DEF ChangeIstiod
<1>3. CASE ChangeHook
  <2>1. hook \in Hooks => [hook EXCEPT !.ca = TRUE] \in Hooks
    BY DEF Hooks
  <2>2. hook' \in Hooks \cup {None} /\ events' \subseteq {"istiod", "hook"}
    BY <1>3, <2>1 DEF ChangeHook
  <2> QED BY <1>3, <2>2 DEF ChangeHook
<1>4. CASE ChangeRemote
  BY <1>4 DEF ChangeRemote
<1>5. CASE NamespaceAndContentsGone
  BY <1>5 DEF NamespaceAndContentsGone
<1> QED
  BY <1>1, <1>2, <1>3, <1>4, <1>5 DEF Users

LEMMA TypeEvents ==
  ASSUME OwnTypeOK, Informers \/ TimerFires \/ SkipMissing \/ Crash
  PROVE  OwnTypeOK'
<1> USE KeysType DEF OwnTypeOK, planeVars, planeCaches, statusVars
<1>1. CASE DeliverToAll
  <2>1. keys' \subseteq {"istio", "rev", "hook"}
    BY <1>1 DEF DeliverToAll
  <2> QED BY <1>1, <2>1 DEF DeliverToAll
<1>2. CASE DeliverIstiod
  BY <1>2 DEF DeliverIstiod
<1>3. CASE DeliverHook
  BY <1>3 DEF DeliverHook
<1>4. CASE DeliverRevision
  <2>1. keys' \subseteq {"istio", "rev", "hook"}
    BY <1>4 DEF DeliverRevision
  <2> QED BY <1>4, <2>1 DEF DeliverRevision
<1>5. CASE DeliverIstio
  BY <1>5 DEF DeliverIstio
<1>6. CASE TimerFires \/ SkipMissing
  <2>1. keys' \subseteq {"istio", "rev", "hook"} /\ timer' \in BOOLEAN
    BY <1>6 DEF TimerFires, SkipMissing
  <2> QED BY <1>6, <2>1 DEF TimerFires, SkipMissing
<1>7. CASE Crash
  BY <1>7 DEF Crash, RevCalls, HookCalls, IstioCalls
<1> QED
  BY <1>1, <1>2, <1>3, <1>4, <1>5, <1>6, <1>7 DEF Informers

LEMMA TypeRevisionController ==
  ASSUME OwnTypeOK, RevisionController
  PROVE  OwnTypeOK'
<1> USE DEF OwnTypeOK, planeVars, planeCaches, statusVars
<1>1. CASE ReconcileRevision
  <2>1. PICK err \in {"none", "validation", "failed"} :
          /\ ApplyPlane \/ UNCHANGED <<istiod, hook, events>>
          /\ rw' = [pc |-> "status", copy |-> cRev, err |-> err]
    BY <1>1 DEF ReconcileRevision
  <2>2. rw' \in RevCalls
    BY <1>1, <2>1 DEF ReconcileRevision, RevCalls
  <2>3. [ca |-> FALSE, probe |-> "Unset"] \in Hooks
    BY DEF Hooks
  <2>4. istiod' \in Istiods /\ hook' \in Hooks \cup {None} /\ events' \subseteq {"istiod", "hook"}
    BY <2>1, <2>3 DEF ApplyPlane
  <2> QED BY <1>1, <2>2, <2>4 DEF ReconcileRevision
<1>2. CASE UpdateRevisionStatus
  <2>1. PICK failed \in SUBSET {"ready", "deps", "patch"} :
          LET new == [reconciled |-> determineReconciledCondition(rw.err),
                      ready |-> IF "ready" \in failed THEN "ReadinessCheckFailed"
                                ELSE IstiodReady(cIstiod, cHook),
                      deps |-> IF "deps" \in failed THEN "DependencyCheckFailed"
                               ELSE determineDependenciesHealthyCondition(cNode["IstioCNI"])]
          IN /\ rev' = IF new # rw.copy /\ "patch" \notin failed THEN new ELSE rev
             /\ keys' \subseteq keys \cup {"rev"}
             /\ lost' = (failed # {} /\ rw.err = "validation")
    BY <1>2 DEF UpdateRevisionStatus
  <2> DEFINE new == [reconciled |-> determineReconciledCondition(rw.err),
                     ready |-> IF "ready" \in failed THEN "ReadinessCheckFailed"
                               ELSE IstiodReady(cIstiod, cHook),
                     deps |-> IF "deps" \in failed THEN "DependencyCheckFailed"
                              ELSE determineDependenciesHealthyCondition(cNode["IstioCNI"])]
  <2>2. new \in RevConditions
    BY TypeReconciled, TypeReadiness DEF RevConditions
  <2>3. rev' \in RevConditions \cup {None}
    BY <2>1, <2>2
  <2>4. lost' \in BOOLEAN
    BY <2>1
  <2> QED BY <1>2, <2>1, <2>3, <2>4 DEF UpdateRevisionStatus, RevCalls
<1> QED
  BY <1>1, <1>2 DEF RevisionController

LEMMA TypeOtherControllers ==
  ASSUME OwnTypeOK, WebhookController \/ IstioController
  PROVE  OwnTypeOK'
<1> USE DEF OwnTypeOK, planeVars, planeCaches, statusVars
<1>1. CASE Probe
  <2>1. hw' \in HookCalls
    BY <1>1 DEF Probe, HookCalls
  <2> QED BY <1>1, <2>1 DEF Probe
<1>2. CASE RecordProbe
  <2>1. hook \in Hooks => [hook EXCEPT !.probe = hw.answer] \in Hooks
    BY <1>2, CallsAreNotIdle DEF RecordProbe, Hooks
  <2>2. hw.copy # None
    BY <1>2, CallsAreNotIdle, NoneIsNothing DEF RecordProbe
  <2>3. hook' \in Hooks \cup {None} /\ events' \subseteq {"istiod", "hook"} /\ timer' \in BOOLEAN
    BY <1>2, <2>1, <2>2 DEF RecordProbe, ScheduleProbe
  <2> QED BY <1>2, <2>3 DEF RecordProbe, HookCalls
<1>3. CASE ReconcileIstio
  <2>1. iw' \in IstioCalls
    BY <1>3 DEF ReconcileIstio, IstioCalls
  <2> QED BY <1>3, <2>1, NoStatusType DEF ReconcileIstio
<1>4. CASE UpdateIstioStatus
  <2>1. \A err, read : determineIstioState(err, read) \in IstioStates
    BY RevStates DEF determineIstioState, IstioStates
  <2>2. istio' \in IstioStates \cup {None}
    BY <1>4, <2>1 DEF UpdateIstioStatus
  <2>3. keys' \subseteq {"istio", "rev", "hook"}
    BY <1>4 DEF UpdateIstioStatus
  <2> QED BY <1>4, <2>2, <2>3 DEF UpdateIstioStatus, IstioCalls
<1> QED
  BY <1>1, <1>2, <1>3, <1>4 DEF WebhookController, IstioController

LEMMA AllTypesInit == Init => TypeOK
<1> SUFFICES ASSUME Init
             PROVE  OwnTypeOK
  BY TypeInit, TypeParts DEF Init
<1>1. "Unset" \in IstioStates
  BY DEF IstioStates
<1> QED
  BY <1>1, KeysType, NoStatusType DEF Init, OwnTypeOK, RevCalls, HookCalls, IstioCalls

LEMMA AllTypesStep ==
  ASSUME TypeOK, [Next]_vars
  PROVE  TypeOK'
<1>1. NodeTypeOK' /\ OwnTypeOK
  BY NodeSteps, TypeStep, TypeParts
<1>2. ASSUME UNCHANGED ownVars
      PROVE  OwnTypeOK'
  BY <1>1, <1>2 DEF ownVars, planeVars, planeCaches, statusVars, ctlVars, OwnTypeOK
<1>3. OwnTypeOK'
  BY <1>1, <1>2, TypePlane, TypeEvents, TypeRevisionController, TypeOtherControllers DEF Next, vars
<1> QED
  BY <1>1, <1>3 DEF TypeOK, OwnTypeOK, RevCalls, HookCalls, IstioCalls

\* Every reachable state of the controllers and of what they report on is well
\* typed; in particular, every state that an Istio reports is one of the API.
THEOREM TypeCorrect == Spec => []TypeOK
<1>1. Init => TypeOK
  BY AllTypesInit
<1>2. TypeOK /\ [Next]_vars => TypeOK'
  BY AllTypesStep
<1> QED
  BY <1>1, <1>2, PTL DEF Spec

-----------------------------------------------------------------------------
(* What the node components do.                                            *)

\* The event of a change of the namespace is under way.
NamespaceStays ==
  ns' = ns /\ cNs' = cNs /\ ("Namespace" \in pending' <=> "Namespace" \in pending)

LEMMA QuietNodes ==
  ASSUME NodeTypeOK, NodeUsers \/ IstioCNIController \/ ZTunnelController
  PROVE  UNCHANGED <<cNs, cNode>> /\ (NamespaceStays \/ "Namespace" \in pending')
<1> USE KindsAreNoNamespace DEF NamespaceStays, cacheVars, workerVars
<1>1. CASE NodeUsers
  BY <1>1 DEF NodeUsers, CreateNode, DeleteNode, ChangeDaemon, ChangeNamespace
<1>2. ASSUME NEW k \in Kinds, NodeController(k)
      PROVE  UNCHANGED <<cNs, cNode>> /\ NamespaceStays
  <2>1. CASE SkipKey(k) \/ AddFinalizer(k) \/ RemoveFinalizer(k) \/ UpdateStatus(k)
    BY <2>1 DEF SkipKey, AddFinalizer, RemoveFinalizer, UpdateStatus
  <2>2. CASE InstallChart(k)
    <3>1. ApplyChart(k) \/ UNCHANGED <<daemon, pending>>
      BY <2>2 DEF InstallChart
    <3> QED BY <2>2, <3>1 DEF InstallChart, ApplyChart
  <2>3. CASE UninstallChart(k)
    BY <2>3 DEF UninstallChart, RemoveChart
  <2> QED BY <1>2, <2>1, <2>2, <2>3 DEF NodeController
<1> QED
  BY <1>1, <1>2, Controllers

LEMMA NamespaceKnownStep ==
  ASSUME TypeOK, NamespaceKnown, [Next]_vars
  PROVE  NamespaceKnown'
<1> USE KindsAreNoNamespace DEF NamespaceKnown
<1>1. NodeTypeOK
  BY TypeParts
<1>2. ASSUME UNCHANGED nodeVars
      PROVE  NamespaceKnown'
  BY <1>2 DEF nodeVars
<1>3. CASE NodeUsers \/ IstioCNIController \/ ZTunnelController
  BY <1>1, <1>3, QuietNodes DEF NamespaceStays
<1>4. CASE NamespaceGone
  BY <1>4 DEF NamespaceGone
<1>5. CASE DeliverNamespace \/ \E k \in Kinds : DeliverNode(k) \/ DeliverDaemon(k)
  BY <1>5 DEF DeliverNamespace, DeliverNode, DeliverDaemon
<1>6. CASE NodeCrash
  BY <1>6 DEF NodeCrash
<1> QED
  BY <1>2, <1>3, <1>4, <1>5, <1>6, NodeSteps DEF NodeNext, Elsewhere, nodeVars

-----------------------------------------------------------------------------
(* The conditions of the revision.                                         *)

RevisionFrame ==
  /\ UNCHANGED <<remote, needsCNI, istiod, hook, cIstiod, cHook, events, cRev, rev, rw, lost>>
  /\ "rev" \in keys' <=> "rev" \in keys

LEMMA RevisionUntouched ==
  ASSUME RevisionPart, RevisionFrame, cNode'["IstioCNI"] = cNode["IstioCNI"] \/ ~ needsCNI,
         cNs' = cNs, NamespaceStays \/ "Namespace" \in pending'
  PROVE  RevisionPart'
<1> USE DEF RevisionPart, RevisionFrame
<1>1. PlaneKnown'
  BY DEF PlaneKnown
<1>2. RevisionKeepsUp'
  BY DEF RevisionKeepsUp, PlaneInstalled, NamespaceStays
<1>3. determineDependenciesHealthyCondition(cNode["IstioCNI"])'
        = determineDependenciesHealthyCondition(cNode["IstioCNI"])
  BY DEF determineDependenciesHealthyCondition
<1>4. RevisionTold'
  <2>1. CASE "Namespace" \in pending'
    BY <2>1 DEF RevisionTold
  <2>2. CASE NamespaceStays
    <3>1. TrueReconciled' = TrueReconciled /\ IstiodReady(istiod, hook)' = IstiodReady(istiod, hook)
      BY <2>2 DEF NamespaceStays, TrueReconciled, IstiodReady
    <3> QED BY <1>3, <2>2, <3>1 DEF NamespaceStays, RevisionTold, PlaneInstalled
  <2> QED BY <2>1, <2>2
<1> QED
  BY <1>1, <1>2, <1>4

\* A step that puts the key into its queue need not be looked at further.
LEMMA RevisionEnqueued ==
  ASSUME PlaneKnown', "rev" \in keys'
  PROVE  RevisionPart'
BY DEF RevisionPart, RevisionKeepsUp, RevisionTold

\* Nor does one that changes the plane: it leaves an event under way.
LEMMA PlaneChanged ==
  ASSUME RevisionPart, PlaneKnown', events' # {} \/ "Namespace" \in pending',
         UNCHANGED <<rw, cRev, cNs>>, "rev" \in keys' <=> "rev" \in keys
  PROVE  RevisionPart'
BY DEF RevisionPart, RevisionKeepsUp, RevisionTold

LEMMA RevisionAndPlane ==
  ASSUME TypeOK, RevisionPart, Users \/ NamespaceAndContentsGone
  PROVE  RevisionPart'
<1> USE DEF RevisionPart, planeVars, planeCaches, statusVars, ctlVars
<1>1. CASE NodeUsers /\ UNCHANGED ownVars
  <2>1. RevisionFrame
    BY <1>1 DEF ownVars, RevisionFrame
  <2> QED BY <1>1, <2>1, TypeParts, QuietNodes, RevisionUntouched
<1>2. ASSUME NEW d \in Istiods, ChangeIstiod(d)
      PROVE  RevisionPart'
  <2>1. PlaneKnown' /\ events' # {}
    BY <1>2 DEF ChangeIstiod, PlaneKnown
  <2> QED BY <1>2, <2>1, PlaneChanged DEF ChangeIstiod, nodeVars, cacheVars
<1>3. CASE ChangeHook
  <2>1. PlaneKnown' /\ events' # {}
    BY <1>3 DEF ChangeHook, PlaneKnown
  <2> QED BY <1>3, <2>1, PlaneChanged DEF ChangeHook, nodeVars
<1>4. CASE ChangeRemote
  <2>1. RevisionFrame
    BY <1>4 DEF ChangeRemote, RevisionFrame
  <2> QED BY <1>4, <2>1, RevisionUntouched DEF ChangeRemote, nodeVars, NamespaceStays
<1>5. CASE NamespaceAndContentsGone
  <2>1. "Namespace" \in pending' /\ cNs' = cNs
    BY <1>5 DEF NamespaceAndContentsGone, NamespaceGone, cacheVars
  <2>2. PlaneKnown'
    BY <1>5 DEF NamespaceAndContentsGone, PlaneKnown
  <2> QED BY <1>5, <2>1, <2>2, PlaneChanged DEF NamespaceAndContentsGone
<1> QED
  BY <1>1, <1>2, <1>3, <1>4, <1>5 DEF Users

LEMMA RevisionAndInformers ==
  ASSUME TypeOK, RevisionPart, Informers
  PROVE  RevisionPart'
<1> USE DEF RevisionPart, planeVars, planeCaches, statusVars
<1>1. CASE DeliverToAll
  <2>1. PlaneKnown'
    BY <1>1 DEF DeliverToAll, PlaneKnown
  <2>2. CASE DeliverNamespace /\ keys' = keys \cup RevisionKey(TRUE)
    <3>1. CASE cRev # None
      BY <2>1, <2>2, <3>1, RevisionEnqueued DEF RevisionKey
    <3>2. CASE cRev = None
      <4>1. keys' = keys /\ UNCHANGED <<rev, cRev, rw>>
        BY <1>1, <2>2, <3>2 DEF DeliverToAll, RevisionKey
      <4>2. rw # Idle => rw.copy # None
        BY TypeParts, CallsAreNotIdle, NoneIsNothing DEF OwnTypeOK
      <4> QED BY <2>1, <3>2, <4>1, <4>2 DEF RevisionKeepsUp, RevisionTold
    <3> QED BY <3>1, <3>2
  <2>3. ASSUME NEW k \in Kinds, DeliverNode(k),
               keys' = keys \cup (IF k = "IstioCNI" THEN mapIstioCniToReconcileRequests ELSE {})
        PROVE  RevisionPart'
    <3>1. CASE "rev" \in keys'
      BY <2>1, <3>1, RevisionEnqueued
    <3>2. CASE "rev" \notin keys'
      <4>1. RevisionFrame
        BY <1>1, <2>3, <3>2, KeysType DEF DeliverToAll, RevisionFrame
      <4>2. cRev = None \/ cNode'["IstioCNI"] = cNode["IstioCNI"] \/ ~ needsCNI
        <5>1. k = "IstioCNI" => cRev = None \/ ~ needsCNI
          BY <2>3, <3>2 DEF mapIstioCniToReconcileRequests, RevisionKey
        <5> QED BY <2>3, <5>1, TypeParts, DependencyAssumption DEF DeliverNode, NodeTypeOK
      <4>3. cNs' = cNs /\ NamespaceStays
        BY <2>3 DEF DeliverNode, NamespaceStays
      <4>4. CASE cRev = None
        <5>1. rw # Idle => rw.copy # None
          BY TypeParts, CallsAreNotIdle, NoneIsNothing DEF OwnTypeOK
        <5> QED BY <2>1, <3>2, <4>1, <4>4, <5>1 DEF RevisionFrame, RevisionKeepsUp, RevisionTold
      <4> QED BY <4>1, <4>2, <4>3, <4>4, RevisionUntouched
    <3> QED BY <3>1, <3>2
  <2>4. ASSUME NEW k \in Kinds, DeliverDaemon(k), UNCHANGED keys
        PROVE  RevisionPart'
    <3>1. RevisionFrame
      BY <1>1, <2>4 DEF DeliverToAll, RevisionFrame
    <3> QED BY <2>4, <3>1, RevisionUntouched, KindsAreNoNamespace DEF DeliverDaemon, NamespaceStays
  <2> QED BY <1>1, <2>2, <2>3, <2>4 DEF DeliverToAll
<1>2. CASE DeliverIstiod
  BY <1>2, RevisionEnqueued DEF DeliverIstiod, PlaneKnown
<1>3. CASE DeliverHook
  BY <1>3, RevisionEnqueued DEF DeliverHook, PlaneKnown
<1>4. CASE DeliverRevision
  BY <1>4, RevisionEnqueued DEF DeliverRevision, PlaneKnown
<1>5. CASE DeliverIstio
  <2>1. RevisionFrame
    BY <1>5 DEF DeliverIstio, RevisionFrame
  <2> QED BY <1>5, <2>1, RevisionUntouched DEF DeliverIstio, nodeVars, NamespaceStays
<1> QED
  BY <1>1, <1>2, <1>3, <1>4, <1>5 DEF Informers

LEMMA RevisionInstalls ==
  ASSUME TypeOK, RevisionPart, ReconcileRevision
  PROVE  RevisionPart'
<1>1. PICK err \in {"none", "validation", "failed"} :
        /\ (err = "validation") <=> (cNs # "Active")
        /\ err = "none" => ApplyPlane
        /\ ApplyPlane \/ UNCHANGED <<istiod, hook, events>>
        /\ rw' = [pc |-> "status", copy |-> cRev, err |-> err]
  BY DEF ReconcileRevision
<1>2. UNCHANGED <<nodeVars, cIstiod, cHook, cRev, remote>> /\ rw' # Idle
  BY <1>1 DEF ReconcileRevision, statusVars, Idle
<1>3. PlaneKnown'
  BY <1>1, <1>2 DEF RevisionPart, PlaneKnown, ApplyPlane
<1>4. err = "none" => PlaneInstalled'
  <2> DEFINE new == [ca |-> FALSE, probe |-> "Unset"]
  <2>0. new \in Hooks
    BY DEF Hooks
  <2>1. new # None
    BY <2>0, NoneIsNothing
  <2>2. remote \in BOOLEAN
    BY DEF TypeOK
  <2> QED BY <1>1, <1>2, <2>1, <2>2 DEF ApplyPlane, PlaneInstalled
<1>5. RevisionKeepsUp'
  BY <1>1, <1>2, <1>4 DEF RevisionKeepsUp, nodeVars
<1>6. RevisionTold'
  BY <1>2 DEF RevisionTold
<1> QED
  BY <1>3, <1>5, <1>6 DEF RevisionPart

LEMMA RevisionReports ==
  ASSUME TypeOK, NamespaceKnown, RevisionPart, UpdateRevisionStatus
  PROVE  RevisionPart'
<1> DEFINE ready(failed) == IF "ready" \in failed THEN "ReadinessCheckFailed"
                            ELSE IstiodReady(cIstiod, cHook)
           deps(failed) == IF "deps" \in failed THEN "DependencyCheckFailed"
                           ELSE determineDependenciesHealthyCondition(cNode["IstioCNI"])
           new(failed) == [reconciled |-> determineReconciledCondition(rw.err),
                           ready |-> ready(failed), deps |-> deps(failed)]
<1>1. PICK failed \in SUBSET {"ready", "deps", "patch"} :
        /\ ("patch" \in failed) => (new(failed) # rw.copy)
        /\ rev' = IF new(failed) # rw.copy /\ "patch" \notin failed THEN new(failed) ELSE rev
        /\ keys' = IF rw.err = "failed" \/ (failed # {} /\ rw.err = "none")
                   THEN keys \cup {"rev"} ELSE keys
        /\ lost' = (failed # {} /\ rw.err = "validation")
  BY DEF UpdateRevisionStatus
<1>2. /\ UNCHANGED <<nodeVars, remote, needsCNI, istiod, hook, cIstiod, cHook, events, cRev>>
      /\ rw' = Idle
  BY DEF UpdateRevisionStatus, planeVars, planeCaches
<1>3. rw # Idle /\ rw.err \in {"none", "validation", "failed"}
  BY TypeParts, CallsAreNotIdle DEF UpdateRevisionStatus, OwnTypeOK
<1>4. PlaneKnown'
  BY <1>2 DEF RevisionPart, PlaneKnown
<1>5. ASSUME "rev" \notin keys', cRev = rev', events = {}, "Namespace" \notin pending
      PROVE  /\ (ns = "Active") => PlaneInstalled
             /\ lost' \/ rev' = [reconciled |-> TrueReconciled,
                                 ready |-> IstiodReady(istiod, hook),
                                 deps |-> determineDependenciesHealthyCondition(cNode["IstioCNI"])]
  <2>1. "rev" \notin keys /\ rw.err \in {"none", "validation"} /\ (failed = {} \/ lost')
    BY <1>1, <1>3, <1>5
  <2>2. /\ rw.copy = rev'
        /\ (rw.err = "validation") <=> (ns # "Active")
        /\ rw.err = "none" => PlaneInstalled
    BY <1>3, <1>5, <2>1 DEF NamespaceKnown, RevisionPart, RevisionKeepsUp
  <2>3. determineReconciledCondition(rw.err) = TrueReconciled
    BY <2>1, <2>2 DEF determineReconciledCondition, TrueReconciled
  <2>4. IstiodReady(cIstiod, cHook) = IstiodReady(istiod, hook)
    BY <1>5 DEF RevisionPart, PlaneKnown
  <2>5. CASE failed = {}
    <3>1. rev' = new(failed)
      BY <1>1, <2>2, <2>5
    <3>2. ready(failed) = IstiodReady(istiod, hook)
          /\ deps(failed) = determineDependenciesHealthyCondition(cNode["IstioCNI"])
      BY <2>4, <2>5
    <3> QED BY <2>1, <2>2, <2>3, <3>1, <3>2
  <2> QED BY <2>1, <2>2, <2>5
<1>6. /\ TrueReconciled' = TrueReconciled /\ PlaneInstalled' = PlaneInstalled
      /\ IstiodReady(istiod, hook)' = IstiodReady(istiod, hook)
      /\ determineDependenciesHealthyCondition(cNode["IstioCNI"])'
           = determineDependenciesHealthyCondition(cNode["IstioCNI"])
  BY <1>2 DEF nodeVars, TrueReconciled, PlaneInstalled, IstiodReady, determineDependenciesHealthyCondition
<1>7. RevisionTold'
  BY <1>2, <1>5, <1>6 DEF RevisionTold, nodeVars
<1> QED
  BY <1>2, <1>4, <1>7 DEF RevisionPart, RevisionKeepsUp

LEMMA RevisionAndOthers ==
  ASSUME TypeOK, RevisionPart,
         WebhookController \/ IstioController \/ TimerFires \/ SkipMissing
  PROVE  RevisionPart'
<1> USE DEF planeVars, planeCaches, statusVars
<1>1. ASSUME RevisionFrame, UNCHANGED nodeVars
      PROVE  RevisionPart'
  BY <1>1, RevisionUntouched DEF nodeVars, NamespaceStays
<1>2. CASE Probe \/ TimerFires \/ UpdateIstioStatus
  <2>1. RevisionFrame
    BY <1>2 DEF Probe, TimerFires, UpdateIstioStatus, RevisionFrame
  <2> QED BY <1>1, <1>2, <2>1 DEF Probe, TimerFires, UpdateIstioStatus
<1>3. CASE RecordProbe
  <2>1. CASE hook' = hook
    <3>1. events' = events
      BY <1>3, <2>1 DEF RecordProbe
    <3>2. RevisionFrame
      BY <1>3, <2>1, <3>1 DEF RecordProbe, RevisionFrame
    <3> QED BY <1>1, <1>3, <3>2 DEF RecordProbe
  <2>2. CASE hook' # hook
    <3>1. events' = events \cup {"hook"} /\ UNCHANGED keys
      BY <1>3, <2>2 DEF RecordProbe
    <3>2. PlaneKnown'
      BY <1>3, <3>1 DEF RecordProbe, RevisionPart, PlaneKnown
    <3> QED BY <1>3, <3>1, <3>2, PlaneChanged DEF RecordProbe, nodeVars
  <2> QED BY <2>1, <2>2
<1>4. CASE ReconcileIstio
  <2>1. CASE rev' = rev
    <3>1. RevisionFrame
      BY <1>4, <2>1 DEF ReconcileIstio, RevisionFrame
    <3> QED BY <1>1, <1>4, <3>1 DEF ReconcileIstio
  <2>2. CASE rev' # rev
    <3>1. rev' = NoStatus /\ cRev = None
      BY <1>4, <2>2 DEF ReconcileIstio
    <3>2. PlaneKnown' /\ RevisionKeepsUp'
      BY <1>4 DEF ReconcileIstio, nodeVars, RevisionPart, PlaneKnown, RevisionKeepsUp, PlaneInstalled
    <3> QED BY <1>4, <3>1, <3>2, NoStatusType DEF ReconcileIstio, RevisionPart, RevisionTold
  <2> QED BY <2>1, <2>2
<1>5. CASE SkipMissing
  <2>1. CASE "rev" \in keys /\ rw = Idle /\ cRev = None
    <3>1. PlaneKnown'
      BY <1>5 DEF SkipMissing, RevisionPart, PlaneKnown
    <3> QED BY <1>5, <2>1, <3>1 DEF SkipMissing, RevisionPart, RevisionKeepsUp, RevisionTold
  <2>2. CASE keys' = keys \ {"hook"}
    <3>1. RevisionFrame
      BY <1>5, <2>2 DEF SkipMissing, RevisionFrame
    <3> QED BY <1>1, <1>5, <3>1 DEF SkipMissing
  <2> QED BY <1>5, <2>1, <2>2 DEF SkipMissing
<1> QED
  BY <1>2, <1>3, <1>4, <1>5 DEF WebhookController, IstioController

LEMMA RevisionCrash ==
  ASSUME Crash
  PROVE  RevisionPart'
<1>1. PlaneKnown' /\ rw' = Idle /\ UNCHANGED rev
  BY DEF Crash, planeVars, PlaneKnown
<1>2. rev # None => "rev" \in keys'
  BY DEF Crash
<1> QED
  BY <1>1, <1>2 DEF RevisionPart, RevisionKeepsUp, RevisionTold

LEMMA RevisionStep ==
  ASSUME TypeOK, NamespaceKnown, RevisionPart, [Next]_vars
  PROVE  RevisionPart'
<1>1. CASE (IstioCNIController \/ ZTunnelController) /\ UNCHANGED ownVars
  <2>1. RevisionFrame
    BY <1>1 DEF ownVars, planeVars, planeCaches, statusVars, ctlVars, RevisionFrame
  <2> QED BY <1>1, <2>1, TypeParts, QuietNodes, RevisionUntouched
<1>2. CASE UNCHANGED vars
  <2>1. RevisionFrame
    BY <1>2 DEF vars, ownVars, planeVars, planeCaches, statusVars, ctlVars, RevisionFrame
  <2> QED BY <1>2, <2>1, RevisionUntouched DEF vars, nodeVars, NamespaceStays
<1> QED
  BY <1>1, <1>2, RevisionAndPlane, RevisionAndInformers, RevisionInstalls, RevisionReports,
     RevisionAndOthers, RevisionCrash
  DEF Next, RevisionController

-----------------------------------------------------------------------------
(* The state of the Istio.                                                 *)

IstioFrame ==
  /\ UNCHANGED <<istio, cIstio, cRev, iw>>
  /\ "istio" \in keys' <=> "istio" \in keys
  /\ rev # None => rev' # None

LEMMA IstioUntouched ==
  ASSUME IstioPart, IstioFrame
  PROVE  IstioPart'
BY DEF IstioFrame, IstioPart, IstioKeepsUp, IstioTold

LEMMA IstioFrames ==
  ASSUME TypeOK,
         \/ Users \/ NamespaceAndContentsGone \/ DeliverToAll \/ DeliverIstiod \/ DeliverHook
         \/ TimerFires \/ SkipMissing \/ RevisionController \/ WebhookController
         \/ UNCHANGED ownVars
  PROVE  IstioFrame
<1> USE DEF IstioFrame, planeVars, planeCaches, statusVars, ctlVars, ownVars
<1>1. CASE Users \/ NamespaceAndContentsGone \/ UNCHANGED ownVars
  BY <1>1 DEF Users, ChangeIstiod, ChangeHook, ChangeRemote, NamespaceAndContentsGone
<1>2. CASE DeliverToAll
  <2>1. keys' \in {keys, keys \cup {"rev"}}
    BY <1>2 DEF DeliverToAll, RevisionKey, mapIstioCniToReconcileRequests
  <2> QED BY <1>2, <2>1 DEF DeliverToAll
<1>3. CASE DeliverIstiod \/ DeliverHook \/ TimerFires \/ SkipMissing
  BY <1>3 DEF DeliverIstiod, DeliverHook, TimerFires, SkipMissing
<1>4. CASE ReconcileRevision
  BY <1>4 DEF ReconcileRevision
<1>5. CASE UpdateRevisionStatus
  <2>1. \A failed \in SUBSET {"ready", "deps", "patch"} :
          [reconciled |-> determineReconciledCondition(rw.err),
           ready |-> IF "ready" \in failed THEN "ReadinessCheckFailed"
                     ELSE IstiodReady(cIstiod, cHook),
           deps |-> IF "deps" \in failed THEN "DependencyCheckFailed"
                    ELSE determineDependenciesHealthyCondition(cNode["IstioCNI"])] # None
    BY TypeReconciled, TypeReadiness, NoneIsNothing DEF RevConditions
  <2> QED BY <1>5, <2>1 DEF UpdateRevisionStatus
<1>6. CASE WebhookController
  BY <1>6 DEF WebhookController, Probe, RecordProbe
<1> QED
  BY <1>1, <1>2, <1>3, <1>4, <1>5, <1>6 DEF RevisionController

LEMMA IstioWorks ==
  ASSUME TypeOK, IstioPart, IstioController
  PROVE  IstioPart'
<1> USE DEF IstioPart, planeVars, planeCaches, statusVars
<1>1. CASE ReconcileIstio
  <2>1. /\ \/ rev' # None /\ iw' = [copy |-> cIstio, err |-> "none"]
           \/ rev' = rev /\ iw' = [copy |-> cIstio, err |-> "failed"]
        /\ UNCHANGED <<istio, cRev, cIstio>>
    BY <1>1, NoStatusType DEF ReconcileIstio
  <2>2. iw' # Idle /\ iw'.copy = cIstio /\ (iw'.err = "none" => rev' # None)
    BY <2>1 DEF Idle
  <2> QED BY <2>1, <2>2 DEF IstioKeepsUp, IstioTold
<1>2. CASE UpdateIstioStatus
  <2>1. PICK read \in {"ok", "failed"}, patch \in {"none", "ok", "failed"} :
          /\ (patch = "none") => (determineIstioState(iw.err, read) = iw.copy)
          /\ istio' = IF patch = "ok" THEN determineIstioState(iw.err, read) ELSE istio
          /\ keys' = IF iw.err = "failed" \/ "failed" \in {read, patch}
                     THEN keys \cup {"istio"} ELSE keys
    BY <1>2 DEF UpdateIstioStatus
  <2>2. iw # Idle /\ iw.err \in {"none", "failed"} /\ iw' = Idle /\ UNCHANGED <<rev, cRev, cIstio>>
    BY <1>2, TypeParts, CallsAreNotIdle DEF UpdateIstioStatus, OwnTypeOK
  <2>3. ASSUME "istio" \notin keys', cIstio = istio', istio' # None
        PROVE  rev # None /\ istio' = IF cRev = None THEN "RevisionNotFound" ELSE RevState(cRev)
    <3>1. iw.err = "none" /\ read = "ok" /\ patch # "failed" /\ "istio" \notin keys
      BY <2>1, <2>2, <2>3
    <3>2. istio' = determineIstioState(iw.err, read) /\ rev # None
      BY <2>1, <2>2, <2>3, <3>1 DEF IstioKeepsUp
    <3> QED BY <3>1, <3>2 DEF determineIstioState
  <2> QED BY <2>2, <2>3 DEF IstioKeepsUp, IstioTold
<1> QED
  BY <1>1, <1>2 DEF IstioController

LEMMA IstioStep ==
  ASSUME TypeOK, IstioPart, [Next]_vars
  PROVE  IstioPart'
<1>1. CASE DeliverRevision
  <2>1. istio # None => "istio" \in keys'
    BY <1>1 DEF DeliverRevision, OwnerKey
  <2>2. UNCHANGED <<istio, cIstio, rev, iw>> /\ keys \subseteq keys'
    BY <1>1 DEF DeliverRevision
  <2> QED BY <2>1, <2>2 DEF IstioPart, IstioKeepsUp, IstioTold
<1>2. CASE DeliverIstio
  BY <1>2 DEF DeliverIstio, IstioPart, IstioKeepsUp, IstioTold
<1>3. CASE Crash
  BY <1>3 DEF Crash, OwnerKey, IstioPart, IstioKeepsUp, IstioTold
<1>4. CASE IstioController
  BY <1>4, IstioWorks
<1> QED
  BY <1>1, <1>2, <1>3, <1>4, IstioFrames, IstioUntouched DEF Next, Informers, vars

-----------------------------------------------------------------------------

LEMMA AllInit == Init => AllInv
<1>1. ASSUME Init
      PROVE  NamespaceKnown /\ RevisionPart /\ IstioPart
  <2>1. NamespaceKnown
    BY <1>1 DEF Init, NodeInit, NamespaceKnown
  <2>2. PlaneKnown /\ RevisionKeepsUp
    BY <1>1 DEF Init, PlaneKnown, RevisionKeepsUp
  <2>3. RevisionTold
    BY <1>1 DEF Init, RevisionKey, RevisionTold
  <2>4. IstioPart
    BY <1>1 DEF Init, OwnerKey, IstioPart, IstioKeepsUp, IstioTold
  <2> QED BY <2>1, <2>2, <2>3, <2>4 DEF RevisionPart
<1> QED
  BY <1>1, AllTypesInit DEF AllInv

LEMMA AllInvariant == Spec => []AllInv
<1>1. Init => AllInv
  BY AllInit
<1>2. AllInv /\ [Next]_vars => AllInv'
  BY AllTypesStep, NamespaceKnownStep, RevisionStep, IstioStep DEF AllInv
<1> QED
  BY <1>1, <1>2, PTL DEF Spec

\* Whatever order the events of five informers come in, whichever reads, patches
\* and Helm calls fail: a revision for which nothing is left to do reports what
\* is true of the namespace, of istiod or its probe, and of the IstioCNI.
THEOREM RevisionIsHonest == Spec => []RevisionHonest
<1>1. AllInv => RevisionHonest
  <2> SUFFICES ASSUME AllInv, RevisionAtRest, rev # None
               PROVE  /\ (ns = "Active") => PlaneInstalled
                      /\ lost \/ rev = [reconciled |-> TrueReconciled,
                                        ready |-> IstiodReady(istiod, hook),
                                        deps |-> determineDependenciesHealthyCondition(node["IstioCNI"])]
    BY DEF RevisionHonest, PlaneInstalled
  <2>1. cNode["IstioCNI"] = node["IstioCNI"]
    BY DEF RevisionAtRest
  <2>2. determineDependenciesHealthyCondition(cNode["IstioCNI"])
          = determineDependenciesHealthyCondition(node["IstioCNI"])
    BY <2>1
  <2> QED BY <2>2 DEF AllInv, RevisionPart, RevisionTold, RevisionAtRest
<1> QED
  BY <1>1, AllInvariant, PTL

\* An Istio for which nothing is left to do reports the state of its revision.
THEOREM IstioIsHonest == Spec => []IstioHonest
<1>1. AllInv => IstioHonest
  BY DEF AllInv, IstioPart, IstioTold, IstioHonest
<1> QED
  BY <1>1, AllInvariant, PTL

\* In the composition, too, no DaemonSet outlives its resource.
THEOREM NothingLeftInComposition == Spec => []NothingLeftBehind
BY ImplementsNodes, NothingLeft, PTL

\* In the composition, too, what a node component reports at rest is true.
THEOREM NodesHonestInComposition == Spec => []NodeHonest
BY ImplementsNodes, NodesHonest, PTL

\* In the composition, too, the node components keep the contract of StandardReconciler.
THEOREM FinalizersKeptInComposition == Spec => KeepsFinalizerContract
BY ImplementsNodes, NodeFinalizersKept
=============================================================================
