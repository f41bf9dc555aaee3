------------------------- MODULE HelmReleaseProofs -------------------------
(***************************************************************************)
(* Theorems about HelmRelease, for any charts and any number of requests,  *)
(* interruptions and versions: the latest record can always be repaired,   *)
(* no object is forgotten, and the contract of ChartRelease holds.         *)
(***************************************************************************)
EXTENDS HelmRelease, TLAPS

Working == call.pc \in {"apply", "remove", "supersede", "record"}
Status  == history[latest].status
Present == latest # 0
Tracked == objects \ stray

\* latest is what Helm's storage would return.
LatestIsHighest ==
  /\ \A v \in Versions : v > latest => history[v] = NoRecord
  /\ Present => history[latest] # NoRecord

\* An unfinished record has one before it to go back to.
HasPredecessor ==
  /\ Present => Status # "superseded"
  /\ Present /\ Status \in {"pending", "failed"} /\ latest > 1 => history[latest - 1] # NoRecord

\* Where a call stands, and what the latest record then is.
CallAgrees ==
  /\ call # Idle /\ Uninstalling => call.pc \in {"read", "mark", "delete", "purge"}
  /\ call # Idle => call.pc # "unexpected"
  /\ call # Idle /\ call.pc \in {"read", "switch"} => call.op = "none"
  /\ call # Idle /\ call.pc = "switch" /\ Present => Status # "pending"
  /\ call # Idle /\ call.pc = "prune" => Present /\ Status = "deployed" /\ call.op = "upgrade"
  /\ call # Idle /\ call.pc = "create" =>
       \/ call.op = "install" /\ latest = 0
       \/ call.op = "upgrade" /\ Present /\ Status = "deployed"
       \/ call.op = "rollback" /\ latest > 1 /\ Status = "failed"
  /\ call # Idle /\ Working =>
       /\ Present /\ Status = "pending" /\ call.op \in {"install", "upgrade", "rollback"}
       /\ call.op = "install" <=> latest = 1
       /\ call.op # "rollback" => history[latest].chart = call.chart
  /\ call # Idle /\ call.pc = "mark" => Present
  /\ call # Idle /\ call.pc \in {"delete", "purge"} => Present /\ Status = "uninstalling"
  /\ call # Idle /\ call.pc = "mark" /\ ~ Uninstalling =>
       Status = "uninstalling" \/ (Status = "failed" /\ latest = 1)

\* Which charts may have objects on the cluster.
Footprint ==
  IF ~ Present THEN {}
  ELSE IF Status \in {"pending", "failed"} /\ latest > 1
       THEN {history[latest].chart, history[latest - 1].chart}
       ELSE {history[latest].chart}

ObjectsAgree ==
  /\ Tracked \subseteq Footprint
  /\ call.pc \in {"supersede", "record"} => Tracked \subseteq {history[latest].chart}
  /\ call.pc = "purge" => Tracked = {}

IInv == TypeOK /\ LatestIsHighest /\ HasPredecessor /\ CallAgrees /\ ObjectsAgree
-----------------------------------------------------------------------------
(* What the type invariant says of the records and of the call.            *)

LEMMA RecordType ==
  ASSUME TypeOK, NEW v \in Versions, history[v] # NoRecord
  PROVE  /\ history[v] \in Records
         /\ history[v].status \in ReleaseStatuses /\ history[v].chart \in Charts
<1>1. history[v] \in Records
  BY DEF TypeOK
<1> QED BY <1>1 DEF Records

LEMMA LatestType ==
  ASSUME IInv, Present
  PROVE  /\ latest \in Versions /\ history[latest] \in Records
         /\ Status \in ReleaseStatuses /\ history[latest].chart \in Charts
<1>1. latest \in Versions /\ history[latest] # NoRecord
  BY BoundAssumption DEF IInv, TypeOK, LatestIsHighest, Present, Versions
<1> QED BY <1>1, RecordType DEF IInv, Status

LEMMA CallType ==
  ASSUME TypeOK, call # Idle
  PROVE  /\ call \in [pc: Steps, chart: Charts \cup {NoChart}, op: Operations]
         /\ call.pc \in Steps /\ call.chart \in Charts \cup {NoChart} /\ call.op \in Operations
         /\ call.pc # "idle"
<1>1. call \in [pc: Steps, chart: Charts \cup {NoChart}, op: Operations]
  BY DEF TypeOK, Calls
<1> QED BY <1>1 DEF Steps

LEMMA GoingOn ==
  ASSUME TypeOK, call # Idle, NEW pc \in Steps, GoesTo(pc)
  PROVE  /\ call' \in Calls /\ call' # Idle
         /\ call'.pc = pc /\ call'.chart = call.chart /\ call'.op = call.op
<1>1. call' = [call EXCEPT !.pc = pc]
  BY DEF GoesTo
<1>2. call'.pc = pc /\ call'.chart = call.chart /\ call'.op = call.op
  BY <1>1, CallType
<1>3. call' \in [pc: Steps, chart: Charts \cup {NoChart}, op: Operations]
  BY <1>1, CallType
<1> QED BY <1>2, <1>3 DEF Calls, Idle, Steps

LEMMA StartingOn ==
  ASSUME TypeOK, call # Idle, NEW op \in Operations, NEW pc \in Steps, Starts(op, pc)
  PROVE  /\ call' \in Calls /\ call' # Idle
         /\ call'.pc = pc /\ call'.chart = call.chart /\ call'.op = op
<1>1. call' = [call EXCEPT !.op = op, !.pc = pc]
  BY DEF Starts
<1>2. call'.pc = pc /\ call'.chart = call.chart /\ call'.op = op
  BY <1>1, CallType
<1>3. call' \in [pc: Steps, chart: Charts \cup {NoChart}, op: Operations]
  BY <1>1, CallType
<1> QED BY <1>2, <1>3 DEF Calls, Idle, Steps

\* Giving the latest record another status leaves every other record alone.
LEMMA Restatus ==
  ASSUME IInv, Present, NEW status \in ReleaseStatuses,
         history' = [history EXCEPT ![latest].status = status]
  PROVE  /\ history' \in [Versions -> Records \cup {NoRecord}]
         /\ history'[latest] = [status |-> status, chart |-> history[latest].chart]
         /\ history'[latest] # NoRecord
         /\ history'[latest].status = status /\ history'[latest].chart = history[latest].chart
         /\ \A v \in Versions \ {latest} : history'[v] = history[v]
<1>1. latest \in Versions /\ history[latest] \in Records /\ history[latest].chart \in Charts
  BY LatestType
<1>2. history \in [Versions -> Records \cup {NoRecord}]
  BY DEF IInv, TypeOK
<1> DEFINE new == [history[latest] EXCEPT !.status = status]
<1>3. new \in Records /\ new.status = status /\ new.chart = history[latest].chart
      /\ new = [status |-> status, chart |-> history[latest].chart]
  BY <1>1 DEF Records
<1>4. history' = [history EXCEPT ![latest] = new]
  OBVIOUS
<1> HIDE DEF new
<1> QED BY <1>1, <1>2, <1>3, <1>4, RecordAssumption

-----------------------------------------------------------------------------
(* The owner's requests and the decisions of the chart manager.            *)

storageVars == <<history, latest, objects, stray>>

\* If storage and cluster stay as they are, only the call can disturb IInv.
LEMMA OnlyTheCall ==
  ASSUME IInv, UNCHANGED storageVars, call' \in Calls, CallAgrees',
         call'.pc \notin {"supersede", "record", "purge"},
         want' \in Charts \cup {NoChart}, todo' \in BOOLEAN,
         requests' \in 0 .. MaxRequests, faults' \in 0 .. MaxFaults
  PROVE  IInv'
<1>1. TypeOK'
  BY DEF IInv, TypeOK, storageVars
<1>2. LatestIsHighest' /\ HasPredecessor'
  BY DEF IInv, storageVars, LatestIsHighest, HasPredecessor, Present, Status
<1>3. ObjectsAgree'
  BY DEF IInv, storageVars, ObjectsAgree, Tracked, Footprint, Present, Status
<1> QED BY <1>1, <1>2, <1>3 DEF IInv

LEMMA InvRequest ==
  ASSUME IInv, NEW c \in Charts \cup {NoChart}, Request(c)
  PROVE  IInv'
<1>1. TypeOK'
  BY BoundAssumption DEF IInv, TypeOK, Request
<1>2. LatestIsHighest' /\ HasPredecessor' /\ CallAgrees' /\ ObjectsAgree'
  BY DEF Request, IInv, LatestIsHighest, HasPredecessor, CallAgrees, ObjectsAgree, Tracked,
     Footprint, Present, Status, Working, Uninstalling
<1> QED BY <1>1, <1>2 DEF IInv

LEMMA InvBegin ==
  ASSUME IInv, Begin
  PROVE  IInv'
<1>1. call' = [pc |-> "read", chart |-> want, op |-> "none"]
  BY DEF Begin
<1>2. call' \in Calls /\ call'.pc = "read" /\ call'.op = "none" /\ call' # Idle
  BY <1>1 DEF IInv, TypeOK, Calls, Steps, Operations, Idle
<1>3. CallAgrees'
  BY <1>2 DEF CallAgrees, Working
<1> QED BY <1>2, <1>3, OnlyTheCall DEF Begin, storageVars, IInv, TypeOK

LEMMA InvReadRelease ==
  ASSUME IInv, ReadRelease
  PROVE  IInv'
<1>0. call # Idle /\ call.pc = "read" /\ TypeOK /\ call.op = "none"
  BY DEF ReadRelease, Idle, IInv, CallAgrees
<1>1. CASE Returns
  <2>1. call' = Idle /\ call'.pc = "idle" /\ call' \in Calls
    BY <1>1 DEF Returns, Idle, Calls
  <2>2. CallAgrees'
    BY <2>1 DEF CallAgrees, Working
  <2> QED BY <2>1, <2>2, OnlyTheCall DEF ReadRelease, storageVars, ownerVars, IInv, TypeOK
<1>2. CASE Uninstalling /\ latest # 0 /\ GoesTo("mark")
  <2>1. call' \in Calls /\ call'.pc = "mark" /\ call'.chart = call.chart
    BY <1>0, <1>2, GoingOn DEF Steps
  <2>2. CallAgrees'
    BY <1>2, <2>1 DEF ReadRelease, CallAgrees, Working, Uninstalling, Present
  <2> QED BY <2>1, <2>2, OnlyTheCall DEF ReadRelease, storageVars, ownerVars, IInv, TypeOK
<1>3. CASE /\ ~ Uninstalling /\ (latest # 0 => history[latest].status # "pending")
           /\ GoesTo("switch")
  <2>1. call' \in Calls /\ call'.pc = "switch" /\ call'.chart = call.chart /\ call'.op = "none"
    BY <1>0, <1>3, GoingOn DEF Steps
  <2>2. CallAgrees'
    BY <1>3, <2>1 DEF ReadRelease, CallAgrees, Working, Uninstalling, Present, Status
  <2> QED BY <2>1, <2>2, OnlyTheCall DEF ReadRelease, storageVars, ownerVars, IInv, TypeOK
<1> QED BY <1>1, <1>2, <1>3 DEF ReadRelease

LEMMA InvUnlockRelease ==
  ASSUME IInv, UnlockRelease
  PROVE  IInv'
<1>0. /\ call # Idle /\ call.pc = "read" /\ TypeOK /\ call.op = "none" /\ ~ Uninstalling
      /\ Present /\ Status = "pending"
  BY DEF UnlockRelease, Idle, IInv, CallAgrees, Present, Status
<1>1. history' = [history EXCEPT ![latest].status = "failed"] /\ latest' = latest
      /\ objects' = objects /\ stray' = stray
  BY DEF UnlockRelease, Unlocked
<1>2. /\ history' \in [Versions -> Records \cup {NoRecord}]
      /\ history'[latest].status = "failed" /\ history'[latest].chart = history[latest].chart
      /\ history'[latest] # NoRecord
      /\ \A v \in Versions \ {latest} : history'[v] = history[v]
  BY <1>0, <1>1, Restatus DEF ReleaseStatuses
<1>3. call' \in Calls /\ call' # Idle /\ call'.pc = "switch" /\ call'.chart = call.chart
      /\ call'.op = "none"
  BY <1>0, GoingOn DEF UnlockRelease, Steps
<1>4. latest \in Versions
  BY <1>0, LatestType
<1>5. latest > 1 => latest - 1 \in Versions \ {latest}
  BY <1>4, BoundAssumption DEF Versions
<1>6. TypeOK'
  BY <1>1, <1>2, <1>3 DEF UnlockRelease, ownerVars, IInv, TypeOK
<1>7. LatestIsHighest'
  BY <1>1, <1>2, <1>4, <1>0, BoundAssumption DEF LatestIsHighest, Present, Versions, IInv
<1>8. HasPredecessor'
  BY <1>0, <1>1, <1>2, <1>5 DEF HasPredecessor, Present, Status, IInv
<1>9. CallAgrees'
  BY <1>0, <1>1, <1>2, <1>3 DEF CallAgrees, Working, Uninstalling, Present, Status
<1>10. ObjectsAgree'
  BY <1>0, <1>1, <1>2, <1>3, <1>5 DEF ObjectsAgree, Tracked, Footprint, Present, Status, IInv
<1> QED BY <1>6, <1>7, <1>8, <1>9, <1>10 DEF IInv

LEMMA InvSwitch ==
  ASSUME IInv, Switch
  PROVE  IInv'
<1>0. /\ call # Idle /\ call.pc = "switch" /\ TypeOK /\ ~ Uninstalling
      /\ Present => Status # "pending" /\ Status # "superseded"
  BY DEF Switch, Idle, IInv, CallAgrees, HasPredecessor
<1>1. CASE latest = 0
  <2>1. call' \in Calls /\ call'.pc = "create" /\ call'.chart = call.chart /\ call'.op = "install"
    BY <1>0, <1>1, StartingOn DEF Switch, Steps, Operations
  <2>2. CallAgrees'
    BY <1>0, <1>1, <2>1 DEF Switch, CallAgrees, Working, Uninstalling, Present, Status
  <2> QED BY <2>1, <2>2, OnlyTheCall DEF Switch, storageVars, ownerVars, IInv, TypeOK
<1>2. CASE Present
  <2>0. /\ Status \in {"deployed", "failed", "uninstalling"} /\ Remedy(Status)
        /\ latest \in Versions
    BY <1>0, <1>2, LatestType DEF Switch, Present, Status, ReleaseStatuses
  <2>1. CASE Status = "deployed"
    <3>1. Starts("upgrade", "prune")
      BY <2>0, <2>1 DEF Remedy
    <3>2. call' \in Calls /\ call'.pc = "prune" /\ call'.chart = call.chart /\ call'.op = "upgrade"
      BY <1>0, <3>1, StartingOn DEF Steps, Operations
    <3>3. CallAgrees'
      BY <1>0, <1>2, <2>1, <3>2 DEF Switch, CallAgrees, Working, Uninstalling, Present, Status
    <3> QED BY <3>2, <3>3, OnlyTheCall DEF Switch, storageVars, ownerVars, IInv, TypeOK
  <2>2. CASE Status = "failed" /\ latest > 1
    <3>1. Starts("rollback", "create")
      BY <2>0, <2>2 DEF Remedy
    <3>2. call' \in Calls /\ call'.pc = "create" /\ call'.chart = call.chart /\ call'.op = "rollback"
      BY <1>0, <3>1, StartingOn DEF Steps, Operations
    <3>3. CallAgrees'
      BY <1>0, <1>2, <2>2, <3>2 DEF Switch, CallAgrees, Working, Uninstalling, Present, Status
    <3> QED BY <3>2, <3>3, OnlyTheCall DEF Switch, storageVars, ownerVars, IInv, TypeOK
  <2>3. CASE Status = "uninstalling" \/ (Status = "failed" /\ latest = 1)
    <3>1. GoesTo("mark")
      BY <2>0, <2>3 DEF Remedy
    <3>2. call' \in Calls /\ call'.pc = "mark" /\ call'.chart = call.chart
      BY <1>0, <3>1, GoingOn DEF Steps
    <3>3. CallAgrees'
      BY <1>0, <1>2, <2>3, <3>2 DEF Switch, CallAgrees, Working, Uninstalling, Present, Status
    <3> QED BY <3>2, <3>3, OnlyTheCall DEF Switch, storageVars, ownerVars, IInv, TypeOK
  <2> QED BY <2>0, <2>1, <2>2, <2>3, BoundAssumption DEF Versions
<1> QED BY <1>1, <1>2 DEF Present

-----------------------------------------------------------------------------
(* Install, upgrade and rollback.                                          *)

\* Removing an older record disturbs nothing when none has to precede.
LEMMA Forget ==
  ASSUME IInv, Present, Status \in {"deployed", "uninstalling"}, NEW v \in Versions, v # latest,
         history' = [history EXCEPT ![v] = NoRecord], UNCHANGED latest
  PROVE  /\ history' \in [Versions -> Records \cup {NoRecord}]
         /\ LatestIsHighest' /\ HasPredecessor'
         /\ history'[latest] = history[latest] /\ Present' /\ Status' = Status
<1>1. latest \in Versions
  BY LatestType
<1>2. history' \in [Versions -> Records \cup {NoRecord}] /\ history'[latest] = history[latest]
  BY <1>1 DEF IInv, TypeOK
<1>3. Present' /\ Status' = Status
  BY <1>2 DEF Present, Status
<1>4. \A w \in Versions : history'[w] \in {history[w], NoRecord}
  BY DEF IInv, TypeOK
<1>5. LatestIsHighest'
  BY <1>2, <1>4 DEF IInv, LatestIsHighest, Present
<1>6. HasPredecessor'
  BY <1>3 DEF HasPredecessor
<1> QED BY <1>2, <1>3, <1>5, <1>6

LEMMA InvPruneHistory ==
  ASSUME IInv, PruneHistory
  PROVE  IInv'
<1>0. /\ call # Idle /\ call.pc = "prune" /\ TypeOK /\ Present /\ Status = "deployed"
      /\ call.op = "upgrade"
  BY DEF PruneHistory, Idle, IInv, CallAgrees
<1>1. CASE \E v \in Versions : /\ Oldest(v) /\ history[v].status # "deployed"
                               /\ history' = [history EXCEPT ![v] = NoRecord]
                               /\ UNCHANGED call
  <2>1. PICK v \in Versions : /\ Oldest(v) /\ history[v].status # "deployed"
                              /\ history' = [history EXCEPT ![v] = NoRecord]
                              /\ UNCHANGED call
    BY <1>1
  <2>2. /\ history' \in [Versions -> Records \cup {NoRecord}]
        /\ LatestIsHighest' /\ HasPredecessor'
        /\ history'[latest] = history[latest] /\ Present' /\ Status' = Status
    BY <1>0, <2>1, Forget DEF PruneHistory, Status
  <2>3. TypeOK'
    BY <2>1, <2>2 DEF PruneHistory, ownerVars, IInv, TypeOK
  <2>4. CallAgrees'
    BY <1>0, <2>1, <2>2 DEF PruneHistory, IInv, CallAgrees, Working, Uninstalling
  <2>5. ObjectsAgree'
    BY <1>0, <2>1, <2>2 DEF PruneHistory, IInv, ObjectsAgree, Tracked, Footprint
  <2> QED BY <2>2, <2>3, <2>4, <2>5 DEF IInv
<1>2. CASE GoesTo("create") /\ UNCHANGED history
  <2>1. call' \in Calls /\ call'.pc = "create" /\ call'.chart = call.chart /\ call'.op = "upgrade"
    BY <1>0, <1>2, GoingOn DEF Steps
  <2>2. CallAgrees'
    BY <1>0, <1>2, <2>1 DEF PruneHistory, IInv, CallAgrees, Working, Uninstalling, Present, Status
  <2> QED BY <1>2, <2>1, <2>2, OnlyTheCall DEF PruneHistory, storageVars, ownerVars, IInv, TypeOK
<1> QED BY <1>1, <1>2 DEF PruneHistory

LEMMA TargetType ==
  ASSUME IInv, call # Idle, call.pc = "create"
  PROVE  /\ HasTarget /\ Target \in Charts
         /\ call.op # "rollback" => Target = call.chart
<1>1. ~ Uninstalling /\ call.chart \in Charts \cup {NoChart}
  BY CallType DEF IInv, CallAgrees
<1>2. CASE call.op = "rollback"
  <2>1. Present /\ latest > 1 /\ Status = "failed"
    BY <1>2, BoundAssumption DEF IInv, CallAgrees, Present, TypeOK
  <2>2. latest - 1 \in Versions /\ history[latest - 1] # NoRecord
    BY <2>1, LatestType, BoundAssumption DEF IInv, HasPredecessor, Versions
  <2> QED BY <1>2, <2>1, <2>2, RecordType DEF HasTarget, Target, IInv
<1> QED BY <1>1, <1>2 DEF HasTarget, Target, Uninstalling

LEMMA InvCreateRecord ==
  ASSUME IInv, CreateRecord
  PROVE  IInv'
<1>0. call # Idle /\ call.pc = "create" /\ TypeOK /\ latest < MaxVersion /\ ~ Uninstalling
  BY DEF CreateRecord, Idle, IInv, CallAgrees
<1>1. HasTarget /\ Target \in Charts /\ (call.op # "rollback" => Target = call.chart)
  BY <1>0, TargetType
<1> DEFINE new == [status |-> "pending", chart |-> Target]
<1>2. /\ history' = [history EXCEPT ![latest + 1] = new] /\ latest' = latest + 1
      /\ GoesTo("apply")
  BY <1>0, <1>1 DEF CreateRecord
<1>3. new \in Records /\ new.status = "pending" /\ new.chart = Target
  BY <1>1 DEF Records, ReleaseStatuses
<1> HIDE DEF new
<1>4. latest' \in Versions /\ latest \in Nat /\ (Present => latest \in Versions)
  BY <1>0, <1>2, BoundAssumption DEF TypeOK, Versions, Present
<1>5. /\ history' \in [Versions -> Records \cup {NoRecord}]
      /\ history'[latest'] = new /\ new # NoRecord
      /\ \A v \in Versions \ {latest'} : history'[v] = history[v]
  BY <1>0, <1>2, <1>3, <1>4, RecordAssumption DEF TypeOK
<1>6. Present => latest \in Versions \ {latest'} /\ latest' - 1 = latest /\ history'[latest] = history[latest]
  BY <1>2, <1>4, <1>5
<1>7. call' \in Calls /\ call' # Idle /\ call'.pc = "apply" /\ call'.chart = call.chart /\ call'.op = call.op
  BY <1>0, <1>2, GoingOn DEF Steps
<1>8. Present' /\ Status' = "pending" /\ (latest' > 1 <=> Present)
  BY <1>2, <1>3, <1>4, <1>5 DEF Present, Status
<1>9. TypeOK'
  BY <1>0, <1>4, <1>5, <1>7, BoundAssumption DEF CreateRecord, ownerVars, TypeOK, Versions
<1>10. LatestIsHighest'
  <2>1. \A v \in Versions : v > latest' => v # latest' /\ v > latest
    BY <1>2, <1>4, BoundAssumption DEF Versions
  <2> QED BY <2>1, <1>5 DEF IInv, LatestIsHighest
<1>11. HasPredecessor'
  BY <1>6, <1>8 DEF HasPredecessor, IInv, LatestIsHighest, Present
<1>12. CallAgrees'
  <2>1. call.op \in {"install", "upgrade", "rollback"} /\ (call.op = "install" <=> ~ Present)
    BY <1>0, <1>4 DEF IInv, CallAgrees, Present
  <2>2. call'.op = "install" <=> latest' = 1
    BY <2>1, <1>2, <1>4, <1>7 DEF Present
  <2> QED BY <1>0, <1>1, <1>3, <1>5, <1>7, <1>8, <2>1, <2>2 DEF CallAgrees, Working, Uninstalling
<1>13. ObjectsAgree'
  <2>1. Footprint' = IF Present THEN {Target, history[latest].chart} ELSE {Target}
    BY <1>3, <1>5, <1>6, <1>8 DEF Footprint
  <2>2. Footprint \subseteq Footprint'
    <3>1. Present => Status = "deployed" \/ (Status = "failed" /\ latest > 1 /\ call.op = "rollback")
      BY <1>0 DEF IInv, CallAgrees, Present
    <3> QED BY <2>1, <3>1 DEF Footprint, Target, Present
  <2> QED BY <2>2, <1>0, <1>7 DEF CreateRecord, IInv, ObjectsAgree, Tracked
<1> QED BY <1>9, <1>10, <1>11, <1>12, <1>13 DEF IInv

LEMMA InvApplyObjects ==
  ASSUME IInv, ApplyObjects
  PROVE  IInv'
<1>0. /\ call # Idle /\ call.pc = "apply" /\ TypeOK /\ Present /\ Status = "pending"
      /\ call.op = "install" <=> latest = 1
  BY DEF ApplyObjects, Idle, IInv, CallAgrees, Working
<1> DEFINE next == IF call.op = "install" THEN "record" ELSE "remove"
<1>1. /\ next \in {"record", "remove"} /\ (next = "record" => latest = 1)
      /\ objects' = objects \cup {history[latest].chart} /\ GoesTo(next)
  BY <1>0 DEF ApplyObjects
<1> HIDE DEF next
<1>2. call' \in Calls /\ call'.pc = next /\ call'.chart = call.chart /\ call'.op = call.op
  BY <1>0, <1>1, GoingOn DEF Steps
<1>3. TypeOK'
  BY <1>0, <1>1, <1>2, LatestType DEF ApplyObjects, ownerVars, TypeOK
<1>4. LatestIsHighest' /\ HasPredecessor'
  BY DEF ApplyObjects, IInv, LatestIsHighest, HasPredecessor, Present, Status
<1>5. CallAgrees'
  BY <1>0, <1>1, <1>2 DEF ApplyObjects, IInv, CallAgrees, Working, Uninstalling, Present, Status
<1>6. ObjectsAgree'
  BY <1>0, <1>1, <1>2 DEF ApplyObjects, IInv, ObjectsAgree, Tracked, Footprint, Present, Status
<1> QED BY <1>3, <1>4, <1>5, <1>6 DEF IInv

LEMMA InvRemoveObjects ==
  ASSUME IInv, RemoveObjects
  PROVE  IInv'
<1>0. call # Idle /\ call.pc = "remove" /\ TypeOK /\ Present /\ Status = "pending"
  BY DEF RemoveObjects, Idle, IInv, CallAgrees, Working
<1>1. call' \in Calls /\ call'.pc = "supersede" /\ call'.chart = call.chart /\ call'.op = call.op
  BY <1>0, GoingOn DEF RemoveObjects, Steps
<1>2. TypeOK'
  BY <1>0, <1>1 DEF RemoveObjects, ownerVars, TypeOK
<1>3. LatestIsHighest' /\ HasPredecessor'
  BY DEF RemoveObjects, IInv, LatestIsHighest, HasPredecessor, Present, Status
<1>4. CallAgrees'
  BY <1>0, <1>1 DEF RemoveObjects, IInv, CallAgrees, Working, Uninstalling, Present, Status
<1>5. Tracked' \subseteq {history[latest].chart} /\ Tracked' \subseteq Tracked
  BY <1>0 DEF RemoveObjects, IInv, ObjectsAgree, Tracked, Footprint
<1>6. ObjectsAgree'
  BY <1>1, <1>5 DEF RemoveObjects, IInv, ObjectsAgree, Footprint, Present, Status
<1> QED BY <1>2, <1>3, <1>4, <1>6 DEF IInv

LEMMA InvSupersede ==
  ASSUME IInv, Supersede
  PROVE  IInv'
<1>0. /\ call # Idle /\ call.pc = "supersede" /\ TypeOK /\ Present /\ Status = "pending"
      /\ latest \in Versions /\ history[latest] # NoRecord
  BY LatestType DEF Supersede, Idle, IInv, CallAgrees, Working, LatestIsHighest
<1>1. call' \in Calls /\ call'.pc = "record" /\ call'.chart = call.chart /\ call'.op = call.op
  BY <1>0, GoingOn DEF Supersede, Steps
<1>2. \A v \in Versions : /\ history'[v] \in Records \cup {NoRecord}
                          /\ history'[v] = NoRecord <=> history[v] = NoRecord
                          /\ history[v] # NoRecord => history'[v].chart = history[v].chart
  <2> SUFFICES ASSUME NEW v \in Versions
               PROVE  /\ history'[v] \in Records \cup {NoRecord}
                      /\ history'[v] = NoRecord <=> history[v] = NoRecord
                      /\ history[v] # NoRecord => history'[v].chart = history[v].chart
    OBVIOUS
  <2> DEFINE old == [history[v] EXCEPT !.status = "superseded"]
  <2>1. history[v] # NoRecord => old \in Records /\ old.chart = history[v].chart
    BY <1>0, RecordType DEF Records, ReleaseStatuses
  <2>2. history'[v] = IF history[v] # NoRecord /\ history[v].status = "deployed" THEN old ELSE history[v]
    BY DEF Supersede
  <2> HIDE DEF old
  <2> QED BY <1>0, <2>1, <2>2, RecordAssumption, RecordType
<1>3. history'[latest] = history[latest]
  BY <1>0 DEF Supersede, Status
<1>4. Present' /\ Status' = Status
  BY <1>0, <1>3 DEF Supersede, Present, Status
<1>5. latest > 1 => latest - 1 \in Versions
  BY <1>0, BoundAssumption DEF Versions
<1>6. TypeOK'
  <2>1. history' \in [Versions -> Records \cup {NoRecord}]
    BY <1>2 DEF Supersede
  <2> QED BY <1>0, <1>1, <2>1 DEF Supersede, ownerVars, TypeOK
<1>7. LatestIsHighest'
  BY <1>2, <1>3 DEF Supersede, IInv, LatestIsHighest, Present
<1>8. HasPredecessor'
  BY <1>2, <1>4, <1>5 DEF Supersede, IInv, HasPredecessor, Present
<1>9. CallAgrees'
  BY <1>0, <1>1, <1>3, <1>4 DEF Supersede, IInv, CallAgrees, Working, Uninstalling, Present
<1>10. ObjectsAgree'
  <2>1. Tracked' = Tracked /\ Tracked \subseteq {history[latest].chart}
    BY <1>0 DEF Supersede, IInv, ObjectsAgree, Tracked
  <2> QED BY <1>1, <1>3, <1>4, <2>1 DEF Supersede, ObjectsAgree, Footprint
<1> QED BY <1>6, <1>7, <1>8, <1>9, <1>10 DEF IInv

LEMMA InvRecordDeployed ==
  ASSUME IInv, RecordDeployed
  PROVE  IInv'
<1>0. /\ call # Idle /\ call.pc = "record" /\ TypeOK /\ Present /\ Status = "pending"
      /\ ~ Uninstalling
  BY DEF RecordDeployed, Idle, IInv, CallAgrees, Working
<1>1. /\ history' \in [Versions -> Records \cup {NoRecord}]
      /\ history'[latest].status = "deployed" /\ history'[latest].chart = history[latest].chart
      /\ history'[latest] # NoRecord
      /\ \A v \in Versions \ {latest} : history'[v] = history[v]
  BY <1>0, Restatus DEF RecordDeployed, ReleaseStatuses
<1>2. Present' /\ Status' = "deployed" /\ latest \in Versions
  BY <1>0, <1>1, LatestType DEF RecordDeployed, Present, Status
<1>3. \/ call' = Idle
      \/ call'.pc = "prune" /\ call'.op = "upgrade" /\ call'.chart = call.chart /\ call' \in Calls
  BY <1>0, StartingOn DEF RecordDeployed, NextOperation, Returns, Steps, Operations
<1>4. TypeOK'
  BY <1>0, <1>1, <1>3 DEF RecordDeployed, ownerVars, TypeOK, Calls
<1>5. LatestIsHighest' /\ HasPredecessor'
  BY <1>1, <1>2, BoundAssumption
     DEF RecordDeployed, IInv, LatestIsHighest, HasPredecessor, Present, Versions
<1>6. CallAgrees'
  BY <1>0, <1>2, <1>3 DEF CallAgrees, Working, Uninstalling, Idle
<1>7. ObjectsAgree'
  <2>1. Tracked' = Tracked /\ Tracked \subseteq {history[latest].chart}
    BY <1>0 DEF RecordDeployed, IInv, ObjectsAgree, Tracked
  <2> QED BY <1>1, <1>2, <1>3, <2>1 DEF RecordDeployed, ObjectsAgree, Footprint, Idle
<1> QED BY <1>4, <1>5, <1>6, <1>7 DEF IInv

-----------------------------------------------------------------------------
(* Uninstall.                                                              *)

LEMMA InvMarkUninstalling ==
  ASSUME IInv, MarkUninstalling
  PROVE  IInv'
<1>0. /\ call # Idle /\ call.pc = "mark" /\ TypeOK /\ Present
      /\ ~ Uninstalling => Status = "uninstalling" \/ (Status = "failed" /\ latest = 1)
  BY DEF MarkUninstalling, Idle, IInv, CallAgrees
<1>1. /\ history' \in [Versions -> Records \cup {NoRecord}]
      /\ history'[latest].status = "uninstalling" /\ history'[latest].chart = history[latest].chart
      /\ history'[latest] # NoRecord
      /\ \A v \in Versions \ {latest} : history'[v] = history[v]
  BY <1>0, Restatus DEF MarkUninstalling, ReleaseStatuses
<1>2. Present' /\ Status' = "uninstalling" /\ latest \in Versions
  BY <1>0, <1>1, LatestType DEF MarkUninstalling, Present, Status
<1>3. call' \in Calls /\ call'.pc = "delete" /\ call'.chart = call.chart
  BY <1>0, GoingOn DEF MarkUninstalling, Steps
<1>4. TypeOK'
  BY <1>0, <1>1, <1>3 DEF MarkUninstalling, ownerVars, TypeOK
<1>5. LatestIsHighest' /\ HasPredecessor'
  BY <1>1, <1>2, BoundAssumption
     DEF MarkUninstalling, IInv, LatestIsHighest, HasPredecessor, Present, Versions
<1>6. CallAgrees'
  BY <1>0, <1>2, <1>3 DEF CallAgrees, Working, Uninstalling
<1>7. ObjectsAgree'
  <2>1. Tracked' \subseteq {history[latest].chart}
    BY <1>0 DEF MarkUninstalling, IInv, ObjectsAgree, Tracked, Footprint
  <2> QED BY <1>1, <1>2, <1>3, <2>1 DEF MarkUninstalling, ObjectsAgree, Footprint
<1> QED BY <1>4, <1>5, <1>6, <1>7 DEF IInv

LEMMA InvDeleteObjects ==
  ASSUME IInv, DeleteObjects
  PROVE  IInv'
<1>0. call # Idle /\ call.pc = "delete" /\ TypeOK /\ Present /\ Status = "uninstalling"
  BY DEF DeleteObjects, Idle, IInv, CallAgrees
<1>1. call' \in Calls /\ call'.pc = "purge" /\ call'.chart = call.chart
  BY <1>0, GoingOn DEF DeleteObjects, Steps
<1>2. TypeOK'
  BY <1>0, <1>1 DEF DeleteObjects, ownerVars, TypeOK
<1>3. LatestIsHighest' /\ HasPredecessor'
  BY DEF DeleteObjects, IInv, LatestIsHighest, HasPredecessor, Present, Status
<1>4. CallAgrees'
  BY <1>0, <1>1 DEF DeleteObjects, IInv, CallAgrees, Working, Uninstalling, Present, Status
<1>5. Tracked' = {}
  BY <1>0 DEF DeleteObjects, IInv, ObjectsAgree, Tracked, Footprint
<1>6. ObjectsAgree'
  BY <1>1, <1>5 DEF ObjectsAgree
<1> QED BY <1>2, <1>3, <1>4, <1>6 DEF IInv

LEMMA InvPurgeRecord ==
  ASSUME IInv, PurgeRecord
  PROVE  IInv'
<1>0. /\ call # Idle /\ call.pc = "purge" /\ TypeOK /\ Present /\ Status = "uninstalling"
      /\ Tracked = {} /\ latest \in Versions
  BY LatestType DEF PurgeRecord, Idle, IInv, CallAgrees, ObjectsAgree
<1>1. PICK v \in Versions :
        /\ Oldest(v)
        /\ history' = [history EXCEPT ![v] = NoRecord]
        /\ \/ v # latest /\ UNCHANGED <<latest, call>>
           \/ /\ v = latest /\ latest' = 0
              /\ IF Uninstalling THEN Returns ELSE Starts("install", "create")
  BY DEF PurgeRecord
<1>2. Tracked' = {}
  BY <1>0 DEF PurgeRecord, Tracked
<1>3. CASE v # latest /\ UNCHANGED <<latest, call>>
  <2>1. /\ history' \in [Versions -> Records \cup {NoRecord}]
        /\ LatestIsHighest' /\ HasPredecessor'
        /\ history'[latest] = history[latest] /\ Present' /\ Status' = Status
    BY <1>0, <1>1, <1>3, Forget
  <2>2. TypeOK'
    BY <1>0, <1>3, <2>1 DEF PurgeRecord, ownerVars, TypeOK
  <2>3. CallAgrees'
    BY <1>0, <1>3, <2>1 DEF IInv, CallAgrees, Working, Uninstalling
  <2>4. ObjectsAgree'
    BY <1>0, <1>2, <1>3 DEF ObjectsAgree
  <2> QED BY <2>1, <2>2, <2>3, <2>4 DEF IInv
<1>4. CASE /\ v = latest /\ latest' = 0
           /\ IF Uninstalling THEN Returns ELSE Starts("install", "create")
  <2>1. \A w \in Versions : history'[w] = NoRecord
    <3> SUFFICES ASSUME NEW w \in Versions PROVE history'[w] = NoRecord
      OBVIOUS
    <3>1. w < latest => w \in 1 .. latest - 1
      BY <1>0, BoundAssumption DEF Versions
    <3>2. w < latest \/ w = latest \/ w > latest
      BY <1>0, BoundAssumption DEF Versions
    <3>3. history'[w] = IF w = latest THEN NoRecord ELSE history[w]
      BY <1>0, <1>1, <1>4 DEF TypeOK
    <3> QED BY <1>1, <1>4, <3>1, <3>2, <3>3 DEF Oldest, IInv, LatestIsHighest
  <2>2. history' \in [Versions -> Records \cup {NoRecord}] /\ ~ Present'
    BY <1>0, <1>1, <1>4 DEF TypeOK, Present
  <2>3. \/ call' = Idle
        \/ /\ ~ Uninstalling /\ call' \in Calls
           /\ call'.pc = "create" /\ call'.op = "install" /\ call'.chart = call.chart
    BY <1>0, <1>4, StartingOn DEF Returns, Steps, Operations
  <2>4. TypeOK'
    BY <1>0, <1>4, <2>2, <2>3, BoundAssumption DEF PurgeRecord, ownerVars, TypeOK, Calls
  <2>5. LatestIsHighest' /\ HasPredecessor'
    BY <2>1, <2>2 DEF LatestIsHighest, HasPredecessor
  <2>6. CallAgrees'
    BY <1>4, <2>2, <2>3 DEF CallAgrees, Working, Uninstalling, Idle
  <2>7. ObjectsAgree'
    BY <1>2 DEF ObjectsAgree
  <2> QED BY <2>4, <2>5, <2>6, <2>7 DEF IInv
<1> QED BY <1>1, <1>3, <1>4

-----------------------------------------------------------------------------
(* Interruptions.                                                          *)

LEMMA InvCrash ==
  ASSUME IInv, Crash
  PROVE  IInv'
<1>1. call' = Idle /\ call'.pc = "idle" /\ call' \in Calls
  BY DEF Crash, Interrupted, Idle, Calls
<1>2. CallAgrees'
  BY <1>1 DEF CallAgrees, Working
<1> QED BY <1>1, <1>2, OnlyTheCall, BoundAssumption
        DEF Crash, Interrupted, storageVars, IInv, TypeOK

LEMMA InvApplyFails ==
  ASSUME IInv, ApplyFails
  PROVE  IInv'
<1>0. /\ call # Idle /\ TypeOK /\ Present /\ Status = "pending"
      /\ call.op = "rollback" => latest # 1
      /\ latest \in Versions /\ history[latest] # NoRecord
  BY LatestType DEF ApplyFails, Interrupted, Idle, IInv, CallAgrees, Working, LatestIsHighest
<1>1. \A v \in Versions : /\ history'[v] \in Records \cup {NoRecord}
                          /\ history'[v] = NoRecord <=> history[v] = NoRecord
                          /\ history[v] # NoRecord => history'[v].chart = history[v].chart
  <2> SUFFICES ASSUME NEW v \in Versions
               PROVE  /\ history'[v] \in Records \cup {NoRecord}
                      /\ history'[v] = NoRecord <=> history[v] = NoRecord
                      /\ history[v] # NoRecord => history'[v].chart = history[v].chart
    OBVIOUS
  <2> DEFINE failed == [history[v] EXCEPT !.status = "failed"]
             old    == [history[v] EXCEPT !.status = "superseded"]
  <2>1. history[v] # NoRecord => /\ failed \in Records /\ failed.chart = history[v].chart
                                 /\ old \in Records /\ old.chart = history[v].chart
    BY <1>0, RecordType DEF Records, ReleaseStatuses
  <2>2. history'[v] = IF v = latest THEN failed
                      ELSE IF v = latest - 1 /\ call.op = "rollback" THEN old ELSE history[v]
    BY DEF ApplyFails
  <2>3. v = latest - 1 => latest > 1 /\ history[v] # NoRecord
    BY <1>0, BoundAssumption DEF IInv, HasPredecessor, Versions
  <2> HIDE DEF failed, old
  <2> QED BY <1>0, <2>1, <2>2, <2>3, RecordAssumption, RecordType
<1>2. history'[latest].status = "failed" /\ latest' = latest
  <2>1. history'[latest] = [history[latest] EXCEPT !.status = "failed"]
    BY <1>0 DEF ApplyFails
  <2> QED BY <2>1, <1>0, LatestType DEF ApplyFails, Interrupted, Records
<1>3. Present' /\ Status' = "failed"
  BY <1>0, <1>2 DEF Present, Status
<1>4. latest > 1 => latest - 1 \in Versions
  BY <1>0, BoundAssumption DEF Versions
<1>5. call' = Idle /\ call' \in Calls /\ call'.pc = "idle"
  BY DEF ApplyFails, Interrupted, Calls, Idle
<1>6. TypeOK'
  <2>1. history' \in [Versions -> Records \cup {NoRecord}]
    BY <1>1 DEF ApplyFails
  <2> QED BY <1>0, <1>5, <2>1, BoundAssumption DEF ApplyFails, Interrupted, TypeOK
<1>7. LatestIsHighest'
  BY <1>0, <1>1, <1>2 DEF IInv, LatestIsHighest, Present
<1>8. HasPredecessor'
  BY <1>0, <1>1, <1>2, <1>3, <1>4 DEF IInv, HasPredecessor, Present
<1>9. CallAgrees'
  BY <1>5 DEF CallAgrees, Working
<1>10. ObjectsAgree'
  <2>1. Tracked' = Tracked /\ Tracked \subseteq Footprint
    BY DEF ApplyFails, Interrupted, IInv, ObjectsAgree, Tracked
  <2>2. Footprint' = Footprint
    <3>1. history'[latest].chart = history[latest].chart
      BY <1>0, <1>1
    <3>2. latest > 1 => history'[latest - 1].chart = history[latest - 1].chart
      BY <1>0, <1>1, <1>4 DEF IInv, HasPredecessor
    <3> QED BY <1>0, <1>2, <1>3, <3>1, <3>2 DEF Footprint
  <2> QED BY <1>5, <2>1, <2>2 DEF ObjectsAgree
<1> QED BY <1>6, <1>7, <1>8, <1>9, <1>10 DEF IInv

-----------------------------------------------------------------------------
LEMMA InvInit ==
  ASSUME Init
  PROVE  IInv
<1>1. TypeOK
  <2>1. history \in [Versions -> Records \cup {NoRecord}] /\ call \in Calls
    BY DEF Init, Calls
  <2>2. latest \in 0 .. MaxVersion /\ requests \in 0 .. MaxRequests /\ faults \in 0 .. MaxFaults
    BY BoundAssumption DEF Init
  <2>3. todo \in BOOLEAN /\ want \in Charts \cup {NoChart} /\ objects \subseteq Charts
        /\ stray \subseteq Charts
    BY DEF Init
  <2> QED BY <2>1, <2>2, <2>3 DEF TypeOK
<1>2. CallAgrees
  BY DEF Init, CallAgrees, Working, Idle
<1> QED BY <1>1, <1>2 DEF Init, IInv, LatestIsHighest, HasPredecessor, ObjectsAgree, Tracked,
           Footprint, Present, Idle

LEMMA InvNext ==
  ASSUME IInv, [Next]_vars
  PROVE  IInv'
<1>1. CASE UNCHANGED vars
  <2>1. TypeOK' /\ LatestIsHighest' /\ HasPredecessor'
    BY <1>1 DEF vars, IInv, TypeOK, LatestIsHighest, HasPredecessor, Present, Status
  <2>2. CallAgrees' /\ ObjectsAgree'
    BY <1>1 DEF vars, IInv, CallAgrees, ObjectsAgree, Tracked, Footprint, Present, Status,
       Working, Uninstalling
  <2> QED BY <2>1, <2>2 DEF IInv
<1>2. CASE Begin \/ (\E c \in Charts \cup {NoChart} : Request(c))
  BY <1>2, InvBegin, InvRequest
<1>3. CASE ChartManager
  BY <1>3, InvUnlockRelease, InvReadRelease, InvSwitch DEF ChartManager
<1>4. CASE HelmSDK
  BY <1>4, InvPruneHistory, InvCreateRecord, InvApplyObjects, InvRemoveObjects, InvSupersede,
     InvRecordDeployed, InvMarkUninstalling, InvDeleteObjects, InvPurgeRecord DEF HelmSDK
<1>5. CASE Crash \/ ApplyFails
  BY <1>5, InvCrash, InvApplyFails
<1> QED BY <1>1, <1>2, <1>3, <1>4, <1>5 DEF Next

THEOREM Invariance == Spec => []IInv
<1>1. Init => IInv
  BY InvInit
<1>2. IInv /\ [Next]_vars => IInv'
  BY InvNext
<1> QED BY <1>1, <1>2, PTL DEF Spec

(***************************************************************************)
(* Every reachable state is well typed.                                    *)
(***************************************************************************)
THEOREM TypeCorrect == Spec => []TypeOK
BY Invariance, PTL DEF IInv

(***************************************************************************)
(* Whatever was interrupted, and however often, the switch of              *)
(* UpgradeOrInstallChart never meets a status it has no answer to, and its *)
(* rollback always finds the record before the latest one.                 *)
(***************************************************************************)
THEOREM Repairable == Spec => []AlwaysRepairable
<1>1. IInv => AlwaysRepairable
  BY DEF IInv, CallAgrees, AlwaysRepairable, Idle
<1> QED BY <1>1, Invariance, PTL

(***************************************************************************)
(* Every object is named by a record, except what UninstallChart left      *)
(* after a failed upgrade.                                                 *)
(***************************************************************************)
THEOREM NothingForgotten == Spec => []NothingUntracked
<1>1. IInv => NothingUntracked
  <2> SUFFICES ASSUME IInv, NEW c \in objects \ stray
               PROVE  \E v \in Versions : history[v] # NoRecord /\ history[v].chart = c
    BY DEF NothingUntracked
  <2>1. c \in Footprint /\ Present
    BY DEF IInv, ObjectsAgree, Tracked, Footprint
  <2>2. latest \in Versions /\ history[latest] # NoRecord
    BY <2>1, LatestType DEF IInv, LatestIsHighest
  <2>3. CASE c = history[latest].chart
    BY <2>2, <2>3
  <2>4. CASE c # history[latest].chart
    <3>1. Status \in {"pending", "failed"} /\ latest > 1 /\ c = history[latest - 1].chart
      BY <2>1, <2>4 DEF Footprint
    <3>2. latest - 1 \in Versions /\ history[latest - 1] # NoRecord
      BY <2>1, <2>2, <3>1, BoundAssumption DEF Versions, IInv, HasPredecessor
    <3> QED BY <3>1, <3>2
  <2> QED BY <2>3, <2>4
<1> QED BY <1>1, Invariance, PTL

-----------------------------------------------------------------------------
(* The contract.                                                           *)

Stutters == UNCHANGED Contract!absVars
Works    == Contract!Work
Succeeds == Contract!Succeed

\* A call in progress has a target, and the record decides the content.
LEMMA InProgress ==
  ASSUME IInv, call # Idle
  PROVE  Active = call.chart /\ Active # Nobody /\ Active \in Charts \cup {NoChart}
BY CallType, ChartAssumption DEF IInv, Active

\* While the call goes on, the step works on the content or leaves it alone.
LEMMA StaysActive ==
  ASSUME IInv, call # Idle,
         UNCHANGED call \/ (\E pc \in Steps : GoesTo(pc))
           \/ (\E op \in Operations, pc \in Steps : Starts(op, pc))
  PROVE  Active' = Active
<1>1. CASE UNCHANGED call
  BY <1>1 DEF Active
<1>2. CASE \E pc \in Steps : GoesTo(pc)
  BY <1>2, GoingOn DEF Active, IInv
<1>3. CASE \E op \in Operations, pc \in Steps : Starts(op, pc)
  BY <1>3, StartingOn DEF Active, IInv
<1> QED BY <1>1, <1>2, <1>3

LEMMA MapsQuietly ==
  ASSUME IInv, call # Idle, Active' = Active, Content' = Content, UNCHANGED <<want, todo>>
  PROVE  Stutters
BY DEF Stutters, Contract!absVars

LEMMA MapsToWork ==
  ASSUME IInv, call # Idle, Active' = Active, UNCHANGED <<want, todo>>,
         Content' \in IF Uninstalling THEN {Content, Partial}
                      ELSE Charts \cup {NoChart, Partial}
  PROVE  Works
BY InProgress DEF Works, Contract!Work, Contract!Contents, Uninstalling

LEMMA MapsToSuccess ==
  ASSUME IInv, call # Idle, Returns, UNCHANGED <<want, todo>>, Content' = call.chart
  PROVE  Succeeds
BY InProgress DEF Succeeds, Contract!Succeed, Returns, Active

LEMMA RefinesManager ==
  ASSUME IInv, ChartManager
  PROVE  Stutters \/ Succeeds
<1>0. call # Idle /\ UNCHANGED <<want, todo>>
  BY DEF ChartManager, UnlockRelease, ReadRelease, Switch, ownerVars, Idle
<1>1. CASE UnlockRelease
  <2>1. Active' = Active
    BY <1>0, <1>1, StaysActive DEF UnlockRelease, Steps
  <2>2. /\ Present /\ Status = "pending"
        /\ history' = [history EXCEPT ![latest].status = "failed"] /\ latest' = latest
    BY <1>1 DEF UnlockRelease, Unlocked, Present, Status
  <2>3. history'[latest].status = "failed"
    BY <2>2, Restatus DEF ReleaseStatuses
  <2>4. Content' = Content
    BY <2>2, <2>3 DEF Content, Present, Status
  <2> QED BY <1>0, <2>1, <2>4, MapsQuietly
<1>2. CASE ReadRelease
  <2>1. Content' = Content
    BY <1>2 DEF ReadRelease, Content
  <2>2. CASE Uninstalling /\ latest = 0 /\ Returns
    BY <1>0, <2>1, <2>2, MapsToSuccess DEF Content, Uninstalling
  <2>3. CASE GoesTo("mark") \/ GoesTo("switch")
    BY <1>0, <2>1, <2>3, StaysActive, MapsQuietly DEF Steps
  <2> QED BY <1>2, <2>2, <2>3 DEF ReadRelease
<1>3. CASE Switch
  <2>1. Content' = Content
    BY <1>3 DEF Switch, Content
  <2>2. Active' = Active
    <3>1. \/ \E pc \in Steps : GoesTo(pc)
          \/ \E op \in Operations, pc \in Steps : Starts(op, pc)
      BY <1>3 DEF Switch, Remedy, Steps, Operations
    <3> QED BY <1>0, <3>1, StaysActive
  <2> QED BY <1>0, <2>1, <2>2, MapsQuietly
<1> QED BY <1>1, <1>2, <1>3 DEF ChartManager

\* The operations that leave the latest record as it is.
LEMMA RefinesObjects ==
  ASSUME IInv, PruneHistory \/ ApplyObjects \/ RemoveObjects \/ Supersede \/ DeleteObjects
  PROVE  Stutters
<1>0. /\ call # Idle /\ UNCHANGED <<want, todo, latest>> /\ Present /\ latest \in Versions
      /\ call.pc = "prune" => Status = "deployed"
      /\ call.pc = "supersede" => Status = "pending"
  <2>1. call # Idle /\ UNCHANGED <<want, todo, latest>>
        /\ call.pc \in {"prune", "apply", "remove", "supersede", "delete"}
    BY DEF PruneHistory, ApplyObjects, RemoveObjects, Supersede, DeleteObjects, ownerVars, Idle
  <2>2. /\ Present
        /\ call.pc = "prune" => Status = "deployed"
        /\ call.pc = "supersede" => Status = "pending"
    BY <2>1 DEF IInv, CallAgrees, Working
  <2> QED BY <2>1, <2>2, LatestType
<1>1. history'[latest] = history[latest]
  BY <1>0 DEF PruneHistory, ApplyObjects, RemoveObjects, Supersede, DeleteObjects, IInv, TypeOK, Status
<1>2. Content' = Content
  BY <1>0, <1>1 DEF Content
<1>3. UNCHANGED call \/ \E pc \in Steps : GoesTo(pc)
  BY DEF PruneHistory, ApplyObjects, RemoveObjects, Supersede, DeleteObjects, Steps
<1> QED BY <1>0, <1>2, <1>3, StaysActive, MapsQuietly

\* The operations that write the latest record.
LEMMA RefinesCreateRecord ==
  ASSUME IInv, CreateRecord
  PROVE  Works
<1>0. call # Idle /\ call.pc = "create" /\ UNCHANGED <<want, todo>> /\ ~ Uninstalling
      /\ latest \in Nat /\ latest < MaxVersion
  BY BoundAssumption DEF CreateRecord, Idle, IInv, CallAgrees, ownerVars, TypeOK
<1>1. Target \in Charts /\ HasTarget
  BY <1>0, TargetType
<1> DEFINE new == [status |-> "pending", chart |-> Target]
<1>2. history' = [history EXCEPT ![latest + 1] = new] /\ latest' = latest + 1 /\ GoesTo("apply")
  BY <1>0, <1>1 DEF CreateRecord
<1>3. new.status = "pending"
  OBVIOUS
<1> HIDE DEF new
<1>4. latest' \in Versions /\ latest' # 0
  BY <1>0, <1>2, BoundAssumption DEF Versions
<1>5. history'[latest'] = new
  BY <1>2, <1>4 DEF IInv, TypeOK
<1>6. Content' = Partial
  BY <1>3, <1>4, <1>5 DEF Content
<1> QED BY <1>0, <1>2, <1>6, StaysActive, MapsToWork DEF Steps

LEMMA RefinesRecordDeployed ==
  ASSUME IInv, RecordDeployed
  PROVE  Works \/ Succeeds
<1>0. /\ call # Idle /\ UNCHANGED <<want, todo, latest>> /\ ~ Uninstalling /\ Present
      /\ call.op # "rollback" => history[latest].chart = call.chart
  BY DEF RecordDeployed, Idle, IInv, CallAgrees, Working, ownerVars
<1>1. history'[latest].status = "deployed" /\ history'[latest].chart = history[latest].chart
  BY <1>0, Restatus DEF RecordDeployed, ReleaseStatuses
<1>2. Content' = history[latest].chart /\ history[latest].chart \in Charts
  BY <1>0, <1>1, LatestType DEF Content, Present
<1>3. CASE call.op = "rollback"
  <2>1. Starts("upgrade", "prune")
    BY <1>3 DEF RecordDeployed, NextOperation
  <2> QED BY <1>0, <1>2, <2>1, StaysActive, MapsToWork DEF Steps, Operations
<1>4. CASE call.op # "rollback"
  BY <1>0, <1>2, <1>4, MapsToSuccess DEF RecordDeployed, NextOperation
<1> QED BY <1>3, <1>4

LEMMA RefinesMarkUninstalling ==
  ASSUME IInv, MarkUninstalling
  PROVE  Works
<1>0. call # Idle /\ UNCHANGED <<want, todo, latest>> /\ Present
  BY DEF MarkUninstalling, Idle, IInv, CallAgrees, ownerVars
<1>1. history'[latest].status = "uninstalling"
  BY <1>0, Restatus DEF MarkUninstalling, ReleaseStatuses
<1>2. Content' = Partial
  BY <1>0, <1>1 DEF Content, Present
<1> QED BY <1>0, <1>2, StaysActive, MapsToWork DEF MarkUninstalling, Steps

LEMMA RefinesPurgeRecord ==
  ASSUME IInv, PurgeRecord
  PROVE  Stutters \/ Works \/ Succeeds
<1>0. call # Idle /\ UNCHANGED <<want, todo>> /\ Present /\ latest \in Versions
  BY LatestType DEF PurgeRecord, Idle, IInv, CallAgrees, ownerVars
<1>1. PICK v \in Versions :
        /\ history' = [history EXCEPT ![v] = NoRecord]
        /\ \/ v # latest /\ UNCHANGED <<latest, call>>
           \/ /\ v = latest /\ latest' = 0
              /\ IF Uninstalling THEN Returns ELSE Starts("install", "create")
  BY DEF PurgeRecord
<1>2. CASE v # latest /\ UNCHANGED <<latest, call>>
  <2>1. Content' = Content
    BY <1>0, <1>1, <1>2 DEF Content, IInv, TypeOK
  <2> QED BY <1>0, <1>2, <2>1, StaysActive, MapsQuietly
<1>3. CASE latest' = 0 /\ Uninstalling /\ Returns
  BY <1>0, <1>3, MapsToSuccess DEF Content, Uninstalling
<1>4. CASE latest' = 0 /\ ~ Uninstalling /\ Starts("install", "create")
  BY <1>0, <1>4, StaysActive, MapsToWork DEF Content, Steps, Operations
<1> QED BY <1>1, <1>2, <1>3, <1>4

LEMMA RefinesInterruption ==
  ASSUME IInv, Crash \/ ApplyFails
  PROVE  Contract!Fail
<1>0. call # Idle /\ call' = Idle /\ todo' = TRUE /\ UNCHANGED <<want, latest>>
  BY DEF Crash, ApplyFails, Interrupted
<1>1. Active # Nobody /\ Active' = Nobody
  BY <1>0, InProgress DEF Active
<1>2. CASE Crash
  BY <1>0, <1>1, <1>2 DEF Crash, Content, Contract!Fail
<1>3. CASE ApplyFails
  <2>1. Present /\ latest \in Versions /\ history[latest] \in Records
    BY <1>3, LatestType DEF ApplyFails, IInv, CallAgrees, Working, Idle
  <2>2. history'[latest] = [history[latest] EXCEPT !.status = "failed"]
    BY <1>3, <2>1 DEF ApplyFails
  <2>3. history'[latest].status = "failed"
    BY <2>1, <2>2 DEF Records
  <2>4. Content' = Partial
    BY <1>0, <2>1, <2>3 DEF Content, Present
  <2> QED BY <1>0, <1>1, <2>4 DEF Contract!Fail
<1> QED BY <1>2, <1>3

LEMMA RefinesOwner ==
  ASSUME IInv, Begin \/ \E c \in Charts \cup {NoChart} : Request(c)
  PROVE  Contract!AbsNext
<1>1. CASE Begin
  <2>1. call' = [pc |-> "read", chart |-> want, op |-> "none"]
    BY <1>1 DEF Begin
  <2>2. call' # Idle /\ call'.chart = want
    BY <2>1 DEF Idle
  <2>3. Active = Nobody /\ Active' = want
    BY <1>1, <2>2 DEF Active, Begin
  <2> QED BY <1>1, <2>3 DEF Begin, Content, Contract!Call, Contract!AbsNext
<1>2. ASSUME NEW c \in Charts \cup {NoChart}, Request(c)
      PROVE  Contract!AbsNext
  BY <1>2 DEF Request, Content, Active, Contract!Ask, Contract!Targets, Contract!AbsNext
<1> QED BY <1>1, <1>2

LEMMA RefinesNext ==
  ASSUME IInv, [Next]_vars
  PROVE  [Contract!AbsNext]_(Contract!absVars)
<1>1. CASE UNCHANGED vars
  BY <1>1 DEF vars, Contract!absVars, Content, Active
<1>2. CASE Begin \/ \E c \in Charts \cup {NoChart} : Request(c)
  BY <1>2, RefinesOwner
<1>3. CASE ChartManager
  BY <1>3, RefinesManager DEF Stutters, Succeeds, Contract!AbsNext
<1>4. CASE HelmSDK
  BY <1>4, RefinesObjects, RefinesCreateRecord, RefinesRecordDeployed, RefinesMarkUninstalling,
     RefinesPurgeRecord DEF HelmSDK, Stutters, Works, Succeeds, Contract!AbsNext
<1>5. CASE Crash \/ ApplyFails
  BY <1>5, RefinesInterruption DEF Contract!AbsNext
<1> QED BY <1>1, <1>2, <1>3, <1>4, <1>5 DEF Next

(***************************************************************************)
(* The chart manager keeps the promise that the controllers rely on: a     *)
(* call that returns leaves what was asked for, one that does not leaves   *)
(* something the next call can repair, and a removal installs nothing.     *)
(***************************************************************************)
THEOREM ContractHolds == Spec => ImplementsContract
<1>1. Init => Contract!AbsInit
  BY DEF Init, Contract!AbsInit, Content, Active
<1>2. IInv /\ [Next]_vars => [Contract!AbsNext]_(Contract!absVars)
  BY RefinesNext
<1> QED BY <1>1, <1>2, Invariance, PTL DEF Spec, ImplementsContract, Contract!AbsSpec
=============================================================================
