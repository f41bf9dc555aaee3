---------------------------- MODULE HelmRelease ----------------------------
(***************************************************************************)
(* The chart manager (pkg/helm) and the Helm operations it drives, for one *)
(* release.                                                                *)
(*                                                                         *)
(* Helm keeps a release as numbered records in Secrets.  An operation      *)
(* writes several records and several objects; it may fail or the operator *)
(* may die between any two writes.  UpgradeOrInstallChart starts from the  *)
(* latest record: it unlocks a pending one, then upgrades, rolls back,     *)
(* uninstalls or installs according to its status.                         *)
(*                                                                         *)
(* Install, Upgrade, Rollback and Uninstall are actions of the Helm SDK;   *)
(* they are modelled as the chart manager parameterises them.  A chart     *)
(* stands for the objects that it alone contains.                          *)
(***************************************************************************)
EXTENDS Naturals

CONSTANTS
  Charts, NoChart, Partial, Nobody,   \* see ChartRelease
  NoRecord,                           \* a version that Helm's storage does not hold
  MaxVersion, MaxRequests, MaxFaults  \* bounds

ASSUME ChartAssumption ==
  /\ NoChart \notin Charts /\ Partial \notin Charts /\ Nobody \notin Charts \cup {NoChart}
  /\ Partial # NoChart
ASSUME BoundAssumption == MaxVersion \in Nat /\ MaxRequests \in Nat /\ MaxFaults \in Nat

\* The code asks only IsPending() of the three pending statuses.
ReleaseStatuses == {"pending", "deployed", "superseded", "failed", "uninstalling"}
Records  == [status: ReleaseStatuses, chart: Charts]
Versions == 1 .. MaxVersion

ASSUME RecordAssumption == NoRecord \notin Records

VARIABLES
  history,   \* the records of the release, by version
  latest,    \* the highest version in storage, 0 if there is none
  objects,   \* the objects on the cluster, named by the chart they belong to
  want,      \* what the owner asks for: a chart, or to be uninstalled
  todo,      \* TRUE: the owner's key is in the work queue
  call,      \* the call in progress and the Helm operation it has reached
  stray,     \* ghost: what UninstallChart did not find in the latest manifest
  requests, faults

vars == <<history, latest, objects, want, todo, call, stray, requests, faults>>

Idle == [pc |-> "idle"]

Init ==
  /\ history = [v \in Versions |-> NoRecord] /\ latest = 0
  /\ objects = {} /\ stray = {}
  /\ want = NoChart /\ todo = FALSE
  /\ call = Idle
  /\ requests = 0 /\ faults = 0

-----------------------------------------------------------------------------
(* The owner of the release, reconciled by one worker at a time.           *)

\* The owner's spec changes, it is deleted, or it is reconciled once more.
Request(c) ==
  /\ requests < MaxRequests
  /\ requests' = requests + 1
  /\ want' = c /\ todo' = TRUE
  /\ UNCHANGED <<history, latest, objects, call, stray, faults>>

\* UpgradeOrInstallChart(want) or UninstallChart.
Begin ==
  /\ call = Idle /\ todo
  /\ call' = [pc |-> "read", chart |-> want, op |-> "none"]
  /\ todo' = FALSE
  /\ UNCHANGED <<history, latest, objects, want, stray, requests, faults>>

Uninstalling == call.chart = NoChart

ownerVars == <<want, todo, requests, faults>>
GoesTo(pc)     == call' = [call EXCEPT !.pc = pc]
Starts(op, pc) == call' = [call EXCEPT !.op = op, !.pc = pc]
Returns        == call' = Idle

-----------------------------------------------------------------------------
(* The chart manager.                                                      *)

BugStaysLocked(record)   == record
BugStatusUnknown(record) == [record EXCEPT !.status = "unknown"]
Unlocked(record) == [record EXCEPT !.status = "failed"]

\* A pending record is what an interrupted operation left behind.
UnlockRelease ==
  /\ call.pc = "read" /\ ~ Uninstalling
  /\ latest # 0 /\ history[latest].status = "pending"
  /\ history' = [history EXCEPT ![latest] = Unlocked(@)]
  /\ GoesTo("switch")
  /\ UNCHANGED <<latest, objects, stray, ownerVars>>

ReadRelease ==
  /\ call.pc = "read"
  /\ \/ Uninstalling /\ latest = 0 /\ Returns
     \/ Uninstalling /\ latest # 0 /\ GoesTo("mark")
     \/ /\ ~ Uninstalling
        /\ latest # 0 => history[latest].status # "pending"
        /\ GoesTo("switch")
  /\ UNCHANGED <<history, latest, objects, stray, ownerVars>>

\* The switch over the status of the latest record.
BugRollsBackAlways(status) ==
  CASE status = "deployed"     -> Starts("upgrade", "prune")
    [] status = "failed"       -> Starts("rollback", "create")
    [] status = "uninstalling" -> GoesTo("mark")
    [] OTHER                   -> GoesTo("unexpected")
BugReinstallsAlways(status) ==
  CASE status = "deployed" -> Starts("upgrade", "prune")
    [] OTHER               -> GoesTo("mark")
Remedy(status) ==
  CASE status = "deployed"                -> Starts("upgrade", "prune")
    [] status = "failed" /\ latest > 1    -> Starts("rollback", "create")
    [] \/ status = "uninstalling"
       \/ status = "failed" /\ latest = 1 -> GoesTo("mark")
    [] OTHER                              -> GoesTo("unexpected")

Switch ==
  /\ call.pc = "switch"
  /\ IF latest = 0 THEN Starts("install", "create") ELSE Remedy(history[latest].status)
  /\ UNCHANGED <<history, latest, objects, stray, ownerVars>>

-----------------------------------------------------------------------------
(* Install, upgrade and rollback: a pending record, the objects of the new *)
(* manifest, the removal of those only the old one names, the records.     *)

Oldest(v) == history[v] # NoRecord /\ \A w \in 1 .. v - 1 : history[w] = NoRecord

\* MaxHistory = 1: only the record that is deployed outlives an upgrade.
PruneHistory ==
  /\ call.pc = "prune"
  /\ \/ \E v \in Versions :
          /\ Oldest(v) /\ history[v].status # "deployed"
          /\ history' = [history EXCEPT ![v] = NoRecord]
          /\ UNCHANGED call
     \/ /\ \A v \in Versions : Oldest(v) => history[v].status = "deployed"
        /\ GoesTo("create")
        /\ UNCHANGED history
  /\ UNCHANGED <<latest, objects, stray, ownerVars>>

HasTarget == call.op = "rollback" => latest > 1 /\ history[latest - 1] # NoRecord
Target    == IF call.op = "rollback" THEN history[latest - 1].chart ELSE call.chart

CreateRecord ==
  /\ call.pc = "create"
  /\ latest < MaxVersion
  /\ \/ /\ HasTarget
        /\ history' = [history EXCEPT ![latest + 1] = [status |-> "pending", chart |-> Target]]
        /\ latest' = latest + 1
        /\ GoesTo("apply")
     \/ ~ HasTarget /\ GoesTo("unexpected") /\ UNCHANGED <<history, latest>>
  /\ UNCHANGED <<objects, stray, ownerVars>>

ApplyObjects ==
  /\ call.pc = "apply"
  /\ objects' = objects \cup {history[latest].chart}
  /\ GoesTo(IF call.op = "install" THEN "record" ELSE "remove")
  /\ UNCHANGED <<history, latest, stray, ownerVars>>

RemoveObjects ==
  /\ call.pc = "remove"
  /\ objects' = objects \ ({history[latest - 1].chart} \ {history[latest].chart})
  /\ GoesTo("supersede")
  /\ UNCHANGED <<history, latest, stray, ownerVars>>

Supersede ==
  /\ call.pc = "supersede"
  /\ history' = [v \in Versions |->
                   IF history[v] # NoRecord /\ history[v].status = "deployed"
                   THEN [history[v] EXCEPT !.status = "superseded"] ELSE history[v]]
  /\ GoesTo("record")
  /\ UNCHANGED <<latest, objects, stray, ownerVars>>

\* A rollback is only the way to a record that can be upgraded.
BugRollbackIsEnough == Returns
NextOperation == IF call.op = "rollback" THEN Starts("upgrade", "prune") ELSE Returns

RecordDeployed ==
  /\ call.pc = "record"
  /\ history' = [history EXCEPT ![latest].status = "deployed"]
  /\ NextOperation
  /\ UNCHANGED <<latest, objects, stray, ownerVars>>

-----------------------------------------------------------------------------
(* Uninstall: the latest record is marked, the objects of its manifest are *)
(* deleted, and the records are purged, oldest first.                      *)

MarkUninstalling ==
  /\ call.pc = "mark"
  /\ history' = [history EXCEPT ![latest].status = "uninstalling"]
  /\ stray' = IF Uninstalling THEN stray \cup (objects \ {history[latest].chart}) ELSE stray
  /\ GoesTo("delete")
  /\ UNCHANGED <<latest, objects, ownerVars>>

DeleteObjects ==
  /\ call.pc = "delete"
  /\ objects' = objects \ {history[latest].chart}
  /\ GoesTo("purge")
  /\ UNCHANGED <<history, latest, stray, ownerVars>>

PurgeRecord ==
  /\ call.pc = "purge"
  /\ \E v \in Versions :
       /\ Oldest(v)
       /\ history' = [history EXCEPT ![v] = NoRecord]
       /\ \/ v # latest /\ UNCHANGED <<latest, call>>
          \/ /\ v = latest
             /\ latest' = 0
             /\ IF Uninstalling THEN Returns ELSE Starts("install", "create")
  /\ UNCHANGED <<objects, stray, ownerVars>>

-----------------------------------------------------------------------------
(* Interruptions.                                                          *)

Interrupted ==
  /\ call # Idle /\ call.pc # "unexpected"
  /\ faults < MaxFaults
  /\ faults' = faults + 1
  /\ call' = Idle /\ todo' = TRUE
  /\ UNCHANGED <<latest, objects, want, stray, requests>>

\* The operator dies, and reconciles the owner again once restarted; or a
\* call to the API server fails and Helm returns the error without a record.
Crash == Interrupted /\ UNCHANGED history

\* Applying the manifest fails; Helm records that and the call returns it.
ApplyFails ==
  /\ call.pc \in {"apply", "remove"}
  /\ Interrupted
  /\ history' = [v \in Versions |->
       IF v = latest THEN [history[v] EXCEPT !.status = "failed"]
       ELSE IF v = latest - 1 /\ call.op = "rollback"
            THEN [history[v] EXCEPT !.status = "superseded"] ELSE history[v]]

-----------------------------------------------------------------------------
ChartManager == UnlockRelease \/ ReadRelease \/ Switch

HelmSDK ==
  \/ PruneHistory \/ CreateRecord \/ ApplyObjects \/ RemoveObjects
  \/ Supersede \/ RecordDeployed
  \/ MarkUninstalling \/ DeleteObjects \/ PurgeRecord

Next ==
  \/ \E c \in Charts \cup {NoChart} : Request(c)
  \/ Begin \/ ChartManager \/ HelmSDK \/ Crash \/ ApplyFails

Spec == Init /\ [][Next]_vars

\* A worker takes the key and finishes the call, unless it is interrupted.
FairSpec == Spec /\ WF_vars(Begin \/ ChartManager \/ HelmSDK)

-----------------------------------------------------------------------------
(* Properties.                                                             *)

Steps == {"read", "switch", "unexpected", "prune", "create", "apply", "remove", "supersede",
          "record", "mark", "delete", "purge"}
Operations == {"none", "install", "upgrade", "rollback"}
Calls == {Idle} \cup [pc: Steps, chart: Charts \cup {NoChart}, op: Operations]

TypeOK ==
  /\ history \in [Versions -> Records \cup {NoRecord}]
  /\ latest \in 0 .. MaxVersion
  /\ objects \subseteq Charts /\ stray \subseteq Charts
  /\ want \in Charts \cup {NoChart} /\ todo \in BOOLEAN
  /\ call \in Calls
  /\ requests \in 0 .. MaxRequests /\ faults \in 0 .. MaxFaults

(***************************************************************************)
(* The chart manager can always repair what an interruption left: the      *)
(* latest record never has a status that the switch answers with an error, *)
(* and a rollback always finds the record before it, although every        *)
(* upgrade throws away all but the deployed one.  Otherwise every later    *)
(* reconcile would return the same error.                                  *)
(***************************************************************************)
AlwaysRepairable == call.pc # "unexpected"

(***************************************************************************)
(* No object is left behind: each one belongs to a chart that a record     *)
(* still names, so that a later upgrade, rollback or uninstall removes it. *)
(* The exception is what UninstallChart leaves after a failed upgrade: it  *)
(* deletes the objects of the latest manifest only.                        *)
(***************************************************************************)
NothingUntracked ==
  \A c \in objects \ stray : \E v \in Versions : history[v] # NoRecord /\ history[v].chart = c

(***************************************************************************)
(* However often calls fail or the operator dies, the release in the end   *)
(* is the one that was asked for last, with its objects and no others.     *)
(***************************************************************************)
Delivered ==
  /\ IF want = NoChart
     THEN latest = 0
     ELSE latest # 0 /\ history[latest] = [status |-> "deployed", chart |-> want]
  /\ objects \ stray \subseteq {want} /\ {want} \ {NoChart} \subseteq objects

EventuallyDelivered == <>[]Delivered

(***************************************************************************)
(* The chart manager implements the contract of ChartRelease.              *)
(***************************************************************************)
Content ==
  IF latest = 0 THEN NoChart
  ELSE IF history[latest].status = "deployed" THEN history[latest].chart ELSE Partial

Active == IF call = Idle THEN Nobody ELSE call.chart

Contract == INSTANCE ChartRelease WITH content <- Content, active <- Active

ImplementsContract == Contract!AbsSpec
=============================================================================
