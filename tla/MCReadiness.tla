---------------------------- MODULE MCReadiness ----------------------------
(***************************************************************************)
(* Readiness on three kinds of clusters, each with a budget of its own:    *)
(*   - node components of one kind, without a control plane;               *)
(*   - a revision by itself, and the IstioCNI that it may depend on;       *)
(*   - an Istio and its revision, without node components.                 *)
(***************************************************************************)
EXTENDS Readiness

CONSTANTS NodeBudget, RevisionBudget, IstioBudget

NoRevision  == istio = None /\ rev = None
RevisionOnly == istio = None /\ rev # None

MCInit ==
  /\ Init
  /\ NoRevision => (~ remote /\ ~ needsCNI)
  /\ (istio # None) => ~ needsCNI

\* Which node components the cluster may have.
Admitted(k) ==
  IF NoRevision THEN \A j \in Kinds \ {k} : node[j] = None
  ELSE RevisionOnly /\ k = "IstioCNI"

\* The ZTunnel controller differs from that of the IstioCNI in names only, so it
\* need not be disturbed as often.
Budget ==
  IF NoRevision THEN IF node'["ZTunnel"] = None THEN NodeBudget ELSE NodeBudget - 1
  ELSE IF RevisionOnly THEN RevisionBudget
  ELSE IF remote THEN 0 ELSE IstioBudget

MCNext ==
  /\ Next
  /\ spent' <= Budget
  /\ \A k \in Kinds : Admitted(k) \/ node'[k] = None

MCSpec == MCInit /\ [][MCNext]_vars /\ Fairness
=============================================================================
