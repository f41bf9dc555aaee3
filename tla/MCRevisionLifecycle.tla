------------------------ MODULE MCRevisionLifecycle ------------------------
(***************************************************************************)
(* RevisionLifecycle on small instances.  The bounds say how many changes  *)
(* users make, how often the operator dies and how many API calls fail,    *)
(* Total how many of all these there are together, and MaxBehind and       *)
(* Effort how far the caches may lag.                                      *)
(***************************************************************************)
EXTENDS RevisionLifecycle, FiniteSetsExt

CONSTANTS Specs, Creates, Deletes, Uses, Events, Crashes, Faults, Total,
          MaxBehind, Effort

MCBound == [spec |-> Specs, istio |-> Creates, delete |-> Deletes, use |-> Uses,
            event |-> Events, crash |-> Crashes, fault |-> Faults]

Disturbed == MapThenSumSet(LAMBDA kind : spent[kind], Disturbances)

\* How far the caches are behind; the Istio counts double.
Behind ==
  Cardinality({n \in RevNames : "cache" \notin fresh[n]}) + IF cIstio = istio THEN 0 ELSE 2

\* While caches are behind, something other than a delivery (or a crash) may
\* happen only where the instance has room for it.  A change of the spec counts
\* more than others: it brings a second revision into play.
LagAllowed ==
  /\ Behind <= MaxBehind
  /\ Disturbed + 2 * spent["spec"] + Behind <= Effort

\* Changes of the spec and events that change nothing are explored apart.
Apart == spent["spec"] = 0 \/ spent["event"] = 0

MCNext ==
  /\ Next
  /\ Disturbed' <= Total
  /\ Apart'
  /\ Behind = 0 \/ Informers \/ Crash \/ LagAllowed'

MCSpec == Init /\ [][MCNext]_vars /\ Fairness
=============================================================================
