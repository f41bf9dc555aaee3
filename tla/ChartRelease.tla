---------------------------- MODULE ChartRelease ----------------------------
(***************************************************************************)
(* What the controllers rely on when they call the chart manager: a call   *)
(* that returns without an error leaves exactly what was asked for, a call *)
(* that fails, or that the operator does not survive, leaves something     *)
(* that the next call repairs, and a removal never installs anything.      *)
(* RevisionLifecycle keeps one Boolean per release on the strength of it.  *)
(***************************************************************************)
CONSTANTS
  Charts,    \* a chart with the values it is rendered with
  NoChart,   \* nothing is installed, or is to be
  Partial,   \* a release that is not completely installed
  Nobody     \* no call is in progress

VARIABLES
  content,   \* what the release holds
  want,      \* what the owner of the release asks for
  todo,      \* TRUE: the owner's key is in the work queue
  active     \* what the call in progress is to bring about

absVars == <<content, want, todo, active>>

Targets  == Charts \cup {NoChart}
Contents == Charts \cup {NoChart, Partial}

AbsInit == content = NoChart /\ want = NoChart /\ todo = FALSE /\ active = Nobody

Ask(c) == want' = c /\ todo' = TRUE /\ UNCHANGED <<content, active>>

Call ==
  /\ active = Nobody /\ todo
  /\ active' = want /\ todo' = FALSE
  /\ UNCHANGED <<content, want>>

Work ==
  /\ active # Nobody
  /\ content' \in IF active = NoChart THEN {content, Partial} ELSE Contents
  /\ UNCHANGED <<want, todo, active>>

Succeed ==
  /\ active # Nobody
  /\ content' = active /\ active' = Nobody
  /\ UNCHANGED <<want, todo>>

Fail ==
  /\ active # Nobody
  /\ active' = Nobody /\ todo' = TRUE
  /\ content' \in {content, Partial}
  /\ UNCHANGED want

AbsNext == (\E c \in Targets : Ask(c)) \/ Call \/ Work \/ Succeed \/ Fail

AbsSpec == AbsInit /\ [][AbsNext]_absVars
=============================================================================
