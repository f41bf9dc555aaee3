-------------------------- MODULE FinalizedRelease --------------------------
(***************************************************************************)
(* What StandardReconciler promises of an object that stands for a Helm    *)
(* release, whatever the controller around it installs and reports: the    *)
(* finalizer is on the object before anything is installed for it, stays   *)
(* until nothing is, and the reconciles that begin once the operator has   *)
(* noticed that the object is to be deleted only ever uninstall.           *)
(*                                                                         *)
(* Objects are independent of each other: one step of a controller or of   *)
(* the API server may be a step of several.                                *)
(***************************************************************************)
CONSTANT Names   \* of the objects

VARIABLES
  stage,      \* how far each object is in its life
  installed   \* which objects have something installed

\* An object is "Absent", "New" (without the finalizer), "Guarded" (with it),
\* "Doomed" (to be deleted, which the operator has not noticed) or "Leaving".

FinInit ==
  /\ stage = [n \in Names |-> "Absent"]
  /\ installed = [n \in Names |-> FALSE]

Becomes(n, s) == stage'[n] = s /\ installed'[n] = installed[n]

Create(n)       == stage[n] = "Absent" /\ Becomes(n, "New")
AddFinalizer(n) == stage[n] = "New" /\ Becomes(n, "Guarded")

\* The API server drops an object without finalizers, and marks another one.
Delete(n) ==
  \/ stage[n] = "New" /\ Becomes(n, "Absent")
  \/ stage[n] = "Guarded" /\ Becomes(n, "Doomed")

Notice(n) == stage[n] = "Doomed" /\ Becomes(n, "Leaving")

\* A reconcile that fails may leave something installed or nothing.
Reconcile(n) ==
  /\ stage[n] \in {"Guarded", "Doomed"} /\ stage'[n] = stage[n]
  /\ installed'[n] \in BOOLEAN

Finalize(n) ==
  /\ stage[n] = "Leaving" /\ stage'[n] = stage[n]
  /\ installed'[n] = FALSE

RemoveFinalizer(n) ==
  /\ stage[n] = "Leaving" /\ ~ installed[n]
  /\ Becomes(n, "Absent")

Stays(n) == Becomes(n, stage[n])

Step(n) ==
  \/ Create(n) \/ AddFinalizer(n) \/ Delete(n) \/ Notice(n)
  \/ Reconcile(n) \/ Finalize(n) \/ RemoveFinalizer(n)

FinNext == \A n \in Names : Stays(n) \/ Step(n)

FinSpec == FinInit /\ [][FinNext]_<<stage, installed>>
=============================================================================
