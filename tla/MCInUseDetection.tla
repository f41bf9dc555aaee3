-------------------------- MODULE MCInUseDetection --------------------------
(***************************************************************************)
(* InUseDetection with one workload namespace; "Shapes" selects the pods.  *)
(***************************************************************************)
EXTENDS InUseDetection

CONSTANT Shapes   \* which pods there are

Waiting == {s \in AllShapes : s.injectedBy = NoRev}

\* Labels only matter through GetReferencedRevisionFromPod: two ways of asking for
\* no revision, one way of asking for each, and with them every annotation.
Representative ==
  {s \in AllShapes :
     \/ s.rev = NoRev /\ s.inject \in {"unset", "true"}
     \/ s.rev \notin {NoRev, Default} /\ s.inject \in {"unset", "false"}}

MCPodShapes == [representative |-> Representative, waiting |-> Waiting][Shapes]

\* The control planes live in a namespace of their own.
MCInstalledIn == [r \in Revs |-> Absent]
=============================================================================
