---------------------------- MODULE MCSharedName ----------------------------
(***************************************************************************)
(* Instances of SharedName.  One revision is in the namespace n1, the      *)
(* others are in n2.                                                       *)
(***************************************************************************)
EXTENDS SharedName

CONSTANTS
  r1, n1, n2,
  OtherBound    \* the bound on disturbances of a tag with a name of its own

MCNamespaceOf == [r \in Revs |-> IF r = r1 THEN n1 ELSE n2]

\* A tag of any other name than default, which nothing interferes with: all
\* revisions exist and the Istio has no active one yet.
OtherName == ~ default /\ revs = Revs /\ istio = None /\ ~ referenced

\* A tag named default, of the one revision.
TheName == default /\ revs = {r1} /\ istio = "missing" /\ ~ referenced

\* What befalls the references of a tag is checked under another name.  Uids
\* matter only when both are created within one second: that the tag's is the
\* lesser is tried in the first second, the opposite in any.
Simple ==
  IF default
  THEN /\ revs = {r1} /\ istio = "missing" /\ ~ referenced /\ now <= 1
       /\ tag # None => tag.target = r1
       /\ namesake # None /\ namesake.uid = 3 => now = 0
  ELSE spent <= OtherBound

MCInit == Init /\ (OtherName \/ TheName)
MCSpec == MCInit /\ [][Next /\ Simple']_vars

\* For liveness, a tag with another name in any cluster.
OtherNameSpec == FairSpec /\ ~ default
=============================================================================
