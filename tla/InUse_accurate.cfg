SPECIFICATION FairSpec
CONSTANTS
  Revs = {default, r1}
  Default = default
  Namespaces = {app}
  Pods = {p1}
  Tags = {t1}
  NoRev = NoRev
  Absent = Absent
  PodShapes <- MCPodShapes
  InstalledIn <- MCInstalledIn
  DefaultForAll = TRUE
  InOrder = TRUE
  Completes = TRUE
  MaxChanges = 3
  MaxFaults = 1
  Shapes = "representative"
INVARIANT TypeOK
INVARIANT NoForgottenReference
INVARIANT AccurateAtRest
PROPERTY OnlyKnownMisses
PROPERTY EventuallyAccurateIfTold
CHECK_DEADLOCK FALSE
