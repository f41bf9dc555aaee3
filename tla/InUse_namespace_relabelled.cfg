SPECIFICATION FairSpec
CONSTANTS
  Revs = {default, r1}
  Default = default
  Namespaces = {app}
  Pods = {p1}
  Tags = {t1}
  NoRev = NoRev
  Absent = Absent
  PodShapes <- MCPodShapes
  InstalledIn <- MCInstalledIn
  DefaultForAll = FALSE
  InOrder = TRUE
  Completes = FALSE
  MaxChanges = 3
  MaxFaults = 0
  Shapes = "waiting"
PROPERTY EventuallyAccurate
CHECK_DEADLOCK FALSE
