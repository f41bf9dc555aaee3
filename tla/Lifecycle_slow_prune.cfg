SPECIFICATION MCSpec
CONSTANTS
  Versions = {v1}
  IstioName = istio
  None = None
  Grace = 1
  SlowPrune = TRUE
  Bound <- MCBound
  Specs = 1
  Creates = 1
  Deletes = 0
  Uses = 0
  Events = 0
  Crashes = 0
  Faults = 0
  Total = 2
  MaxBehind = 0
  Effort = 0
PROPERTY EventuallyPruned
CHECK_DEADLOCK FALSE
