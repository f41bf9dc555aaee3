SPECIFICATION MCSpec
CONSTANTS
  Versions = {v1}
  IstioName = istio
  None = None
  Grace = 1
  SlowPrune = FALSE
  Bound <- MCBound
  Specs = 1
  Creates = 1
  Deletes = 0
  Uses = 2
  Events = 1
  Crashes = 1
  Faults = 0
  Total = 4
  MaxBehind = 1
  Effort = 6
INVARIANT TypeOK
INVARIANT GraceClockHonest
INVARIANT PruneScheduled
PROPERTY PruneWaitsOutGrace
PROPERTY EventuallySettled
CHECK_DEADLOCK FALSE
