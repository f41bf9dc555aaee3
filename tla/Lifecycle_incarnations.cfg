SPECIFICATION MCSpec
CONSTANTS
  Versions = {v1}
  IstioName = istio
  None = None
  Grace = 0
  SlowPrune = FALSE
  Bound <- MCBound
  Specs = 1
  Creates = 2
  Deletes = 1
  Uses = 1
  Events = 0
  Crashes = 1
  Faults = 1
  Total = 3
  MaxBehind = 4
  Effort = 6
INVARIANT NoOrphanRelease
INVARIANT RevisionsReconciled
INVARIANT IstioReconciled
INVARIANT SettledAtRest
PROPERTY PruneDeletesWhatItJudged
PROPERTY KeepsFinalizerContract
PROPERTY EventuallySettled
CHECK_DEADLOCK FALSE
