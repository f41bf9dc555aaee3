SPECIFICATION FairSpec
CONSTANTS
  Charts = {c1, c2, c3}
  NoChart = NoChart
  Partial = Partial
  Nobody = Nobody
  NoRecord = NoRecord
  MaxVersion = 15
  MaxRequests = 4
  MaxFaults = 3
INVARIANT TypeOK
INVARIANT AlwaysRepairable
INVARIANT NothingUntracked
PROPERTY EventuallyDelivered
PROPERTY ImplementsContract
CHECK_DEADLOCK FALSE
