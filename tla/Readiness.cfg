SPECIFICATION MCSpec
CONSTANTS
  Kinds = {"IstioCNI", "ZTunnel"}
  None = None
  Bound = 3
  NodeBudget = 3
  RevisionBudget = 1
  IstioBudget = 1
INVARIANT TypeOK
INVARIANT NodeHonest
INVARIANT NothingLeftBehind
INVARIANT RevisionHonest
INVARIANT IstioHonest
CHECK_DEADLOCK FALSE
PROPERTY EventuallyTrue
PROPERTY KeepsFinalizerContract
