SPECIFICATION NodeSpec
CONSTANTS
  Kinds = {"IstioCNI"}
  None = None
  Bound = 3
INVARIANT ReportsCurrentState
CHECK_DEADLOCK FALSE
