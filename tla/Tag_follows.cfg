SPECIFICATION OtherNameSpec
CONSTANTS
  r1 = r1
  n1 = n1
  n2 = n2
  Revs = {r1}
  Namespaces = {n1, n2}
  NamespaceOf <- MCNamespaceOf
  Remote = {}
  EnabledByDefault = {r1}
  None = None
  Bound = 2
  OtherBound = 2
PROPERTY EventuallyFollows
CHECK_DEADLOCK FALSE
