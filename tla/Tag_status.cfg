SPECIFICATION MCSpec
CONSTANTS
  r1 = r1
  n1 = n1
  n2 = n2
  Revs = {r1, r2, r3}
  Namespaces = {n1, n2}
  NamespaceOf <- MCNamespaceOf
  Remote = {r3}
  EnabledByDefault = {r1}
  None = None
  Bound = 4
  OtherBound = 4
INVARIANT TypeOK
INVARIANT HonestStatus
INVARIANT FailuresRetried
INVARIANT BaseRemoved
INVARIANT RevisionServed
CHECK_DEADLOCK FALSE
