SPECIFICATION Spec
CONSTANTS
  t1 = t1
  t2 = t2
  x = x
  y = y
  None = None
  External = External
  Worker = {t1, t2}
  Name = {x, y}
  MaxRequests = 5
  MaxStores = 2
INVARIANT HasSecret
INVARIANT OrphansExplained
PROPERTY InUseKept
SYMMETRY Alike
CHECK_DEADLOCK FALSE
