SPECIFICATION Spec
CONSTANTS
  p1 = p1
  p2 = p2
  r1 = r1
  r2 = r2
  r3 = r3
  v1 = v1
  i1 = i1
  None = None
  Proc = {p1, p2}
  Recorder = {r1, r2}
  Verifier = {v1}
  Inspector = {}
  Home <- HomeShared
  Responsive = {}
  Blocking = TRUE
  MaxEntries = 4
  MaxGen = 0
INVARIANT ChainUnbroken
CHECK_DEADLOCK FALSE
