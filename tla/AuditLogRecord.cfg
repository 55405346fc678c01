SPECIFICATION FairSpec
CONSTANTS
  p1 = p1
  p2 = p2
  r1 = r1
  r2 = r2
  r3 = r3
  v1 = v1
  i1 = i1
  None = None
  Proc = {p1, p2}
  Recorder = {r1, r2, r3}
  Verifier = {}
  Inspector = {}
  Home <- HomeThree
  Responsive = {p1}
  Blocking = TRUE
  MaxEntries = 3
  MaxGen = 1
INVARIANT ChainUnbroken
INVARIANT AnchorCovered
INVARIANT MarkerInPlace
PROPERTY ImplementsTrail
PROPERTY RecordEnds
CHECK_DEADLOCK FALSE
