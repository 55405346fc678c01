SPECIFICATION LookSpec
CONSTANTS
  p1 = p1
  p2 = p2
  r1 = r1
  r2 = r2
  v1 = v1
  i1 = i1
  None = None
  Proc = {p1, p2}
  Recorder = {r1, r2}
  Verifier = {v1}
  Inspector = {i1}
  Home <- HomePair
  Responsive = {}
  Blocking = TRUE
  MaxEntries = 3
  MaxGen = 0
INVARIANT LossRefused
INVARIANT EvidenceKept
INVARIANT ForkMeansRewrite
CHECK_DEADLOCK FALSE
