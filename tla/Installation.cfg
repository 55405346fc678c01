SPECIFICATION Spec
CONSTANTS
  c1 = c1
  c2 = c2
  Command = {c1, c2}
  MaxVersion = 3
  Broken = {2}
  Bad = Bad
  None = None
INVARIANT OnlyReleased
INVARIANT WayBack
INVARIANT PromiseKept
CHECK_DEADLOCK FALSE
