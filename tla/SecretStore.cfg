SPECIFICATION Spec
CONSTANTS
  a = a
  b = b
  a1 = a1
  a2 = a2
  b1 = b1
  x = x
  y = y
  None = None
  Process = {a, b}
  Thread = {a1, a2, b1}
  Home <- TwoProcesses
  Name = {x, y}
  MaxWrites = 2
PROPERTY ImplementsMap
INVARIANT ReadsFresh
SYMMETRY Alike
CHECK_DEADLOCK FALSE
