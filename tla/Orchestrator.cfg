SPECIFICATION FairSpec
CONSTANTS
  plain = plain
  looper = looper
  guarded = guarded
  stranger = stranger
  None = None
  Plain = {plain}
  Looper = {looper}
  Guarded = {guarded}
  Stranger = stranger
  Plans <- SomePlans
  Extras <- SomeExtras
  Tokens = {0, 1}
  MaxPlanSteps = 3
  MaxParallel = 2
  MaxExtraRounds = 1
  MaxCalls = 1
  MaxIterations = 2
  MaxRequests = 2
INVARIANT Agreement
INVARIANT NoStray
PROPERTY ImplementsRun
PROPERTY RunEnds
CHECK_DEADLOCK FALSE
