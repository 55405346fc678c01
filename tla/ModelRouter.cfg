SPECIFICATION FairSpec
CONSTANTS
  w1 = w1
  w2 = w2
  m1 = m1
  m2 = m2
  m3 = m3
  Worker = {w1, w2}
  Model = {m1, m2, m3}
  Request <- Requests
  Mute = {m3}
  FailuresToOpen = 1
  Cooldown = 2
  Capacity = 1
  MaxTime = 2
  MaxRequests = 2
INVARIANT OneVoice
INVARIANT SteadyOrder
INVARIANT FailsOnlyAfterTrying
PROPERTY OnlyCallsCount
PROPERTY RequestEnds
CHECK_DEADLOCK FALSE
