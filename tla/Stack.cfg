SPECIFICATION FairSpec
CONSTANTS
  w1 = w1
  w2 = w2
  c1 = c1
  o1 = o1
  None = None
  Writers = {w1, w2}
  Chats = {c1}
  Orchs = {o1}
  Profiles = {"dev", "prod", "airgap"}
  Keys = {"k1", "k2"}
  Audits = {"a1", "a2"}
  Files <- TheFiles
  CliProfile = None
  Overrides <- TheBodies
  Valid <- Accepted
  MaxLoops = 3
  MaxUses = 1
  MaxEdits = 1
INVARIANT Paired
INVARIANT NoLeak
INVARIANT ProfileAnchored
PROPERTY Answered
CHECK_DEADLOCK FALSE
