SPECIFICATION Spec
CONSTANTS
  w1 = w1
  w2 = w2
  c1 = c1
  o1 = o1
  None = None
  Writers = {w1}
  Chats = {}
  Orchs = {}
  Profiles = {"dev", "prod", "airgap"}
  Keys = {"k1", "k2"}
  Audits = {"a1", "a2"}
  Files <- TheFiles
  CliProfile = "prod"
  Overrides <- TheBodies
  Valid <- Accepted
  MaxLoops = 2
  MaxUses = 0
  MaxEdits = 0
INVARIANT ProfileAnchored
CHECK_DEADLOCK FALSE
