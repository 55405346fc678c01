SPECIFICATION Spec
CONSTANTS
  Names = {"known", "other"}
  Urls <- TheUrls
  Policies <- ThePolicies
  OwnLists <- TheLists
  Answers <- TheAnswers
  Hops = 2
  Engagement = 2
  Terms <- TheTerms
  Targets = {"a", "b", "c"}
  Techniques = {"q1", "q2"}
  MaxTime = 2
  MaxAmends = 1
  Identifiers = {"m1", "m2", "m3", "m4", "mX"}
  Registries <- TheRegistries
  Requests <- TheRequests
  Default = "m1"
INVARIANT CheckedAddress
INVARIANT PolicyFirst
INVARIANT UnderEngagement
INVARIANT TraceComplete
INVARIANT CandidatesReachable
CHECK_DEADLOCK FALSE
