SPECIFICATION Spec
CONSTANTS
  w1 = w1
  w2 = w2
  ann = ann
  bob = bob
  None = None
  Worker = {w1, w2}
  User = {ann, bob}
  Limited = {bob}
  Admin = ann
  AllowRegistration = TRUE
  Quota = 1
  MaxAttempts = 1
  Lockout = 0
  TTL = 2
  MaxSessions = 2
  MaxUse = 1
  MaxTime = 2
  MaxJobs = 4
INVARIANT LockoutBounded
INVARIANT QuotaSoft
INVARIANT ReportedKept
INVARIANT ChargedOnce
PROPERTY SessionsCapped
INVARIANT NoDeadlock
CHECK_DEADLOCK FALSE
