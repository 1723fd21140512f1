SPECIFICATION Spec
CONSTANTS
  None = None
  Requests <- SomeRequests
  Users = {"u"}
  Devices = {"d"}
  RateWindow = 3
  MaxAttempts = 2
  DedupWindow = 2
  BusTTL = 3
  OtpLifetime = 3
  MaxRequests = 5
  MaxReports = 7
  MaxForgets = 1
  MaxTime = 6
INVARIANTS RateCapped ChallengeStands
CHECK_DEADLOCK FALSE
