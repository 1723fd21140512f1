SPECIFICATION FairSpec
CONSTANTS
  Threads = {w1}
  MaxAttempts = 2
  MaxAlerts = 2
  MaxCrashes = 1
  MaxStops = 1
  MaxFaults = 1
  MaxDbFails = 1
PROPERTY EventuallySettled
