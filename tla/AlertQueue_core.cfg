SPECIFICATION Spec
CONSTANTS
  Threads = {w1, w2}
  MaxAttempts = 2
  MaxAlerts = 2
  MaxCrashes = 1
  MaxStops = 1
  MaxFaults = 1
  MaxDbFails = 1
INVARIANTS NoSilentDrop FirstTryInOrder RetryBudget
PROPERTY ImplementsDelivery
