SPECIFICATION Spec
CONSTANTS
  None = None
  Cameras = {c1}
  Workers = {1, 2}
  Tracks = {t1}
  Others = {FALSE, TRUE}
  Cooldown = 1
  LoiteringThreshold = 0
  EntryStale = 0
  HealthTimeout = 0
  RetryMax = 2
  BufferMax = 1
  MaxDetections = 2
  MaxTime = 1
INVARIANTS RunningIsRegistered ReportedOnce DetectionsAccounted
PROPERTY RemovedEnds
CHECK_DEADLOCK FALSE
