SPECIFICATION FairSpec
CONSTANTS
  None = None
  Endpoints = {e1}
  Commands = {c1, c2}
  MaxHistory = 1
  MaxConns = 2
  MaxCrashes = 1
INVARIANTS RegisteredIsOpen FinalStatusIsTrue
PROPERTIES RevertsOnlyAcrossSockets EveryCommandSettles
CHECK_DEADLOCK FALSE
