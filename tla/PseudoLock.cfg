SPECIFICATION FairLockSpec
CONSTANTS
  f1 = f1  f2 = f2  f3 = f3  l1 = l1  l2 = l2
  NoLock = NoLock
  LockFindings = {f1, f2, f3}
  Locks = {l1, l2}
  LockOf <- SharedEvent
  Requests = {r1, r2}
  Ports = {p1, p2}
  Busy = {}
  MaxBinds = 2
INVARIANTS OpenIsRestorable NoStrayListener ActiveMeansListening StopClosesOwn
PROPERTY RestoreFinishes
CHECK_DEADLOCK FALSE
