SPECIFICATION Spec
CONSTANTS
  None = None
  user = user  d1 = d1  d2 = d2  home = home  away = away
  c1 = c1  c2 = c2  c3 = c3  k1 = k1  k2 = k2
  Kinds <- Attack
  Contents = {c1, c2, c3}
  Keys = {k1, k2}
  Entities = {user}
  Devices = {d1, d2}
  Places = {home, away}
  Readings = {h1, h2}
  Risks = {550}
  MaxFingerprints = 3
  BusWindow = 1
  DuplicateWindow = 1
  BurstWindow = 3
  MaxBurst = 2
  SessionWindow = 4
  MaxEvents = 4
  MaxTime = 3
INVARIANTS BurstCapped RepeatersAreCritical
CHECK_DEADLOCK FALSE
