SPECIFICATION Spec
CONSTANTS
  None = None
  Entities = {e1}
  Events <- SomeEvents
  Findings <- SomeFindings
  Requests = {0, 900}
  MinCorroborating = 3
  Window = 1
  Cooldown = 2
  DecayPeriod = 3
  CleanupPeriod = 4
  StaleAfter = 4
  MaxHistory = 2
  Recent = 1
  MaxSignals = 3
  MaxFails = 1
  MaxTime = 9
INVARIANTS ScoreWithinEvidence AlertsCorroborated CooldownHeld
CHECK_DEADLOCK FALSE
