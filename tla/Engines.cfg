CONSTANTS
  None = None
  Stories <- AllStories
  StartHour = 20
  MaxClock = 2
  MinEvents = 3
  Window = 8
  MaxAnomalies = 2
  Confidence = 900
  MaxSightings = 3
  MaxHours = 2
  Sufficient = 2
  ProfileLife = 2
  StableAfter = 2
  EntityLife = 2
  GhostWindow = 1
  InsiderWindow = 2
  RansomWindow = 1
  AlertCooldown = 1
  Threshold = 2
  RuleLife = 2
  MaxViolations = 8
  KeptViolations = 4
  MinSamples = 5
  Internal = {"host", "honeypot"}
  Honeypots = {"honeypot"}
SPECIFICATION Spec
INVARIANTS ChainsEnd EventsCorroborate
PROPERTIES QuarantineHolds NoFindingCountsTwice
