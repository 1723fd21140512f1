SPECIFICATION EvidenceSpec
CONSTANTS
  GeoRisks = {0, 100, 240, 500, 1000}
  MetaRisks = {450, 550, 650, 750, 800, 900}
  Times = {13, 42}
  MaxHits = 4
PROPERTIES WorseIsNoWeaker FasterIsNoWeaker ContextNeverClears
CHECK_DEADLOCK FALSE
