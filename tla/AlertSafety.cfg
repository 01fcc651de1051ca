SPECIFICATION Spec
CONSTANTS
  Collectors = {c1, c2}
  Periods = {"daily"}
  Metrics = {"upload", "total"}
  Amounts <- BusyAmounts
  RuleSets <- OnOrUploadOff
  HoursPerDay = 2
  Offset = 0
  AlertsHours = 0
  BatchSize = 1
  Faults = TRUE
  MaxTime = 4
  MaxRows = 1
  Off = Off
  None = None
SYMMETRY CollectorSymmetry
INVARIANTS NotifiedAtMostOnce StatusTruthful AlertsOnlyForFinishedPeriods
PROPERTY KeepsLedger
