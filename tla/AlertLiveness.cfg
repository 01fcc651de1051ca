SPECIFICATION FairSpec
CONSTANTS
  Collectors = {c1, c2}
  Periods = {"hourly"}
  Metrics = {"total"}
  Amounts <- UploadAmounts
  RuleSets <- AllOn
  HoursPerDay = 1
  Offset = 0
  AlertsHours = 3
  BatchSize = 1
  Faults = FALSE
  MaxTime = 2
  MaxRows = 1
  Off = Off
  None = None
PROPERTIES PendingIsTransient StoredCatchesUp
