SPECIFICATION FairSpec
CONSTANTS
  Collectors = {c1}
  Periods = {"hourly"}
  Metrics = {"upload"}
  Amounts <- BusyAmounts
  RuleSets <- AllOn
  HoursPerDay = 1
  Offset = 0
  AlertsHours = 3
  BatchSize = 1
  Faults = TRUE
  MaxTime = 2
  MaxRows = 1
  Off = Off
  None = None
PROPERTY PendingIsTransient
