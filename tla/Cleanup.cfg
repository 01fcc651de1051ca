SPECIFICATION ReliableSpec
CONSTANTS
  Machines = {m1}
  All = All
  Sched = Sched
  Manual = {c1}
  BatchSize = 1
  Days <- OneDay
  Asked <- ConsoleRequest
  MaxTime = 2
  MaxRows = 2
INVARIANT UnracedIsComplete
PROPERTIES DeletesOnlyExpired ExpiredIsRemoved StopCompletes
CHECK_DEADLOCK FALSE
