SPECIFICATION Spec
CONSTANTS
  Dims = {"hourly", "daily"}
  Values = {1}
  GB = 2
  Requests <- SmallRequests
  Loads = {l1, l2}
  MaxMachines = 2
  MaxActs = 5
  Absent = Absent
SYMMETRY LoadSymmetry
INVARIANTS RulesOfOneMoment NewMachineInherits
PROPERTIES UntouchedRowsAreKept SavedIsShown
CHECK_DEADLOCK FALSE
