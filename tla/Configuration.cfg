SPECIFICATION ConfigurationSpec
CONSTANTS
  Clients = {c1, c2}
  KeyIds = {1, 2}
  MachineIds = {1}
  Fingerprints = {f1, f2}
  Keep = Keep
  n1 = n1
  n2 = n2
  n2pad = n2pad
  blank = blank
  i1 = i1
  i2 = i2
  ka = ka
  kb = kb
  u1 = u1
  u2 = u2
  webhook = 2
  telegram = 1
  day = day
  v1 = v1
  v2 = v2
  Names = {n1, n2, n2pad, blank}
  Imports = {i1, i2}
  Trim <- MCTrim
  Materials = {ka, kb}
  Urls = {u1, u2}
  Types = {1, 2}
  Dims = {day}
  Values = {v1, v2}
  None = None
  Scenarios <- MCScenarios
CHECK_DEADLOCK FALSE
INVARIANTS RoundTrip NothingMissing RefsResolve RefusalWritesNothing
PROPERTIES ImportOnlyAdds OnlyCrossedStrands OnlyCrossedRevives OnlyCrossedOverwrites
