SPECIFICATION Spec
CONSTANTS
  Clients = {c1, c2}
  KeyIds = {1, 2}
  MachineIds = {1, 2}
  Fingerprints = {f1, f2}
  Keep = Keep
SYMMETRY ClientSymmetry
CHECK_DEADLOCK FALSE
PROPERTY DeleteIsFinal
