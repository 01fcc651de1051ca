SPECIFICATION Spec
CONSTANTS
  Slots = {r1, r2}
  Second = 2
  MaxAge = 7
  CodecAge = 30
  Gap = 1
  Latency = 1
  MaxTime = 16
  IdleTime = 8
  MaxRotations = 1
  None = None
SYMMETRY SlotSymmetry
CHECK_DEADLOCK FALSE
INVARIANT ActiveStaysIn
PROPERTY IdleIsOut
