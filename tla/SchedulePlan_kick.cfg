\* One period; a kick that falls into the middle of a cycle.
CONSTANTS
  Periods = {2}
  Horizon = 4
  MaxEdits = 1
  MaxFaults = 0
SPECIFICATION Spec
PROPERTIES
  KickNextTick
