\* One finalizer, one round that recovers or alarms, and one pause of the monitor.
CONSTANTS
  Finalizers = {t1}
  Rounds = {r1, r2}
  Needs = {1}
  MaxFaults = 0
  MaxCrashes = 0
  MaxPauses = 1
SPECIFICATION Spec
SYMMETRY Symmetric
PROPERTY PauseKeepsAlert
CHECK_DEADLOCK FALSE
