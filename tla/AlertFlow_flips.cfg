\* Two finalizers, three rounds, one failing operation, one crash, one pause.
CONSTANTS
  Finalizers = {t1, t2}
  Rounds = {r1, r2, r3}
  Needs = {1, 2}
  MaxFaults = 1
  MaxCrashes = 1
  MaxPauses = 1
SPECIFICATION Spec
SYMMETRY Symmetric
INVARIANTS
  TypeOK
  StateFollowsHistory
  NoPhantomDown
  FlipsAreTold
  ChangesAreKept
CHECK_DEADLOCK FALSE
