\* One compaction, and no statement that fails.
CONSTANTS
  Limit = 3
  MaxRuns = 1
  MaxFaults = 0
SPECIFICATION Spec
INVARIANT SoundCompactionSucceeds
CHECK_DEADLOCK FALSE
