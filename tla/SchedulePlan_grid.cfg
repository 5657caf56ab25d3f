\* Two periods, two administrative changes, one fault; a serial monitor or not.
CONSTANTS
  Periods = {2, 3}
  Horizon = 5
  MaxEdits = 2
  MaxFaults = 1
SPECIFICATION FairSpec
INVARIANTS
  TypeOK
  SerialAlone
  NoCatchUp
PROPERTIES
  GridIsKept
  KickIsServed
  DueIsRun
