\* Two connections of a node, two administrative changes, one failing read.
CONSTANTS
  Conns = {c1, c2}
  NoConn = NoConn
  MaxEdits = 2
  MaxFaults = 1
SPECIFICATION Spec
INVARIANTS
  TypeOK
  EntryIsLive
  TimerMatchesEntry
  UpsAnswerDowns
  OutageIsWatched
PROPERTIES
  SilentIsCut
  OutageIsTold
CHECK_DEADLOCK FALSE
