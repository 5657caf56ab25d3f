\* Two connections of a node that is watched all along.
CONSTANTS
  Conns = {c1, c2}
  NoConn = NoConn
  MaxEdits = 0
  MaxFaults = 0
SPECIFICATION Spec
SYMMETRY Symmetric
INVARIANT EntryIsEnough
CHECK_DEADLOCK FALSE
