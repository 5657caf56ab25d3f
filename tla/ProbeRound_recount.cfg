\* The recount after a crash sees two on-time rows of one node.
CONSTANTS
  Agents = {a1, a2}
  Rounds = {r1}
  Inverted = {r1}
  Sched = Sched
  NoRound = NoRound
  NoAgent = NoAgent
  MaxFaults = 0
  MaxCrashes = 1
  MaxDrops = 0
SPECIFICATION Safe
SYMMETRY Symmetric
INVARIANT OneSamplePerNode
CHECK_DEADLOCK FALSE
