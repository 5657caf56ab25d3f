\* One round, two nodes, one dropped session, task or pong.
CONSTANTS
  Agents = {a1, a2}
  Rounds = {r1}
  Inverted = {}
  Sched = Sched
  NoRound = NoRound
  NoAgent = NoAgent
  MaxFaults = 0
  MaxCrashes = 0
  MaxDrops = 1
SPECIFICATION Safe
SYMMETRY Symmetric
INVARIANTS
  NothingUnbooked
  NeverSentNeverBlamed
  AcceptedIsAggregated
  EarlyOnlyIfComplete
CHECK_DEADLOCK FALSE
