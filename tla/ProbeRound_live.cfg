\* Two rounds that compete for the scheduler, one node, one crash, fair threads;
\* no write fails.
CONSTANTS
  Agents = {a1}
  Rounds = {r1, r2}
  Inverted = {r1}
  Sched = Sched
  NoRound = NoRound
  NoAgent = NoAgent
  MaxFaults = 0
  MaxCrashes = 1
  MaxDrops = 0
SPECIFICATION Spec
PROPERTY EveryRoundIsDecided
CHECK_DEADLOCK FALSE
