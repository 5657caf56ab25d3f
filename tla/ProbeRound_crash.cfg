\* One round of an inverted monitor, two nodes, one failing write, one crash.
CONSTANTS
  Agents = {a1, a2}
  Rounds = {r1}
  Inverted = {r1}
  Sched = Sched
  NoRound = NoRound
  NoAgent = NoAgent
  MaxFaults = 1
  MaxCrashes = 1
  MaxDrops = 0
SPECIFICATION Safe
SYMMETRY Symmetric
INVARIANTS
  TypeOK
  HourlyIsSumOfRounds
  StoredSampleIsCounted
  RowsExplainSuccess
  OpenIsInFlight
  AlertAtMostOnce
PROPERTY LedgerSpec
CHECK_DEADLOCK FALSE
