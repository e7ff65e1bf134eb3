SPECIFICATION OperatedFairSpec
CONSTANTS
  Messages = {m1}
  Malformed = {}
  InvalidIDs = {}
  None = None
  MaxRetries = 2
  Faults = {"write", "webhook", "crash"}
  MaxFaults = 1
  Runners = {r1, r2}
  BatchSize = 1
  Starters = {s1}
  Stoppers = {p1}
INVARIANTS CopiesByTurns
PROPERTIES PublishedByTurns Settles
