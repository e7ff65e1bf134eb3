SPECIFICATION Spec
CONSTANTS
  Messages = {m1}
  Malformed = {}
  InvalidIDs = {}
  None = None
  MaxRetries = 2
  Faults = {"write"}
  MaxFaults = 1
  Runners = {r1}
  BatchSize = 1
INVARIANTS PublishedExactlyOnce
