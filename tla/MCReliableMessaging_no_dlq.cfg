SPECIFICATION Spec
CONSTANTS
  Messages = {m1}
  Malformed = {}
  InvalidIDs = {}
  None = None
  MaxRetries = 1
  Faults = {"broker"}
  MaxFaults = 1
  Runners = {r1}
  BatchSize = 1
INVARIANTS ExceededIsDeadLettered
