SPECIFICATION Spec
CONSTANTS
  Messages = {m1}
  Malformed = {}
  InvalidIDs = {}
  None = None
  MaxRetries = 2
  Faults = {}
  MaxFaults = 0
  Runners = {r1}
  BatchSize = 1
PROPERTIES SentStatusKept
