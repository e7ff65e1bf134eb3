SPECIFICATION FairSpec
CONSTANTS
  Messages = {m1}
  Malformed = {}
  InvalidIDs = {}
  None = None
  MaxRetries = 2
  Faults = {"lookup"}
  MaxFaults = 1
  Runners = {r1}
  BatchSize = 1
PROPERTIES StaleRecovered
