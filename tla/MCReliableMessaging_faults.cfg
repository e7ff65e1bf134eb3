SPECIFICATION Spec
CONSTANTS
  Messages = {m1}
  Malformed = {}
  InvalidIDs = {}
  None = None
  MaxRetries = 2
  Faults = {"lookup", "write", "broker", "webhook", "crash", "restart", "ttl", "drop"}
  MaxFaults = 2
  Runners = {r1, r2}
  BatchSize = 1
SYMMETRY Symmetry
INVARIANTS TypeOK RetryBounded DeliveriesPaidByFaults RemembersOnlyDelivered CopiesBounded
PROPERTIES NeverResentWhileRemembered LedgerSpec SettledStays
