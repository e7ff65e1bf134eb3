SPECIFICATION Spec
CONSTANTS
  Messages = {m1, m2}
  Malformed = {x}
  InvalidIDs = {y}
  None = None
  MaxRetries = 1
  Faults = {"write", "crash", "foreign"}
  MaxFaults = 2
  Runners = {r1}
  BatchSize = 2
SYMMETRY Symmetry
INVARIANTS CopiesBounded DeadLettersBounded FailedMeansDeadLettered ConfirmedIsRemembered
PROPERTIES PublishedOnce ConsumerKeepsDeliveries
