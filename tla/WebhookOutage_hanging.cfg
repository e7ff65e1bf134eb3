SPECIFICATION Spec
CONSTANTS
  Messages = {m1, m2, m3}
  None = None
  MaxRequests = 3
  MaxRetries = 5
  CallTime = 6
  Modes = {"hangs"}
INVARIANTS OutageOpensBreaker
