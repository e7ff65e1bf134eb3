SPECIFICATION FairSpec
CONSTANTS
  Messages = {m1, m2, m3}
  None = None
  MaxRequests = 3
  MaxRetries = 5
  CallTime = 1
  Modes = {"up", "refuses", "hangs"}
INVARIANTS TypeOK RefusalsPerOpening OneCallPerWindow
PROPERTIES OutageSurvived OutageSpares
