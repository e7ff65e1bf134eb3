SPECIFICATION FairSpec
CONSTANTS
  Callers = {consumer, monitor, probe1, probe2}
  MaxRequests = 3
  MaxWindow = 6
INVARIANTS CountsAgree HalfOpenNotWedged
PROPERTIES Recovers
