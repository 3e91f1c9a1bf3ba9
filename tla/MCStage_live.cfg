\* A trigger under fairness, published twice; leases expire, workers die, publications fail, recovery runs.
SPECIFICATION FairSpec
CONSTANTS
  Workers = {w1}
  None = None
  Start = "learn"
  Operators = {}
  Faults = {"crash", "publish", "expire"}
  MaxAttempts = 2
  MaxRetries = 2
  MaxReceives = 1
  StageAttempts = 3
  MaxEpoch = 0
  MaxPublish = 2
  MaxMarkers = 9
INVARIANTS
  TriggerNotLost
PROPERTIES
  TriggerEnds
CHECK_DEADLOCK FALSE
