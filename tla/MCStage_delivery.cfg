\* One trigger delivered twice to two workers that may die at any step.
SPECIFICATION Spec
CONSTANTS
  Workers = {w1, w2}
  None = None
  Start = "learn"
  Operators = {}
  Faults = {"crash", "raise", "publish", "expire"}
  MaxAttempts = 2
  MaxRetries = 2
  MaxReceives = 2
  StageAttempts = 3
  MaxEpoch = 0
  MaxPublish = 1
  MaxMarkers = 2
SYMMETRY WorkerSymmetry
INVARIANTS
  StageInv
  RunsOnce
  OneOwner
  EventAndOperationTogether
CHECK_DEADLOCK FALSE
