\* A job from draft through three generations under every operator action.
SPECIFICATION Spec
CONSTANTS
  Workers = {w1}
  None = None
  Start = "draft"
  Operators = {"pause", "resume", "cancel", "nudge", "redo", "retry"}
  Faults = {"raise"}
  MaxAttempts = 2
  MaxRetries = 2
  MaxReceives = 1
  StageAttempts = 2
  MaxEpoch = 2
  MaxPublish = 1
  MaxMarkers = 0
INVARIANTS
  StageHasTrigger
  AppliedIsAdvanced
CHECK_DEADLOCK FALSE
