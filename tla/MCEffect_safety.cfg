\* One effect, two workers, every provider result, a retry after recovery gave up.
SPECIFICATION Spec
CONSTANTS
  c1 = c1
  c2 = c2
  Commands = {c1}
  Workers = {w1, w2}
  None = None
  Deps <- NoDeps
  DueAt <- DueNow
  Lease = 1
  MaxAttempts = 2
  MaxRetries = 3
  PageLimit = 5
  Results = {"applied", "failed", "raised", "not_started", "pending"}
  MaxTime = 3
  MaxEpoch = 2
SYMMETRY WorkerSymmetry
INVARIANTS
  EffectInv
  EffectAtMostOnce
  CallerOwnsEffect
  RecordsAreTrue
  ClaimAndOperationInStep
  MarkersNeverMask
PROPERTIES
  StaleWorkerChangesNothing
  WithdrawnIsNeverDone
  ImplementsContract
