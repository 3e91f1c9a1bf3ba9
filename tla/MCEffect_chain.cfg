\* A scheduled effect that depends on another, under fairness; recovery sees one at a time
\* and has no retries left.
SPECIFICATION FairSpec
CONSTANTS
  c1 = c1
  c2 = c2
  Commands = {c1, c2}
  Workers = {w1, w2}
  None = None
  Deps <- Chain
  DueAt <- Scheduled
  Lease = 1
  MaxAttempts = 1
  MaxRetries = 1
  PageLimit = 1
  Results = {"applied", "raised"}
  MaxTime = 2
  MaxEpoch = 0
INVARIANTS
  DependenciesFirst
PROPERTIES
  OwnershipEnds
