\* A song and its pack, revised once and rendered again, two workers, slow leases.
SPECIFICATION Spec
CONSTANTS
  video = video
  song = song
  pack = pack
  draft = draft
  job = job
  workspace = workspace
  Jobs = {job}
  Workspace = workspace
  Calls = {}
  Spends <- MCSpends
  JobOf <- MCJobOf
  Cost <- MCCost
  Limit <- MCLimit
  Threshold = 1
  Ops = {song, pack}
  Kind <- MCKind
  DependsOn <- MCDependsOn
  Price <- MCPrice
  Ceiling = 1
  Workers = {w1, w2}
  Faults = {"expire"}
  MaxRevision = 2
  MaxRun = 1
  MaxAttempt = 2
SYMMETRY Symmetry
INVARIANTS
  PaidOnce
  TriggerNotLost
CHECK_DEADLOCK FALSE
