\* A clip, its pack and a model call, two workers, every fault.
SPECIFICATION FairSpec
CONSTANTS
  video = video
  song = song
  pack = pack
  draft = draft
  job = job
  workspace = workspace
  Jobs = {job}
  Workspace = workspace
  Calls = {draft}
  Spends <- MCSpends
  JobOf <- MCJobOf
  Cost <- MCCost
  Limit <- MCLimit
  Threshold = 1
  Ops = {video, pack}
  Kind <- MCKind
  DependsOn <- MCDependsOn
  Price <- MCPrice
  Ceiling = 1
  Workers = {w1, w2}
  Faults = {"crash", "expire", "web", "provider", "protocol", "mandate", "drop"}
  MaxRevision = 1
  MaxRun = 0
  MaxAttempt = 2
INVARIANTS
  PlanInv
  LedgerBalances
  WithinLimits
PROPERTIES
  ImplementsPlanContract
  StaleClaimantChangesNothing
  OperationEnds
CHECK_DEADLOCK FALSE
