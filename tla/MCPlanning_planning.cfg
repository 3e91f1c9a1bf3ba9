SPECIFICATION Spec
CONSTANTS
  ann = ann
  bob = bob
  a = a
  b = b
  Jobs = {brief}
  StrategyOnly = {}
  Changes = {c1}
  Ops = {o1}
  Handlers = {h1, h2}
  Actors = {ann, bob}
  Intents <- MCIntents
  Starting <- MCStarting
  Scopes <- MCScopes
  None = None
  MaxStrategy = 3
  Items = {a, b}
  Editorials <- MCEditorials
  Requests = {q1}
  Drafts = {d1}
  Outcomes = {"succeeded"}
  Failures = {"transient"}
  MaxConcurrent = 1
  MaxPlan = 3
INVARIANTS
  ConfirmationIsTruthful
  OneExecution
  DependenciesReachable
  JobResolvable
CHECK_DEADLOCK FALSE
