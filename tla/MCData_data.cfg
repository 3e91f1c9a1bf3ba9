\* Two items, two consumers, two create calls that may overlap, every fault.
SPECIFICATION Spec
CONSTANTS
  Items = {i1, i2}
  Creates = {c1, c2}
  None = None
  Workers = {w1, w2}
  MaxAttempts = 2
  MaxInFlight = 1
  AllowPartial = TRUE
  MinPercent = 50
  Faults = {"create", "crash", "expire", "web", "drop"}
  MaxClaims = 3
SYMMETRY Symmetry
INVARIANTS
  FanInIsTrue
CHECK_DEADLOCK FALSE
