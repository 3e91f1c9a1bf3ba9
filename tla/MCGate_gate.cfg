\* Two draft runs, two decisions, a publisher, two gated kinds and an export.
SPECIFICATION Spec
CONSTANTS
  first = first
  revised = revised
  Runs = {w1, w2}
  Operators = {d1, d2}
  Publishers = {p1}
  Results = {first, revised}
  RevisionOf <- Revision
  Sealable = {first, revised}
  Kinds = {x, linkedin, export}
  Gated = {x, linkedin}
  Connections <- Sets
  Outcomes = {"applied"}
  None = None
  MaxSteers = 1
SYMMETRY Symmetry
PROPERTIES
  PublishedAsApproved
  DecidedStays
  GateLeftDecided
CHECK_DEADLOCK FALSE
