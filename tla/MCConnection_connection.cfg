\* Two callers and an administrator; rotating and not; every answer may be lost.
SPECIFICATION Spec
CONSTANTS
  Callers = {c1, c2}
  Admins = {a1}
  MaxTokens = 3
  MaxClaims = 2
SYMMETRY Symmetry
INVARIANTS
  SpentOnce
  OneCalendar
CHECK_DEADLOCK FALSE
