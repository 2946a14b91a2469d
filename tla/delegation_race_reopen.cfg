SPECIFICATION Spec
CONSTANTS
  Calls = {c1, c2}
  Requests = {q1}
  None = None
  IdentityAtOpen = TRUE
  MaxConcurrent = 2
  MaxCrashes = 1
  MaxIoErrors = 0
CHECK_DEADLOCK FALSE
INVARIANT StoreReopens
SYMMETRY Symmetry
