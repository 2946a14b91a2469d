SPECIFICATION Spec
CONSTANTS
  Calls = {c1, c2, c3}
  Requests = {q1}
  None = None
  IdentityAtOpen = FALSE
  MaxConcurrent = 2
  MaxCrashes = 1
  MaxIoErrors = 2
CHECK_DEADLOCK FALSE
INVARIANT OneStartPerRequest
INVARIANT AnswerNamesStoredChild
INVARIANT RefusedStartLeavesNothing
INVARIANT RetriedStoreReopens
SYMMETRY Symmetry
