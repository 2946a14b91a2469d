SPECIFICATION Spec
CONSTANTS
  Calls = {c1}
  None = None
  MaxSessions = 2
  MaxTurns = 3
CHECK_DEADLOCK FALSE
INVARIANTS LoadedIsStored ChildFollows OpenSessionsAreHeld
PROPERTY NewTurnsAreKept
