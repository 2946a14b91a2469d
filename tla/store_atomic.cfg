SPECIFICATION Spec
CONSTANTS
  Threads = {t1, t2}
  Sessions = {s1, s2}
  Requests = {q1, q2}
  HostTurns = {h1}
  TurnKeys = {k1}
  Absent = Absent
  Malformed = Malformed
  NoThread = NoThread
  NoSession = NoSession
  Idle = Idle
  MaxRevision = 3
  MaxTurns = 1
  MaxCrashes = 1
  MaxIoErrors = 1
  MaxRmErrors = 0
  MaxDamage = 0
CHECK_DEADLOCK FALSE
INVARIANTS DiskFollowsMemory IdentitiesUnique RestartSucceeds
PROPERTY ImplementsAtomicMap
SYMMETRY Symmetry
