SPECIFICATION Spec
CONSTANTS
  Threads = {t1}
  Sessions = {s1, s2}
  Requests = {q1}
  HostTurns = {h1, h2}
  TurnKeys = {k1, k2}
  Absent = Absent
  Malformed = Malformed
  NoThread = NoThread
  NoSession = NoSession
  Idle = Idle
  MaxRevision = 4
  MaxTurns = 2
  MaxCrashes = 1
  MaxIoErrors = 0
  MaxRmErrors = 1
  MaxDamage = 2
CHECK_DEADLOCK FALSE
INVARIANTS TypeOK BackupAtMostOneBehind
PROPERTY ReplacementSeesItsRead
SYMMETRY Symmetry
