SPECIFICATION LockSpec
CONSTANTS
  Processes = {p1, p2, p3, p4}
  NoLock = NoLock
  MaxContenders = 3
  MaxCrashes = 3
  MaxFailures = 2
CHECK_DEADLOCK FALSE
INVARIANTS ExclusiveUnlessOverlapped LockNamesHolder
PROPERTY RefusedOnlyByHolder
SYMMETRY Symmetry
