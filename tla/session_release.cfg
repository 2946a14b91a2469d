SPECIFICATION FairSpec
CONSTANTS
  Uses = {u1, u2}
  Deletes = {x1}
  Calls = {d1}
  None = None
  MaxSessions = 3
CHECK_DEADLOCK FALSE
INVARIANT OneWriter
INVARIANT UsersHoldOpenSession
INVARIANT NoSessionOutlivesHost
PROPERTY BlockedStaysUnused
PROPERTY RequestsServed
