SPECIFICATION Spec
CONSTANTS
  Clients = {c1, c2}
  Identities = {i1, i2}
  NoIdentity = NoIdentity
  MaxConnections = 2
  MaxOpens = 2
  MaxNatives = 3
  MaxFaults = 2
  MaxRivalFaults = 1
SYMMETRY Symmetry
CHECK_DEADLOCK FALSE
INVARIANTS OneWriterBesideStrays LeasesMatchRecords WrapperFollowsRecord NoSessionIsForgotten
