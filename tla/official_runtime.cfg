SPECIFICATION Spec
CONSTANTS
  Hosts = {h1, h2}
  MaxRequests = 2
  MaxGenerations = 2
CHECK_DEADLOCK FALSE
INVARIANTS OneProcess LeasesHaveWork SecondAnswerNeedsThrownWrite
PROPERTY ClosedScopeStaysShut
PROPERTY CloseSettles
