SPECIFICATION FairSpec
CONSTANTS
  Steers = {s1, s2}
  Starts = {a1}
  Sends = {d1}
  Messages = {m1}
  None = None
  Commands = TRUE
  MaxReceipts = 1
  MaxOthers = 1
CHECK_DEADLOCK FALSE
INVARIANT ReplacedOnce
INVARIANT NoOverlappingTurns
INVARIANT ActiveMatchesHarness
PROPERTY ReplacementFollowsEnd
PROPERTY SteerSettles
