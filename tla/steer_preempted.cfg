SPECIFICATION Spec
CONSTANTS
  Steers = {s1}
  Starts = {a1}
  Sends = {d1}
  Messages = {m1}
  None = None
  Commands = TRUE
  MaxReceipts = 1
  MaxOthers = 1
CHECK_DEADLOCK FALSE
PROPERTY ReplacementNotPreempted
SYMMETRY Symmetry
