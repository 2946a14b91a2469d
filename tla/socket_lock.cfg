SPECIFICATION Spec
CONSTANTS
  Contenders = {1, 2, 3}
  Absent = Absent
  MaxTicket = 2
  MaxFaults = 1
CHECK_DEADLOCK FALSE
INVARIANT ExclusiveUnlessLapsed
INVARIANT OwnershipLostOnlyIfLapsed
INVARIANT ReturnLeavesNothing
