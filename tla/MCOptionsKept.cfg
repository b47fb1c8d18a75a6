SPECIFICATION Spec
CONSTANTS
  None = None
  MaxRequests = 2
  MaxFaults = 1
INVARIANT AnsweredIsKept
CHECK_DEADLOCK FALSE
