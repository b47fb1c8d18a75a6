SPECIFICATION Spec
CONSTANTS
  None = None
  Missions = {weld}
  Robots = {arm1, arm2}
  Mapped = {arm1, arm2}
  SameAgain = FALSE
  FailuresBefore = 2
  MaxDeliveries = 2
  MaxProofs = 1
  MaxAttempts = 2
  MaxOutages = 1
  MaxRestarts = 1
INVARIANTS
  TypeOK
  OneRobotWorks
  
PROPERTIES
  RequestIsDelivered
  OutageIsDecided
CHECK_DEADLOCK FALSE
