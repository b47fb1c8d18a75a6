SPECIFICATION Spec
CONSTANTS
  Robots = {r1}
  Clients = {ada, oto}
  Admins = {ada}
  Nobody = none
  AllowEnable = TRUE
  MaxChanges = 4
  MaxFailures = 1
  MaxRestarts = 1
INVARIANT ConditionalSaveReadAll
CHECK_DEADLOCK FALSE
