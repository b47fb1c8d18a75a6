SPECIFICATION Spec
CONSTANTS
  None = None
  c1 = c1
  r1 = r1
  r2 = r2
  p1 = p1
  p2 = p2
  Moving <- MCMoving
  CameraKeys <- MCKeys
  CameraConfigs <- MCConfigs
  Misses = 2
  Slots <- MCSlots
  MaxCameraSaves = 2
  MaxCameraFaults = 2
  Arms <- MCArms
  MaxChanges = 2
  MaxHalts = 1
  MaxBrokerFaults = 2
  Phones <- MCPhones
  Frames = 2
  MaxVersions = 2
  MaxAcks = 1
  MaxHelperFaults = 1
  Modulus = 3
  Lengths <- MCLengths
  MaxSize = 4
  MaxMessages = 3
  MaxRadioFaults = 2
  Requests <- MCRequests
  Verbs <- MCVerbs
  Rate = 1
  MaxGatewayFaults = 1
INVARIANTS
  LinksAreTrue
PROPERTIES
  PartsSettle
CHECK_DEADLOCK FALSE
