SPECIFICATION Spec
CONSTANTS
  None = None
  Users = {ann, bob}
  Robots = {arm}
  Full = 3
  MinSpeed = 1
  Kept = 1
  KeptOf = 3
  Timeout = 1
  RecoverBeats = 2
  RampSeconds = 2
  LeftImmediate = TRUE
INVARIANTS
  TypeOK
  TrustIsEarned
  SilentIsLost
PROPERTIES
  LostIsHeld
  ReturnIsSmooth
  SpeedsReturn
CHECK_DEADLOCK FALSE
