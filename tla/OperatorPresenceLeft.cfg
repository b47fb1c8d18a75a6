SPECIFICATION Spec
CONSTANTS
  None = None
  Users = {ann, bob}
  Robots = {arm}
  Full = 3
  MinSpeed = 1
  Kept = 1
  KeptOf = 3
  Timeout = 1
  RecoverBeats = 2
  RampSeconds = 2
  LeftImmediate = FALSE
INVARIANTS
  TrustIsEarned
CHECK_DEADLOCK FALSE
