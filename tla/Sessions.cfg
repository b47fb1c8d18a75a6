SPECIFICATION Spec
CONSTANTS
  None = None
  Names = {ann, bob}
  Passwords = {old, new}
  Devices = {screen}
  FirstName = ann
  FirstPassword = old
  MaxRefresh = 1
  MaxIds = 2
  MaxVersion = 2
  MaxTokens = 1
  MaxSockets = 1
  MaxLogins = 1
INVARIANTS
  TypeOK
  SessionsAreTrue
PROPERTIES
  EndedStaysEnded
  EndedCloses
CHECK_DEADLOCK FALSE
