SPECIFICATION MCSpec
CONSTANTS
  arm1 = arm1
  arm2 = arm2
  adaPc = adaPc
  adaTab = adaTab
  oto = oto
  Robots <- MCRobots
  Callers <- MCCallers
  Accounts <- MCAccounts
  Controllers <- MCControllers
  Anonymous = "none"
  AccountOf <- MCAccountOf
  ControllerOf <- MCControllerOf
  Numbering <- MCNumbering
  Admins <- MCAdmins
  CombinedWith <- MCCombinedWith
  NoOne = NoOne
  MaxMarks = 3
  MaxSent = 2
  MaxRepeats = 1
  MaxRestarts = 1
  None = None
  Together = {{}, {"factor"}, {"keys"}, {"limits"}, {"tickets"}, {"relays"}, {"switches"}}
  RecoveryCodes = 1
  FailLimit = 2
  MaxWait = 2
  MaxEnrolments = 2
  MaxStep = 3
  MaxFactorFaults = 2
  Lifetime = 2
  Overlap = 2
  MaxSeconds = 4
  MaxMade = 3
  MaxTokens = 2
  MaxKeyFaults = 1
  LimitNumbers = {1, 2}
  Window = 1
  MaxMinutes = 1
  MaxHits = 2
  MaxSignIns = 2
  MediaLife = 2
  InfoLife = 2
  MinLife = 1
  LongestLife = 4
  Configured = {None, 3}
  Requested = {None, 0, 3}
  MaxHalfSeconds = 4
  MaxTickets = 2
  MaxSecrets = 1
  Mqtt = {m1, m2}
  Phone = {p1}
  Rate = 1
  MaxIssued = 2
  Expires = 2
  Skew = 1
  MaxMoments = 3
  MaxSaves = 2
  MaxSwitchFaults = 2
INVARIANTS
  TypeOK
  JogsInOrder
  
  AccessTypeOK
  SignInsAreTrue
  
 
CHECK_DEADLOCK FALSE
