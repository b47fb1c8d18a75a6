SPECIFICATION SideSpec
CONSTANTS
  None = None
  arm = arm
  odd = odd
  bad = bad
  studio = studio
  app = app
  watch = watch
  m1 = m1
  m2 = m2
  t1 = t1
  t2 = t2
  u1 = u1
  u2 = u2
  ada = ada
  oto = oto
  spoiled = spoiled
  r1 = r1
  r2 = r2
  Robots = {arm}
  Clients = {ada, oto}
  Admins = {ada}
  Nobody = Nobody
  AllowEnable = TRUE
  MaxChanges = 4
  MaxFailures = 1
  MaxRestarts = 1
  Moving <- MCMoving
  Sources <- MCSources
  MaxSources = 1
  MaxRecords = 3
  Tokens <- MCTokens
  Accounts <- MCAccounts
  MaxDevices = 1
  MaxPushEvents = 2
  MaxOutFaults = 2
  Window = 1
  MaxReplies = 2
  MaxEdgeTime = 4
  TokenLife = 3
  TokenHour = 4
  MaxSessions = 2
  MaxSends = 2
  MaxQuarters = 4
  Arms <- MCArms
  CombinedWith <- MCCombinedWith
  Homed <- MCHomed
  Reach <- MCReach
  LastOutput = 0
  Riders <- MCRiders
  MaxRiders = 0
  MaxCommands = 2
  MaxTreeSaves = 1
  MaxLostWrites = 1
  MaxInstants = 3
  Requests <- MCArms
  Configured <- MCConfigured
  Speakers <- MCSpeakers
  SafeNames <- MCRiders
  RequestIds = {1}
  MaxTurns = 2
  MaxAsks = 2
  MaxVoiceFaults = 1
  MaxFrames = 2
  MaxBuffer = 1
  MaxRecordings = 3
  MaxStarts = 2
  Candidates = 2
INVARIANTS
  TypeOK
  RestartsLoseNothing
  AnswersStay
  RecordsVerify
  RelaysAreTrue
  OptionsHold
CHECK_DEADLOCK FALSE
