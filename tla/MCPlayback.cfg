SPECIFICATION Spec
CONSTANTS
  arm1 = arm1
  arm2 = arm2
  Robots <- MCRobots
  CombinedWith <- MCCombinedWith
  MaxPoints = 1
  MaxCommands = 3
  MaxQueue = 2
  MaxFailures = 1
  MaxRestarts = 1
INVARIANTS
  TypeOK
  WholePictureIsRight
PROPERTIES
  StoppedMovesNothing
  PlaybackEnds
CHECK_DEADLOCK FALSE
