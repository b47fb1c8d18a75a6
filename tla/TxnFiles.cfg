SPECIFICATION FairSpec
CONSTANTS
  NFiles = 2
  MaxWrites = 3
  MaxCrashes = 2
  MaxFaults = 2
INVARIANTS
  TypeOK
  CutIsAllOrNothing
  OutcomeIsHonest
PROPERTIES
  DiskNeverGoesBack
  EveryWriteAnswered
  ImplementsAtomicFiles
CHECK_DEADLOCK FALSE
