SPECIFICATION FairSpec
CONSTANTS
  SectorSize = 4
  CodeSize = 3
  StartLba = 4
  MaxCount = 15
  Machines <- XpBuilt
INVARIANT DriveIsPassed
CHECK_DEADLOCK FALSE
