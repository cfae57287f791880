SPECIFICATION FairChainSpec
CONSTANTS
  SectorSize = 4
  CodeSize = 3
  StartLba = 5
  MaxCount = 60
  Machines <- MCMachines
  Environments <- MCEnvironments
  Word = 65536
  EntPerSec = 4
  EntMod = 64
  Blocks = 20
  LoadBlock = 6
  RamTop = 14
  Resident = {0, 1, 3, 4}
  Garbage = {0, 1, 7}
INVARIANTS EntersActive SaysWhy LostDriveLoadsNothing
PROPERTIES BootsWhenItCan ChainLoaderSpec
CHECK_DEADLOCK FALSE
