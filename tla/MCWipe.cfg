SPECIFICATION FairSpec
CONSTANTS
  Machines <- MCMachines
  Keys = {"y", "Y", "n"}
  WipeSectors = 4
  MibSectors = 4
  Low = 32
  MaxBoots = 3
INVARIANTS PrefixZeroed StickKept OkMeansErased
PROPERTIES OnlyWhatWasShown ErasesWhenItCan
CHECK_DEADLOCK FALSE
