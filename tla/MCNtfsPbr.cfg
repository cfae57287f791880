SPECIFICATION FairSpec
CONSTANTS
  Environments <- MCEnvironments
  Word = 4096
  LoopRange = 256
  BufSectors = 3
  TableRuns = 3
  Blocks = 20
  LoadBlock = 6
  RamTop = 14
  Resident = {0, 1, 3, 4}
  StrayRecords <- MCStrayRecords
  StrayBlocks <- MCStrayBlocks
  Leftovers <- MCLeftovers
INVARIANTS TypeOK ImageIsPrefix SaysWhy
PROPERTIES BootsWhenItCan LoaderSpec
CHECK_DEADLOCK FALSE
