SPECIFICATION FairSpec
CONSTANTS
  Environments <- DamagedEnvironments
  Word = 65536
  EntPerSec = 4
  EntMod = 64
  Blocks = 20
  LoadBlock = 6
  RamTop = 14
  Resident = {0, 1, 3, 4}
  Garbage = {0, 1, 7}
INVARIANTS RunawayHitsInterruptTable FaultsOnlyOnZeros
PROPERTY EndsUnlessRootCircles
CHECK_DEADLOCK FALSE
