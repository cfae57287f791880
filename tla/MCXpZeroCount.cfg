SPECIFICATION FairSpec
CONSTANTS
  SectorSize = 512
  CodeSize = 440
  StartLba = 2048
  MaxCount = 1000000
  Word = 1000000
  CountRange = 65536
  Segments = 65536
  Step = 32
  RamTop = 40960
  Resident <- IvtToCode
  MaxRuns = 16
  MaxSectors = 1024
  MinTargetSeg = 80
  MaxTargetSeg = 36864
  Requests <- ZeroCount
INVARIANT ReadsAtMostTheCap
CHECK_DEADLOCK FALSE
