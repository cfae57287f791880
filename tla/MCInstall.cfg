SPECIFICATION Spec
CONSTANTS
  SectorSize = 4
  CodeSize = 3
  StartLba = 4
  MaxCount = 15
  Content <- MCContent
  Procs = {p1, p2}
  MaxRuns = 3
  Devices <- MCDevices
  Builds <- MCBuilds
SYMMETRY Invocations
INVARIANTS TypeOK FormatterKept DoneMeansInstalled SectorsAreWhole
CHECK_DEADLOCK FALSE
