SPECIFICATION Spec
CONSTANTS
  SectorSize = 4
  Multiple = 4
  CodeSize = 3
  StartLba = 4
  MaxCount = 15
  Disks = {0, 3, 4, 5, 6, 18, 19, 20, 30}
  Blobs <- MCBlobs
  Parts <- MCParts
  Contents <- MCContents
  Origin <- MCOrigin
  MaxEdits = 2
INVARIANTS
  EmbeddedTellsAll UpToDate OneOrigin MultiInstallable
  PartitionInsideDisk BuildThenSplice
