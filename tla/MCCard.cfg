CONSTANTS
  Geometry = 2
  SectorSize = 4
  RootSectors = 1
  RootEntries = 4
  LoaderEntries = 3
  CodSize = 3
  InstallEntries = 2
  Saves <- MCSaves
  Builds <- MCBuilds
  Installs <- NoInstalls
  StubSize <- MCStubSize
SPECIFICATION Spec
INVARIANTS TypeOK FilesRead NothingLost CodeRunsInPlace CallsLand HandsBack
