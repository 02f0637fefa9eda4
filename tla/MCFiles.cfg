SPECIFICATION Spec
CONSTANTS
  MaxFd = 3
  SectorSize = 2
  ClusterSectors = 2
  EntrySize = 1
  RootEnd = 4
  Volumes <- MCVolumes
  Opens <- MCOpens
  Reads <- MCReads
  Offsets = {5, 6}
  MaxPos = 11
INVARIANTS TypeOK ReadsAlignedElements ReadsPastChainFail OpensNamedFile
PROPERTIES ImplementsFileStore EveryReadReturns
