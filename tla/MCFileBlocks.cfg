SPECIFICATION Spec
CONSTANTS
  MaxFd = 2
  SectorSize = 2
  ClusterSectors = 2
  EntrySize = 1
  RootEnd = 4
  Volumes <- MCVolumes
  Opens <- MCOpens
  BlockSize = 2
  HeapSizes = {6, 7, 8, 9, 10, 11, 12, 13, 14, 15, 16, 17, 18, 25}
INVARIANTS TypeOK DescriptorsOwnTheirBlocks FreesOnlyTakenBlocks
PROPERTIES OpenLeavesOnlyPath CloseFreesOwned ImplementsFiles EveryOpenReturns
