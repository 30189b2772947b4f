CONSTANTS
  M = 32
  HALF = 2
  NoData = NoData
  NoJob = NoJob
  CpuAccess <- FewBlocks
SPECIFICATION FairSpec
PROPERTY ReleasesMemory
