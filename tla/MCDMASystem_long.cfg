CONSTANTS
  M = 32
  HALF = 2
  NoData = NoData
  NoJob = NoJob
  CpuAccess <- LongBlocks
SPECIFICATION FairSpec
PROPERTY BlockArrives
