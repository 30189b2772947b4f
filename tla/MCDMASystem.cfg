CONSTANTS
  M = 32
  HALF = 2
  NoData = NoData
  NoJob = NoJob
  CpuAccess <- ShortBlocks
SPECIFICATION FairSpec
INVARIANTS TypeOK BlockFixed StaysInBlock NoWordDropped WordsInOrder
PROPERTIES AccessHeld ImplementsBlockCopy TransferEnds BlockArrives
