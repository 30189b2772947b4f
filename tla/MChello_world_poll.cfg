CONSTANTS
  M = 32
  HALF = 2
  NoData = NoData
  NoJob = NoJob
  CpuAccess <- MCCpuAccess
  pdata0 = 4
  pdata1 = 16
  length = 12
  NIRQ = 3
  NestedCalls = FALSE
  MAX_SECTIONS = 2
  MAX_DEPTH = 3
SPECIFICATION MCSpec
INVARIANT PollingWaits
