CONSTANTS
  HALF = 4
  w1 = w1
  w2 = w2
  NoData = NoData
  Data <- MCData
  TOGGLE_VALUE = 60
  COUNT = 64
  Shades = {0, 1}
  Colours <- MCColours
  Brightnesses <- MCBrightnesses
  M = 16
  CpuAccess <- MCCpuAccess
SPECIFICATION MCSpec
INVARIANTS RegistersFit FlagsExact StatusTellsState DoneNeverRead Accurate ShowsNumber MedianOfWindow NoOverflow
PROPERTIES ImplementsQueue ImplementsOneShot RunEnds
VIEW Medians
