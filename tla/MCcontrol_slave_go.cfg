CONSTANTS
  M = 16
  CpuAccess <- MCCpuAccess
SPECIFICATION ControlSpec
PROPERTY GoStarts
