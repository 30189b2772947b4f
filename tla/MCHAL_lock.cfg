CONSTANTS
  ALT_MAX_FD = 6
  jtag = jtag
  lcd = lcd
  host = host
  alt_dev_null = alt_dev_null
  Free = Free
  Device <- MCDevice
  FileSystem <- MCFileSystem
  MayFail <- MCMayFail
  Path <- MCPath
  Name <- MCName
  StdName <- MCStdName
  Access = {"O_RDONLY", "O_WRONLY"}
  Status = {"none", "O_NONBLOCK"}
  ULIMIT = 8
  Alarm = {a1, a2}
  ListHead = ListHead
  Delays = {0, 1, 3, 6}
  RATE = 2
  ALT_US = 6
  Times = {0, 3, 9}
SPECIFICATION MCSpec
PROPERTY LockMeansAlone
