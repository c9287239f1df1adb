CONSTANTS
  PageSize = 2
  MaxAddr = 2
  Byte = {0}
  NoObject = NoObject
  NoByte = NoByte
  CacheSize = 1
  GetMayFail = TRUE
  PutMayFail = TRUE
  MaxOrphans = 1
SPECIFICATION Spec
INVARIANTS MapPointsHome NoUnfilledPageIsUsed
