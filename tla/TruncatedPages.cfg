CONSTANTS
  PageSize = 1
  MaxAddr = 2
  Byte = {0, 1}
  NoObject = NoObject
  NoByte = NoByte
  CacheSize = 2
  GetMayFail = FALSE
  PutMayFail = FALSE
  MaxOrphans = 0
SPECIFICATION Spec
VIEW TableView
INVARIANT TruncatedPagesReadZero
