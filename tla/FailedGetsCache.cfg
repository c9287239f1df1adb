CONSTANTS
  PageSize = 1
  MaxAddr = 3
  Byte = {0}
  NoObject = NoObject
  NoByte = NoByte
  CacheSize = 1
  GetMayFail = TRUE
  PutMayFail = FALSE
  MaxOrphans = 1
SPECIFICATION Spec
VIEW TableView
INVARIANT CacheBounded
