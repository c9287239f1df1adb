CONSTANTS
  PageSize = 1
  MaxAddr = 2
  Byte = {0}
  NoObject = NoObject
  NoByte = NoByte
  CacheSize = 1
  GetMayFail = FALSE
  PutMayFail = FALSE
  MaxOrphans = 0
SPECIFICATION Spec
INVARIANT MetaIsReadable
