CONSTANTS
  PageSize = 1
  MaxAddr = 2
  Byte = {0, 1}
  NoObject = NoObject
  NoByte = NoByte
  CacheSize = 2
  GetMayFail = TRUE
  PutMayFail = FALSE
  MaxOrphans = 1
SPECIFICATION Spec
VIEW TableView
PROPERTY ImplementsAddressSpace
