CONSTANTS
  PageSize = 2
  MaxAddr = 3
  Byte = {0, 1}
  NoObject = NoObject
  NoByte = NoByte
  CacheSize = 1
  GetMayFail = FALSE
  PutMayFail = TRUE
  MaxOrphans = 0
SPECIFICATION Spec
VIEW TableView
INVARIANTS TypeOK EofCoversData InvalidPagesHoldNothing
PROPERTY ImplementsAddressSpace
