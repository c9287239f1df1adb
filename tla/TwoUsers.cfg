CONSTANTS
  PageSize = 1
  MaxAddr = 2
  Byte = {0, 1, 2}
  NoObject = NoObject
  NoByte = NoByte
  CacheSize = 1
  GetMayFail = FALSE
  PutMayFail = TRUE
  MaxOrphans = 0
SPECIFICATION UsersSpec
VIEW UsersView
INVARIANT NothingInvented
PROPERTIES ReaderNeverGoesBack ReadersStoreNothing
