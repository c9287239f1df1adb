CONSTANTS
  PageSize = 1
  MaxAddr = 2
  Byte = {0, 1}
  NoObject = NoObject
  NoByte = NoByte
  CacheSize = 2
  GetMayFail = FALSE
  PutMayFail = TRUE
  MaxOrphans = 0
SPECIFICATION Spec
VIEW TableView
INVARIANTS EveryNodeMapped CacheBounded OnlyDirtyPagesDiffer
PROPERTIES CleanOnlyWhenStored FlushMakesDurable ImplementsAddressSpace ImplementsLruCache
