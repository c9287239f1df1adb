CONSTANTS
  PageSize = 2
  Byte = {0, 1}
  NoObject = NoObject
  ErrorByte = ErrorByte
  MaxBody = 3
  DayLength = 2
  Window = 1
  MaxTime = 3
  Region = Region
  AccessKey = AccessKey
  SecretKey = SecretKey
  Host = Host
  Bucket = Bucket
SPECIFICATION Spec
INVARIANTS UploadsInOrder OnlyLateRequestsAreRefused
PROPERTY ImplementsAtomicObject
