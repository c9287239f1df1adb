CONSTANTS
  Size = {1, 2, 3}
  DefaultSize = 2
  LastPage = 1
  NoObject = NoObject
  RequestsMayFail = TRUE
SPECIFICATION Spec
INVARIANT FileOfOneSize
PROPERTY PagesKeepTheirSize
