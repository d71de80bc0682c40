CONSTANTS
  a = a
  b = b
  x = x
  y = y
  z = z
  None = None
  Names = {a, b}
  Data = {x, y, z}
  Contents <- MCContents
  SaveData <- MCSaveData
  BufferSize = 2
  ListingSize = 4
SPECIFICATION Spec
INVARIANT SavedUnderItsName
