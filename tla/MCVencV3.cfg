SPECIFICATION Spec
CONSTANTS
  BufferSize = 24
  PictureSizes = {1, 3, 7, 11}
  HeaderSizes = {1, 2}
  LargestHeader = 2
  BackupSize = 5
  Gap = 1
  Align = 2
  Aud = 1
  MaxPictures = 4
  MaxHeaders = 3
  Faults = {"alloc", "map", "fail"}
INVARIANTS
  V3AreasKept
PROPERTIES
  KeptWhileUsed
