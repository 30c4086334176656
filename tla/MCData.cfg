SPECIFICATION Spec
CONSTANTS
  BlockSize = 8
  K = 2
  NDirect = 2
  BlockSectors = 2
  MaxLsPages = 3
  Word = 1024
  Count = 4
  MaxNodes = 3
  PageUnits = 4
  LowEnd = 80
  LoadEnd = 36
  KernStart = 96
  KernEnd = 102
  InfoSize = 2
  TaskSize = 1
  DescSize = 1
  SlotSize = 1
  Chunk = 4
  MaxArgs = 2
  ArgSize = 3
  ArgRoom = 6
  W = 32
  Modulus = 256
  Degrees <- MCDegrees
  Seps <- MCSeps
  Breaks <- MCBreaks
  Cols = 2
  Rows = 2
INVARIANTS
  Ext2Reads
  Ext2Finds
  TablesRight
  BootLaidOut
  LibraryRight
  DevicesRight
