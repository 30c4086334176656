CONSTANTS
  Threads = {syscon}
  None = none
  Heads = 2
  Sectors = 3
  Size = 13
  Multi = 2
  Requests <- MCRequests
  MaxCount = 4
  Console = syscon
  NBuf = 4
  Dev = 0
  Blks = {0, 1, 2, 5}
  HashSize = 2
  Hash <- MCHash
  Start = 1
  BlkSectors = 4
  HeadPages <- MCHeadPages
  MaxHold = 2
  MaxLost = 1
SPECIFICATION FairBSpec
CHECK_DEADLOCK FALSE
INVARIANTS ReadsSound BuffersSound DataFresh
PROPERTIES ImplementsLru ReadsReturn
