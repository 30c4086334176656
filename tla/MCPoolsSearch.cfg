CONSTANTS
  Threads = {t1}
  None = none
  MaxPages = 7
  NPG_RESERVED = 2
  ResStart = 4
  ResEnd = 5
  MaxOwn = 1
  Masters = {m}
  PerPage <- MCOne
SPECIFICATION FairPSpec
CHECK_DEADLOCK FALSE
PROPERTY SearchEnds
