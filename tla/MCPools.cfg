CONSTANTS
  Threads = {t1, t2}
  None = none
  MaxPages = 7
  NPG_RESERVED = 2
  ResStart = 4
  ResEnd = 5
  MaxOwn = 1
  Masters = {m}
  PerPage <- MCTwo
SPECIFICATION PSpec
SYMMETRY MCSymmetry
CHECK_DEADLOCK FALSE
INVARIANTS PoolsSound ChunksSound PagesSound HintLinked
