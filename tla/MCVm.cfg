SPECIFICATION Spec
CONSTANTS
  NBoot = 4
  NPTE = 8
  MemPages = 31
  TopMemory = 12
  KernStart = 5
  EarlyPages = 3
  Images <- MCImages
  USER_BASE = 32
  VA_USER_VIDEO = 48
  VideoPage = 4
  MAX_STACK = 4
  Touch <- MCTouch
CHECK_DEADLOCK FALSE
INVARIANTS FramesAccounted RegionsDisjoint Translated CacheSound
PROPERTY MappingsStay
