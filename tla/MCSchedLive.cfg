CONSTANTS
  idle = idle
  syscon = syscon
  user1 = user1
  user2 = user2
  lock = lock
  disk = disk
  Threads = {idle, syscon, user1}
  Idle = idle
  Syscon = syscon
  Locks = {lock}
  Events = {}
  Uses <- MCLockUses
  Nest = {}
  MaxPost = 1
  Prio = 2
  Quanta = 2
  MinQuanta = 1
  PerQuantum = 8
  AgePeriod = 5
  PreemptMod = 2
  MaxFrames = 1
  Given = {}
  MaxGranted = 0
SPECIFICATION ReleasingSSpec
PROPERTIES
  NoStarvation
  WaitersServed
