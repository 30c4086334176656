CONSTANTS
  idle = idle
  syscon = syscon
  user1 = user1
  user2 = user2
  lock = lock
  disk = disk
  Threads = {idle, syscon, user1}
  Idle = idle
  Syscon = syscon
  Locks = {lock}
  Events = {disk}
  Uses <- MCUses
  Nest = {}
  MaxPost = 1
  Prio = 1
  Quanta = 2
  MinQuanta = 1
  PerQuantum = 1
  AgePeriod = 3
  PreemptMod = 2
  MaxFrames = 2
  Given <- MCGiven
  MaxGranted = 2
SPECIFICATION SSpec
INVARIANTS SchedSound ClockNotLost QuantumLeft
PROPERTIES ImplementsThreads
