CONSTANTS
  idle = idle
  syscon = syscon
  user1 = user1
  user2 = user2
  s_lock = s_lock
  freeq_lock = freeq_lock
  ide_busy = ide_busy
  Threads <- MCThreadSet
  Idle = idle
  Syscon = syscon
  Locks = {s_lock, freeq_lock}
  Events = {ide_busy}
  Uses <- MCUses
  Nest <- MCNest
  MaxPost = 1
SPECIFICATION Spec
SYMMETRY MCSymmetry
INVARIANTS RingSound NoBlockedRun QueuesSound MutualExclusion
PROPERTIES ImplementsFifoLocks
