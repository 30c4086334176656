SPECIFICATION FairSpec
CONSTANTS
  Clients = {c1, c2, c3}
  Servers = {s1, s2}
  Isr = isr
  Msgs = {m1, m2}
  IsrMsg = im
  Null = Null
  Sends = 1
  MaxRef = 2
CHECK_DEADLOCK FALSE
INVARIANTS SlotsSound NoEmptyTake
PROPERTIES ImplementsMailbox ClientsReturn
