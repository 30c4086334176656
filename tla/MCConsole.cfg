SPECIFICATION MCSpec
CONSTANTS
  Keys = {a, b, enter, bksp}
  Letter = {a, b}
  Enter = enter
  Back = bksp
  None = none
  Reader = syscon
  KB_BUFSZ = 2
  LineSize = 2
  MaxTyped = 4
  Tcbs = {idle, syscon, t1, t2, t3}
  Idle = idle
  Syscon = syscon
  Null = null
  MaxCommands = 7
  Pages = {p1, p2, p3, p4}
  DevNos = {0, 1, 2, 3}
  Holds <- MCHolds
  BufPages = 1
  NoPage = none
  Junk = junk
INVARIANTS
  WaiterAsleep
  CommandsAsTyped
  RingsAgree
  MountsSound
PROPERTIES
  ImplementsTypeahead
CHECK_DEADLOCK FALSE
