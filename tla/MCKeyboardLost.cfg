SPECIFICATION Spec
CONSTANTS
  Keys = {k1, k2}
  None = none
  Reader = syscon
  KB_BUFSZ = 4
INVARIANT NoKeyWaits
