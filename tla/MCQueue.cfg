SPECIFICATION Spec
CONSTANTS
  Count = 4
  Item = {i1, i2}
INVARIANT
  CopiedIsOldest
PROPERTY
  ImplementsFifo
